---------------------------- MODULE WorkerProofs ----------------------------
(***************************************************************************)
(* Theorems about the HTTP worker, for any number of requests in flight,   *)
(* sandboxes, agents and tenants: the inductive invariant, what each       *)
(* handler does to it, and what follows.                                   *)
(***************************************************************************)
EXTENDS Worker, FiniteSetTheorems, TLAPS

\* Steps of create, clone and restore; of these, the ones before the row's insert;
\* steps of a delete.
SpawnPcs == {"lookup", "occupied", "admit", "flatten", "image", "volget", "voldir", "volins",
             "spawn", "insert", "link", "ready", "failed", "poll"}
EarlyPcs == {"lookup", "occupied", "admit", "flatten", "image", "spawn", "insert"}
VolumePcs == {"volget", "voldir", "volins"}
DeletePcs == {"stop", "stopping", "remove", "rmget", "rmrow", "rmdir"}

\* The request holds the id of a sandbox it inserted; of one it starts.
Holds(q) == q.pc \in {"link", "ready"} \/ (q.pc \in VolumePcs /\ q.finishing)
Starts(q) == q.pc \in {"start", "startready"}

\* What the handlers keep about a request, whatever the tables hold.
Proper(q) ==
  /\ q \in Request
  /\ q.pc \in SpawnPcs =>
       /\ q.name \in Names /\ q.tenant = TenantOf[q.name]
       /\ q.op \in {"create", "clone"}
  /\ q.pc \in EarlyPcs => ~q.finishing
  /\ q.pc = "poll" => q.polled
  /\ q.pc \in DeletePcs => q.name \in Names
  /\ Holds(q) \/ Starts(q) \/ q.pc \in {"stop", "stopping", "remove"} => q.id \in Ids

\* A table of rows, now or after a step.
Alive(R, v) == R[v].st \in Statuses

\* A sandbox has an agent.
Agents(R) == \A v \in Ids : Alive(R, v) => R[v].name \in Names

TypeInv ==
  /\ row \in [Ids -> Row] /\ Agents(row)
  /\ att \subseteq Ids \X Names
  /\ req \in [Reqs -> Request]
  /\ \A r \in Reqs : Proper(req[r])

\* UNIQUE(name).
Unique(R) == \A v, w \in Ids : Alive(R, v) /\ Alive(R, w) /\ R[v].name = R[w].name => v = w

\* What a request knows of the rows it has read or written, though others write too.
Knows(q, R) ==
  /\ Holds(q) \/ Starts(q) => R[q.id] # Blank
  /\ Holds(q) /\ Alive(R, q.id) => R[q.id].name = q.name /\ R[q.id].spec = q.spec
  /\ Starts(q) /\ Alive(R, q.id) =>
       /\ TenantOf[R[q.id].name] = q.tenant
       /\ q.op = "create" /\ ~q.polled => R[q.id].name = q.name /\ R[q.id].spec = q.spec
  /\ q.pc = "rmimage" =>
       \A v \in q.seen : R[v] # Blank /\ (Alive(R, v) => R[v].spec # q.spec)

KnowsInv == \A r \in Reqs : Knows(req[r], row)

\* A volume has its directory, or its creation and removal overlapped.
VolumeInv ==
  /\ \A n \in vols : n \in dirs \cup raced
  /\ \A r \in Reqs : req[r].pc = "volins" => req[r].name \in dirs \cup raced
  /\ \A p \in att : Alive(row, p[1]) /\ p[2] \in vols

\* Sandboxes a tenant has, and is about to have.
RowsOf(R, t) == {v \in Ids : Alive(R, v) /\ TenantOf[R[v].name] = t}
IsAdmitted(q) ==
  /\ q.op \in {"create", "clone"} /\ ~q.finishing
  /\ q.pc \in {"flatten", "image", "volget", "voldir", "volins", "spawn", "insert"}
Coming(Q, t) == {r \in Reqs : Q[r].tenant = t /\ IsAdmitted(Q[r])}

\* What the properties but the caps rest on.
IInv == TypeInv /\ Unique(row) /\ KnowsInv /\ VolumeInv

\* Sandbox v is one that request q may be answered with.
Suits(q, v) ==
  Alive(row, v) =>
    /\ TenantOf[row[v].name] = q.tenant
    /\ q.op = "create" => row[v].name = q.name /\ row[v].spec = q.spec

\* x is what the handler of request q may make of it.
Sound(q, x) ==
  /\ Proper(x) /\ Knows(x, row)
  /\ x.pc = "done" => x.id = None \/ q.polled \/ Suits(q, x.id)
  /\ IsAdmitted(x) => IsAdmitted(q) /\ x.tenant = q.tenant

-----------------------------------------------------------------------------
(* Request records.                                                        *)

LEMMA SomeTenant == (CHOOSE t \in Tenants : TRUE) \in Tenants
BY Zenon, WorkerAssumption

LEMMA IdleProper ==
  /\ Proper(Idle) /\ Idle.pc = "idle" /\ Idle.op = "create"
  /\ Idle.id = None /\ ~Idle.finishing /\ ~Idle.polled
BY Zenon, SomeTenant DEF Proper, Idle, Request, Ops, Pcs, Codes, SpawnPcs, EarlyPcs, VolumePcs,
                  DeletePcs, Holds, Starts

\* An answered request.
Ended(q, code, v) == [q EXCEPT !.pc = "done", !.ans = code, !.id = v]
Refused(q, code) == [q EXCEPT !.pc = "done", !.ans = code]

LEMMA EndedFields ==
  ASSUME NEW q \in Request, NEW code \in Codes, NEW v \in Ids \cup {None}
  PROVE  /\ Ended(q, code, v) \in Request /\ Ended(q, code, v).pc = "done"
         /\ Ended(q, code, v).id = v /\ Ended(q, code, v).ans = code
<1>1. Ended(q, code, v) \in Request
  BY Zenon DEF Ended, Request, Pcs
<1>2. /\ Ended(q, code, v).pc = "done"
      /\ Ended(q, code, v).id = v /\ Ended(q, code, v).ans = code
  BY Zenon DEF Ended, Request
<1> QED
  BY Zenon, <1>1, <1>2

LEMMA RefusedFields ==
  ASSUME NEW q \in Request, NEW code \in Codes
  PROVE  /\ Refused(q, code) \in Request
         /\ Refused(q, code).pc = "done" /\ Refused(q, code).id = q.id
<1>1. Refused(q, code) \in Request
  BY Zenon DEF Refused, Request, Pcs
<1>2. Refused(q, code).pc = "done" /\ Refused(q, code).id = q.id
  BY Zenon DEF Refused, Request
<1> QED
  BY Zenon, <1>1, <1>2

\* The request at another point.
LEMMA GotoFields ==
  ASSUME NEW q \in Request, NEW p \in Pcs
  PROVE  /\ Goto(q, p) \in Request
         /\ Goto(q, p).pc = p /\ Goto(q, p).id = q.id
         /\ Goto(q, p).op = q.op /\ Goto(q, p).tenant = q.tenant /\ Goto(q, p).name = q.name
         /\ Goto(q, p).spec = q.spec /\ Goto(q, p).finishing = q.finishing
         /\ Goto(q, p).polled = q.polled
BY Zenon DEF Goto, Request

\* Toward(q, p, v): at point p, about sandbox v.
Toward(q, p, v) == [q EXCEPT !.pc = p, !.id = v]

LEMMA TowardFields ==
  ASSUME NEW q \in Request, NEW p \in Pcs, NEW v \in Ids \cup {None}
  PROVE  /\ Toward(q, p, v) \in Request
         /\ Toward(q, p, v).pc = p /\ Toward(q, p, v).id = v
         /\ Toward(q, p, v).op = q.op /\ Toward(q, p, v).tenant = q.tenant /\ Toward(q, p, v).name = q.name
         /\ Toward(q, p, v).spec = q.spec /\ Toward(q, p, v).finishing = q.finishing /\ Toward(q, p, v).polled = q.polled
<1>1. Toward(q, p, v) \in Request
  BY Zenon DEF Toward, Request
<1>2. /\ Toward(q, p, v).pc = p /\ Toward(q, p, v).id = v
      /\ Toward(q, p, v).op = q.op /\ Toward(q, p, v).tenant = q.tenant /\ Toward(q, p, v).name = q.name
      /\ Toward(q, p, v).spec = q.spec /\ Toward(q, p, v).finishing = q.finishing /\ Toward(q, p, v).polled = q.polled
  BY Zenon DEF Toward, Request
<1> QED
  BY Zenon, <1>1, <1>2

\* A create; a request on an id; a clone; on an image.
Created(q, t, n, s) == [q EXCEPT !.pc = "lookup", !.tenant = t, !.name = n, !.spec = s]

LEMMA CreatedFields ==
  ASSUME NEW q \in Request, NEW t \in Tenants, NEW n \in Names, NEW s \in Specs
  PROVE  /\ Created(q, t, n, s) \in Request
         /\ Created(q, t, n, s).pc = "lookup" /\ Created(q, t, n, s).tenant = t
         /\ Created(q, t, n, s).name = n /\ Created(q, t, n, s).spec = s
         /\ Created(q, t, n, s).op = q.op /\ Created(q, t, n, s).finishing = q.finishing /\ Created(q, t, n, s).id = q.id
<1>1. Created(q, t, n, s) \in Request
  BY Zenon DEF Created, Request, Pcs, Ops
<1>2. /\ Created(q, t, n, s).pc = "lookup" /\ Created(q, t, n, s).tenant = t
      /\ Created(q, t, n, s).name = n /\ Created(q, t, n, s).spec = s
      /\ Created(q, t, n, s).op = q.op /\ Created(q, t, n, s).finishing = q.finishing /\ Created(q, t, n, s).id = q.id
  BY Zenon DEF Created, Request
<1> QED
  BY Zenon, <1>1, <1>2

ById(q, op, t, v) == [q EXCEPT !.op = op, !.tenant = t, !.id = v]

LEMMA ByIdFields ==
  ASSUME NEW q \in Request, NEW op \in Ops, NEW t \in Tenants, NEW v \in Ids
  PROVE  /\ ById(q, op, t, v) \in Request
         /\ ById(q, op, t, v).op = op /\ ById(q, op, t, v).tenant = t
         /\ ById(q, op, t, v).id = v
         /\ ById(q, op, t, v).finishing = q.finishing /\ ById(q, op, t, v).pc = q.pc
<1>1. ById(q, op, t, v) \in Request
  BY Zenon DEF ById, Request, Pcs, Ops
<1>2. /\ ById(q, op, t, v).op = op /\ ById(q, op, t, v).tenant = t
      /\ ById(q, op, t, v).id = v
      /\ ById(q, op, t, v).finishing = q.finishing /\ ById(q, op, t, v).pc = q.pc
  BY Zenon DEF ById, Request
<1> QED
  BY Zenon, <1>1, <1>2

Cloning(q, t, n, v) == [q EXCEPT !.op = "clone", !.tenant = t, !.name = n, !.spec = DiskLabel, !.id = v]

LEMMA CloningFields ==
  ASSUME NEW q \in Request, NEW t \in Tenants, NEW n \in Names, NEW v \in Ids
  PROVE  /\ Cloning(q, t, n, v) \in Request
         /\ Cloning(q, t, n, v).op = "clone" /\ Cloning(q, t, n, v).tenant = t
         /\ Cloning(q, t, n, v).name = n /\ Cloning(q, t, n, v).spec = DiskLabel
         /\ Cloning(q, t, n, v).id = v
         /\ Cloning(q, t, n, v).finishing = q.finishing /\ Cloning(q, t, n, v).pc = q.pc
<1>1. Cloning(q, t, n, v) \in Request
  BY Zenon DEF Cloning, Request, Pcs, Ops
<1>2. /\ Cloning(q, t, n, v).op = "clone" /\ Cloning(q, t, n, v).tenant = t
      /\ Cloning(q, t, n, v).name = n /\ Cloning(q, t, n, v).spec = DiskLabel
      /\ Cloning(q, t, n, v).id = v
      /\ Cloning(q, t, n, v).finishing = q.finishing /\ Cloning(q, t, n, v).pc = q.pc
  BY Zenon DEF Cloning, Request
<1> QED
  BY Zenon, <1>1, <1>2

OnImage(q, op, s) == [q EXCEPT !.op = op, !.spec = s]

LEMMA OnImageFields ==
  ASSUME NEW q \in Request, NEW op \in Ops, NEW s \in Specs
  PROVE  /\ OnImage(q, op, s) \in Request
         /\ OnImage(q, op, s).op = op /\ OnImage(q, op, s).spec = s
         /\ OnImage(q, op, s).finishing = q.finishing /\ OnImage(q, op, s).pc = q.pc
<1>1. OnImage(q, op, s) \in Request
  BY Zenon DEF OnImage, Request, Pcs, Ops
<1>2. /\ OnImage(q, op, s).op = op /\ OnImage(q, op, s).spec = s
      /\ OnImage(q, op, s).finishing = q.finishing /\ OnImage(q, op, s).pc = q.pc
  BY Zenon DEF OnImage, Request
<1> QED
  BY Zenon, <1>1, <1>2

Pulling(q, s) == [q EXCEPT !.op = "pull", !.pc = "pull", !.spec = s]

LEMMA PullingFields ==
  ASSUME NEW q \in Request, NEW s \in Specs
  PROVE  /\ Pulling(q, s) \in Request
         /\ Pulling(q, s).op = "pull" /\ Pulling(q, s).pc = "pull"
         /\ Pulling(q, s).finishing = q.finishing
<1>1. Pulling(q, s) \in Request
  BY Zenon DEF Pulling, Request, Pcs, Ops
<1>2. /\ Pulling(q, s).op = "pull" /\ Pulling(q, s).pc = "pull"
      /\ Pulling(q, s).finishing = q.finishing
  BY Zenon DEF Pulling, Request
<1> QED
  BY Zenon, <1>1, <1>2

Checked(q, S) == [q EXCEPT !.pc = "rmimage", !.seen = S]

LEMMA CheckedFields ==
  ASSUME NEW q \in Request, NEW S \in SUBSET Ids
  PROVE  /\ Checked(q, S) \in Request
         /\ Checked(q, S).pc = "rmimage" /\ Checked(q, S).seen = S
         /\ Checked(q, S).spec = q.spec /\ Checked(q, S).op = q.op /\ Checked(q, S).finishing = q.finishing
<1>1. Checked(q, S) \in Request
  BY Zenon DEF Checked, Request, Pcs, Ops
<1>2. /\ Checked(q, S).pc = "rmimage" /\ Checked(q, S).seen = S
      /\ Checked(q, S).spec = q.spec /\ Checked(q, S).op = q.op /\ Checked(q, S).finishing = q.finishing
  BY Zenon DEF Checked, Request
<1> QED
  BY Zenon, <1>1, <1>2

Polling(q, b) == [q EXCEPT !.pc = "poll", !.polled = b]

LEMMA PollingFields ==
  ASSUME NEW q \in Request, NEW b \in BOOLEAN
  PROVE  /\ Polling(q, b) \in Request
         /\ Polling(q, b).pc = "poll" /\ Polling(q, b).polled = b
         /\ Polling(q, b).op = q.op /\ Polling(q, b).tenant = q.tenant /\ Polling(q, b).name = q.name
         /\ Polling(q, b).spec = q.spec /\ Polling(q, b).finishing = q.finishing /\ Polling(q, b).id = q.id
<1>1. Polling(q, b) \in Request
  BY Zenon DEF Polling, Request, Pcs, Ops
<1>2. /\ Polling(q, b).pc = "poll" /\ Polling(q, b).polled = b
      /\ Polling(q, b).op = q.op /\ Polling(q, b).tenant = q.tenant /\ Polling(q, b).name = q.name
      /\ Polling(q, b).spec = q.spec /\ Polling(q, b).finishing = q.finishing /\ Polling(q, b).id = q.id
  BY Zenon DEF Polling, Request
<1> QED
  BY Zenon, <1>1, <1>2

Deleting(q, p, n) == [q EXCEPT !.pc = p, !.name = n]

LEMMA DeletingFields ==
  ASSUME NEW q \in Request, NEW p \in Pcs, NEW n \in Names
  PROVE  /\ Deleting(q, p, n) \in Request
         /\ Deleting(q, p, n).pc = p /\ Deleting(q, p, n).name = n
         /\ Deleting(q, p, n).op = q.op /\ Deleting(q, p, n).finishing = q.finishing /\ Deleting(q, p, n).id = q.id
<1>1. Deleting(q, p, n) \in Request
  BY Zenon DEF Deleting, Request, Pcs, Ops
<1>2. /\ Deleting(q, p, n).pc = p /\ Deleting(q, p, n).name = n
      /\ Deleting(q, p, n).op = q.op /\ Deleting(q, p, n).finishing = q.finishing /\ Deleting(q, p, n).id = q.id
  BY Zenon DEF Deleting, Request
<1> QED
  BY Zenon, <1>1, <1>2

Finishing(q, b) == [q EXCEPT !.pc = "volget", !.finishing = b]

LEMMA FinishingFields ==
  ASSUME NEW q \in Request, NEW b \in BOOLEAN
  PROVE  /\ Finishing(q, b) \in Request
         /\ Finishing(q, b).pc = "volget" /\ Finishing(q, b).finishing = b
         /\ Finishing(q, b).op = q.op /\ Finishing(q, b).tenant = q.tenant /\ Finishing(q, b).name = q.name
         /\ Finishing(q, b).spec = q.spec /\ Finishing(q, b).id = q.id
<1>1. Finishing(q, b) \in Request
  BY Zenon DEF Finishing, Request, Pcs, Ops
<1>2. /\ Finishing(q, b).pc = "volget" /\ Finishing(q, b).finishing = b
      /\ Finishing(q, b).op = q.op /\ Finishing(q, b).tenant = q.tenant /\ Finishing(q, b).name = q.name
      /\ Finishing(q, b).spec = q.spec /\ Finishing(q, b).id = q.id
  BY Zenon DEF Finishing, Request
<1> QED
  BY Zenon, <1>1, <1>2

-----------------------------------------------------------------------------
(* Tables of rows.                                                         *)

\* Rows change their status or go; Evolves also lets a blank one be filled.
Shrinks(R, S) ==
  \A v \in Ids : \/ S[v] = R[v]
                 \/ Alive(R, v) /\ Alive(S, v) /\ S[v].name = R[v].name /\ S[v].spec = R[v].spec
                 \/ ~Alive(S, v) /\ S[v] # Blank
Evolves(R, S) ==
  \A v \in Ids : \/ S[v] = R[v]
                 \/ Alive(R, v) /\ Alive(S, v) /\ S[v].name = R[v].name /\ S[v].spec = R[v].spec
                 \/ ~Alive(S, v) /\ S[v] # Blank
                 \/ R[v] = Blank /\ S[v] # Blank

\* A step by which no tenant gets a sandbox or an admission.
Frugal ==
  /\ Shrinks(row, row') /\ slipped' = slipped
  /\ \A t \in Tenants : Coming(req', t) \subseteq Coming(req, t)

\* A request is answered with a sandbox that suits it.
Matching == \A r \in Reqs : Answers(r) /\ ~req[r].polled => Matches(r)

Good == IInv' /\ Matching /\ Frugal

\* Request r is admitted: the cap leaves room, and no other request is on its way unless
\* the tenant is noted as slipped.
Admitting(r) ==
  LET u == req[r].tenant IN
  /\ row' = row /\ Cardinality(RowsOf(row, u)) < MaxSandboxes
  /\ \A t \in Tenants \ {u} :
       Coming(req', t) = Coming(req, t) /\ (t \in slipped' <=> t \in slipped)
  /\ u \in slipped' \/ Coming(req', u) \subseteq {r}

\* Request r inserts the row it was admitted for.
Inserting(r) ==
  LET u == req[r].tenant IN
  \E v \in Ids :
    /\ slipped' = slipped
    /\ \A t \in Tenants \ {u} :
         RowsOf(row', t) = RowsOf(row, t) /\ Coming(req', t) = Coming(req, t)
    /\ v \notin RowsOf(row, u) /\ RowsOf(row', u) = RowsOf(row, u) \cup {v}
    /\ r \in Coming(req, u) /\ Coming(req', u) = Coming(req, u) \ {r}

LEMMA BlankDead ==
  ASSUME NEW R, NEW v, R[v] = Blank
  PROVE  ~Alive(R, v)
BY DEF Blank, Alive, Statuses

\* What a request knows stays true whatever the others do.
LEMMA KnowsStable ==
  ASSUME NEW q, Proper(q), NEW R, NEW S, Knows(q, R), Evolves(R, S)
  PROVE  Knows(q, S)
<1>1. q.seen \subseteq Ids
  BY Zenon DEF Proper, Request
<1>2. Holds(q) \/ Starts(q) => q.id \in Ids
  BY Zenon DEF Proper
<1>3. ASSUME NEW v \in Ids, R[v] # Blank
      PROVE  /\ S[v] # Blank
             /\ Alive(S, v) => Alive(R, v) /\ S[v].name = R[v].name /\ S[v].spec = R[v].spec
  <2>1. \A T : T[v] = Blank => ~Alive(T, v)
    BY Zenon, BlankDead
  <2> QED
    BY Zenon, <1>3, <2>1 DEF Evolves, Alive
<1> QED
  BY Zenon, <1>1, <1>2, <1>3 DEF Knows

LEMMA UniqueStable ==
  ASSUME NEW R, NEW S, Unique(R), Shrinks(R, S)
  PROVE  Unique(S)
BY Zenon DEF Unique, Shrinks, Alive

LEMMA AgentsStable ==
  ASSUME NEW R, NEW S, Agents(R), Shrinks(R, S)
  PROVE  Agents(S)
BY Zenon DEF Agents, Shrinks, Alive

LEMMA RowsOfStable ==
  ASSUME NEW R, NEW S, NEW t, Shrinks(R, S)
  PROVE  RowsOf(S, t) \subseteq RowsOf(R, t)
BY Zenon DEF RowsOf, Shrinks, Alive

LEMMA ShrinksEvolves ==
  ASSUME NEW R, NEW S, Shrinks(R, S)
  PROVE  Evolves(R, S)
BY Zenon DEF Shrinks, Evolves

\* The row of a sandbox changes its status.
Mark(R, v, s) == [R EXCEPT ![v].st = s]

LEMMA Marked ==
  ASSUME NEW R \in [Ids -> Row], NEW v \in Ids, Alive(R, v), NEW s \in Statuses
  PROVE  /\ Mark(R, v, s) \in [Ids -> Row] /\ Shrinks(R, Mark(R, v, s))
         /\ \A w \in Ids : Alive(R, w) => Alive(Mark(R, v, s), w)
BY Zenon DEF Row, Alive, Shrinks, Mark

\* The row of a sandbox goes.
Drop(R, v) == [R EXCEPT ![v] = [Blank EXCEPT !.st = "gone"]]

LEMMA Dropped ==
  ASSUME NEW R \in [Ids -> Row], NEW v \in Ids
  PROVE  /\ Drop(R, v) \in [Ids -> Row] /\ Shrinks(R, Drop(R, v))
         /\ \A w \in Ids \ {v} : Alive(R, w) => Alive(Drop(R, v), w)
<1>1. /\ [Blank EXCEPT !.st = "gone"] \in Row
      /\ [Blank EXCEPT !.st = "gone"].st = "gone"
      /\ [Blank EXCEPT !.st = "gone"] # Blank
  BY Zenon DEF Row, Blank
<1> QED
  BY Zenon, <1>1 DEF Alive, Shrinks, Statuses, Drop

-----------------------------------------------------------------------------
(* What a step of one request leaves alone.                                *)

\* Only request r changes, and becomes x.
Turns(r, x) == req'[r] = x /\ \A s \in Reqs \ {r} : req'[s] = req[s]

LEMMA StepType ==
  ASSUME TypeInv, NEW r \in Reqs, NEW x, Proper(x), Becomes(r, x),
         row' \in [Ids -> Row], Agents(row'), att' \subseteq Ids \X Names
  PROVE  TypeInv' /\ Turns(r, x)
<1>1. x \in Request
  BY Zenon DEF Proper
<1>2. req' \in [Reqs -> Request] /\ Turns(r, x)
  BY Zenon, <1>1 DEF TypeInv, Becomes, Turns
<1> QED
  BY Zenon, <1>2 DEF TypeInv, Turns

LEMMA StepKnows ==
  ASSUME TypeInv, KnowsInv, NEW r \in Reqs, NEW x, Turns(r, x),
         Knows(x, row'), Evolves(row, row')
  PROVE  KnowsInv'
<1>1. ASSUME NEW s \in Reqs \ {r}
      PROVE  Knows(req[s], row')
  BY Zenon, KnowsStable DEF TypeInv, KnowsInv
<1> QED
  BY Zenon, <1>1 DEF KnowsInv, Turns

LEMMA StepMatching ==
  ASSUME NEW r \in Reqs, NEW x, Turns(r, x),
         x.pc = "done" => x.id = None \/ req[r].polled \/ Suits(req[r], x.id)
  PROVE  Matching
<1> SUFFICES ASSUME NEW s \in Reqs, Answers(s), ~req[s].polled
             PROVE  Matches(s)
  BY Zenon DEF Matching
<1>1. s = r
  BY Zenon DEF Answers, Turns
<1>2. req'[r].pc = "done" /\ req'[r].id # None /\ ~req[r].polled
  BY Zenon, <1>1 DEF Answers
<1>3. Suits(req[r], req'[r].id)
  BY Zenon, <1>2 DEF Turns
<1> QED
  BY Zenon, <1>1, <1>3 DEF Matches, Suits, Alive

\* The step keeps everything but, perhaps, the volumes.
LEMMA CoreStep ==
  ASSUME IInv, NEW r \in Reqs, NEW x, Becomes(r, x), Proper(x), Knows(x, row'),
         x.pc = "done" => x.id = None \/ req[r].polled \/ Suits(req[r], x.id),
         row' \in [Ids -> Row], Agents(row'), Unique(row'), Evolves(row, row'),
         att' \subseteq Ids \X Names,
         Turns(r, x) => VolumeInv'
  PROVE  IInv' /\ Matching /\ Turns(r, x)
<1>1. TypeInv' /\ Turns(r, x)
  BY Zenon, StepType DEF IInv
<1>2. KnowsInv'
  BY Zenon, <1>1, StepKnows DEF IInv
<1>3. Matching
  BY Zenon, <1>1, StepMatching
<1> QED
  BY Zenon, <1>1, <1>2, <1>3 DEF IInv

LEMMA StepVolume ==
  ASSUME VolumeInv, NEW r \in Reqs, NEW x, Turns(r, x), x.pc # "volins",
         att' \subseteq att, \A p \in att' : Alive(row', p[1]),
         UNCHANGED <<vols, dirs, raced>>
  PROVE  VolumeInv'
BY Zenon DEF VolumeInv, Turns

\* A step that adds no row.
LEMMA SoundStep ==
  ASSUME IInv, NEW r \in Reqs, NEW x, Becomes(r, x), Sound(req[r], x),
         row' \in [Ids -> Row], Shrinks(row, row'), slipped' = slipped,
         att' \subseteq Ids \X Names,
         Turns(r, x) => VolumeInv'
  PROVE  Good
<1>1. /\ Proper(x) /\ Knows(x, row)
      /\ x.pc = "done" => x.id = None \/ req[r].polled \/ Suits(req[r], x.id)
      /\ IsAdmitted(x) => IsAdmitted(req[r]) /\ x.tenant = req[r].tenant
  BY Zenon DEF Sound
<1>2. Agents(row') /\ Unique(row') /\ Evolves(row, row')
  BY Zenon, AgentsStable, UniqueStable, ShrinksEvolves DEF IInv, TypeInv
<1>3. Knows(x, row')
  BY Zenon, <1>1, <1>2, KnowsStable
<1>4. IInv' /\ Matching /\ Turns(r, x)
  BY Zenon, <1>1, <1>2, <1>3, CoreStep
<1>5. \A t \in Tenants : Coming(req', t) \subseteq Coming(req, t)
  BY Zenon, <1>1, <1>4 DEF Coming, Turns
<1> QED
  BY Zenon, <1>4, <1>5 DEF Good, Frugal

\* A step that writes rows, perhaps, but no volume.
LEMMA RowStep ==
  ASSUME IInv, NEW r \in Reqs, NEW x, Becomes(r, x), Sound(req[r], x), x.pc # "volins",
         row' \in [Ids -> Row], Shrinks(row, row'), att' \subseteq att,
         \A p \in att' : Alive(row', p[1]),
         UNCHANGED <<vols, dirs, raced, slipped>>
  PROVE  Good
<1>1. att' \subseteq Ids \X Names
  BY Zenon DEF IInv, TypeInv
<1>2. Turns(r, x) => VolumeInv'
  BY Zenon, StepVolume DEF IInv
<1> QED
  BY Zenon, <1>1, <1>2, SoundStep

\* A step that writes the volumes, their directories or attachments.
LEMMA VolumeStep ==
  ASSUME IInv, NEW r \in Reqs, NEW x, Becomes(r, x), Sound(req[r], x),
         UNCHANGED <<row, slipped>>, att' \subseteq Ids \X Names,
         Turns(r, x) => VolumeInv'
  PROVE  Good
<1>1. row' \in [Ids -> Row] /\ Shrinks(row, row')
  BY Zenon DEF IInv, TypeInv, Shrinks
<1> QED
  BY Zenon, <1>1, SoundStep

\* A step that only reads the tables.
Reads == UNCHANGED <<row, vols, dirs, att, raced, slipped>>

LEMMA QuietStep ==
  ASSUME IInv, NEW r \in Reqs, NEW x, Becomes(r, x), Sound(req[r], x), x.pc # "volins",
         Reads
  PROVE  Good
<1>1. /\ row' \in [Ids -> Row] /\ Shrinks(row, row') /\ att' \subseteq att
      /\ UNCHANGED <<vols, dirs, raced, slipped>>
  BY Zenon DEF IInv, TypeInv, Shrinks, Reads
<1>2. \A p \in att' : Alive(row', p[1])
  BY Zenon DEF IInv, VolumeInv, Reads
<1> QED
  BY Zenon, <1>1, <1>2, RowStep

\* The row goes with its attachments.
LEMMA AbortStep ==
  ASSUME IInv, NEW r \in Reqs, NEW v \in Ids, AbortUnready(v), NEW x, Becomes(r, x),
         Sound(req[r], x), x.pc # "volins", UNCHANGED <<vols, dirs, raced, slipped>>
  PROVE  Good
<1>1. att' = {p \in att : p[1] # v} /\ row' = Drop(row, v)
  BY Zenon DEF AbortUnready, Drop
<1>2. row \in [Ids -> Row] /\ att \subseteq Ids \X Names
  BY Zenon DEF IInv, TypeInv
<1>3. /\ row' \in [Ids -> Row] /\ Shrinks(row, row')
      /\ \A w \in Ids \ {v} : Alive(row, w) => Alive(row', w)
  BY Zenon, <1>1, <1>2, Dropped
<1>4. att' \subseteq att
  BY Zenon, <1>1
<1>5. ASSUME NEW p \in att'
      PROVE  Alive(row', p[1])
  <2>1. p \in att /\ p[1] # v
    BY Zenon, <1>1
  <2>2. p[1] \in Ids
    BY Zenon, <1>2, <2>1
  <2> QED
    BY Zenon, <1>3, <2>1, <2>2 DEF IInv, VolumeInv
<1> QED
  BY Zenon, <1>3, <1>4, <1>5, RowStep

\* The row, if there is one, changes its status.
LEMMA MarkStep ==
  ASSUME IInv, NEW r \in Reqs, NEW v \in Ids, NEW s \in Statuses,
         row' = (IF Present(v) THEN Mark(row, v, s) ELSE row),
         NEW x, Becomes(r, x), Sound(req[r], x), x.pc # "volins",
         UNCHANGED <<vols, dirs, att, raced, slipped>>
  PROVE  Good
<1>1. CASE ~Present(v)
  BY Zenon, <1>1, QuietStep DEF Reads
<1>2. CASE Present(v)
  <2>1. /\ row \in [Ids -> Row] /\ Alive(row, v) /\ row' = Mark(row, v, s)
        /\ att' \subseteq att
    BY Zenon, <1>2 DEF IInv, TypeInv, Present, Alive
  <2>2. /\ row' \in [Ids -> Row] /\ Shrinks(row, row')
        /\ \A w \in Ids : Alive(row, w) => Alive(row', w)
    BY Zenon, <2>1, Marked
  <2>3. ASSUME NEW p \in att'
        PROVE  Alive(row', p[1])
    <3>1. p[1] \in Ids
      BY Zenon DEF IInv, TypeInv
    <3> QED
      BY Zenon, <2>2, <3>1 DEF IInv, VolumeInv
  <2> QED
    BY Zenon, <2>1, <2>2, <2>3, RowStep
<1> QED
  BY Zenon, <1>1, <1>2

-----------------------------------------------------------------------------
(* What a handler may make of a request.                                   *)

LEMMA SpawnProper ==
  ASSUME NEW x \in Request, x.pc \in SpawnPcs, x.name \in Names,
         x.tenant = TenantOf[x.name], x.op \in {"create", "clone"},
         x.pc \in EarlyPcs => ~x.finishing, x.pc = "poll" => x.polled,
         Holds(x) => x.id \in Ids
  PROVE  Proper(x)
<1>1. /\ x.pc \notin DeletePcs /\ ~Starts(x)
      /\ x.pc \notin {"stop", "stopping", "remove"}
  BY Zenon DEF SpawnPcs, DeletePcs, Starts
<1> QED
  BY Zenon, <1>1 DEF Proper

\* Points where a request knows nothing of the rows.
LEMMA Unknowing ==
  ASSUME NEW x, ~Holds(x), ~Starts(x), x.pc # "rmimage", NEW R
  PROVE  Knows(x, R)
BY Zenon DEF Knows

\* An answered request has nothing left to keep.
LEMMA DoneSound ==
  ASSUME NEW q, NEW x \in Request, x.pc = "done",
         x.id = None \/ q.polled \/ Suits(q, x.id)
  PROVE  Sound(q, x) /\ x.pc # "volins"
<1>1. /\ ~Holds(x) /\ ~Starts(x) /\ x.pc # "rmimage" /\ x.pc # "volins" /\ ~IsAdmitted(x)
      /\ x.pc \notin SpawnPcs \cup EarlyPcs \cup DeletePcs
  BY Zenon DEF SpawnPcs, EarlyPcs, DeletePcs, VolumePcs, Holds, Starts, IsAdmitted
<1>2. Proper(x)
  BY Zenon, <1>1 DEF Proper
<1>3. Knows(x, row)
  BY Zenon, <1>1, Unknowing
<1> QED
  BY Zenon, <1>1, <1>2, <1>3 DEF Sound

LEMMA SuccessSound ==
  ASSUME NEW q, NEW code \in {200, 201, 204}, NEW v \in Ids \cup {None},
         v = None \/ q.polled \/ Suits(q, v)
  PROVE  Sound(q, Answer(q, code, v)) /\ Answer(q, code, v).pc # "volins"
<1>1. Answer(q, code, v) = Ended(Idle, code, v)
  BY DEF Answer, Ended
<1>2. Idle \in Request /\ code \in Codes
  BY IdleProper DEF Proper, Codes
<1> DEFINE x == Ended(Idle, code, v)
<1>3. x \in Request /\ x.pc = "done" /\ x.id = v
  BY <1>2, EndedFields
<1> HIDE DEF x
<1>4. Sound(q, x) /\ x.pc # "volins"
  BY <1>3, DoneSound
<1> QED
  BY <1>1, <1>4 DEF x

LEMMA RefusalSound ==
  ASSUME NEW q, NEW p, NEW code \in {400, 404, 409, 429, 500, 503}, NEW v
  PROVE  Sound(q, Answer(p, code, v)) /\ Answer(p, code, v).pc # "volins"
<1>1. Answer(p, code, v) = Refused(Idle, 400)
  BY DEF Answer, Refused
<1>2. Idle \in Request /\ Idle.id = None /\ 400 \in Codes
  BY IdleProper DEF Proper, Codes
<1> DEFINE x == Refused(Idle, 400)
<1>3. x \in Request /\ x.pc = "done" /\ x.id = None
  BY <1>2, RefusedFields
<1> HIDE DEF x
<1>4. Sound(q, x) /\ x.pc # "volins"
  BY <1>3, DoneSound
<1> QED
  BY <1>1, <1>4 DEF x

\* A create, clone or restore moves on.
LEMMA MoveSound ==
  ASSUME NEW q, Proper(q), Knows(q, row), q.pc \in SpawnPcs,
         NEW x \in Request, x.pc \in SpawnPcs,
         x.op = q.op, x.tenant = q.tenant, x.name = q.name, x.spec = q.spec,
         x.pc \in EarlyPcs => ~x.finishing, x.pc = "poll" => x.polled,
         Holds(x) => Holds(q) /\ x.id = q.id,
         IsAdmitted(x) => IsAdmitted(q)
  PROVE  Sound(q, x)
<1>1. ~Starts(x) /\ x.pc # "rmimage" /\ x.pc # "done"
  BY Zenon DEF Starts, SpawnPcs
<1>2. /\ q.name \in Names /\ q.tenant = TenantOf[q.name] /\ q.op \in {"create", "clone"}
      /\ Holds(q) => q.id \in Ids
  BY Zenon DEF Proper
<1>3. Proper(x)
  BY Zenon, <1>2, SpawnProper
<1>4. Knows(x, row)
  BY Zenon, <1>1 DEF Knows
<1> QED
  BY Zenon, <1>1, <1>3, <1>4 DEF Sound

LEMMA GotoSound ==
  ASSUME NEW q, Proper(q), Knows(q, row), q.pc \in SpawnPcs, NEW p \in SpawnPcs \ {"poll"},
         p \in EarlyPcs => ~q.finishing,
         p \in {"link", "ready"} \/ (p \in VolumePcs /\ q.finishing) => Holds(q),
         \/ p \in {"lookup", "occupied", "admit", "failed", "link", "ready"}
         \/ q.finishing \/ IsAdmitted(q)
  PROVE  Sound(q, Goto(q, p)) /\ Goto(q, p).pc = p /\ Goto(q, p).name = q.name
<1>1. q \in Request /\ p \in Pcs
  BY Zenon DEF Proper, SpawnPcs, Pcs
<1> DEFINE x == Goto(q, p)
<1>2. /\ x \in Request /\ x.pc = p /\ x.id = q.id /\ x.op = q.op /\ x.tenant = q.tenant
      /\ x.name = q.name /\ x.spec = q.spec /\ x.finishing = q.finishing
  BY Zenon, <1>1, GotoFields
<1> HIDE DEF x
<1>3. Holds(x) => Holds(q)
  BY Zenon, <1>2 DEF Holds
<1>4. IsAdmitted(x) => IsAdmitted(q)
  BY Zenon, <1>2 DEF IsAdmitted
<1>5. Sound(q, x)
  BY Zenon, <1>2, <1>3, <1>4, MoveSound
<1> QED
  BY Zenon, <1>2, <1>5 DEF x

\* It forgets the sandbox it was about.
LEMMA ForgetSound ==
  ASSUME NEW q, Proper(q), Knows(q, row), q.pc \in SpawnPcs, NEW p \in {"failed", "volget"},
         p = "volget" => IsAdmitted(q)
  PROVE  Sound(q, Toward(q, p, None)) /\ Toward(q, p, None).pc # "volins"
<1>1. q \in Request /\ p \in Pcs /\ p \in SpawnPcs \ EarlyPcs
  BY Zenon DEF Proper, Pcs, SpawnPcs, EarlyPcs
<1> DEFINE x == Toward(q, p, None)
<1>2. /\ x \in Request /\ x.pc = p /\ x.op = q.op /\ x.tenant = q.tenant
      /\ x.name = q.name /\ x.spec = q.spec /\ x.finishing = q.finishing
  BY <1>1, TowardFields
<1> HIDE DEF x
<1>3. ~Holds(x) /\ x.pc # "poll" /\ x.pc # "volins"
  BY Zenon, <1>2 DEF Holds, IsAdmitted, VolumePcs
<1>4. IsAdmitted(x) => IsAdmitted(q)
  BY Zenon, <1>2 DEF IsAdmitted
<1>5. Sound(q, x)
  BY Zenon, <1>1, <1>2, <1>3, <1>4, MoveSound
<1> QED
  BY Zenon, <1>3, <1>5 DEF x

\* A delete, a start, and what holds nothing.
LEMMA DeleteSound ==
  ASSUME NEW q, NEW x \in Request, x.pc \in DeletePcs, x.name \in Names,
         x.pc \in {"stop", "stopping", "remove"} => x.id \in Ids
  PROVE  Sound(q, x) /\ x.pc # "volins"
<1>1. /\ ~Holds(x) /\ ~Starts(x) /\ x.pc # "rmimage" /\ x.pc # "volins" /\ x.pc # "done"
      /\ x.pc # "poll" /\ ~IsAdmitted(x) /\ x.pc \notin SpawnPcs \cup EarlyPcs
  BY Zenon DEF SpawnPcs, EarlyPcs, DeletePcs, VolumePcs, Holds, Starts, IsAdmitted
<1>2. Proper(x)
  BY Zenon, <1>1 DEF Proper
<1>3. Knows(x, row)
  BY Zenon, <1>1, Unknowing
<1> QED
  BY Zenon, <1>1, <1>2, <1>3 DEF Sound

LEMMA StartSound ==
  ASSUME NEW q, NEW x \in Request, Starts(x), x.id \in Ids, row[x.id] # Blank,
         Alive(row, x.id) =>
           /\ TenantOf[row[x.id].name] = x.tenant
           /\ x.op = "create" /\ ~x.polled =>
                row[x.id].name = x.name /\ row[x.id].spec = x.spec
  PROVE  Sound(q, x) /\ x.pc # "volins"
<1>1. /\ ~Holds(x) /\ x.pc # "rmimage" /\ x.pc # "volins" /\ x.pc # "done" /\ x.pc # "poll"
      /\ ~IsAdmitted(x) /\ x.pc \notin SpawnPcs \cup EarlyPcs \cup DeletePcs
      /\ x.pc \notin {"stop", "stopping", "remove"}
  BY Zenon DEF SpawnPcs, EarlyPcs, DeletePcs, VolumePcs, Holds, Starts, IsAdmitted
<1>2. Proper(x)
  BY Zenon, <1>1 DEF Proper
<1>3. Knows(x, row)
  BY Zenon, <1>1 DEF Knows
<1> QED
  BY Zenon, <1>1, <1>2, <1>3 DEF Sound

LEMMA FreshSound ==
  ASSUME NEW q, NEW x, Proper(x), ~Holds(x), ~Starts(x), x.pc # "rmimage", x.pc # "done",
         ~IsAdmitted(x)
  PROVE  Sound(q, x)
BY Zenon, Unknowing DEF Sound

\* A refusal, after a step that only reads.
LEMMA AnswerStep ==
  ASSUME IInv, NEW r \in Reqs, NEW q, NEW code \in {400, 404, 409, 429, 500, 503}, NEW v,
         Becomes(r, Answer(q, code, v)), Reads
  PROVE  Good
<1> DEFINE x == Answer(q, code, v)
<1>1. Sound(req[r], x) /\ x.pc # "volins"
  BY RefusalSound
<1> HIDE DEF x
<1>2. Becomes(r, x)
  BY DEF x
<1> QED
  BY <1>1, <1>2, QuietStep

-----------------------------------------------------------------------------
(* A request arrives.                                                      *)

LEMMA BeginCreateStep ==
  ASSUME IInv, NEW r \in Reqs, BeginCreate(r)
  PROVE  Good
<1>1. PICK n \in Names, sp \in Specs : Becomes(r, Created(Idle, TenantOf[n], n, sp))
  BY Zenon DEF BeginCreate, Created
<1>2. TenantOf[n] \in Tenants /\ Idle \in Request
  BY Zenon, WorkerAssumption, IdleProper DEF Proper
<1> DEFINE x == Created(Idle, TenantOf[n], n, sp)
<1>3. /\ x \in Request /\ x.pc = "lookup" /\ x.tenant = TenantOf[n] /\ x.name = n
      /\ x.op = "create" /\ ~x.finishing
  BY <1>2, CreatedFields, IdleProper
<1> HIDE DEF x
<1>4. /\ x.pc \in SpawnPcs /\ ~Holds(x) /\ ~Starts(x) /\ ~IsAdmitted(x)
      /\ x.pc \notin {"poll", "rmimage", "done", "volins"}
  BY Zenon, <1>3 DEF SpawnPcs, Holds, Starts, IsAdmitted, VolumePcs
<1>5. Proper(x)
  BY Zenon, <1>3, <1>4, SpawnProper
<1>6. Sound(req[r], x) /\ x.pc # "volins"
  BY Zenon, <1>4, <1>5, FreshSound
<1>7. Becomes(r, x) /\ Reads
  BY Zenon, <1>1 DEF x, BeginCreate, Reads
<1> QED
  BY Zenon, <1>6, <1>7, QuietStep

\* load_owned, for start, delete and clone.
LEMMA LoadOwnedStep ==
  ASSUME IInv, NEW r \in Reqs, NEW q \in Request, LoadOwned(r, q), q.id \in Ids, ~q.finishing,
         \/ q.op \in {"start", "delete"}
         \/ q.op = "clone" /\ q.name \in Names /\ q.tenant = TenantOf[q.name],
         Reads
  PROVE  Good
<1> DEFINE v == q.id
<1>1. CASE ~Owned(q, v)
  <2>1. Becomes(r, Answer(q, 404, None))
    BY Zenon, <1>1 DEF LoadOwned
  <2> QED
    BY <2>1, AnswerStep
<1>2. CASE Owned(q, v) /\ q.op = "clone"
  <2> DEFINE x == Goto(q, "occupied")
  <2>1. Becomes(r, x)
    BY Zenon, <1>2 DEF LoadOwned
  <2>2. "occupied" \in Pcs
    BY Zenon DEF Pcs
  <2>3. /\ x \in Request /\ x.pc = "occupied" /\ x.op = "clone" /\ x.name = q.name
        /\ x.tenant = q.tenant /\ ~x.finishing
    BY Zenon, <1>2, <2>2, GotoFields
  <2> HIDE DEF x
  <2>4. /\ x.pc \in SpawnPcs /\ ~Holds(x) /\ ~Starts(x) /\ ~IsAdmitted(x)
        /\ x.pc \notin {"poll", "rmimage", "done", "volins"}
    BY Zenon, <2>3 DEF SpawnPcs, Holds, Starts, IsAdmitted, VolumePcs
  <2>5. Proper(x)
    BY Zenon, <1>2, <2>3, <2>4, SpawnProper
  <2>6. Sound(req[r], x) /\ x.pc # "volins"
    BY Zenon, <2>4, <2>5, FreshSound
  <2> QED
    BY Zenon, <2>1, <2>6, QuietStep
<1>3. CASE Owned(q, v) /\ q.op = "delete"
  <2> DEFINE p == IF Active(v) THEN "stop" ELSE "remove"
             x == Deleting(q, p, row[v].name)
  <2>1. Becomes(r, x)
    BY Zenon, <1>3 DEF LoadOwned, Deleting
  <2>2. p \in DeletePcs /\ p \in Pcs
    BY Zenon DEF DeletePcs, Pcs
  <2>3. row[v].name \in Names
    BY Zenon, <1>3 DEF IInv, TypeInv, Agents, Owned, Present, Alive
  <2> HIDE DEF p
  <2>4. x \in Request /\ x.pc = p /\ x.name = row[v].name /\ x.id = v
    BY <2>2, <2>3, DeletingFields
  <2> HIDE DEF x
  <2>5. Sound(req[r], x) /\ x.pc # "volins"
    BY Zenon, <2>2, <2>3, <2>4, DeleteSound
  <2> QED
    BY Zenon, <2>1, <2>5, QuietStep
<1>4. CASE Owned(q, v) /\ q.op = "start" /\ Active(v)
  <2>1. Becomes(r, Answer(q, 409, None))
    BY Zenon, <1>4 DEF LoadOwned
  <2> QED
    BY <2>1, AnswerStep
<1>5. CASE Owned(q, v) /\ q.op = "start" /\ ~Active(v)
  <2> DEFINE x == Goto(q, "start")
  <2>1. Becomes(r, x)
    BY Zenon, <1>5 DEF LoadOwned
  <2>2. "start" \in Pcs
    BY Zenon DEF Pcs
  <2>3. x \in Request /\ x.pc = "start" /\ x.op = "start" /\ x.id = v /\ x.tenant = q.tenant
    BY Zenon, <1>5, <2>2, GotoFields
  <2>4. row[v] # Blank /\ TenantOf[row[v].name] = q.tenant
    BY <1>5 DEF Owned, Present, Statuses, Blank
  <2> HIDE DEF x
  <2>5. Starts(x) /\ x.op # "create"
    BY Zenon, <2>3 DEF Starts
  <2>6. Sound(req[r], x) /\ x.pc # "volins"
    BY Zenon, <2>3, <2>4, <2>5, StartSound
  <2> QED
    BY Zenon, <2>1, <2>6, QuietStep
<1> QED
  BY Zenon, <1>1, <1>2, <1>3, <1>4, <1>5

LEMMA BeginByIdStep ==
  ASSUME IInv, NEW r \in Reqs, BeginById(r)
  PROVE  Good
<1>1. PICK v \in Ids, t \in Tenants, op \in {"start", "delete"} :
        LoadOwned(r, ById(Idle, op, t, v))
  BY Zenon DEF BeginById, ById
<1>2. Idle \in Request /\ op \in Ops
  BY Zenon, IdleProper DEF Proper, Ops
<1> DEFINE q == ById(Idle, op, t, v)
<1>3. q \in Request /\ q.op = op /\ q.id = v /\ ~q.finishing
  BY <1>2, ByIdFields, IdleProper
<1> HIDE DEF q
<1>4. LoadOwned(r, q) /\ Reads
  BY Zenon, <1>1 DEF q, BeginById, Reads
<1> QED
  BY Zenon, <1>3, <1>4, LoadOwnedStep

LEMMA BeginCloneStep ==
  ASSUME IInv, NEW r \in Reqs, BeginClone(r)
  PROVE  Good
<1>1. PICK v \in Ids, n \in Names : LoadOwned(r, Cloning(Idle, TenantOf[n], n, v))
  BY Zenon DEF BeginClone, Cloning
<1>2. Idle \in Request /\ TenantOf[n] \in Tenants
  BY Zenon, WorkerAssumption, IdleProper DEF Proper
<1> DEFINE q == Cloning(Idle, TenantOf[n], n, v)
<1>3. /\ q \in Request /\ q.op = "clone" /\ q.id = v /\ ~q.finishing
      /\ q.name = n /\ q.tenant = TenantOf[n]
  BY <1>2, CloningFields, IdleProper
<1> HIDE DEF q
<1>4. LoadOwned(r, q) /\ Reads
  BY Zenon, <1>1 DEF q, BeginClone, Reads
<1> QED
  BY Zenon, <1>3, <1>4, LoadOwnedStep

LEMMA BeginPullStep ==
  ASSUME IInv, NEW r \in Reqs, BeginPull(r)
  PROVE  Good
<1>1. PICK sp \in Specs : Becomes(r, Pulling(Idle, sp))
  BY Zenon DEF BeginPull, Pulling
<1>2. Idle \in Request
  BY Zenon, IdleProper DEF Proper
<1> DEFINE x == Pulling(Idle, sp)
<1>3. x \in Request /\ x.pc = "pull"
  BY Zenon, <1>2, PullingFields
<1> HIDE DEF x
<1>4. /\ ~Holds(x) /\ ~Starts(x) /\ ~IsAdmitted(x)
      /\ x.pc \notin {"poll", "rmimage", "done", "volins"}
      /\ x.pc \notin SpawnPcs \cup EarlyPcs \cup DeletePcs
      /\ x.pc \notin {"stop", "stopping", "remove"}
  BY Zenon, <1>3 DEF SpawnPcs, EarlyPcs, DeletePcs, Holds, Starts, IsAdmitted, VolumePcs
<1>5. Proper(x)
  BY Zenon, <1>3, <1>4 DEF Proper
<1>6. Sound(req[r], x) /\ x.pc # "volins"
  BY Zenon, <1>4, <1>5, FreshSound
<1>7. Becomes(r, x) /\ Reads
  BY Zenon, <1>1 DEF x, BeginPull, Reads
<1> QED
  BY Zenon, <1>6, <1>7, QuietStep

\* What image_in_use saw stays true of the rows it saw.
LEMMA BeginDeleteImageStep ==
  ASSUME IInv, NEW r \in Reqs, BeginDeleteImage(r)
  PROVE  Good
<1>1. PICK sp \in Specs : ImageInUse(r, OnImage(Idle, "delete_image", sp))
  BY Zenon DEF BeginDeleteImage, OnImage
<1>2. Idle \in Request /\ "delete_image" \in Ops
  BY Zenon, IdleProper DEF Proper, Ops
<1> DEFINE q == OnImage(Idle, "delete_image", sp)
           S == {v \in Ids : row[v] # Blank}
           U == {v \in Ids : Present(v) /\ row[v].spec = q.spec}
<1>3. q \in Request
  BY Zenon, <1>2, OnImageFields
<1> HIDE DEF q
<1>4. Reads
  BY Zenon DEF BeginDeleteImage, Reads
<1>5. CASE U # {}
  <2>1. Becomes(r, Answer(q, 409, None))
    BY Zenon, <1>1, <1>5 DEF ImageInUse, q
  <2> QED
    BY <1>4, <2>1, AnswerStep
<1>6. CASE U = {}
  <2> DEFINE x == Checked(q, S)
  <2>1. Becomes(r, x)
    BY Zenon, <1>1, <1>6 DEF ImageInUse, q, Checked
  <2>2. x \in Request /\ x.pc = "rmimage" /\ x.seen = S /\ x.spec = q.spec
    BY Zenon, <1>3, CheckedFields
  <2> HIDE DEF x
  <2>3. /\ ~Holds(x) /\ ~Starts(x) /\ ~IsAdmitted(x)
        /\ x.pc \notin {"poll", "done", "volins"}
        /\ x.pc \notin SpawnPcs \cup EarlyPcs \cup DeletePcs
        /\ x.pc \notin {"stop", "stopping", "remove"}
    BY Zenon, <2>2 DEF SpawnPcs, EarlyPcs, DeletePcs, Holds, Starts, IsAdmitted, VolumePcs
  <2>4. Proper(x)
    BY Zenon, <2>2, <2>3 DEF Proper
  <2>5. \A v \in x.seen : row[v] # Blank /\ (Alive(row, v) => row[v].spec # x.spec)
    BY Zenon, <1>6, <2>2 DEF Alive, Present
  <2>6. Sound(req[r], x) /\ x.pc # "volins"
    BY Zenon, <2>3, <2>4, <2>5 DEF Knows, Sound
  <2> QED
    BY Zenon, <1>4, <2>1, <2>6, QuietStep
<1> QED
  BY Zenon, <1>5, <1>6

LEMMA InvalidStep ==
  ASSUME IInv, NEW r \in Reqs, Invalid(r)
  PROVE  Good
<1>1. Becomes(r, Answer(req[r], 400, None)) /\ Reads
  BY Zenon DEF Invalid, Reads
<1> QED
  BY <1>1, AnswerStep

-----------------------------------------------------------------------------
(* create, clone and restore, up to the row.                               *)

\* What is known of a request that is served.
LEMMA Served ==
  ASSUME IInv, NEW r \in Reqs
  PROVE  Proper(req[r]) /\ Knows(req[r], row) /\ req[r] \in Request
BY Zenon DEF IInv, TypeInv, KnowsInv, Proper

\* A spawning request goes on to a point where it holds nothing.
LEMMA GotoStep ==
  ASSUME IInv, NEW r \in Reqs, req[r].pc \in SpawnPcs,
         NEW p \in {"admit", "image", "flatten", "volget", "insert", "failed"},
         p = "failed" \/ ~req[r].finishing,
         p \in {"admit", "failed"} \/ IsAdmitted(req[r]),
         Becomes(r, Goto(req[r], p)), Reads
  PROVE  Good
<1> DEFINE q == req[r]
           x == Goto(q, p)
<1>1. Proper(q) /\ Knows(q, row)
  BY Zenon, Served
<1>2. /\ p \in SpawnPcs \ {"poll"} /\ p # "volins" /\ p \notin {"link", "ready"}
      /\ p \in EarlyPcs => p # "failed"
      /\ p \in VolumePcs => p # "failed"
  BY Zenon DEF SpawnPcs, EarlyPcs, VolumePcs
<1>3. Sound(q, x) /\ x.pc # "volins"
  BY Zenon, <1>1, <1>2, GotoSound
<1> HIDE DEF x
<1>4. Becomes(r, x)
  BY Zenon DEF x
<1> QED
  BY Zenon, <1>3, <1>4, QuietStep

\* resume_matching, of a sandbox with the name of the request.
LEMMA ResumeStep ==
  ASSUME IInv, NEW r \in Reqs, req[r].pc \in {"lookup", "failed", "poll"},
         NEW v \in Named(req[r].name),
         req[r].op = "create" /\ ~req[r].polled => row[v].spec = req[r].spec,
         Becomes(r, ResumeMatching(req[r], v)), Reads
  PROVE  Good
<1> DEFINE q == req[r]
<1>1. Proper(q) /\ Knows(q, row) /\ q \in Request /\ q.pc \in SpawnPcs
  BY Zenon, Served DEF SpawnPcs
<1>2. q.name \in Names /\ q.tenant = TenantOf[q.name]
  BY Zenon, <1>1 DEF Proper
<1>3. v \in Ids /\ row[v].st \in Statuses /\ row[v].name = q.name
  BY Zenon DEF Named, Present
<1>4. CASE row[v].st = "Running"
  <2> DEFINE x == Answer(q, 200, v)
  <2>1. Becomes(r, x)
    BY Zenon, <1>4 DEF ResumeMatching
  <2>2. q.polled \/ Suits(q, v)
    BY Zenon, <1>2, <1>3 DEF Suits
  <2>3. Sound(q, x) /\ x.pc # "volins"
    BY <1>3, <2>2, SuccessSound
  <2> HIDE DEF x
  <2> QED
    BY Zenon, <2>1, <2>3, QuietStep
<1>5. CASE row[v].st = "Stopping"
  <2> DEFINE x == Polling(q, TRUE)
  <2>1. Becomes(r, x)
    BY Zenon, <1>5 DEF ResumeMatching, Polling
  <2>2. /\ x \in Request /\ x.pc = "poll" /\ x.polled /\ x.op = q.op /\ x.tenant = q.tenant
        /\ x.name = q.name /\ x.spec = q.spec
    BY Zenon, <1>1, PollingFields
  <2> HIDE DEF x
  <2>3. /\ x.pc \in SpawnPcs /\ x.pc \notin EarlyPcs /\ ~Holds(x) /\ ~IsAdmitted(x)
        /\ x.pc # "volins"
    BY Zenon, <2>2 DEF SpawnPcs, EarlyPcs, Holds, IsAdmitted, VolumePcs
  <2>4. Sound(q, x)
    BY Zenon, <1>1, <2>2, <2>3, MoveSound
  <2> QED
    BY Zenon, <2>1, <2>3, <2>4, QuietStep
<1>6. CASE row[v].st = "Stopped"
  <2> DEFINE x == Toward(q, "start", v)
  <2>1. Becomes(r, x)
    BY Zenon, <1>6 DEF ResumeMatching, Toward
  <2>2. "start" \in Pcs /\ row[v] # Blank
    BY SMTT(30), <1>6 DEF Pcs, Blank
  <2>3. /\ x \in Request /\ x.pc = "start" /\ x.id = v /\ x.op = q.op /\ x.tenant = q.tenant
        /\ x.name = q.name /\ x.spec = q.spec /\ x.polled = q.polled
    BY SMTT(20), <1>1, <1>3, <2>2, TowardFields
  <2> HIDE DEF x
  <2>4. Starts(x)
    BY Zenon, <2>3 DEF Starts
  <2>5. Sound(q, x) /\ x.pc # "volins"
    BY Zenon, <1>2, <1>3, <2>2, <2>3, <2>4, StartSound
  <2> QED
    BY Zenon, <2>1, <2>5, QuietStep
<1> QED
  BY Zenon, <1>3, <1>4, <1>5, <1>6 DEF Statuses

\* existing_sandbox.
LEMMA ExistingStep ==
  ASSUME IInv, NEW r \in Reqs, req[r].pc \in {"lookup", "failed"},
         NEW v \in Named(req[r].name), Becomes(r, ExistingSandbox(req[r], v)), Reads
  PROVE  Good
<1>1. CASE SpecMismatch(req[r], v)
  <2>1. Becomes(r, Answer(req[r], 409, v))
    BY Zenon, <1>1 DEF ExistingSandbox
  <2> QED
    BY <2>1, AnswerStep
<1>2. CASE ~SpecMismatch(req[r], v)
  <2>1. Becomes(r, ResumeMatching(req[r], v)) /\ row[v].spec = req[r].spec
    BY Zenon, <1>2 DEF ExistingSandbox, SpecMismatch
  <2> QED
    BY Zenon, <2>1, ResumeStep
<1> QED
  BY Zenon, <1>1, <1>2

LEMMA LookupStep ==
  ASSUME IInv, NEW r \in Reqs, Lookup(r)
  PROVE  Good
<1>1. req[r].pc = "lookup" /\ Reads /\ Proper(req[r])
  BY Zenon, Served DEF Lookup, At, Reads
<1>2. CASE Becomes(r, Goto(req[r], "admit"))
  <2>1. ~req[r].finishing /\ req[r].pc \in SpawnPcs
    BY Zenon, <1>1 DEF Proper, EarlyPcs, SpawnPcs
  <2> QED
    BY Zenon, <1>1, <1>2, <2>1, GotoStep
<1>3. CASE \E v \in Named(req[r].name) : Becomes(r, ExistingSandbox(req[r], v))
  BY Zenon, <1>1, <1>3, ExistingStep
<1> QED
  BY Zenon, <1>2, <1>3 DEF Lookup

LEMMA AdmitRefusedStep ==
  ASSUME IInv, NEW r \in Reqs, AdmitRefused(r)
  PROVE  Good
<1>1. Becomes(r, Answer(req[r], 429, None)) /\ Reads
  BY Zenon DEF AdmitRefused, Reads
<1> QED
  BY <1>1, AnswerStep

LEMMA ResolveImageStep ==
  ASSUME IInv, NEW r \in Reqs, ResolveImage(r)
  PROVE  Good
<1>1. req[r].pc = "image" /\ Reads /\ Proper(req[r])
  BY Zenon, Served DEF ResolveImage, At, Reads
<1>2. req[r].pc \in SpawnPcs /\ ~req[r].finishing /\ IsAdmitted(req[r])
  BY Zenon, <1>1 DEF Proper, EarlyPcs, SpawnPcs, IsAdmitted
<1>3. Becomes(r, Goto(req[r], "volget")) \/ Becomes(r, Goto(req[r], "failed"))
  BY Zenon DEF ResolveImage
<1> QED
  BY Zenon, <1>1, <1>2, <1>3, GotoStep

LEMMA SpawnStep ==
  ASSUME IInv, NEW r \in Reqs, Spawn(r)
  PROVE  Good
<1>1. req[r].pc = "spawn" /\ Reads /\ Proper(req[r])
  BY Zenon, Served DEF Spawn, At, Reads
<1>2. req[r].pc \in SpawnPcs /\ ~req[r].finishing /\ IsAdmitted(req[r])
  BY Zenon, <1>1 DEF Proper, EarlyPcs, SpawnPcs, IsAdmitted
<1>3. Becomes(r, Goto(req[r], "insert")) \/ Becomes(r, Goto(req[r], "failed"))
  BY Zenon DEF Spawn
<1> QED
  BY Zenon, <1>1, <1>2, <1>3, GotoStep

LEMMA RejectOccupiedStep ==
  ASSUME IInv, NEW r \in Reqs, RejectOccupied(r)
  PROVE  Good
<1>1. req[r].pc = "occupied" /\ Reads /\ Proper(req[r])
  BY Zenon, Served DEF RejectOccupied, At, Reads
<1>2. req[r].pc \in SpawnPcs /\ ~req[r].finishing
  BY Zenon, <1>1 DEF Proper, EarlyPcs, SpawnPcs
<1>3. Becomes(r, Answer(req[r], 409, None)) \/ Becomes(r, Goto(req[r], "admit"))
  BY Zenon DEF RejectOccupied
<1> QED
  BY <1>1, <1>2, <1>3, GotoStep, AnswerStep

LEMMA FlattenStep ==
  ASSUME IInv, NEW r \in Reqs, Flatten(r)
  PROVE  Good
<1> DEFINE q == req[r]
           p == IF Present(q.id) THEN "volget" ELSE "failed"
           x == Toward(q, p, None)
<1>1. q.pc = "flatten" /\ Proper(q) /\ Knows(q, row) /\ Becomes(r, x) /\ Reads
  BY Zenon, Served DEF Flatten, At, Reads, Toward
<1>2. q.pc \in SpawnPcs /\ IsAdmitted(q)
  BY Zenon, <1>1 DEF Proper, EarlyPcs, SpawnPcs, IsAdmitted
<1>3. p \in {"failed", "volget"}
  BY Zenon
<1> HIDE DEF p
<1>4. Sound(q, x) /\ x.pc # "volins"
  BY Zenon, <1>1, <1>2, <1>3, ForgetSound
<1> HIDE DEF x
<1> QED
  BY Zenon, <1>1, <1>4, QuietStep

LEMMA CreateFailedStep ==
  ASSUME IInv, NEW r \in Reqs, CreateFailed(r)
  PROVE  Good
<1>1. req[r].pc = "failed" /\ Reads
  BY Zenon DEF CreateFailed, At, Reads
<1>2. CASE \E code \in {409, 500} : Becomes(r, Answer(req[r], code, None))
  BY <1>1, <1>2, AnswerStep
<1>3. CASE \E v \in Named(req[r].name) : Becomes(r, ExistingSandbox(req[r], v))
  BY Zenon, <1>1, <1>3, ExistingStep
<1> QED
  BY <1>2, <1>3 DEF CreateFailed

LEMMA PollStep ==
  ASSUME IInv, NEW r \in Reqs, Poll(r)
  PROVE  Good
<1>1. req[r].pc = "poll" /\ Reads /\ req[r].polled
  BY Zenon, Served DEF Poll, At, Reads, Proper
<1>2. CASE \E code \in {404, 503} : Becomes(r, Answer(req[r], code, None))
  BY <1>1, <1>2, AnswerStep
<1>3. CASE \E v \in Named(req[r].name) : Becomes(r, ResumeMatching(req[r], v))
  BY Zenon, <1>1, <1>3, ResumeStep
<1> QED
  BY <1>2, <1>3 DEF Poll

-----------------------------------------------------------------------------
(* Admission and insert: the steps that bring a tenant closer to its cap.  *)

LEMMA AdmitStep ==
  ASSUME IInv, NEW r \in Reqs, Admit(r)
  PROVE  IInv' /\ Matching /\ Admitting(r)
<1> DEFINE q == req[r]
           p == IF q.op = "clone" THEN "flatten" ELSE "image"
           x == Goto(q, p)
<1>1. /\ q.pc = "admit" /\ Admits(q) /\ UNCHANGED <<row, vols, dirs, att, raced>>
      /\ slipped' = (IF Admitted(q) THEN slipped \cup {q.tenant} ELSE slipped \ {q.tenant})
      /\ Becomes(r, x)
  BY Zenon DEF Admit, At
<1>2. Proper(q) /\ q \in Request
  BY Zenon, Served
<1>3. /\ q.pc \in SpawnPcs /\ ~q.finishing /\ p \in SpawnPcs /\ p \in Pcs
      /\ p \in {"flatten", "image"} /\ p \notin VolumePcs
  BY Zenon, <1>1, <1>2 DEF Proper, SpawnPcs, EarlyPcs, VolumePcs, Pcs
<1> HIDE DEF q, p
<1>4. /\ x \in Request /\ x.pc = p /\ x.op = q.op /\ x.tenant = q.tenant /\ x.name = q.name
      /\ x.finishing = q.finishing
  BY Zenon, <1>2, <1>3, GotoFields
<1> HIDE DEF x
<1>5. /\ ~Holds(x) /\ ~Starts(x) /\ x.pc # "rmimage" /\ x.pc # "volins" /\ x.pc # "done"
      /\ x.pc # "poll"
  BY Zenon, <1>3, <1>4 DEF Holds, Starts
<1>6. Proper(x) /\ Knows(x, row')
  <2>1. q.name \in Names /\ q.tenant = TenantOf[q.name] /\ q.op \in {"create", "clone"}
    BY Zenon, <1>2, <1>3 DEF Proper
  <2> QED
    BY Zenon, <1>3, <1>4, <1>5, <2>1, SpawnProper, Unknowing
<1>7. /\ row' \in [Ids -> Row] /\ Agents(row') /\ Unique(row') /\ Evolves(row, row')
      /\ att' \subseteq Ids \X Names
  BY Zenon, <1>1 DEF IInv, TypeInv, Evolves
<1>8. ASSUME Turns(r, x) PROVE VolumeInv'
  <2>1. att' \subseteq att /\ \A a \in att' : Alive(row', a[1])
    BY Zenon, <1>1 DEF IInv, VolumeInv
  <2> QED
    BY Zenon, <1>1, <1>5, <1>8, <2>1, StepVolume DEF IInv
<1>9. IInv' /\ Matching /\ Turns(r, x)
  BY Zenon, <1>1, <1>5, <1>6, <1>7, <1>8, CoreStep
<1>10. Admitting(r)
  <2>1. Cardinality(RowsOf(row, q.tenant)) < MaxSandboxes
    <3>1. RowsOf(row, q.tenant)
            = {v \in {w \in Ids : Present(w)} : TenantOf[row[v].name] = q.tenant}
      BY Zenon DEF RowsOf, Alive, Present
    <3> QED
      BY Zenon, <1>1, <3>1 DEF Admits
  <2>2. ASSUME NEW t \in Tenants \ {q.tenant}
        PROVE  Coming(req', t) = Coming(req, t) /\ (t \in slipped' <=> t \in slipped)
    <3>1. Coming(req', t) = Coming(req, t)
      BY Zenon, <1>4, <1>9 DEF Coming, Turns, q
    <3>2. t \in slipped' <=> t \in slipped
      BY Zenon, <1>1
    <3> QED
      BY Zenon, <3>1, <3>2
  <2>3. ASSUME q.tenant \notin slipped'
        PROVE  Coming(req', q.tenant) \subseteq {r}
    <3>1. ~Admitted(q)
      BY Zenon, <1>1, <2>3
    <3> QED
      BY Zenon, <1>9, <3>1 DEF Coming, Admitted, IsAdmitted, Turns
  <2> QED
    BY Zenon, <1>1, <2>1, <2>2, <2>3 DEF Admitting, q
<1> QED
  BY Zenon, <1>9, <1>10

\* The row of a new sandbox.
Fresh(n, s) == [st |-> "Running", name |-> n, spec |-> s]
Put(R, v, n, s) == [R EXCEPT ![v] = Fresh(n, s)]

LEMMA PutFields ==
  ASSUME NEW R \in [Ids -> Row], NEW v \in Ids, R[v] = Blank, NEW n \in Names,
         NEW s \in Specs \cup {DiskLabel, None}
  PROVE  /\ Put(R, v, n, s) \in [Ids -> Row] /\ Evolves(R, Put(R, v, n, s))
         /\ Put(R, v, n, s)[v].name = n /\ Put(R, v, n, s)[v].spec = s
         /\ Put(R, v, n, s)[v] # Blank /\ Alive(Put(R, v, n, s), v)
         /\ \A w \in Ids \ {v} : Put(R, v, n, s)[w] = R[w]
<1>1. /\ Fresh(n, s) \in Row /\ Fresh(n, s).name = n /\ Fresh(n, s).spec = s
      /\ Fresh(n, s).st = "Running" /\ Fresh(n, s) # Blank
  BY Zenon DEF Fresh, Row, Statuses, Blank
<1>2. /\ Put(R, v, n, s) \in [Ids -> Row] /\ Put(R, v, n, s)[v] = Fresh(n, s)
      /\ \A w \in Ids \ {v} : Put(R, v, n, s)[w] = R[w]
  BY Zenon, <1>1 DEF Put
<1>3. Evolves(R, Put(R, v, n, s))
  BY Zenon, <1>1, <1>2 DEF Evolves
<1>4. Alive(Put(R, v, n, s), v)
  BY Zenon, <1>1, <1>2 DEF Alive, Statuses
<1> QED
  BY Zenon, <1>1, <1>2, <1>3, <1>4

\* The UNIQUE insert: the name was free.
LEMMA InsertedStep ==
  ASSUME IInv, NEW r \in Reqs, req[r].pc = "insert", NEW v \in Ids, row[v] = Blank,
         Named(req[r].name) = {}, row' = Put(row, v, req[r].name, req[r].spec),
         Becomes(r, Toward(req[r], "link", v)),
         UNCHANGED <<vols, dirs, att, raced, slipped>>
  PROVE  IInv' /\ Matching /\ Inserting(r)
<1> DEFINE q == req[r]
           x == Toward(q, "link", v)
<1>1. Proper(q) /\ row \in [Ids -> Row] /\ Agents(row) /\ Unique(row) /\ q \in Request
  BY Zenon DEF IInv, TypeInv, Proper
<1>2. /\ q.name \in Names /\ q.tenant = TenantOf[q.name] /\ q.op \in {"create", "clone"}
      /\ ~q.finishing /\ q.spec \in Specs \cup {DiskLabel, None}
  BY Zenon, <1>1 DEF Proper, SpawnPcs, EarlyPcs, Request
<1>3. /\ row' \in [Ids -> Row] /\ Evolves(row, row') /\ row'[v] # Blank /\ Alive(row', v)
      /\ row'[v].name = q.name /\ row'[v].spec = q.spec
      /\ \A w \in Ids \ {v} : row'[w] = row[w]
  <2> DEFINE n == q.name
             s == q.spec
  <2>1. n \in Names /\ s \in Specs \cup {DiskLabel, None} /\ row' = Put(row, v, n, s)
    BY Zenon, <1>2
  <2> HIDE DEF q, n, s
  <2>2. row'[v].name = n /\ row'[v].spec = s
    BY SMTT(30), <1>1, <2>1, PutFields
  <2>3. /\ row' \in [Ids -> Row] /\ Evolves(row, row') /\ row'[v] # Blank /\ Alive(row', v)
        /\ \A w \in Ids \ {v} : row'[w] = row[w]
    BY SMTT(30), <1>1, <2>1, PutFields
  <2> QED
    BY Zenon, <2>2, <2>3 DEF n, s
<1>4. /\ x \in Request /\ x.pc = "link" /\ x.id = v /\ x.op = q.op /\ x.tenant = q.tenant
      /\ x.name = q.name /\ x.spec = q.spec /\ x.finishing = q.finishing
  <2>1. "link" \in Pcs /\ v \in Ids \cup {None}
    BY SMTT(30) DEF Pcs
  <2> HIDE DEF q
  <2> QED
    BY SMTT(30), <1>1, <2>1, TowardFields
<1>5. ~IsAdmitted(x) /\ IsAdmitted(q)
  BY Zenon, <1>2, <1>4 DEF IsAdmitted
<1>6. Becomes(r, x)
  BY Zenon
<1> HIDE DEF x, q
<1>7. /\ x.pc \in SpawnPcs /\ x.pc \notin EarlyPcs /\ ~Starts(x)
      /\ x.pc # "poll" /\ x.pc # "rmimage" /\ x.pc # "done" /\ x.pc # "volins"
  BY SMTT(30), <1>4 DEF SpawnPcs, EarlyPcs, Starts
<1>8. Proper(x)
  BY Zenon, <1>2, <1>4, <1>7, SpawnProper
<1>9. Knows(x, row')
  BY Zenon, <1>3, <1>4, <1>7 DEF Knows
<1>10. ~Alive(row, v) /\ \A w \in Ids : Alive(row, w) => row[w].name # q.name
  <2>1. ~Alive(row, v)
    BY Zenon, BlankDead
  <2> QED
    BY Zenon, <2>1 DEF Named, Present, Alive, q
<1>11. \A w \in Ids \ {v} : row'[w] = row[w] /\ (Alive(row', w) <=> Alive(row, w))
  BY Zenon, <1>3 DEF Alive
<1>12. Agents(row')
  BY Zenon, <1>1, <1>2, <1>3 DEF Agents, Alive
<1>13. Unique(row')
  <2> SUFFICES ASSUME NEW a \in Ids, NEW b \in Ids, Alive(row', a), Alive(row', b),
                      row'[a].name = row'[b].name
               PROVE  a = b
    BY Zenon DEF Unique
  <2>1. CASE a = v
    BY Zenon, <1>3, <1>10, <1>11, <2>1
  <2>2. CASE b = v
    BY Zenon, <1>3, <1>10, <1>11, <2>2
  <2>3. CASE a # v /\ b # v
    BY Zenon, <1>1, <1>11, <2>3 DEF Unique
  <2> QED
    BY Zenon, <2>1, <2>2, <2>3
<1>14. att' \subseteq att /\ att' \subseteq Ids \X Names
  BY Zenon DEF IInv, TypeInv
<1>15. ASSUME NEW a \in att'
       PROVE  Alive(row', a[1])
  <2>1. a \in att /\ a[1] \in Ids
    BY Zenon DEF IInv, TypeInv
  <2>2. Alive(row, a[1])
    BY Zenon, <2>1 DEF IInv, VolumeInv
  <2> QED
    BY Zenon, <1>10, <1>11, <2>1, <2>2
<1>16. Turns(r, x) => VolumeInv'
  BY Zenon, <1>7, <1>14, <1>15, StepVolume DEF IInv
<1>17. IInv' /\ Matching /\ Turns(r, x)
  BY Zenon, <1>3, <1>6, <1>7, <1>8, <1>9, <1>12, <1>13, <1>14, <1>16, CoreStep
<1>18. Inserting(r)
  <2>1. ASSUME NEW t \in Tenants \ {q.tenant}
        PROVE  RowsOf(row', t) = RowsOf(row, t) /\ Coming(req', t) = Coming(req, t)
    <3>1. RowsOf(row', t) = RowsOf(row, t)
      BY Zenon, <1>2, <1>3, <1>10, <1>11 DEF RowsOf
    <3>2. Coming(req', t) = Coming(req, t)
      BY Zenon, <1>4, <1>17 DEF Coming, Turns, q
    <3> QED
      BY Zenon, <3>1, <3>2
  <2>2. v \notin RowsOf(row, q.tenant) /\ RowsOf(row', q.tenant) = RowsOf(row, q.tenant) \cup {v}
    <3>1. \A w : w \in RowsOf(row', q.tenant) <=> w \in RowsOf(row, q.tenant) \cup {v}
      BY Zenon, <1>2, <1>3, <1>11 DEF RowsOf
    <3> QED
      BY Zenon, <1>10, <3>1 DEF RowsOf
  <2>3. r \in Coming(req, q.tenant) /\ Coming(req', q.tenant) = Coming(req, q.tenant) \ {r}
    BY Zenon, <1>5, <1>17 DEF Coming, Turns, q
  <2> QED
    BY Zenon, <2>1, <2>2, <2>3 DEF Inserting, q
<1> QED
  BY Zenon, <1>17, <1>18

LEMMA InsertVmStep ==
  ASSUME IInv, NEW r \in Reqs, InsertVm(r)
  PROVE  IInv' /\ Matching /\ (Frugal \/ Inserting(r))
<1>1. /\ req[r].pc = "insert" /\ UNCHANGED <<vols, dirs, att, raced, slipped>>
  BY Zenon DEF InsertVm, At
<1>2. req[r].pc \in SpawnPcs
  BY Zenon, <1>1 DEF SpawnPcs
<1>3. CASE row' = row /\ Becomes(r, Goto(req[r], "failed"))
  <2>1. Reads
    BY Zenon, <1>1, <1>3 DEF Reads
  <2> QED
    BY Zenon, <1>2, <1>3, <2>1, GotoStep DEF Good
<1>4. ASSUME NEW v \in Ids, row[v] = Blank, Named(req[r].name) = {},
             row' = Put(row, v, req[r].name, req[r].spec),
             Becomes(r, Toward(req[r], "link", v))
      PROVE  IInv' /\ Matching /\ (Frugal \/ Inserting(r))
  BY Zenon, <1>1, <1>4, InsertedStep
<1> QED
  BY Zenon, <1>3, <1>4 DEF InsertVm, Put, Fresh, Toward

-----------------------------------------------------------------------------
(* Workspace volumes.                                                      *)

\* VolumeManager::create: what it adds has its directory or is noted as raced.
LEMMA WorkspaceStep ==
  ASSUME IInv, NEW r \in Reqs, req[r].pc \in VolumePcs,
         NEW p \in {"voldir", "volins", "link", "spawn", "failed"}, Becomes(r, Goto(req[r], p)),
         p = "link" => req[r].finishing, p = "spawn" => ~req[r].finishing,
         UNCHANGED <<row, att, slipped>>,
         vols \subseteq vols', vols' \subseteq vols \cup {req[r].name},
         \A n \in (dirs \cup raced) \ {req[r].name} : n \in dirs' \cup raced',
         req[r].name \in dirs \cup raced => req[r].name \in dirs' \cup raced',
         p = "volins" \/ req[r].name \in vols' => req[r].name \in dirs' \cup raced'
  PROVE  Good
<1> DEFINE q == req[r]
           x == Goto(q, p)
<1>1. Proper(q) /\ Knows(q, row)
  BY Zenon, Served
<1>2. /\ q.pc \in SpawnPcs /\ p \in SpawnPcs \ {"poll"} /\ (p \in EarlyPcs => p = "spawn")
      /\ q.op \in {"create", "clone"} /\ (q.finishing => Holds(q))
      /\ p # "ready" /\ (q.finishing \/ IsAdmitted(q))
  BY SMTT(30), <1>1 DEF Proper, SpawnPcs, EarlyPcs, VolumePcs, Holds, IsAdmitted
<1>3. Sound(q, x) /\ x.pc = p /\ x.name = q.name
  BY Zenon, <1>1, <1>2, GotoSound
<1>4. Becomes(r, x) /\ att' \subseteq Ids \X Names
  BY Zenon DEF IInv, TypeInv
<1> HIDE DEF x
<1>5. ASSUME Turns(r, x)
      PROVE  VolumeInv'
  <2>1. VolumeInv
    BY Zenon DEF IInv
  <2>2. \A n \in dirs \cup raced : n \in dirs' \cup raced'
    BY Zenon
  <2>3. \A n \in vols' : n \in dirs' \cup raced'
    BY Zenon, <2>1, <2>2 DEF VolumeInv
  <2>4. x.pc = "volins" => x.name \in dirs' \cup raced'
    BY Zenon, <1>3
  <2>5. \A u \in Reqs : req'[u].pc = "volins" => req'[u].name \in dirs' \cup raced'
    BY Zenon, <1>5, <2>1, <2>2, <2>4 DEF VolumeInv, Turns
  <2>6. \A a \in att' : Alive(row', a[1]) /\ a[2] \in vols'
    BY Zenon, <2>1 DEF VolumeInv
  <2> QED
    BY Zenon, <2>3, <2>5, <2>6 DEF VolumeInv
<1> QED
  BY Zenon, <1>3, <1>4, <1>5, VolumeStep

LEMMA VolumeGetStep ==
  ASSUME IInv, NEW r \in Reqs, VolumeGet(r)
  PROVE  Good
<1> DEFINE q == req[r]
<1>1. /\ q.pc = "volget" /\ UNCHANGED <<row, vols, dirs, att, slipped>> /\ raced \subseteq raced'
      /\ Becomes(r, IF q.name \in vols THEN AfterVolume(q) ELSE Goto(q, "voldir"))
  BY Zenon DEF VolumeGet, At, NoteRace
<1>2. q.pc \in VolumePcs /\ \A n \in dirs \cup raced : n \in dirs' \cup raced'
  BY Zenon, <1>1 DEF VolumePcs
<1>3. q.name \in vols => q.name \in dirs \cup raced
  BY Zenon DEF IInv, VolumeInv
<1>4. PICK p \in {"voldir", "link", "spawn"} :
        /\ Becomes(r, Goto(q, p)) /\ (p = "link" => q.finishing) /\ (p = "spawn" => ~q.finishing)
  BY Zenon, <1>1 DEF AfterVolume
<1> QED
  BY Zenon, <1>1, <1>2, <1>3, <1>4, WorkspaceStep

LEMMA VolumeDirStep ==
  ASSUME IInv, NEW r \in Reqs, VolumeDir(r)
  PROVE  Good
<1> DEFINE q == req[r]
<1>1. /\ q.pc = "voldir" /\ UNCHANGED <<row, vols, att, slipped>>
      /\ dirs' = dirs \cup {q.name} /\ raced \ {q.name} \subseteq raced'
      /\ Becomes(r, Goto(q, "volins"))
  BY Zenon DEF VolumeDir, At
<1>2. q.pc \in VolumePcs
  BY Zenon, <1>1 DEF VolumePcs
<1>3. /\ \A n \in (dirs \cup raced) \ {q.name} : n \in dirs' \cup raced'
      /\ q.name \in dirs' \cup raced'
  BY SMTT(30), <1>1
<1> QED
  BY Zenon, <1>1, <1>2, <1>3, WorkspaceStep

LEMMA VolumeInsertStep ==
  ASSUME IInv, NEW r \in Reqs, VolumeInsert(r)
  PROVE  Good
<1> DEFINE q == req[r]
<1>1. /\ q.pc = "volins" /\ UNCHANGED <<row, dirs, att, slipped>> /\ raced \subseteq raced'
      /\ vols \subseteq vols' /\ vols' \subseteq vols \cup {q.name}
      /\ Becomes(r, Goto(q, "failed")) \/ Becomes(r, AfterVolume(q))
  BY Zenon DEF VolumeInsert, At, NoteRace
<1>2. q.pc \in VolumePcs /\ \A n \in dirs \cup raced : n \in dirs' \cup raced'
  BY Zenon, <1>1 DEF VolumePcs
<1>3. q.name \in dirs' \cup raced'
  BY Zenon, <1>1, <1>2 DEF IInv, VolumeInv
<1>4. PICK p \in {"failed", "link", "spawn"} :
        /\ Becomes(r, Goto(q, p)) /\ (p = "link" => q.finishing) /\ (p = "spawn" => ~q.finishing)
  BY Zenon, <1>1 DEF AfterVolume
<1> QED
  BY Zenon, <1>1, <1>2, <1>3, <1>4, WorkspaceStep

\* The attachment is written under both foreign keys.
LEMMA LinkedStep ==
  ASSUME IInv, NEW r \in Reqs, req[r].pc = "link", CanLink(req[r]),
         att' = att \cup {<<req[r].id, req[r].name>>},
         NEW x, Becomes(r, x), Sound(req[r], x), x.pc # "volins",
         UNCHANGED <<row, vols, dirs, raced, slipped>>
  PROVE  Good
<1> DEFINE q == req[r]
<1>1. Proper(q) /\ Alive(row, q.id) /\ q.name \in vols
  BY Zenon, Served DEF CanLink, Present, Alive
<1>2. q.id \in Ids /\ q.name \in Names
  BY Zenon, <1>1 DEF Proper, Holds, SpawnPcs
<1> HIDE DEF q
<1>3. att' \subseteq Ids \X Names
  BY <1>2 DEF IInv, TypeInv, q
<1>4. ASSUME Turns(r, x)
      PROVE  VolumeInv'
  <2>1. ASSUME NEW a \in att'
        PROVE  Alive(row', a[1]) /\ a[2] \in vols'
    <3>1. CASE a \in att
      BY Zenon, <3>1 DEF IInv, VolumeInv
    <3>2. CASE a = <<q.id, q.name>>
      BY Zenon, <1>1, <3>2
    <3> QED
      BY Zenon, <3>1, <3>2 DEF q
  <2>2. \A s \in Reqs : req'[s].pc = "volins" => req'[s].name \in dirs' \cup raced'
    BY Zenon, <1>4 DEF IInv, VolumeInv, Turns
  <2> QED
    BY Zenon, <2>1, <2>2 DEF IInv, VolumeInv
<1> QED
  BY Zenon, <1>3, <1>4, VolumeStep

-----------------------------------------------------------------------------
(* From the row to the answer, and starts.                                 *)

\* The sandbox a request holds is the one it asked for.
LEMMA HeldSuits ==
  ASSUME NEW q, Proper(q), Knows(q, row), Holds(q)
  PROVE  Suits(q, q.id) /\ q.id \in Ids /\ q.pc \in SpawnPcs
<1>1. q.pc \in SpawnPcs
  BY Zenon DEF Holds, SpawnPcs, VolumePcs
<1>2. q.id \in Ids /\ q.tenant = TenantOf[q.name]
  BY Zenon, <1>1 DEF Proper
<1> QED
  BY Zenon, <1>1, <1>2 DEF Knows, Suits

\* link_vm.
LEMMA LinkVmStep ==
  ASSUME IInv, NEW r \in Reqs, LinkVm(r)
  PROVE  Good
<1> DEFINE q == req[r]
<1>1. q.pc = "link" /\ UNCHANGED <<vols, dirs, raced, slipped>> /\ Proper(q) /\ Knows(q, row)
  BY Zenon, Served DEF LinkVm, At
<1>2. Holds(q)
  BY Zenon, <1>1 DEF Holds
<1>3. Suits(q, q.id) /\ q.id \in Ids /\ q.pc \in SpawnPcs
  BY Zenon, <1>1, <1>2, HeldSuits
<1>4. CASE /\ CanLink(q) /\ att' = att \cup {<<q.id, q.name>>} /\ row' = row
           /\ Becomes(r, Answer(q, 201, q.id))
  <2> DEFINE x == Answer(q, 201, q.id)
  <2>1. Sound(q, x) /\ x.pc # "volins"
    BY <1>3, SuccessSound
  <2> HIDE DEF x
  <2>2. Becomes(r, x)
    BY Zenon, <1>4 DEF x
  <2> QED
    BY Zenon, <1>1, <1>4, <2>1, <2>2, LinkedStep
<1>5. CASE /\ CanLink(q) /\ att' = att \cup {<<q.id, q.name>>} /\ row' = row
           /\ Becomes(r, Goto(q, "ready"))
  <2> DEFINE x == Goto(q, "ready")
  <2>1. "ready" \in SpawnPcs \ {"poll"} /\ "ready" \notin EarlyPcs
    BY  DEF SpawnPcs, EarlyPcs
  <2>2. Sound(q, x) /\ x.pc # "volins"
    BY Zenon, <1>1, <1>2, <1>3, <2>1, GotoSound
  <2> HIDE DEF x
  <2>3. Becomes(r, x)
    BY Zenon, <1>5 DEF x
  <2> QED
    BY Zenon, <1>1, <1>5, <2>2, <2>3, LinkedStep
<1>6. CASE Becomes(r, Toward(q, "failed", None)) /\ (UNCHANGED <<att, row>> \/ AbortUnready(q.id))
  <2> DEFINE x == Toward(q, "failed", None)
  <2>1. Sound(q, x) /\ x.pc # "volins"
    BY Zenon, <1>1, <1>3, ForgetSound
  <2> HIDE DEF x
  <2>2. Becomes(r, x)
    BY Zenon, <1>6 DEF x
  <2>3. CASE UNCHANGED <<att, row>>
    BY Zenon, <1>1, <2>1, <2>2, <2>3, QuietStep DEF Reads
  <2>4. CASE AbortUnready(q.id)
    BY Zenon, <1>1, <1>3, <2>1, <2>2, <2>4, AbortStep
  <2> QED
    BY Zenon, <1>6, <2>3, <2>4
<1> QED
  BY Zenon, <1>4, <1>5, <1>6 DEF LinkVm, Toward

\* wait_ready, and the start of finish_spawn.
LEMMA WaitReadyStep ==
  ASSUME IInv, NEW r \in Reqs, WaitReady(r)
  PROVE  Good
<1> DEFINE q == req[r]
<1>1. q.pc = "ready" /\ UNCHANGED <<vols, dirs, raced, slipped>> /\ Proper(q) /\ Knows(q, row)
  BY Zenon, Served DEF WaitReady, At
<1>2. Holds(q) /\ q \in Request
  BY Zenon, <1>1 DEF Holds, Proper
<1>3. Suits(q, q.id) /\ q.id \in Ids /\ q.pc \in SpawnPcs
  BY Zenon, <1>1, <1>2, HeldSuits
<1>4. CASE Becomes(r, Answer(q, 201, q.id)) /\ UNCHANGED <<att, row>>
  <2> DEFINE x == Answer(q, 201, q.id)
  <2>1. Sound(q, x) /\ x.pc # "volins"
    BY <1>3, SuccessSound
  <2> HIDE DEF x
  <2>2. Becomes(r, x)
    BY Zenon, <1>4 DEF x
  <2> QED
    BY Zenon, <1>1, <1>4, <2>1, <2>2, QuietStep DEF Reads
<1>5. CASE Becomes(r, Finishing(q, TRUE)) /\ UNCHANGED <<att, row>>
  <2> DEFINE x == Finishing(q, TRUE)
  <2>1. /\ x \in Request /\ x.pc = "volget" /\ x.finishing = TRUE /\ x.op = q.op
        /\ x.tenant = q.tenant /\ x.name = q.name /\ x.spec = q.spec /\ x.id = q.id
    BY Zenon, <1>2, FinishingFields
  <2> HIDE DEF x
  <2>2. Becomes(r, x)
    BY Zenon, <1>5 DEF x
  <2>3. /\ ~IsAdmitted(x) /\ x.pc # "volins"
        /\ x.pc \in SpawnPcs /\ x.pc \notin EarlyPcs /\ x.pc # "poll"
    BY Zenon, <2>1 DEF IsAdmitted, SpawnPcs, EarlyPcs
  <2>4. Sound(q, x)
    BY Zenon, <1>1, <1>2, <1>3, <2>1, <2>3, MoveSound
  <2> QED
    BY Zenon, <1>1, <1>5, <2>2, <2>3, <2>4, QuietStep DEF Reads
<1>6. CASE Becomes(r, Toward(q, "failed", None)) /\ AbortUnready(q.id)
  <2> DEFINE x == Toward(q, "failed", None)
  <2>1. Sound(q, x) /\ x.pc # "volins"
    BY Zenon, <1>1, <1>3, ForgetSound
  <2> HIDE DEF x
  <2>2. Becomes(r, x)
    BY Zenon, <1>6 DEF x
  <2> QED
    BY Zenon, <1>1, <1>3, <1>6, <2>1, <2>2, AbortStep
<1> QED
  BY Zenon, <1>4, <1>5, <1>6 DEF WaitReady, FinishSpawn, Finishing, Toward

\* Vm::start.
LEMMA StartVmStep ==
  ASSUME IInv, NEW r \in Reqs, StartVm(r)
  PROVE  Good
<1> DEFINE q == req[r]
<1>1. /\ q.pc = "start" /\ UNCHANGED <<vols, dirs, att, raced, slipped>>
      /\ Proper(q) /\ Knows(q, row) /\ q \in Request
  BY Zenon, Served DEF StartVm, At
<1>2. CASE /\ row' = IF Present(q.id) THEN Mark(row, q.id, "Running") ELSE row
           /\ Becomes(r, Goto(q, "startready"))
  <2> DEFINE x == Goto(q, "startready")
  <2>1. Starts(q) /\ "startready" \in Pcs /\ "Running" \in Statuses
    BY Zenon, <1>1 DEF Starts, Pcs, Statuses
  <2>2. q.id \in Ids /\ row[q.id] # Blank
    BY Zenon, <1>1, <2>1 DEF Proper, Knows
  <2>3. /\ x \in Request /\ x.pc = "startready" /\ x.id = q.id /\ x.op = q.op
        /\ x.tenant = q.tenant /\ x.name = q.name /\ x.spec = q.spec /\ x.polled = q.polled
    BY Zenon, <1>1, <2>1, GotoFields
  <2> HIDE DEF x
  <2>4. Starts(x)
    BY Zenon, <2>3 DEF Starts
  <2>5. Alive(row, x.id) =>
          /\ TenantOf[row[x.id].name] = x.tenant
          /\ x.op = "create" /\ ~x.polled =>
               row[x.id].name = x.name /\ row[x.id].spec = x.spec
    BY ZenonT(30), <1>1, <2>1, <2>3 DEF Knows
  <2>6. Sound(q, x) /\ x.pc # "volins"
    BY Zenon, <2>2, <2>3, <2>4, <2>5, StartSound
  <2>7. Becomes(r, x)
    BY Zenon, <1>2 DEF x
  <2> QED
    BY Zenon, <1>1, <1>2, <2>1, <2>2, <2>6, <2>7, MarkStep
<1>3. CASE row' = row /\ Becomes(r, Answer(q, 500, None))
  <2>1. Reads
    BY Zenon, <1>1, <1>3 DEF Reads
  <2> QED
    BY <1>3, <2>1, AnswerStep
<1> QED
  BY Zenon, <1>2, <1>3 DEF StartVm, Mark

LEMMA StartReadyStep ==
  ASSUME IInv, NEW r \in Reqs, StartReady(r)
  PROVE  Good
<1> DEFINE q == req[r]
<1>1. /\ q.pc = "startready" /\ UNCHANGED <<vols, dirs, att, raced, slipped>>
      /\ Proper(q) /\ Knows(q, row)
  BY Zenon, Served DEF StartReady, At
<1>2. Starts(q) /\ "Stopped" \in Statuses
  BY Zenon, <1>1 DEF Starts, Statuses
<1>3. q.id \in Ids /\ (q.polled \/ Suits(q, q.id))
  BY Zenon, <1>1, <1>2 DEF Proper, Knows, Suits
<1>4. CASE Becomes(r, Answer(q, 200, q.id)) /\ row' = row
  <2> DEFINE x == Answer(q, 200, q.id)
  <2>1. Sound(q, x) /\ x.pc # "volins"
    BY <1>3, SuccessSound
  <2> HIDE DEF x
  <2>2. Becomes(r, x)
    BY Zenon, <1>4 DEF x
  <2> QED
    BY Zenon, <1>1, <1>4, <2>1, <2>2, QuietStep DEF Reads
<1>5. CASE /\ row' = IF Present(q.id) THEN Mark(row, q.id, "Stopped") ELSE row
           /\ Becomes(r, Answer(q, 503, None))
  <2> DEFINE x == Answer(q, 503, None)
  <2>1. Sound(q, x) /\ x.pc # "volins"
    BY RefusalSound
  <2> HIDE DEF x
  <2>2. Becomes(r, x)
    BY Zenon, <1>5 DEF x
  <2> QED
    BY Zenon, <1>1, <1>2, <1>3, <1>5, <2>1, <2>2, MarkStep
<1> QED
  BY Zenon, <1>4, <1>5 DEF StartReady, Mark

-----------------------------------------------------------------------------
(* Deletes and images.                                                     *)

\* A delete moves on with its id and name.
LEMMA DeleteGoto ==
  ASSUME NEW q, Proper(q), q.pc \in DeletePcs, NEW p \in DeletePcs,
         p \in {"stop", "stopping", "remove"} => q.id \in Ids
  PROVE  Sound(q, Goto(q, p)) /\ Goto(q, p).pc # "volins"
<1> DEFINE x == Goto(q, p)
<1>1. q \in Request /\ p \in Pcs /\ q.name \in Names
  BY Zenon DEF Proper, DeletePcs, Pcs
<1>2. x \in Request /\ x.pc = p /\ x.name = q.name /\ x.id = q.id
  BY Zenon, <1>1, GotoFields
<1> HIDE DEF x
<1>3. Sound(q, x) /\ x.pc # "volins"
  BY Zenon, <1>1, <1>2, DeleteSound
<1> QED
  BY Zenon, <1>3 DEF x

LEMMA StopForDeleteStep ==
  ASSUME IInv, NEW r \in Reqs, StopForDelete(r)
  PROVE  Good
<1> DEFINE q == req[r]
           x == Goto(q, "stopping")
<1>1. /\ q.pc = "stop" /\ UNCHANGED <<vols, dirs, att, raced, slipped>> /\ Becomes(r, x)
      /\ row' = (IF row[q.id].st = "Running" THEN Mark(row, q.id, "Stopping") ELSE row)
      /\ Proper(q)
  BY Zenon, Served DEF StopForDelete, At, Mark
<1>2. /\ q.id \in Ids /\ q.pc \in DeletePcs /\ "stopping" \in DeletePcs
      /\ "Stopping" \in Statuses
  BY SMTT(30), <1>1 DEF Proper, DeletePcs, Statuses
<1>3. Sound(q, x) /\ x.pc # "volins"
  BY Zenon, <1>1, <1>2, DeleteGoto
<1> HIDE DEF x
<1>4. CASE row[q.id].st = "Running"
  <2>1. Present(q.id)
    BY Zenon, <1>4 DEF Present, Statuses
  <2>2. row' = (IF Present(q.id) THEN Mark(row, q.id, "Stopping") ELSE row)
    BY Zenon, <1>1, <1>4, <2>1
  <2> QED
    BY Zenon, <1>1, <1>2, <1>3, <2>2, MarkStep
<1>5. CASE row[q.id].st # "Running"
  BY Zenon, <1>1, <1>3, <1>5, QuietStep DEF Reads
<1> QED
  BY Zenon, <1>4, <1>5

LEMMA StoppedStep ==
  ASSUME IInv, NEW r \in Reqs, Stopped(r)
  PROVE  Good
<1> DEFINE q == req[r]
           x == Goto(q, "remove")
<1>1. /\ q.pc = "stopping" /\ UNCHANGED <<vols, dirs, att, raced, slipped>> /\ Becomes(r, x)
      /\ row' = (IF Present(q.id) THEN Mark(row, q.id, "Stopped") ELSE row)
      /\ Proper(q)
  BY Zenon, Served DEF Stopped, At, Mark
<1>2. /\ q.id \in Ids /\ q.pc \in DeletePcs /\ "remove" \in DeletePcs
      /\ "Stopped" \in Statuses
  BY Zenon, <1>1 DEF Proper, DeletePcs, Statuses
<1>3. Sound(q, x) /\ x.pc # "volins"
  BY Zenon, <1>1, <1>2, DeleteGoto
<1> HIDE DEF x
<1> QED
  BY Zenon, <1>1, <1>2, <1>3, MarkStep

LEMMA RemoveVmStep ==
  ASSUME IInv, NEW r \in Reqs, RemoveVm(r)
  PROVE  Good
<1> DEFINE q == req[r]
<1>1. q.pc = "remove" /\ UNCHANGED <<vols, dirs, raced, slipped>> /\ Proper(q)
  BY Zenon, Served DEF RemoveVm, At
<1>2. CASE (\E code \in {404, 409} : Becomes(r, Answer(q, code, None))) /\ UNCHANGED <<att, row>>
  <2>1. Reads
    BY Zenon, <1>1, <1>2 DEF Reads
  <2> QED
    BY <1>2, <2>1, AnswerStep
<1>3. CASE AbortUnready(q.id) /\ Becomes(r, Toward(q, "rmget", None))
  <2> DEFINE x == Toward(q, "rmget", None)
  <2>1. /\ q.id \in Ids /\ q.name \in Names /\ q \in Request /\ "rmget" \in DeletePcs
        /\ "rmget" \in Pcs /\ None \in Ids \cup {None}
    BY Zenon, <1>1 DEF Proper, DeletePcs, Pcs
  <2>2. x \in Request /\ x.pc = "rmget" /\ x.name = q.name
    BY Zenon, <2>1, TowardFields
  <2> HIDE DEF x
  <2>3. Sound(q, x) /\ x.pc # "volins"
    BY Zenon, <2>1, <2>2, DeleteSound
  <2>4. Becomes(r, x)
    BY Zenon, <1>3 DEF x
  <2> QED
    BY Zenon, <1>1, <1>3, <2>1, <2>3, <2>4, AbortStep
<1> QED
  BY <1>2, <1>3 DEF RemoveVm, Toward

\* An answer without a sandbox, after a step that only reads.
LEMMA NothingSound ==
  ASSUME NEW q
  PROVE  /\ Sound(q, Answer(q, 200, None)) /\ Answer(q, 200, None).pc # "volins"
         /\ Sound(q, Answer(q, 204, None)) /\ Answer(q, 204, None).pc # "volins"
BY SuccessSound

LEMMA NothingStep ==
  ASSUME IInv, NEW r \in Reqs, Reads,
         \/ Becomes(r, Answer(req[r], 200, None))
         \/ Becomes(r, Answer(req[r], 204, None))
  PROVE  Good
<1>1. CASE Becomes(r, Answer(req[r], 200, None))
  BY <1>1, NothingSound, QuietStep
<1>2. CASE Becomes(r, Answer(req[r], 204, None))
  BY <1>2, NothingSound, QuietStep
<1> QED
  BY Zenon, <1>1, <1>2

LEMMA VolumeCountStep ==
  ASSUME IInv, NEW r \in Reqs, VolumeCount(r)
  PROVE  Good
<1> DEFINE q == req[r]
<1>1. q.pc = "rmget" /\ Reads /\ Proper(q)
  BY Zenon, Served DEF VolumeCount, At, Reads
<1>2. \/ Becomes(r, Answer(q, 204, None)) \/ Becomes(r, Answer(q, 500, None))
      \/ Becomes(r, Goto(q, "rmrow"))
  BY Zenon DEF VolumeCount
<1>3. CASE Becomes(r, Answer(q, 204, None))
  BY Zenon, <1>1, <1>3, NothingStep
<1>4. CASE Becomes(r, Answer(q, 500, None))
  BY <1>1, <1>4, AnswerStep
<1>5. CASE Becomes(r, Goto(q, "rmrow"))
  <2> DEFINE x == Goto(q, "rmrow")
  <2>1. q.pc \in DeletePcs /\ "rmrow" \in DeletePcs
    BY Zenon, <1>1 DEF DeletePcs
  <2>2. Sound(q, x) /\ x.pc # "volins"
    BY Zenon, <1>1, <2>1, DeleteGoto
  <2> HIDE DEF x
  <2>3. Becomes(r, x)
    BY Zenon, <1>5 DEF x
  <2> QED
    BY Zenon, <1>1, <2>2, <2>3, QuietStep
<1> QED
  BY Zenon, <1>2, <1>3, <1>4, <1>5

\* The row of a volume goes only while nothing is attached to it.
LEMMA VolumeDeleteStep ==
  ASSUME IInv, NEW r \in Reqs, VolumeDelete(r)
  PROVE  Good
<1> DEFINE q == req[r]
<1>1. q.pc = "rmrow" /\ UNCHANGED <<row, dirs, att, raced, slipped>> /\ Proper(q)
  BY Zenon, Served DEF VolumeDelete, At
<1>2. CASE vols' = vols /\ Becomes(r, Answer(q, 500, None))
  <2>1. Reads
    BY Zenon, <1>1, <1>2 DEF Reads
  <2> QED
    BY <1>2, <2>1, AnswerStep
<1>3. CASE Attached(q.name) = {} /\ vols' = vols \ {q.name} /\ Becomes(r, Goto(q, "rmdir"))
  <2> DEFINE x == Goto(q, "rmdir")
  <2>1. q.pc \in DeletePcs /\ "rmdir" \in DeletePcs
    BY Zenon, <1>1 DEF DeletePcs
  <2>2. Sound(q, x) /\ x.pc # "volins"
    BY Zenon, <1>1, <2>1, DeleteGoto
  <2> HIDE DEF x
  <2>3. Becomes(r, x) /\ att' \subseteq Ids \X Names
    BY Zenon, <1>1, <1>3 DEF x, IInv, TypeInv
  <2>4. ASSUME Turns(r, x)
        PROVE  VolumeInv'
    <3>1. ASSUME NEW a \in att
          PROVE  Alive(row, a[1]) /\ a[2] \in vols \ {q.name}
      <4>1. Alive(row, a[1]) /\ a[2] \in vols
        BY Zenon DEF IInv, VolumeInv
      <4>2. a[1] \in Ids /\ a = <<a[1], a[2]>>
        BY DEF IInv, TypeInv
      <4>3. a[2] # q.name
        BY Zenon, <1>3, <4>2 DEF Attached
      <4> QED
        BY Zenon, <4>1, <4>3
    <3>2. \A n \in vols' : n \in dirs' \cup raced'
      BY Zenon, <1>1, <1>3 DEF IInv, VolumeInv
    <3>3. \A s \in Reqs : req'[s].pc = "volins" => req'[s].name \in dirs' \cup raced'
      BY Zenon, <1>1, <2>2, <2>4 DEF IInv, VolumeInv, Turns
    <3>4. \A a \in att' : Alive(row', a[1]) /\ a[2] \in vols'
      BY Zenon, <1>1, <1>3, <3>1
    <3> QED
      BY Zenon, <3>2, <3>3, <3>4 DEF VolumeInv
  <2> QED
    BY Zenon, <1>1, <2>2, <2>3, <2>4, VolumeStep
<1> QED
  BY Zenon, <1>2, <1>3 DEF VolumeDelete

LEMMA VolumeRmdirStep ==
  ASSUME IInv, NEW r \in Reqs, VolumeRmdir(r)
  PROVE  Good
<1> DEFINE q == req[r]
           x == Answer(q, 204, None)
<1>1. /\ UNCHANGED <<row, vols, att, slipped>> /\ Becomes(r, x)
      /\ dirs' = dirs \ {q.name}
      /\ raced' = IF UnderCreation(q.name) \/ q.name \in vols
                  THEN raced \cup {q.name} ELSE raced \ {q.name}
  BY Zenon DEF VolumeRmdir, At
<1>2. Sound(q, x) /\ x.pc # "volins"
  BY SuccessSound
<1> HIDE DEF x
<1>3. att' \subseteq Ids \X Names
  BY Zenon, <1>1 DEF IInv, TypeInv
<1>4. ASSUME Turns(r, x)
      PROVE  VolumeInv'
  <2>1. \A n \in (dirs \cup raced) \ {q.name} : n \in dirs' \cup raced'
    BY Zenon, <1>1
  <2>2. UnderCreation(q.name) \/ q.name \in vols => q.name \in raced'
    BY Zenon, <1>1
  <2>3. \A n \in vols' : n \in dirs' \cup raced'
    BY Zenon, <1>1, <2>1, <2>2 DEF IInv, VolumeInv
  <2>4. ASSUME NEW s \in Reqs, req'[s].pc = "volins"
        PROVE  req'[s].name \in dirs' \cup raced'
    <3>1. req[s].pc = "volins" /\ req'[s].name = req[s].name
      BY Zenon, <1>2, <1>4, <2>4 DEF Turns
    <3>2. req[s].name \in dirs \cup raced
      BY Zenon, <3>1 DEF IInv, VolumeInv
    <3>3. req[s].name = q.name => UnderCreation(q.name)
      BY Zenon, <3>1 DEF UnderCreation
    <3> QED
      BY Zenon, <2>1, <2>2, <3>1, <3>2, <3>3
  <2>5. \A a \in att' : Alive(row', a[1]) /\ a[2] \in vols'
    BY Zenon, <1>1 DEF IInv, VolumeInv
  <2> QED
    BY Zenon, <2>3, <2>4, <2>5 DEF VolumeInv
<1> QED
  BY Zenon, <1>1, <1>2, <1>3, <1>4, VolumeStep

LEMMA PullImageStep ==
  ASSUME IInv, NEW r \in Reqs, PullImage(r)
  PROVE  Good
<1>1. Reads
  BY Zenon DEF PullImage, Reads
<1>2. Becomes(r, Answer(req[r], 200, None)) \/ Becomes(r, Answer(req[r], 500, None))
  BY Zenon DEF PullImage
<1> QED
  BY <1>1, <1>2, NothingStep, AnswerStep

LEMMA RemoveImageStep ==
  ASSUME IInv, NEW r \in Reqs, RemoveImage(r)
  PROVE  Good
<1>1. Reads
  BY Zenon DEF RemoveImage, Reads
<1>2. Becomes(r, Answer(req[r], 204, None)) \/ Becomes(r, Answer(req[r], 404, None))
  BY Zenon DEF RemoveImage
<1> QED
  BY <1>1, <1>2, NothingStep, AnswerStep


-----------------------------------------------------------------------------
(* The engine, a restart, and the first state.                             *)

LEMMA ExitStep ==
  ASSUME IInv, NEW v \in Ids, Exit(v)
  PROVE  Good
<1>1. /\ Active(v) /\ row' = Mark(row, v, "Stopped") /\ row \in [Ids -> Row]
      /\ UNCHANGED <<vols, dirs, att, req, raced, slipped>>
  BY Zenon DEF Exit, Mark, IInv, TypeInv
<1>2. Alive(row, v) /\ "Stopped" \in Statuses
  BY Zenon, <1>1 DEF Active, Alive, Statuses
<1>3. /\ row' \in [Ids -> Row] /\ Shrinks(row, row')
      /\ \A w \in Ids : Alive(row, w) => Alive(row', w)
  BY Zenon, <1>1, <1>2, Marked
<1>4. TypeInv'
  BY Zenon, <1>1, <1>3, AgentsStable DEF IInv, TypeInv
<1>5. Unique(row')
  BY Zenon, <1>3, UniqueStable DEF IInv
<1>6. KnowsInv'
  BY Zenon, <1>1, <1>3, KnowsStable, ShrinksEvolves DEF IInv, TypeInv, KnowsInv
<1>7. VolumeInv'
  <2>1. ASSUME NEW p \in att
        PROVE  Alive(row', p[1])
    <3>1. p[1] \in Ids
      BY Zenon DEF IInv, TypeInv
    <3> QED
      BY Zenon, <1>3, <3>1 DEF IInv, VolumeInv
  <2> QED
    BY Zenon, <1>1, <2>1 DEF IInv, VolumeInv
<1>8. Frugal /\ Matching
  BY Zenon, <1>1, <1>3 DEF Frugal, Matching, Answers
<1> QED
  BY Zenon, <1>4, <1>5, <1>6, <1>7, <1>8 DEF IInv, Good

LEMMA IdleFacts ==
  /\ Idle \in Request /\ ~IsAdmitted(Idle) /\ Idle.pc # "volins" /\ Idle.pc # "done"
  /\ \A R : Knows(Idle, R)
<1>1. Idle \in Request /\ Idle.pc = "idle"
  BY Zenon, IdleProper DEF Proper
<1>2. ~IsAdmitted(Idle) /\ ~Holds(Idle) /\ ~Starts(Idle) /\ Idle.pc # "rmimage"
  BY Zenon, <1>1 DEF IsAdmitted, Holds, Starts, VolumePcs
<1> QED
  BY Zenon, <1>1, <1>2, Unknowing

LEMMA RestartStep ==
  ASSUME IInv, Restart
  PROVE  Good
<1>1. req' = [r \in Reqs |-> Idle] /\ UNCHANGED <<row, vols, dirs, att, raced, slipped>>
  BY Zenon DEF Restart
<1>2. req' \in [Reqs -> Request] /\ \A r \in Reqs : req'[r] = Idle
  BY Zenon, <1>1, IdleFacts
<1>3. TypeInv'
  BY Zenon, <1>1, <1>2, IdleProper DEF IInv, TypeInv
<1>4. Unique(row') /\ KnowsInv'
  BY Zenon, <1>1, <1>2, IdleFacts DEF IInv, KnowsInv
<1>5. VolumeInv'
  BY Zenon, <1>1, <1>2, IdleFacts DEF IInv, VolumeInv
<1>6. Frugal
  <2>1. \A t \in Tenants : Coming(req', t) \subseteq Coming(req, t)
    BY Zenon, <1>2, IdleFacts DEF Coming
  <2>2. Shrinks(row, row')
    BY Zenon, <1>1 DEF Shrinks
  <2> QED
    BY Zenon, <1>1, <2>1, <2>2 DEF Frugal
<1>7. Matching
  BY Zenon, <1>2, IdleFacts DEF Matching, Answers
<1> QED
  BY Zenon, <1>3, <1>4, <1>5, <1>6, <1>7 DEF IInv, Good

LEMMA InitRows ==
  ASSUME Init
  PROVE  /\ row \in [Ids -> Row] /\ Agents(row) /\ \A v \in Ids : Alive(row, v) <=> v = Kept
         /\ req \in [Reqs -> Request] /\ \A r \in Reqs : req[r] = Idle
<1> DEFINE kept == [st |-> "Running", name |-> KeptName, spec |-> DiskLabel]
<1>1. /\ Blank \in Row /\ ~(Blank.st \in Statuses)
      /\ kept \in Row /\ kept.name = KeptName /\ kept.st \in Statuses
  BY Zenon, WorkerAssumption DEF Row, Blank, Statuses
<1> HIDE DEF kept
<1>2. row \in [Ids -> Row] /\ row[Kept] = kept /\ \A v \in Ids \ {Kept} : row[v] = Blank
  BY Zenon, <1>1, WorkerAssumption DEF Init, kept
<1>3. req \in [Reqs -> Request] /\ \A r \in Reqs : req[r] = Idle
  BY Zenon, IdleFacts DEF Init
<1>4. \A v \in Ids : Alive(row, v) <=> v = Kept
  BY Zenon, <1>1, <1>2, WorkerAssumption DEF Alive
<1>5. Agents(row)
  BY Zenon, <1>1, <1>2, <1>4, WorkerAssumption DEF Agents
<1> QED
  BY Zenon, <1>2, <1>3, <1>4, <1>5

LEMMA InitInv == Init => IInv
<1> SUFFICES ASSUME Init PROVE IInv
  BY Zenon
<1>1. TypeInv
  <2>1. att \subseteq Ids \X Names
    BY WorkerAssumption DEF Init
  <2> QED
    BY Zenon, <2>1, InitRows, IdleProper DEF TypeInv
<1>2. Unique(row) /\ KnowsInv
  BY Zenon, InitRows, IdleFacts DEF Unique, KnowsInv
<1>3. VolumeInv
  <2>1. att = {<<Kept, KeptName>>} /\ vols = {KeptName} /\ dirs = {KeptName}
    BY Zenon DEF Init
  <2>2. \A p \in att : p[1] = Kept /\ p[2] = KeptName
    BY <2>1
  <2> QED
    BY Zenon, <2>1, <2>2, InitRows, IdleFacts, WorkerAssumption DEF VolumeInv
<1> QED
  BY Zenon, <1>1, <1>2, <1>3 DEF IInv

LEMMA StepCases ==
  IInv /\ [Next]_vars =>
    IInv' /\ Matching /\ (Frugal \/ \E r \in Reqs : Admitting(r) \/ Inserting(r))
<1> SUFFICES ASSUME IInv, [Next]_vars
             PROVE  Good \/ (IInv' /\ Matching /\ \E r \in Reqs : Admitting(r) \/ Inserting(r))
  BY Zenon DEF Good
<1>1. ASSUME NEW r \in Reqs,
             \/ BeginCreate(r) \/ BeginById(r) \/ BeginClone(r) \/ BeginPull(r)
             \/ BeginDeleteImage(r) \/ Invalid(r)
      PROVE  Good
  BY Zenon, <1>1, BeginCreateStep, BeginByIdStep, BeginCloneStep, BeginPullStep,
     BeginDeleteImageStep, InvalidStep
<1>2. ASSUME NEW r \in Reqs, Step(r)
      PROVE  Good \/ (IInv' /\ Matching /\ (Admitting(r) \/ Inserting(r)))
  <2>1. CASE Lookup(r) \/ AdmitRefused(r) \/ ResolveImage(r) \/ VolumeGet(r) \/ VolumeDir(r)
             \/ VolumeInsert(r) \/ Spawn(r)
    BY Zenon, <2>1, LookupStep, AdmitRefusedStep, ResolveImageStep, VolumeGetStep,
       VolumeDirStep, VolumeInsertStep, SpawnStep
  <2>2. CASE LinkVm(r) \/ WaitReady(r) \/ CreateFailed(r) \/ Poll(r) \/ StartVm(r)
             \/ StartReady(r) \/ RejectOccupied(r) \/ Flatten(r)
    BY Zenon, <2>2, LinkVmStep, WaitReadyStep, CreateFailedStep, PollStep, StartVmStep,
       StartReadyStep, RejectOccupiedStep, FlattenStep
  <2>3. CASE StopForDelete(r) \/ Stopped(r) \/ RemoveVm(r) \/ VolumeCount(r) \/ VolumeDelete(r)
             \/ VolumeRmdir(r) \/ PullImage(r) \/ RemoveImage(r)
    BY Zenon, <2>3, StopForDeleteStep, StoppedStep, RemoveVmStep, VolumeCountStep,
       VolumeDeleteStep, VolumeRmdirStep, PullImageStep, RemoveImageStep
  <2>4. CASE Admit(r)
    BY Zenon, <2>4, AdmitStep
  <2>5. CASE InsertVm(r)
    BY Zenon, <2>5, InsertVmStep DEF Good
  <2> QED
    BY Zenon, <1>2, <2>1, <2>2, <2>3, <2>4, <2>5 DEF Step
<1>3. ASSUME NEW v \in Ids, Exit(v)
      PROVE  Good
  BY Zenon, <1>3, ExitStep
<1>4. CASE Restart
  BY Zenon, <1>4, RestartStep
<1>5. CASE UNCHANGED vars
  <2>1. UNCHANGED <<row, vols, dirs, att, req, raced, slipped>>
    BY Zenon, <1>5 DEF vars
  <2>2. IInv'
    BY Zenon, <2>1 DEF IInv, TypeInv, KnowsInv, VolumeInv
  <2>3. Frugal /\ Matching
    BY Zenon, <2>1 DEF Frugal, Shrinks, Matching, Answers
  <2> QED
    BY Zenon, <2>2, <2>3 DEF Good
<1> QED
  BY Zenon, <1>1, <1>2, <1>3, <1>4, <1>5 DEF Next

LEMMA Invariance == Spec => []IInv
<1>1. IInv /\ [Next]_vars => IInv'
  BY Zenon, StepCases
<1> QED
  BY <1>1, InitInv, PTL DEF Spec

\* For any number of requests, sandboxes and agents, whatever the handlers, exits and
\* restarts interleave: the request records and the tables keep their types, and a row
\* that exists names an agent.
THEOREM TypeCorrect == Spec => []TypeInv
<1>1. IInv => TypeInv
  BY Zenon DEF IInv
<1> QED
  BY <1>1, Invariance, PTL

\* An attached workspace keeps its sandbox, its row and its directory, unless the creation
\* and the removal of that very volume overlapped.
THEOREM WorkspaceKeptHolds == Spec => []WorkspaceKept
<1>1. IInv => WorkspaceKept
  BY Zenon DEF IInv, VolumeInv, WorkspaceKept, Present, Alive
<1> QED
  BY <1>1, Invariance, PTL

\* delete_image takes an image from under no sandbox that was there when it checked.
THEOREM ImageRemovedUnusedHolds == Spec => ImageRemovedUnused
<1>1. IInv => \A r \in Reqs :
                At(r, "rmimage") /\ req'[r].ans = 204 =>
                  \A v \in req[r].seen : Present(v) => row[v].spec # req[r].spec
  BY DEF IInv, KnowsInv, Knows, At, Present, Alive
<1> QED
  BY <1>1, Invariance, PTL DEF ImageRemovedUnused

\* A create, start or clone that did not poll a stopping sandbox is answered with a
\* sandbox of its tenant, and a create with the one of its agent and image, whatever was
\* deleted and created since the handler read the tables: what a request knows of a row
\* stays true because ids are not reused and name and specification never change.
THEOREM AnswerMatchesHolds == Spec => AnswerMatches
<1>1. IInv /\ [Next]_vars => \A r \in Reqs : Answers(r) /\ ~req[r].polled => Matches(r)
  BY Zenon, StepCases DEF Matching
<1> QED
  BY <1>1, Invariance, PTL DEF Spec, AnswerMatches

-----------------------------------------------------------------------------
(* Counting: what rests on the cardinalities of finite sets.               *)

LEMMA Counted ==
  ASSUME NEW T, IsFiniteSet(T), NEW S, S \subseteq T
  PROVE  /\ IsFiniteSet(S) /\ Cardinality(S) \in Nat /\ Cardinality(T) \in Nat
         /\ Cardinality(S) <= Cardinality(T)
<1>1. IsFiniteSet(S) /\ Cardinality(S) <= Cardinality(T)
  BY Zenon, FS_Subset
<1> QED
  BY Zenon, <1>1, FS_CardinalityType

LEMMA AtMostOne ==
  ASSUME NEW e, NEW S, S \subseteq {e}
  PROVE  Cardinality(S) \in Nat /\ Cardinality(S) <= 1
<1>1. IsFiniteSet({e}) /\ Cardinality({e}) = 1
  BY Zenon, FS_Singleton
<1>2. Cardinality(S) \in Nat /\ Cardinality(S) <= Cardinality({e})
  BY Zenon, <1>1, Counted
<1> QED
  BY Zenon, <1>1, <1>2

\* However many creates, clones and restores race for an agent, at most one sandbox row
\* carries its name: the UNIQUE insert decides, not the checks before it.
THEOREM OneSandboxHolds == Spec => []OneSandboxPerAgent
<1>1. ASSUME IInv, NEW n \in Names
      PROVE  Cardinality(Named(n)) <= 1
  <2> DEFINE e == CHOOSE v \in Named(n) : TRUE
  <2>1. \A v, w \in Named(n) : v = w
    BY Zenon, <1>1 DEF IInv, Unique, Named, Present, Alive
  <2>2. Named(n) \subseteq {e}
    BY Zenon, <2>1
  <2> HIDE DEF e
  <2> QED
    BY Zenon, <2>2, AtMostOne
<1>2. IInv => OneSandboxPerAgent
  BY Zenon, <1>1 DEF OneSandboxPerAgent
<1> QED
  BY <1>2, Invariance, PTL

\* How far over its cap a tenant may be, and what it has and is about to have.
Slack(S, t) == IF t \in S THEN Cardinality(Reqs) - 1 ELSE 0
Within(R, Q, S, t) ==
  Cardinality(RowsOf(R, t)) + Cardinality(Coming(Q, t)) <= MaxSandboxes + Slack(S, t)

\* A tenant's sandboxes, and the ones it is about to have, are within the cap and the
\* requests that slipped through together.
AdmissionInv == \A t \in Tenants : Within(row, req, slipped, t)

LEMMA TenantCounts ==
  ASSUME NEW R, NEW Q, NEW t
  PROVE  /\ IsFiniteSet(RowsOf(R, t)) /\ Cardinality(RowsOf(R, t)) \in Nat
         /\ IsFiniteSet(Coming(Q, t)) /\ Cardinality(Coming(Q, t)) \in Nat
         /\ Cardinality(Coming(Q, t)) <= Cardinality(Reqs) /\ Cardinality(Reqs) \in Nat
<1>1. RowsOf(R, t) \subseteq Ids /\ Coming(Q, t) \subseteq Reqs
  BY Zenon DEF RowsOf, Coming
<1>2. IsFiniteSet(Ids) /\ IsFiniteSet(Reqs)
  BY Zenon, WorkerAssumption
<1> QED
  BY Zenon, <1>1, <1>2, Counted

LEMMA SlackInt == \A S, t : Slack(S, t) \in Int
BY TenantCounts DEF Slack

\* Fewer rows and admissions.
LEMMA FewerRows ==
  ASSUME AdmissionInv, Frugal
  PROVE  AdmissionInv'
<1> SUFFICES ASSUME NEW t \in Tenants
             PROVE  Within(row', req', slipped', t)
  BY Zenon DEF AdmissionInv
<1>1. /\ RowsOf(row', t) \subseteq RowsOf(row, t) /\ Coming(req', t) \subseteq Coming(req, t)
      /\ slipped' = slipped
  BY Zenon, RowsOfStable DEF Frugal
<1>2. /\ Cardinality(RowsOf(row', t)) <= Cardinality(RowsOf(row, t))
      /\ Cardinality(Coming(req', t)) <= Cardinality(Coming(req, t))
  BY Zenon, <1>1, Counted, TenantCounts
<1>3. /\ Cardinality(RowsOf(row', t)) \in Nat /\ Cardinality(RowsOf(row, t)) \in Nat
      /\ Cardinality(Coming(req', t)) \in Nat /\ Cardinality(Coming(req, t)) \in Nat
  BY Zenon, TenantCounts
<1>4. Within(row, req, slipped, t)
  BY Zenon DEF AdmissionInv
<1>5. MaxSandboxes \in Nat /\ Slack(slipped, t) \in Int
  BY Zenon, WorkerAssumption, SlackInt
<1> QED
  BY <1>1, <1>2, <1>3, <1>4, <1>5 DEF Within

\* One more admission, below the cap.
LEMMA AdmittedOne ==
  ASSUME AdmissionInv, NEW r \in Reqs, Admitting(r)
  PROVE  AdmissionInv'
<1> DEFINE u == req[r].tenant
<1>1. /\ row' = row /\ Cardinality(RowsOf(row, u)) < MaxSandboxes
      /\ \A t \in Tenants \ {u} :
           Coming(req', t) = Coming(req, t) /\ (t \in slipped' <=> t \in slipped)
      /\ u \in slipped' \/ Coming(req', u) \subseteq {r}
  BY Zenon DEF Admitting
<1> HIDE DEF u
<1> SUFFICES ASSUME NEW t \in Tenants
             PROVE  Within(row', req', slipped', t)
  BY Zenon DEF AdmissionInv
<1>2. CASE t # u
  <2>1. Coming(req', t) = Coming(req, t) /\ (t \in slipped' <=> t \in slipped)
    BY Zenon, <1>1, <1>2
  <2>2. Slack(slipped', t) = Slack(slipped, t)
    BY Zenon, <2>1 DEF Slack
  <2>3. Within(row, req, slipped, t)
    BY Zenon DEF AdmissionInv
  <2> QED
    BY Zenon, <1>1, <2>1, <2>2, <2>3 DEF Within
<1>3. CASE t = u
  <2>1. /\ Cardinality(RowsOf(row, t)) \in Nat /\ Cardinality(Reqs) \in Nat
        /\ Cardinality(Coming(req', t)) \in Nat
        /\ Cardinality(Coming(req', t)) <= Cardinality(Reqs)
    BY Zenon, TenantCounts
  <2>2. ASSUME t \notin slipped'
        PROVE  Cardinality(Coming(req', t)) <= 1
    <3>1. Coming(req', t) \subseteq {r}
      BY Zenon, <1>1, <1>3, <2>2
    <3> QED
      BY Zenon, <3>1, AtMostOne
  <2>3. Cardinality(Coming(req', t)) <= 1 + Slack(slipped', t)
    BY <2>1, <2>2 DEF Slack
  <2>4. MaxSandboxes \in Nat /\ Slack(slipped', t) \in Int
    BY Zenon, WorkerAssumption, SlackInt
  <2>5. row' = row /\ Cardinality(RowsOf(row, t)) < MaxSandboxes
    BY Zenon, <1>1, <1>3
  <2> QED
    BY <2>1, <2>3, <2>4, <2>5 DEF Within
<1> QED
  BY Zenon, <1>2, <1>3

\* An admission becomes a row.
LEMMA InsertedOne ==
  ASSUME AdmissionInv, NEW r \in Reqs, Inserting(r)
  PROVE  AdmissionInv'
<1> DEFINE u == req[r].tenant
<1>1. PICK v \in Ids :
        /\ slipped' = slipped
        /\ \A t \in Tenants \ {u} :
             RowsOf(row', t) = RowsOf(row, t) /\ Coming(req', t) = Coming(req, t)
        /\ v \notin RowsOf(row, u) /\ RowsOf(row', u) = RowsOf(row, u) \cup {v}
        /\ r \in Coming(req, u) /\ Coming(req', u) = Coming(req, u) \ {r}
  BY Zenon DEF Inserting
<1> HIDE DEF u
<1> SUFFICES ASSUME NEW t \in Tenants
             PROVE  Within(row', req', slipped', t)
  BY Zenon DEF AdmissionInv
<1>2. Within(row, req, slipped, t)
  BY Zenon DEF AdmissionInv
<1>3. CASE t # u
  <2>1. RowsOf(row', t) = RowsOf(row, t) /\ Coming(req', t) = Coming(req, t)
    BY Zenon, <1>1, <1>3
  <2> QED
    BY Zenon, <1>1, <1>2, <2>1 DEF Within
<1>4. CASE t = u
  <2>1. IsFiniteSet(RowsOf(row, t)) /\ IsFiniteSet(Coming(req, t))
    BY Zenon, TenantCounts
  <2>2. Cardinality(RowsOf(row, t)) \in Nat /\ Cardinality(Coming(req, t)) \in Nat
    BY Zenon, TenantCounts
  <2>3. Cardinality(RowsOf(row', t)) = Cardinality(RowsOf(row, t)) + 1
    <3>1. v \notin RowsOf(row, t) /\ RowsOf(row', t) = RowsOf(row, t) \cup {v}
      BY Zenon, <1>1, <1>4
    <3> QED
      BY Zenon, <2>1, <3>1, FS_AddElement
  <2>4. Cardinality(Coming(req', t)) = Cardinality(Coming(req, t)) - 1
    <3>1. r \in Coming(req, t) /\ Coming(req', t) = Coming(req, t) \ {r}
      BY Zenon, <1>1, <1>4
    <3> QED
      BY Zenon, <2>1, <3>1, FS_RemoveElement
  <2>5. MaxSandboxes \in Nat /\ Slack(slipped, t) \in Int
    BY Zenon, WorkerAssumption, SlackInt
  <2>6. slipped' = slipped
    BY Zenon, <1>1
  <2> QED
    BY <1>2, <2>2, <2>3, <2>4, <2>5, <2>6 DEF Within
<1> QED
  BY Zenon, <1>3, <1>4

LEMMA InitAdmission == Init => AdmissionInv
<1> SUFFICES ASSUME Init, NEW t \in Tenants
             PROVE  Within(row, req, slipped, t)
  BY Zenon DEF AdmissionInv
<1>1. RowsOf(row, t) \subseteq {Kept} /\ Coming(req, t) = {} /\ slipped = {}
  <2>1. slipped = {}
    BY Zenon DEF Init
  <2> QED
    BY Zenon, <2>1, InitRows, IdleFacts DEF RowsOf, Coming
<1>2. Cardinality(RowsOf(row, t)) \in Nat /\ Cardinality(RowsOf(row, t)) <= 1
  BY Zenon, <1>1, AtMostOne
<1>3. Cardinality({}) = 0
  BY Zenon, FS_EmptySet
<1>4. Cardinality(Coming(req, t)) = 0
  BY Zenon, <1>1, <1>3
<1>5. Slack(slipped, t) = 0
  BY Zenon, <1>1 DEF Slack
<1> QED
  BY <1>2, <1>4, <1>5, WorkerAssumption DEF Within

LEMMA AdmissionInvariance == Spec => []AdmissionInv
<1>1. IInv /\ AdmissionInv /\ [Next]_vars => AdmissionInv'
  BY Zenon, StepCases, FewerRows, AdmittedOne, InsertedOne
<1> QED
  BY <1>1, InitAdmission, Invariance, PTL DEF Spec

\* Admission reads the table long before the insert.  A tenant is never over its cap by
\* more than the other requests in flight, and not at all once an admission came that no
\* other overlapped.
THEOREM AdmissionSlackHolds == Spec => []AdmissionSlack
<1>1. ASSUME AdmissionInv, NEW t \in Tenants
      PROVE  Cardinality({v \in Ids : Present(v) /\ TenantOf[row[v].name] = t})
               <= MaxSandboxes + (IF t \in slipped THEN Cardinality(Reqs) - 1 ELSE 0)
  <2>1. RowsOf(row, t) = {v \in Ids : Present(v) /\ TenantOf[row[v].name] = t}
    BY Zenon DEF RowsOf, Alive, Present
  <2>2. Cardinality(RowsOf(row, t)) \in Nat /\ Cardinality(Coming(req, t)) \in Nat
    BY Zenon, TenantCounts
  <2>3. Within(row, req, slipped, t)
    BY Zenon, <1>1 DEF AdmissionInv
  <2>4. MaxSandboxes \in Nat /\ Slack(slipped, t) \in Int
    BY Zenon, WorkerAssumption, SlackInt
  <2>5. Cardinality(RowsOf(row, t)) <= MaxSandboxes + Slack(slipped, t)
    BY SMTT(20), <2>2, <2>3, <2>4 DEF Within
  <2> QED
    BY Zenon, <2>1, <2>5 DEF Slack
<1>2. AdmissionInv => AdmissionSlack
  BY Zenon, <1>1 DEF AdmissionSlack
<1> QED
  BY <1>2, AdmissionInvariance, PTL
=============================================================================
