------------------------------ MODULE Seccomp ------------------------------
(***************************************************************************)
(* The syscall filter of crates/bux-seccomp: build() compiles an allowlist *)
(* to a BPF program with relative jumps whose offsets are eight bits wide, *)
(* install() checks its length and hands it to the kernel, which runs it   *)
(* on every syscall.  The interpreter is the kernel's (external).          *)
(***************************************************************************)
EXTENDS Naturals, Sequences

CONSTANTS JumpSpan,    \* values of a jump offset: 256 in the code
          MaxLen,      \* instructions the kernel takes: 4096 in the code
          MaxNr        \* syscall numbers are 0 .. MaxNr

VARIABLES allowlist, prog, data, acc, insn, verdict
svars == <<allowlist, prog, data, acc, insn, verdict>>

Native == MaxNr + 1    \* AUDIT_ARCH of the build, and another one
Arches == {Native, Native + 1}
Load(field) == [op |-> "ld", k |-> field, jt |-> 0, jf |-> 0]
JumpEq(k, jt, jf) == [op |-> "jeq", k |-> k, jt |-> jt, jf |-> jf]
Return(action) == [op |-> "ret", k |-> action, jt |-> 0, jf |-> 0]

Init ==
  /\ allowlist = <<>> /\ prog = <<>> /\ data = [arch |-> Native, nr |-> 0]
  /\ acc = 0 /\ insn = 0 /\ verdict = "none"

\* DEFAULT_ALLOWLIST is strictly ascending.
Ascending ==
  UNION {{l \in [1 .. n -> 0 .. MaxNr] : \A i \in 2 .. n : l[i - 1] < l[i]} : n \in 0 .. MaxNr + 1}

\* Mutation: i counted from 1.
AllowOffsetShort(n, i) == (n - i) % JumpSpan
\* `(n - i) as u8` with i counted from 0.
AllowOffset(n, i) == (n - (i - 1)) % JumpSpan

Build(list) ==
  LET n == Len(list) IN
    <<Load("arch"), JumpEq(Native, 0, (n + 2) % JumpSpan), Load("nr")>>
      \o [i \in 1 .. n |-> JumpEq(list[i], AllowOffset(n, i), 0)]
      \o <<Return("kill"), Return("allow")>>

\* install_default: refuse what is too long, then one seccomp(2) call, which
\* may fail; once installed a filter stays.
Install ==
  /\ prog = <<>>
  /\ \E list \in Ascending :
       /\ Len(Build(list)) <= MaxLen
       /\ allowlist' = list
       /\ prog' = Build(list)
  /\ UNCHANGED <<data, acc, insn, verdict>>

\* The process makes a system call.
Syscall ==
  /\ prog # <<>> /\ verdict \in {"none", "allow"} /\ insn = 0
  /\ data' \in [arch : Arches, nr : 0 .. MaxNr]
  /\ insn' = 1 /\ verdict' = "none" /\ acc' = 0
  /\ UNCHANGED <<allowlist, prog>>

\* One instruction of the filter.
Execute ==
  /\ insn \in 1 .. Len(prog)
  /\ LET i == prog[insn] IN
       \/ i.op = "ld" /\ acc' = data[i.k] /\ insn' = insn + 1 /\ UNCHANGED verdict
       \/ i.op = "jeq" /\ insn' = insn + 1 + (IF acc = i.k THEN i.jt ELSE i.jf)
                       /\ UNCHANGED <<acc, verdict>>
       \/ i.op = "ret" /\ verdict' = i.k /\ insn' = 0 /\ UNCHANGED acc
  /\ UNCHANGED <<allowlist, prog, data>>

Next == Install \/ Syscall \/ Execute
Spec == Init /\ [][Next]_svars

-----------------------------------------------------------------------------
\* A native syscall is let through exactly when the list names it, and no
\* jump leaves the program: the offsets build() computes for every position
\* agree, for every list whose offsets fit their eight bits.
\* (A syscall of another architecture is not judged by this property: the
\* offset n + 2 of instruction 1 lands on the last instruction.)
FilterVerdict ==
  /\ insn <= Len(prog)
  /\ Len(allowlist) < JumpSpan /\ data.arch = Native /\ verdict # "none" =>
       (verdict = "allow" <=> \E i \in 1 .. Len(allowlist) : allowlist[i] = data.nr)
=============================================================================
