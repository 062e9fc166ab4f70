------------------------------ MODULE Replacer ------------------------------
(* The streaming substitution of secrets in a request body                   *)
(* (gvproxy-bridge/mitm_replacer.go): a reader over the guest's body that    *)
(* swaps placeholders for values although the body arrives in pieces and the *)
(* caller reads in pieces of its own.                                        *)
(* A byte is a one-character string; placeholders have the default form      *)
(* <name> and names contain no "<".                                          *)
EXTENDS Naturals, Sequences, SequencesExt, FiniteSetsExt

CONSTANTS
    SecretLists,    \* the lists of [ph, value] a host may have, none empty
    Alphabet,       \* the bytes of bodies
    MaxBody,        \* bound on the length of a body
    BufSize,        \* replacerBufSize
    MaxRead         \* bound on the caller's buffer

VARIABLES
    slist, body,    \* the secrets of the host and the bytes the guest sends
    taken,          \* bytes of body the source has returned
    hold,           \* buf[:bufLen]
    spill,          \* overflow[overPos:]
    sent,           \* what the caller has received
    srcDone,        \* the source has returned io.EOF
    rpc, want,      \* inside Read or not, and the length of the caller's buffer
    ret             \* what the last Read returned

replacerVars == <<slist, body, taken, hold, spill, sent, srcDone, rpc, want, ret>>

\* newStreamingReplacer: the longest placeholder and the set of first bytes.
MaxPlaceholder == Max({Len(slist[i].ph) : i \in DOMAIN slist})
PrefixBytes == {Head(slist[i].ph) : i \in DOMAIN slist}

\* strings.Replacer: one pass from the left, the first pair that matches at a
\* position wins, and a value is not scanned again.
Replace(s) ==
    LET Hits(i) == {k \in DOMAIN slist : IsPrefix(slist[k].ph, SubSeq(s, i, Len(s)))}
        from[i \in 1 .. Len(s) + 1] ==
            IF i > Len(s) THEN <<>>
            ELSE IF Hits(i) = {} THEN <<s[i]>> \o from[i + 1]
            ELSE LET k == Min(Hits(i))
                 IN  slist[k].value \o from[i + Len(slist[k].ph)]
    IN  from[1]

Init ==
    /\ slist = <<>> /\ body = <<>>
    /\ taken = 0
    /\ hold = <<>> /\ spill = <<>> /\ sent = <<>>
    /\ srcDone = FALSE
    /\ rpc = "off"
    /\ want = 0
    /\ ret = "none"

\* secretTransport.RoundTrip wraps the body of a request to a secret's host.
RoundTrip ==
    /\ rpc = "off"
    /\ slist' \in SecretLists
    /\ body' \in BoundedSeq(Alphabet, MaxBody)
    /\ rpc' = "idle"
    /\ UNCHANGED <<taken, hold, spill, sent, srcDone, want, ret>>

-----------------------------------------------------------------------------
\* Mutation: the danger zone is one byte short.
SafeBoundaryShort(b) ==
    IF Len(b) + 1 <= MaxPlaceholder THEN 0
    ELSE LET start == Len(b) + 2 - MaxPlaceholder
             at == {i \in start + 1 .. Len(b) : b[i] \in PrefixBytes}
         IN  IF at = {} THEN Len(b) ELSE Min(at) - 1

\* safeBoundary: how much of the buffer holds no start of a placeholder that
\* the next bytes could complete.
SafeBoundary(b) ==
    IF Len(b) < MaxPlaceholder THEN 0
    ELSE LET start == Len(b) + 1 - MaxPlaceholder
             at == {i \in start + 1 .. Len(b) : b[i] \in PrefixBytes}
         IN  IF at = {} THEN Len(b) ELSE Min(at) - 1

\* containsPrefixByte decides between the raw copy and the replacer.
Translate(s) == IF ToSet(s) \cap PrefixBytes = {} THEN s ELSE Replace(s)

\* copy(p, t): the caller gets what fits and the rest waits in overflow.
Hand(t) ==
    LET n == Min({want, Len(t)})
    IN  /\ sent' = sent \o SubSeq(t, 1, n)
        /\ spill' = SubSeq(t, n + 1, Len(t))

\* The caller calls Read with a buffer of k bytes.  Overflow is drained first.
ReadBegin(k) ==
    /\ rpc = "idle"
    /\ want' = k
    /\ UNCHANGED <<slist, body, taken, hold, srcDone>>
    /\ \/ /\ spill # <<>>
          /\ LET n == Min({k, Len(spill)})
             IN  /\ sent' = sent \o SubSeq(spill, 1, n)
                 /\ spill' = SubSeq(spill, n + 1, Len(spill))
          /\ ret' = "bytes"
          /\ UNCHANGED rpc
       \/ /\ spill = <<>> /\ srcDone /\ hold = <<>>
          /\ rpc' = "end" /\ ret' = "EOF"
          /\ UNCHANGED <<sent, spill>>
       \/ /\ spill = <<>> /\ ~(srcDone /\ hold = <<>>)
          /\ rpc' = "reading"
          /\ UNCHANGED <<sent, spill, ret>>

\* The final chunk: everything held is replaced and emitted.
Final(b) ==
    LET t == Replace(b)
    IN  /\ Hand(t)
        /\ hold' = <<>>
        /\ IF Len(t) <= want THEN rpc' = "end" /\ ret' = "EOF"
                             ELSE rpc' = "idle" /\ ret' = "bytes"

\* The safe part is emitted, what follows moves to the front of the buffer.
Emit(b) ==
    LET t == Translate(SubSeq(b, 1, SafeBoundary(b)))
    IN  /\ Hand(t)
        /\ hold' = SubSeq(b, SafeBoundary(b) + 1, Len(b))
        /\ rpc' = "idle"
        /\ ret' = IF t = <<>> THEN "nothing" ELSE "bytes"

\* One turn of the loop of Read: the source returns n bytes, perhaps with EOF.
ReadSource(n, eof) ==
    LET b == hold \o SubSeq(body, taken + 1, taken + n)
    IN  /\ rpc = "reading" /\ ~srcDone
        /\ n <= BufSize + MaxPlaceholder - Len(hold)
        /\ taken + n <= Len(body)
        /\ eof => taken + n = Len(body)
        /\ n > 0 \/ eof
        /\ taken' = taken + n
        /\ srcDone' = eof
        /\ UNCHANGED <<slist, body, want>>
        /\ \/ /\ b = <<>>
              /\ rpc' = "end" /\ ret' = "EOF"
              /\ UNCHANGED <<hold, spill, sent>>
           \/ b # <<>> /\ eof /\ Final(b)
           \/ b # <<>> /\ ~eof /\ SafeBoundary(b) > 0 /\ Emit(b)
           \/ /\ b # <<>> /\ ~eof /\ SafeBoundary(b) = 0
              /\ hold' = b
              /\ UNCHANGED <<spill, sent, rpc, ret>>

\* The source fails, or the transport closes the body: reads end there.
Abandon ==
    /\ rpc \in {"idle", "reading"}
    /\ rpc' = "failed" /\ ret' = "error"
    /\ UNCHANGED <<slist, body, taken, hold, spill, sent, srcDone, want>>

Next ==
    \/ RoundTrip
    \/ \E k \in 1 .. MaxRead : ReadBegin(k)
    \/ \E n \in 0 .. MaxBody, eof \in BOOLEAN : ReadSource(n, eof)
    \/ Abandon

-----------------------------------------------------------------------------
\* However the body is cut into reads on either side, what the server receives
\* is at every moment a prefix of the body with all its placeholders replaced,
\* all of it when the reader reports the end, and no Read before that returns
\* without a byte (mitm_replacer.go, Read and safeBoundary).
StreamedAsWhole ==
    /\ IsPrefix(sent \o spill, Replace(body))
    /\ ret = "EOF" => sent = Replace(body)
    /\ ret # "nothing"

=============================================================================
