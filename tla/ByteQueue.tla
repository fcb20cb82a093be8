----------------------------- MODULE ByteQueue ------------------------------
(***************************************************************************)
(* What the Reader and Writer interfaces promise of a buffer: a queue of   *)
(* bytes that can be read, followed by bytes that were written and not yet *)
(* submitted.  Bytes are numbered in the order they are written; ret is    *)
(* what the last operation returned.                                       *)
(***************************************************************************)
EXTENDS Integers, Sequences

CONSTANT Bufs

VARIABLES readable, pending, ret, written

vars == <<readable, pending, ret, written>>

Init ==
    /\ readable = [b \in Bufs |-> <<>>] /\ pending = [b \in Bufs |-> <<>>]
    /\ ret = <<>> /\ written = 0

First(s, n) == SubSeq(s, 1, n)
Rest(s, n) == SubSeq(s, n + 1, Len(s))
New == [i \in 1..(written' - written) |-> written + i]

\* Next, ReadString, ReadBinary, ReadByte, Until, Skip.
Take(b, n) ==
    /\ readable' = [readable EXCEPT ![b] = Rest(@, n)]
    /\ ret' \in {First(readable[b], n), <<>>}
    /\ UNCHANGED <<pending, written>>

\* Peek and GetBytes; also Release, which returns nothing.
Look(b, n) ==
    /\ ret' = First(readable[b], n)
    /\ UNCHANGED <<readable, pending, written>>

\* Slice
Split(b, p, n) ==
    /\ readable[p] = <<>>
    /\ readable' = [readable EXCEPT ![b] = Rest(@, n), ![p] = First(readable[b], n)]
    /\ ret' = <<>> /\ UNCHANGED <<pending, written>>

\* Malloc, WriteBinary, and WriteDirect before the last k bytes.
Insert(b, k) ==
    /\ written' >= written
    /\ pending' = [pending EXCEPT ![b] = First(@, Len(@) - k) \o New \o Rest(@, Len(@) - k)]
    /\ ret' = <<>> /\ UNCHANGED readable

\* MallocAck: the first n bytes stay.
Keep(b, n) ==
    /\ pending' = [pending EXCEPT ![b] = First(@, n)]
    /\ ret' = <<>> /\ UNCHANGED <<readable, written>>

\* Flush; with new bytes, the poller's input and io.Writer's Write; with n,
\* the Flush of a zcWriter, which sends the first n bytes.
Submit(b, n) ==
    /\ written' >= written
    /\ readable' = [readable EXCEPT ![b] = Rest(@ \o pending[b] \o New, n)]
    /\ pending' = [pending EXCEPT ![b] = <<>>]
    /\ ret' = <<>>

\* Append
Join(b, w) ==
    /\ pending' = [pending EXCEPT ![b] = @ \o readable[w] \o pending[w], ![w] = <<>>]
    /\ readable' = [readable EXCEPT ![w] = <<>>]
    /\ ret' = <<>> /\ UNCHANGED written

\* Close
Drop(b) ==
    /\ readable' = [readable EXCEPT ![b] = <<>>] /\ pending' = [pending EXCEPT ![b] = <<>>]
    /\ ret' = <<>> /\ UNCHANGED written

Next ==
    \E b \in Bufs :
        \/ \E n \in 0..Len(readable[b]) : Take(b, n) \/ Look(b, n)
        \/ \E p \in Bufs \ {b} : \E n \in 1..Len(readable[b]) : Split(b, p, n)
        \/ \E k \in 0..Len(pending[b]) : Insert(b, k) \/ Keep(b, k)
        \/ \E n \in 0..Len(readable[b]) + Len(pending[b]) : Submit(b, n)
        \/ \E w \in Bufs \ {b} : Join(b, w)
        \/ Drop(b)

Spec == Init /\ [][Next]_vars
=============================================================================
