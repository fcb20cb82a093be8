------------------------------- MODULE MuxQueue -------------------------------
(***************************************************************************)
(* What a mux write queue promises its callers, without shards, triggers   *)
(* or tasks: getters are accepted, each accepted getter is dealt once (to  *)
(* the connection's output buffer, or skipped), a flush sends all that was *)
(* written, and a getter that is not dealt stays pending.                  *)
(***************************************************************************)
CONSTANTS Getters, MayFail

VARIABLES pending, written, skipped, sent, conn

vars == <<pending, written, skipped, sent, conn>>

Init ==
    /\ pending = {} /\ written = {} /\ skipped = {} /\ sent = {}
    /\ conn = "open"

(* Add: getters that were never seen before. *)
Accept ==
    /\ pending \subseteq pending'
    /\ pending' \ pending \subseteq Getters \ (written \cup skipped)
    /\ UNCHANGED <<written, skipped, sent, conn>>

(* A getter's writer is appended to the output buffer. *)
Write ==
    /\ \E g \in pending : pending' = pending \ {g} /\ written' = written \cup {g}
    /\ UNCHANGED <<skipped, sent, conn>>

(* A getter had no writer. *)
Skip ==
    /\ \E g \in pending : pending' = pending \ {g} /\ skipped' = skipped \cup {g}
    /\ UNCHANGED <<written, sent, conn>>

(* An append failed: the connection is closed, some getters are given up. *)
GiveUp ==
    /\ MayFail
    /\ conn' = "closed"
    /\ \E G \in SUBSET pending :
         pending' = pending \ G /\ skipped' = skipped \cup G
    /\ UNCHANGED <<written, sent>>

Flush ==
    /\ conn = "open"
    /\ sent' = written
    /\ UNCHANGED <<pending, written, skipped, conn>>

FlushFails ==
    /\ MayFail
    /\ conn' = "closed"
    /\ UNCHANGED <<pending, written, skipped, sent>>

Next == Accept \/ Write \/ Skip \/ GiveUp \/ Flush \/ FlushFails

Spec == Init /\ [][Next]_vars
====
