----------------------------- MODULE OutboxRelay -----------------------------
(***************************************************************************)
(* What the outbox promises, without drainers, batches, locks, savepoints  *)
(* or faults: an at-least-once relay.  A committed event is copied to the  *)
(* Redis stream any number of times while its row is pending, then its row *)
(* is settled with the id of one of these copies, and from then on it is   *)
(* neither copied nor settled again.  OutboxDrainer implements it.         *)
(***************************************************************************)
EXTENDS Naturals, Sequences

CONSTANT Events       \* event ids

VARIABLES
    accepted,   \* events whose outbox row is committed
    settled,    \* event -> redis id its row names, 0 while it is pending
    copies      \* every entry ever added to the stream

relayVars == <<accepted, settled, copies>>

Init ==
    /\ accepted = {}
    /\ settled = [e \in Events |-> 0]
    /\ copies = <<>>

Accept(e) ==
    /\ accepted' = accepted \cup {e}
    /\ UNCHANGED <<settled, copies>>

(* Only a committed row that is still pending is copied.                   *)
Copy(e) ==
    /\ e \in accepted /\ settled[e] = 0
    /\ copies' = Append(copies, e)
    /\ UNCHANGED <<accepted, settled>>

(* A batch of pending rows is settled, each with a copy of its own event.  *)
Settle(S) ==
    /\ \A e \in S : e \in accepted /\ settled[e] = 0
    /\ \A e \in S : \E r \in 1..Len(copies) : copies[r] = e /\ settled'[e] = r
    /\ settled' \in [Events -> 0..Len(copies)]
    /\ \A e \in Events \ S : settled'[e] = settled[e]
    /\ UNCHANGED <<accepted, copies>>

Next ==
    \/ \E e \in Events : Accept(e) \/ Copy(e)
    \/ \E S \in SUBSET Events : Settle(S)

Spec == Init /\ [][Next]_relayVars
=============================================================================
