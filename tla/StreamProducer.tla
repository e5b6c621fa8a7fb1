--------------------------- MODULE StreamProducer ---------------------------
(***************************************************************************)
(* The transactional outbox writer (streams/producer.py): publish and      *)
(* publish_many attach outbox rows and one audit row to the transaction of *)
(* the caller's AsyncSession, which the caller commits or rolls back.      *)
(* Postgres makes an INSERT wait for an uncommitted row with the same      *)
(* event_id, and ends a cycle of waiters by failing one of them.           *)
(*                                                                         *)
(* Calls are numbered; calls[n] is the set of events of call n, a row is   *)
(* the number of the call that inserted it, and so is an audit row.        *)
(***************************************************************************)
EXTENDS Naturals, Sequences, FiniteSets

CONSTANTS
    Events,       \* event ids
    Unknown,      \* events whose kind is in no stream
    Sessions,     \* AsyncSessions, each with its caller
    Batches,      \* the argument lists of publish (length 1) and publish_many
    StrictCheck,  \* audit_strict as assert_actor_or_strict_raise reads it
    StrictRecord, \* audit_strict as audit.record reads it
    Swallows,     \* exceptions after which a caller may go on and commit
    MaxCalls,     \* bound: calls that reach the database
    MaxFaults     \* bound: database errors and deaths of a caller

Exceptions == {"conflict", "actor", "kind", "db"}

ASSUME ProducerConstants ==
    /\ Unknown \subseteq Events /\ Batches \subseteq Seq(Events) \ {<<>>}
    /\ StrictCheck \in BOOLEAN /\ StrictRecord \in BOOLEAN
    /\ Swallows \subseteq Exceptions
    /\ MaxCalls \in Nat /\ MaxFaults \in Nat

VARIABLES
    outbox,    \* committed rows: event -> call that inserted it, 0 for none
    audits,    \* committed stream.publish audits: the calls they record
    calls,     \* history: the events of every call
    rows,      \* session -> event -> call, the uncommitted rows
    noted,     \* session -> calls audited in the open transaction
    own,       \* session -> the caller wrote rows of its own in it
    failed,    \* session -> Postgres has aborted the transaction
    pc,        \* session -> "caller", "insert" or "audit"
    todo,      \* session -> events of the call that are not inserted yet
    call,      \* session -> number of the running call
    actor,     \* session -> is an actor set in the ContextVar?
    raised,    \* session -> exception of the last call, or "none"
    faults

txVars   == <<rows, noted, own, failed>>
callVars == <<pc, todo, call, actor, raised>>
vars     == <<outbox, audits, calls, txVars, callVars, faults>>

-----------------------------------------------------------------------------
EventsOf(b) == {b[i] : i \in 1..Len(b)}
NoRows      == [e \in Events |-> 0]

Fault == faults < MaxFaults /\ faults' = faults + 1

Init ==
    /\ outbox = NoRows /\ audits = {} /\ calls = <<>>
    /\ rows = [s \in Sessions |-> NoRows]
    /\ noted = [s \in Sessions |-> {}]
    /\ own = [s \in Sessions |-> FALSE]
    /\ failed = [s \in Sessions |-> FALSE]
    /\ pc = [s \in Sessions |-> "caller"]
    /\ todo = [s \in Sessions |-> <<>>]
    /\ call = [s \in Sessions |-> 0]
    /\ actor = [s \in Sessions |-> FALSE]
    /\ raised = [s \in Sessions |-> "none"]
    /\ faults = 0

(* It is the caller's turn and it has not to give up its transaction.      *)
GoesOn(s) == pc[s] = "caller" /\ raised[s] \in Swallows \cup {"none"}

(* The transaction of s is gone, with everything in it.                    *)
Discard(s) ==
    /\ rows' = [rows EXCEPT ![s] = NoRows]
    /\ noted' = [noted EXCEPT ![s] = {}]
    /\ own' = [own EXCEPT ![s] = FALSE]
    /\ failed' = [failed EXCEPT ![s] = FALSE]

(* The call returns to its caller, normally or with an exception.          *)
Return(s, exc) ==
    /\ pc' = [pc EXCEPT ![s] = "caller"]
    /\ todo' = [todo EXCEPT ![s] = <<>>]
    /\ raised' = [raised EXCEPT ![s] = exc]
    /\ UNCHANGED <<call, actor>>

-----------------------------------------------------------------------------
(* The caller writes rows of its own: a filing, an observation.            *)
OwnWrite(s) ==
    /\ GoesOn(s) /\ ~failed[s] /\ ~own[s]
    /\ own' = [own EXCEPT ![s] = TRUE]
    /\ UNCHANGED <<outbox, audits, calls, rows, noted, failed, callVars, faults>>

(* What a call raises before any database I/O: the duplicate ids of phase  *)
(* 0, a missing actor, an unknown kind.  publish looks at the kind before  *)
(* the actor.                                                              *)
Refused(b, hasActor) ==
    LET duplicate == \E i, j \in 1..Len(b) : i < j /\ b[i] = b[j]
        noActor   == StrictCheck /\ ~hasActor
    IN  IF duplicate THEN "conflict"
        ELSE IF noActor /\ Len(b) > 1 THEN "actor"
        ELSE IF EventsOf(b) \cap Unknown # {} THEN "kind"
        ELSE IF noActor THEN "actor" ELSE "none"

(* Such a call, or a call on a transaction that Postgres has aborted.      *)
Refuse(s, b, hasActor) ==
    /\ GoesOn(s)
    /\ \/ Refused(b, hasActor) # "none" /\ Return(s, Refused(b, hasActor))
       \/ Refused(b, hasActor) = "none" /\ failed[s] /\ Return(s, "db")
    /\ UNCHANGED <<outbox, audits, calls, txVars, faults>>

Publish(s, b, hasActor) ==
    /\ GoesOn(s) /\ ~failed[s] /\ Refused(b, hasActor) = "none"
    /\ Len(calls) < MaxCalls
    /\ calls' = Append(calls, EventsOf(b))
    /\ call' = [call EXCEPT ![s] = Len(calls) + 1]
    /\ actor' = [actor EXCEPT ![s] = hasActor]
    /\ todo' = [todo EXCEPT ![s] = b]
    /\ pc' = [pc EXCEPT ![s] = "insert"]
    /\ raised' = [raised EXCEPT ![s] = "none"]
    /\ UNCHANGED <<outbox, audits, txVars, faults>>

-----------------------------------------------------------------------------
(* _insert_outbox, one row at a time.                                      *)
Waits(s, t) == /\ pc[s] = "insert" /\ s # t
               /\ rows[t][Head(todo[s])] # 0

(* UNIQUE(event_id).                                                       *)
Taken(s, e) == outbox[e] # 0 \/ \E t \in Sessions : rows[t][e] # 0

InsertOutbox(s) ==
    /\ pc[s] = "insert" /\ ~Taken(s, Head(todo[s]))
    /\ rows' = [rows EXCEPT ![s][Head(todo[s])] = call[s]]
    /\ todo' = [todo EXCEPT ![s] = Tail(@)]
    /\ pc' = [pc EXCEPT ![s] = IF Tail(todo[s]) = <<>> THEN "audit" ELSE "insert"]
    /\ UNCHANGED <<outbox, audits, calls, noted, own, failed, call, actor, raised,
                   faults>>

\* Faulty variants: the rows inserted so far stay; the INSERT is retried.
InsertConflictKeeps(s) ==
    /\ pc[s] = "insert" /\ Taken(s, Head(todo[s])) /\ \A t \in Sessions : ~Waits(s, t)
    /\ Return(s, "conflict")
    /\ UNCHANGED <<outbox, audits, calls, txVars, faults>>

InsertConflictRetries(s) ==
    /\ pc[s] = "insert" /\ Taken(s, Head(todo[s])) /\ \A t \in Sessions : ~Waits(s, t)
    /\ Discard(s)
    /\ UNCHANGED <<outbox, audits, calls, callVars, faults>>

(* IntegrityError: session.rollback(), then StreamEventIdConflict.         *)
InsertConflict(s) ==
    /\ pc[s] = "insert" /\ Taken(s, Head(todo[s])) /\ \A t \in Sessions : ~Waits(s, t)
    /\ Discard(s)
    /\ Return(s, "conflict")
    /\ UNCHANGED <<outbox, audits, calls, faults>>

(* A database error that is no IntegrityError is raised as it is; Postgres *)
(* drops the rows, releases their locks and refuses further statements.    *)
Abort(s) ==
    /\ rows' = [rows EXCEPT ![s] = NoRows]
    /\ noted' = [noted EXCEPT ![s] = {}]
    /\ failed' = [failed EXCEPT ![s] = TRUE]
    /\ Return(s, "db")
    /\ UNCHANGED <<outbox, audits, calls, own>>

StatementFails(s) == pc[s] \in {"insert", "audit"} /\ Fault /\ Abort(s)

(* The deadlock detector of Postgres fails a member of a cycle.            *)
InCycle(s) ==
    \E C \in SUBSET Sessions :
        /\ s \in C
        /\ \A t \in C : (\E u \in C : Waits(t, u)) /\ (\E u \in C : Waits(u, t))

DeadlockDetected(s) == InCycle(s) /\ Abort(s) /\ UNCHANGED faults

-----------------------------------------------------------------------------
(* audit_record: one row for the whole call.                               *)
RecordAudit(s) ==
    /\ pc[s] = "audit" /\ ~(StrictRecord /\ ~actor[s])
    /\ noted' = [noted EXCEPT ![s] = @ \cup {call[s]}]
    /\ Return(s, "none")
    /\ UNCHANGED <<outbox, audits, calls, rows, own, failed, faults>>

(* audit_record reads audit_strict again, from the environment.            *)
RecordAuditRefused(s) ==
    /\ pc[s] = "audit" /\ StrictRecord /\ ~actor[s]
    /\ Return(s, "actor")
    /\ UNCHANGED <<outbox, audits, calls, txVars, faults>>

-----------------------------------------------------------------------------
(* The caller ends its transaction; COMMIT of an aborted one rolls back.   *)
Commit(s) ==
    /\ GoesOn(s)
    /\ outbox' = [e \in Events |->
                    IF rows[s][e] # 0 THEN rows[s][e] ELSE outbox[e]]
    /\ audits' = audits \cup noted[s]
    /\ Discard(s)
    /\ Return(s, "none")
    /\ UNCHANGED <<calls, faults>>

Rollback(s) ==
    /\ pc[s] = "caller"
    /\ Discard(s)
    /\ Return(s, "none")
    /\ UNCHANGED <<outbox, audits, calls, faults>>

(* The process dies or loses its connection; it starts anew, or never.     *)
Crash(s) ==
    /\ pc[s] # "caller" /\ Fault
    /\ Discard(s)
    /\ Return(s, "none")
    /\ UNCHANGED <<outbox, audits, calls>>

-----------------------------------------------------------------------------
Running(s) ==
    \/ InsertOutbox(s) \/ InsertConflict(s) \/ DeadlockDetected(s)
    \/ RecordAudit(s) \/ RecordAuditRefused(s)

Next == \E s \in Sessions :
    \/ OwnWrite(s) \/ Commit(s) \/ Rollback(s)
    \/ \E b \in Batches, hasActor \in BOOLEAN :
          Refuse(s, b, hasActor) \/ Publish(s, b, hasActor)
    \/ Running(s) \/ StatementFails(s) \/ Crash(s)

Spec == Init /\ [][Next]_vars

(* A started call goes on, and a caller ends its transaction.              *)
FairSpec == Spec /\ \A s \in Sessions :
                       WF_vars(Running(s)) /\ WF_vars(Commit(s) \/ Rollback(s))

-----------------------------------------------------------------------------
(* The types of the variables.                                             *)
TypeOK ==
    /\ calls \in Seq(SUBSET Events)
    /\ outbox \in [Events -> 0..Len(calls)] /\ audits \subseteq 1..Len(calls)
    /\ rows \in [Sessions -> [Events -> 0..Len(calls)]]
    /\ noted \in [Sessions -> SUBSET (1..Len(calls))]
    /\ own \in [Sessions -> BOOLEAN] /\ failed \in [Sessions -> BOOLEAN]
    /\ pc \in [Sessions -> {"caller", "insert", "audit"}]
    /\ todo \in [Sessions -> Seq(Events)]
    /\ \A s \in Sessions : /\ pc[s] = "insert" <=> todo[s] # <<>>
                           /\ pc[s] # "caller" => call[s] # 0
    /\ call \in [Sessions -> 0..Len(calls)] /\ actor \in [Sessions -> BOOLEAN]
    /\ raised \in [Sessions -> Exceptions \cup {"none"}]
    /\ faults \in 0..MaxFaults

(* Critical-contract item 2 and the atomic batch of publish_many: what is  *)
(* committed of a call is all of its rows with its audit, or nothing,      *)
(* although calls of one transaction fail half-way and callers go on.      *)
RowsMatchAudits ==
    \A n \in 1..Len(calls) : \A e \in calls[n] : outbox[e] = n <=> n \in audits

(* _insert_outbox: the row of an event is written once, whichever session  *)
(* publishes the event again.                                              *)
RowIsFinal ==
    [][\A e \in Events : outbox[e] # 0 => outbox'[e] = outbox[e]]_vars

(* Every call returns or raises, also when publish_many calls that share   *)
(* events wait for each other.                                             *)
CallsEnd == \A s \in Sessions : (pc[s] # "caller") ~> (pc[s] = "caller")

=============================================================================
