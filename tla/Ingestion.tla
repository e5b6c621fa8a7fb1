----------------------------- MODULE Ingestion ------------------------------
(***************************************************************************)
(* Ingestion jobs (ingestion/run.py, ingestion/watermarks.py): a job opens *)
(* a row of src.ingestion_run on a connection of its own, works in a       *)
(* session_scope nested in it, as every command of cli/ does, and closes   *)
(* the row on the way out.  The session commits before the run is closed.  *)
(* In the session the job moves ONE watermark with advance() or set().     *)
(*                                                                         *)
(* A row lock is held from the first write of the watermark to the end of  *)
(* the transaction; a waiting UPDATE looks at the row again afterwards.    *)
(* Cursor values are numbers, 0 is "no row" (None).                        *)
(***************************************************************************)
EXTENDS Naturals, Sequences, FiniteSets

CONSTANTS
    Runs,        \* calls of ingestion_run
    Refused,     \* those with an unknown source or without an actor
    MaxCursor,   \* bound: cursor values are 1..MaxCursor
    Repairs,     \* the values set() is called with
    MaxRows,     \* bound: calls of increment_rows and set_metadata in a run
    MaxMoves,    \* bound: watermark mutations in one transaction
    MaxFaults    \* bound: lost connections, failed statements, kills

ASSUME IngestionConstants ==
    /\ Refused \subseteq Runs
    /\ MaxCursor \in Nat /\ Repairs \subseteq 1..MaxCursor
    /\ MaxRows \in Nat /\ MaxMoves \in Nat /\ MaxFaults \in Nat

VARIABLES
    status,   \* src.ingestion_run.status, "none" without a row
    final,    \* run -> what the closing transaction wrote and audited
    cursor,   \* src.watermark.cursor_value
    trail,    \* committed watermark audits
    saved,    \* runs whose session, with the job's data, has committed
    pc,       \* run -> where its job is
    conn,     \* run -> its connection: "open", "aborted" or "closed"
    rows,     \* run -> the handle's row counter
    metas,    \* run -> buffered set_metadata audits
    incs,     \* run -> increment_rows audits in the connection's transaction
    mine,     \* run -> uncommitted cursor value of its session, or 0
    notes,    \* run -> uncommitted watermark audits of its session
    seen,     \* run -> cursor the job read last, its expected_cursor
    want,     \* run -> the set() in progress: its argument and what it found
    lost,     \* runs whose process or one of whose connections is lost
    faults

closed   == <<status, final>>
dbVars   == <<cursor, trail, saved>>
runVars  == <<conn, rows, metas, incs>>
sessVars == <<mine, notes, seen, want>>
vars     == <<closed, dbVars, pc, runVars, sessVars, lost, faults>>

-----------------------------------------------------------------------------
Fault(r) == /\ faults < MaxFaults /\ faults' = faults + 1
            /\ lost' = lost \cup {r}

\* A statement fails; process and connections live on.
StatementFault == faults < MaxFaults /\ faults' = faults + 1 /\ UNCHANGED lost

NoFault == UNCHANGED <<lost, faults>>

Nothing == [rows |-> 0, incs |-> 0, metas |-> 0]

NoSet == [to |-> 0, found |-> 0]

Entry(r, op, b, a) == [run |-> r, op |-> op, before |-> b, after |-> a]

Goto(r, l) == pc' = [pc EXCEPT ![r] = l]

Init ==
    /\ status = [r \in Runs |-> "none"] /\ final = [r \in Runs |-> Nothing]
    /\ cursor = 0 /\ trail = <<>> /\ saved = {}
    /\ pc = [r \in Runs |-> "new"] /\ conn = [r \in Runs |-> "closed"]
    /\ rows = [r \in Runs |-> 0] /\ metas = [r \in Runs |-> 0]
    /\ incs = [r \in Runs |-> 0]
    /\ mine = [r \in Runs |-> 0]
    /\ notes = [r \in Runs |-> <<>>] /\ seen = [r \in Runs |-> 0]
    /\ want = [r \in Runs |-> NoSet]
    /\ lost = {} /\ faults = 0

(* The session of r is over: what it has not committed is rolled back.     *)
Discard(r) ==
    /\ mine' = [mine EXCEPT ![r] = 0]
    /\ notes' = [notes EXCEPT ![r] = <<>>]
    /\ want' = [want EXCEPT ![r] = NoSet]
    /\ seen' = [seen EXCEPT ![r] = 0]

\* The connection is given back and the handle is gone: what it had not
\* committed is rolled back.
Release(r) ==
    /\ conn' = [conn EXCEPT ![r] = "closed"] /\ rows' = [rows EXCEPT ![r] = 0]
    /\ metas' = [metas EXCEPT ![r] = 0] /\ incs' = [incs EXCEPT ![r] = 0]

-----------------------------------------------------------------------------
(* ingestion_run: the row and its ingestion_run.start audit are committed  *)
(* at once, or AuditMissingActor or UnknownSource is raised before.        *)
Open(r) ==
    /\ pc[r] = "new" /\ r \notin Refused
    /\ status' = [status EXCEPT ![r] = "running"]
    /\ conn' = [conn EXCEPT ![r] = "open"]
    /\ Goto(r, "body")
    /\ UNCHANGED <<final, dbVars, rows, metas, incs, sessVars>> /\ NoFault

OpenRefused(r) ==
    /\ pc[r] = "new" /\ r \in Refused
    /\ Goto(r, "done")
    /\ UNCHANGED <<closed, dbVars, runVars, sessVars>> /\ NoFault

\* The answer to that commit is lost: the row is there, the body never runs.
OpenLost(r) ==
    /\ pc[r] = "new" /\ r \notin Refused /\ Fault(r)
    /\ status' = [status EXCEPT ![r] = "running"]
    /\ Goto(r, "done")
    /\ UNCHANGED <<final, dbVars, runVars, sessVars>>

(* increment_rows: the counter, then an audit on the run's connection.     *)
IncrementRows(r) ==
    /\ pc[r] = "body" /\ rows[r] < MaxRows
    /\ rows' = [rows EXCEPT ![r] = @ + 1]
    /\ incs' = [incs EXCEPT ![r] = @ + 1]
    /\ UNCHANGED <<closed, dbVars, pc, conn, metas, sessVars>> /\ NoFault

(* The audit fails: Postgres aborts the transaction of the connection,     *)
(* which lives on, and the error leaves the job's body.                    *)
IncrementRowsFails(r) ==
    /\ pc[r] = "body" /\ rows[r] < MaxRows /\ StatementFault
    /\ rows' = [rows EXCEPT ![r] = @ + 1]
    /\ conn' = [conn EXCEPT ![r] = "aborted"]
    /\ incs' = [incs EXCEPT ![r] = 0]
    /\ Discard(r) /\ Goto(r, "failed")
    /\ UNCHANGED <<closed, dbVars, metas>>

(* set_metadata buffers its audit until the run is closed.                 *)
SetMetadata(r) ==
    /\ pc[r] = "body" /\ metas[r] < MaxRows
    /\ metas' = [metas EXCEPT ![r] = @ + 1]
    /\ UNCHANGED <<closed, dbVars, pc, conn, rows, incs, sessVars>> /\ NoFault

-----------------------------------------------------------------------------
(* WatermarkStore.                                                         *)
Sees(r) == IF mine[r] # 0 THEN mine[r] ELSE cursor

Locked(r) == \E q \in Runs \ {r} : mine[q] # 0

Note(r, op, b, a) ==
    notes' = [notes EXCEPT ![r] = Append(@, Entry(r, op, b, a))]

Get(r) ==
    /\ pc[r] = "body" /\ seen[r] # Sees(r)
    /\ seen' = [seen EXCEPT ![r] = Sees(r)]
    /\ UNCHANGED <<closed, dbVars, pc, runVars, mine, notes, want>> /\ NoFault

\* Faulty variant: the UPDATE without "AND cursor_value = :expected".
AdvanceBlind(r, new) ==
    /\ pc[r] = "body" /\ Len(notes[r]) < MaxMoves /\ ~Locked(r)
    /\ mine' = [mine EXCEPT ![r] = new]
    /\ Note(r, "advance", seen[r], new)
    /\ UNCHANGED <<closed, dbVars, pc, runVars, seen, want>> /\ NoFault

(* advance(new_cursor, expected_cursor) with the cursor read last: INSERT  *)
(* ... DO NOTHING when that was None, a guarded UPDATE otherwise.  A hit   *)
(* takes the row lock; a miss changes nothing and is not audited.          *)
Advance(r, new) ==
    /\ pc[r] = "body" /\ Len(notes[r]) < MaxMoves
    /\ ~Locked(r) /\ Sees(r) = seen[r]
    /\ mine' = [mine EXCEPT ![r] = new]
    /\ Note(r, "advance", seen[r], new)
    /\ UNCHANGED <<closed, dbVars, pc, runVars, seen, want>> /\ NoFault

(* set(): a SELECT without a lock decides between idempotent_hit and the   *)
(* upsert, and is the "before" of the audit.                               *)
SetHit(r, v) ==
    /\ pc[r] = "body" /\ Len(notes[r]) < MaxMoves /\ Sees(r) = v
    /\ Note(r, "idempotent_hit", v, v)
    /\ UNCHANGED <<closed, dbVars, pc, runVars, mine, seen, want>> /\ NoFault

SetRead(r, v) ==
    /\ pc[r] = "body" /\ Len(notes[r]) < MaxMoves /\ Sees(r) # v
    /\ want' = [want EXCEPT ![r] = [to |-> v, found |-> Sees(r)]]
    /\ Goto(r, "set")
    /\ UNCHANGED <<closed, dbVars, runVars, mine, notes, seen>> /\ NoFault

SetWrite(r) ==
    /\ pc[r] = "set" /\ ~Locked(r)
    /\ mine' = [mine EXCEPT ![r] = want[r].to]
    /\ Note(r, IF want[r].found = 0 THEN "set" ELSE "force_set",
            want[r].found, want[r].to)
    /\ want' = [want EXCEPT ![r] = NoSet]
    /\ Goto(r, "body")
    /\ UNCHANGED <<closed, dbVars, runVars, seen>> /\ NoFault

-----------------------------------------------------------------------------
(* The way out: session_scope first, then ingestion_run.                   *)
\* Faulty variant: the exception passes the run without closing it.
BodyRaisesUnclosed(r) ==
    /\ pc[r] \in {"body", "set"}
    /\ Discard(r) /\ Release(r) /\ Goto(r, "done")
    /\ UNCHANGED <<closed, dbVars>> /\ NoFault

BodyRaises(r) ==
    /\ pc[r] \in {"body", "set"}
    /\ Discard(r) /\ Goto(r, "failed")
    /\ UNCHANGED <<closed, dbVars, runVars>> /\ NoFault

BodyReturns(r) ==
    /\ pc[r] = "body" /\ Goto(r, "commit")
    /\ UNCHANGED <<closed, dbVars, runVars, sessVars>> /\ NoFault

\* What a commit of r's session makes durable; its row lock is released.
Durable(r) ==
    /\ cursor' = Sees(r) /\ trail' = trail \o notes[r]
    /\ saved' = saved \cup {r}
    /\ Discard(r)

CommitSession(r) ==
    /\ pc[r] = "commit" /\ Durable(r) /\ Goto(r, "succeeded")
    /\ UNCHANGED <<closed, runVars>> /\ NoFault

\* Faulty variant: session_scope swallows the error of commit().
CommitFailsSwallowed(r) ==
    /\ pc[r] = "commit" /\ Fault(r) /\ Goto(r, "succeeded")
    /\ Discard(r) /\ UNCHANGED <<closed, runVars, dbVars>>

\* session.commit() raises: nothing was committed, or the answer was lost.
CommitFails(r) ==
    /\ pc[r] = "commit" /\ Fault(r) /\ Goto(r, "failed")
    /\ \/ Discard(r) /\ UNCHANGED dbVars
       \/ Durable(r)
    /\ UNCHANGED <<closed, runVars>>

(* _close_run: the counters, the buffered audits and the status in one     *)
(* transaction with the audits of increment_rows; a lost answer to its     *)
(* commit changes nothing.                                                 *)
Close(r) ==
    /\ pc[r] \in {"succeeded", "failed"} /\ conn[r] = "open"
    /\ status' = [status EXCEPT ![r] = pc[r]]
    /\ final' = [final EXCEPT ![r] =
                    [rows |-> rows[r], incs |-> incs[r], metas |-> metas[r]]]
    /\ Release(r) /\ Goto(r, "done")
    /\ UNCHANGED <<dbVars, sessVars>> /\ (NoFault \/ Fault(r))

\* The UPDATE fails, in an aborted transaction or because the connection is
\* lost, and the error is raised.  The row stays running.
CloseFails(r) ==
    /\ pc[r] \in {"succeeded", "failed"}
    /\ \/ conn[r] = "aborted" /\ NoFault
       \/ conn[r] = "open" /\ Fault(r)
    /\ Release(r) /\ Goto(r, "done")
    /\ UNCHANGED <<closed, dbVars, sessVars>>

\* The process is killed: both transactions are rolled back.
Crash(r) ==
    /\ pc[r] \notin {"new", "done"} /\ Fault(r)
    /\ Release(r) /\ Discard(r) /\ Goto(r, "done")
    /\ UNCHANGED <<closed, dbVars>>

-----------------------------------------------------------------------------
WayOut(r) == \/ SetWrite(r) \/ BodyReturns(r) \/ CommitSession(r)
             \/ Close(r) \/ CloseFails(r)

Work(r) == \/ Open(r) \/ OpenRefused(r)
           \/ IncrementRows(r) \/ SetMetadata(r) \/ Get(r)
           \/ \E v \in 1..MaxCursor : Advance(r, v)
           \/ \E v \in Repairs : SetHit(r, v) \/ SetRead(r, v)
           \/ BodyRaises(r)

Trouble(r) == OpenLost(r) \/ IncrementRowsFails(r) \/ CommitFails(r) \/ Crash(r)

Next == \E r \in Runs : WayOut(r) \/ Work(r) \/ Trouble(r)

Spec == Init /\ [][Next]_vars

(* A job that is alive goes on: its body ends and the statements it has    *)
(* sent are answered, once the row lock they wait for is free.             *)
Fairness == \A r \in Runs : WF_vars(WayOut(r))

FairSpec == Spec /\ Fairness

-----------------------------------------------------------------------------
Cursors == 0..MaxCursor
Ops == {"advance", "set", "force_set", "idempotent_hit"}
Entries == [run : Runs, op : Ops, before : Cursors, after : Cursors]

(* The values each variable may take.                                      *)
TypeOK ==
    /\ status \in [Runs -> {"none", "running", "succeeded", "failed"}]
    /\ final \in [Runs -> [rows : Nat, incs : Nat, metas : Nat]]
    /\ cursor \in Cursors /\ trail \in Seq(Entries) /\ saved \subseteq Runs
    /\ pc \in [Runs -> {"new", "body", "set", "commit", "succeeded",
                        "failed", "done"}]
    /\ conn \in [Runs -> {"open", "aborted", "closed"}]
    /\ rows \in [Runs -> Nat] /\ metas \in [Runs -> Nat]
    /\ incs \in [Runs -> Nat]
    /\ mine \in [Runs -> Cursors]
    /\ notes \in [Runs -> Seq(Entries)] /\ seen \in [Runs -> Cursors]
    /\ want \in [Runs -> [to : Cursors, found : Cursors]]
    /\ lost \subseteq Runs /\ faults \in Nat

\* Cursor values the audits up to the i-th say the watermark has had, in order.
Moves(i) == {j \in 1..i : trail[j].op # "idempotent_hit"}

CursorAfter(i) ==
    IF Moves(i) = {} THEN 0
    ELSE trail[CHOOSE j \in Moves(i) : \A k \in Moves(i) : k <= j].after

(* watermarks.py:58-60, 177-182: the audit trail tells the watermark's     *)
(* history.  Its last move is the cursor; an advance names as "before" the *)
(* cursor it replaced, whatever other transactions did meanwhile; set()    *)
(* reads without a lock, so its "before" may be old, but was a cursor once.*)
TrailTellsCursor ==
    /\ cursor = CursorAfter(Len(trail))
    /\ \A i \in 1..Len(trail) :
         IF trail[i].op = "advance"
         THEN trail[i].before = CursorAfter(i - 1)
         ELSE \E j \in 0..(i - 1) : trail[i].before = CursorAfter(j)

LeftNothing(r) == r \notin saved /\ \A i \in 1..Len(trail) : trail[i].run # r

(* run.py:213-219 around session.py:20-28: a run is 'succeeded' only once  *)
(* the data and watermark of its session are committed.  One that is       *)
(* 'failed', or still 'running' when ingestion_run has returned, has left  *)
(* nothing, unless its process or a connection was lost.                   *)
StatusMatchesData ==
    \A r \in Runs :
        /\ status[r] = "succeeded" => r \in saved
        /\ status[r] = "failed" /\ r \notin lost => LeftNothing(r)
        /\ pc[r] = "done" /\ status[r] = "running" /\ r \notin lost => LeftNothing(r)

(* run.py:29-30: "Counters accumulate in memory and are flushed atomically *)
(* with the status transition": rows_written of a closed run is the number *)
(* of its increment_rows audits, and an open run has none of either.       *)
CountersMatchAudits ==
    \A r \in Runs :
        /\ final[r].rows = final[r].incs
        /\ status[r] \in {"none", "running"} => final[r] = Nothing

(* run.py:134-137, "on exit UPDATE status to 'succeeded' or 'failed'": so  *)
(* it does when its process and its connections live, with one exception   *)
(* the text does not name: after an increment_rows audit has failed, the   *)
(* transaction is aborted, the UPDATE fails in it, and the row stays       *)
(* 'running' (StatusMatchesData says that it has left nothing).            *)
RunsAreClosed ==
    \A r \in Runs :
        (status[r] = "running" /\ pc[r] # "done")
            ~> \/ status[r] \in {"succeeded", "failed"}
               \/ r \in lost \/ conn[r] = "aborted"

=============================================================================
