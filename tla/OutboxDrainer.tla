---------------------------- MODULE OutboxDrainer ----------------------------
(***************************************************************************)
(* The outbox drainer (streams/outbox_drainer.py): daemons that move       *)
(* committed streams.outbox rows to a Redis stream with XADD and record    *)
(* every Redis copy in streams.event_id_to_redis, the table the GDPR       *)
(* redaction lookup reads.  One Redis stream is modelled; an event id is a *)
(* model value and a Redis id is the ordinal of its XADD ("0-0" is 0).     *)
(*                                                                         *)
(* A batch is ONE open database transaction: row locks, the published      *)
(* marks and the attempt counters stay private to the drainer until the    *)
(* commit, while XADD and the independent index INSERT take effect at      *)
(* once.  A crash, or an exception that leaves drain_outbox, loses the     *)
(* former and keeps the latter.                                            *)
(***************************************************************************)
EXTENDS Naturals, Sequences, FiniteSets

CONSTANTS
    Events,       \* event ids
    Poison,       \* events whose XADD Redis always refuses (e.g. WRONGTYPE)
    Drainers,     \* drainer processes
    None,         \* "no event" / "no drainer"
    BatchSize,    \* batch_size of the SELECT
    PageSize,     \* count= of the reconciler's XRANGE (1000 in the code)
    MaxLen,       \* redis_default_maxlen
    AlertAfter,   \* max_attempts_before_alert; publish_attempts saturates past it
    FaultKinds,   \* which faults of the environment may happen
    MaxFaults     \* bound: how many faults happen in a behaviour

AllFaults == {"xadd_refused", "xadd_lost", "bound", "index_db", "mark_db",
              "scan", "crash"}

ASSUME DrainerConstants ==
    /\ IsFiniteSet(Events) /\ Poison \subseteq Events
    /\ None \notin Events /\ None \notin Drainers
    /\ BatchSize \in Nat \ {0} /\ PageSize \in Nat \ {0}
    /\ MaxLen \in Nat \ {0} /\ AlertAfter \in Nat /\ MaxFaults \in Nat
    /\ FaultKinds \subseteq AllFaults

VARIABLES
    created,    \* committed outbox rows, in created_at order
    published,  \* event -> redis_message_id of its outbox row, 0 when pending
    attempts,   \* event -> publish_attempts
    lock,       \* event -> drainer whose transaction holds the row lock
    stream,     \* every entry ever XADDed: stream[id] is its event_id
    trimmed,    \* entries 1..trimmed were evicted by MAXLEN ~
    index,      \* redis ids recorded in event_id_to_redis
    pc,         \* drainer -> where it is in _drain_one_batch
    todo,       \* drainer -> rows of the batch not handled yet
    cur,        \* drainer -> the row being handled
    low,        \* drainer -> pre_xadd_lower_bound
    rid,        \* drainer -> redis_message_id of the XADD of this row
    cursor,     \* drainer -> cursor of the reconciliation scan
    upper,      \* drainer -> upper_bound of the reconciliation scan
    marks,      \* drainer -> event -> rid written by this transaction, or 0
    bumps,      \* drainer -> rows whose attempts this transaction bumped
    drained,    \* drainer -> the counter audited with the batch
    audited,    \* sum of drained_count over the stream.outbox_drained audits
    faults      \* how many faults, and how many of them were gaps: kills and
                \* failed recovery scans

redisVars   == <<stream, trimmed>>
rowVars     == <<created, published, attempts>>
localVars   == <<todo, cur, low, rid, cursor, upper, marks, bumps, drained>>
vars        == <<rowVars, lock, redisVars, index, pc, localVars, audited, faults>>

-----------------------------------------------------------------------------
Rows    == {created[i] : i \in 1..Len(created)}
StreamTail    == Len(stream)
Live(r) == r \in trimmed+1 .. StreamTail

Before(e, f) == \E i, j \in 1..Len(created) :
                    i < j /\ created[i] = e /\ created[j] = f

MinOf(a, b) == IF a <= b THEN a ELSE b

Fault(kind) ==
    /\ kind \in FaultKinds /\ faults.all < MaxFaults
    /\ faults' = [all  |-> faults.all + 1,
                  gaps |-> IF kind \in {"crash", "scan"} THEN faults.gaps + 1
                           ELSE faults.gaps]

Init ==
    /\ created = <<>>
    /\ published = [e \in Events |-> 0]
    /\ attempts = [e \in Events |-> 0]
    /\ lock = [e \in Events |-> None]
    /\ stream = <<>> /\ trimmed = 0 /\ index = {}
    /\ pc = [d \in Drainers |-> "idle"]
    /\ todo = [d \in Drainers |-> {}]
    /\ cur = [d \in Drainers |-> None]
    /\ low = [d \in Drainers |-> 0]
    /\ rid = [d \in Drainers |-> 0]
    /\ cursor = [d \in Drainers |-> 0]
    /\ upper = [d \in Drainers |-> 0]
    /\ marks = [d \in Drainers |-> [e \in Events |-> 0]]
    /\ bumps = [d \in Drainers |-> {}]
    /\ drained = [d \in Drainers |-> 0]
    /\ audited = 0 /\ faults = [all |-> 0, gaps |-> 0]

-----------------------------------------------------------------------------
(* A producer's transaction commits: the row of e becomes visible.  The    *)
(* created_at of the row was taken before the commit, so it may sort       *)
(* anywhere among the rows already there.  The UNIQUE(event_id) constraint *)
(* keeps one row per event.                                                *)
CommitPublish(e) ==
    /\ e \notin Rows
    /\ \E i \in 0..Len(created) :
         created' = [j \in 1..Len(created)+1 |->
                        IF j <= i THEN created[j] ELSE IF j = i+1 THEN e ELSE created[j-1]]
    /\ UNCHANGED <<published, attempts, lock, redisVars, index, pc, localVars,
                   audited, faults>>

-----------------------------------------------------------------------------
\* Faulty variant: FOR UPDATE SKIP LOCKED forgotten.
ClaimableUnlocked(e) == e \in Rows /\ published[e] = 0

(* SELECT ... WHERE published_at IS NULL ... FOR UPDATE SKIP LOCKED.       *)
Claimable(e) == e \in Rows /\ published[e] = 0 /\ lock[e] = None

(* ORDER BY created_at LIMIT BatchSize.                                    *)
Oldest(B, C) ==
    /\ B \subseteq C
    /\ Cardinality(B) = MinOf(BatchSize, Cardinality(C))
    /\ \A e \in B, f \in C \ B : Before(e, f)

SelectBatch(d) ==
    /\ pc[d] = "idle"
    /\ LET C == {e \in Events : Claimable(e)}
       IN  /\ C # {}
           /\ \E B \in SUBSET C :
                /\ Oldest(B, C)
                /\ todo' = [todo EXCEPT ![d] = B]
                /\ lock' = [e \in Events |-> IF e \in B THEN d ELSE lock[e]]
    /\ pc' = [pc EXCEPT ![d] = "row"]
    /\ UNCHANGED <<rowVars, redisVars, index, cur, low, rid, cursor, upper,
                   marks, bumps, drained, audited, faults>>

(* The head of the for loop: the next row in order, its SAVEPOINT, and     *)
(* _capture_stream_lower_bound, where a Redis error means "0-0".           *)
CaptureStreamLowerBound == IF StreamTail = 0 THEN 0 ELSE StreamTail + 1

BeginRow(d) ==
    /\ pc[d] = "row" /\ todo[d] # {}
    /\ \E e \in todo[d] :
         /\ \A f \in todo[d] \ {e} : Before(e, f)
         /\ cur' = [cur EXCEPT ![d] = e]
         /\ todo' = [todo EXCEPT ![d] = @ \ {e}]
    /\ rid' = [rid EXCEPT ![d] = 0]
    /\ \/ /\ low' = [low EXCEPT ![d] = CaptureStreamLowerBound]
          /\ UNCHANGED faults
       \/ /\ Fault("bound")
          /\ low' = [low EXCEPT ![d] = 0]
    /\ pc' = [pc EXCEPT ![d] = "xadd"]
    /\ UNCHANGED <<rowVars, lock, redisVars, index, cursor, upper, marks, bumps,
                   drained, audited>>

(* Redis accepts the entry and MAXLEN ~ may evict a prefix, never leaving  *)
(* fewer than MaxLen entries.                                              *)
RedisAccepts(e) ==
    /\ stream' = Append(stream, e)
    /\ trimmed' \in {trimmed} \cup {t \in trimmed+1 .. StreamTail : StreamTail + 1 - t >= MaxLen}

Xadd(d) ==
    /\ pc[d] = "xadd" /\ cur[d] \notin Poison
    /\ RedisAccepts(cur[d])
    /\ rid' = [rid EXCEPT ![d] = StreamTail + 1]
    /\ pc' = [pc EXCEPT ![d] = "index"]
    /\ UNCHANGED <<rowVars, lock, index, todo, cur, low, cursor, upper, marks,
                   bumps, drained, audited, faults>>

(* XADD raises: Redis refused the entry, or took it and the answer was     *)
(* lost.  The except branch runs in either case.                           *)
XaddFails(d) ==
    /\ pc[d] = "xadd"
    /\ \/ cur[d] \in Poison /\ UNCHANGED <<redisVars, faults>>
       \/ Fault("xadd_refused") /\ UNCHANGED redisVars
       \/ cur[d] \notin Poison /\ Fault("xadd_lost") /\ RedisAccepts(cur[d])
    /\ pc' = [pc EXCEPT ![d] = "recover"]
    /\ UNCHANGED <<rowVars, lock, index, localVars, audited>>

\* Faulty variant: the independent index write is skipped.
IndexXaddSkipped(d) ==
    /\ pc[d] = "index"
    /\ pc' = [pc EXCEPT ![d] = "mark"]
    /\ UNCHANGED <<rowVars, lock, redisVars, index, localVars, audited, faults>>

(* The INSERT into event_id_to_redis in a transaction of its own.          *)
IndexXadd(d) ==
    /\ pc[d] = "index"
    /\ index' = index \cup {rid[d]}
    /\ pc' = [pc EXCEPT ![d] = "mark"]
    /\ UNCHANGED <<rowVars, lock, redisVars, localVars, audited, faults>>

IndexXaddFails(d) ==
    /\ pc[d] = "index" /\ Fault("index_db")
    /\ pc' = [pc EXCEPT ![d] = "recover"]
    /\ UNCHANGED <<rowVars, lock, redisVars, index, localVars, audited>>

(* UPDATE outbox and a second INSERT into event_id_to_redis, both in the   *)
(* savepoint, which is released; drained += 1.  They take effect when the  *)
(* transaction commits.                                                    *)
MarkPublished(d) ==
    /\ pc[d] = "mark"
    /\ marks' = [marks EXCEPT ![d][cur[d]] = rid[d]]
    /\ drained' = [drained EXCEPT ![d] = @ + 1]
    /\ cur' = [cur EXCEPT ![d] = None]
    /\ pc' = [pc EXCEPT ![d] = "row"]
    /\ UNCHANGED <<rowVars, lock, redisVars, index, todo, low, rid, cursor,
                   upper, bumps, audited, faults>>

MarkPublishedFails(d) ==
    /\ pc[d] = "mark" /\ Fault("mark_db")
    /\ pc' = [pc EXCEPT ![d] = "recover"]
    /\ UNCHANGED <<rowVars, lock, redisVars, index, localVars, audited>>

-----------------------------------------------------------------------------
(* The except branch: the savepoint is rolled back and                     *)
(* _reconcile_unindexed_xadd reads the stream's tail once, or returns on   *)
(* an empty stream or an empty window.                                     *)
ReconcileStart(d) ==
    /\ pc[d] = "recover"
    /\ IF StreamTail = 0 \/ low[d] > StreamTail
       THEN /\ pc' = [pc EXCEPT ![d] = "bump"]
            /\ UNCHANGED <<cursor, upper>>
       ELSE /\ pc' = [pc EXCEPT ![d] = "scan"]
            /\ cursor' = [cursor EXCEPT ![d] = low[d]]
            /\ upper' = [upper EXCEPT ![d] = StreamTail]
    /\ UNCHANGED <<rowVars, lock, redisVars, index, todo, cur, low, rid, marks,
                   bumps, drained, audited, faults>>

(* XRANGE cursor upper COUNT PageSize: the live entries of from..to-1 are  *)
(* one page when they are PageSize many and the last of them is to-1, or   *)
(* when they are what is left up to the upper bound.                       *)
Page(from, to) == {r \in from..to-1 : Live(r)}

IsPage(from, to, last) ==
    \/ to = last + 1 /\ Cardinality(Page(from, to)) <= PageSize
    \/ to <= last /\ Live(to - 1) /\ Cardinality(Page(from, to)) = PageSize

\* Faulty variant: only the first page is scanned, a fixed window.
ReconcileFirstPageOnly(d) ==
    /\ pc[d] = "scan"
    /\ \E to \in cursor[d]+1 .. upper[d]+1 :
         /\ IsPage(cursor[d], to, upper[d])
         /\ index' = index \cup {r \in Page(cursor[d], to) : stream[r] = cur[d]}
    /\ pc' = [pc EXCEPT ![d] = "bump"]
    /\ UNCHANGED <<rowVars, lock, redisVars, localVars, audited, faults>>

(* One page: every entry of this event is indexed, each in a transaction   *)
(* of its own, and the cursor moves past the page.                         *)
ReconcilePage(d) ==
    /\ pc[d] = "scan"
    /\ \E to \in cursor[d]+1 .. upper[d]+1 :
         /\ IsPage(cursor[d], to, upper[d])
         /\ index' = index \cup {r \in Page(cursor[d], to) : stream[r] = cur[d]}
         /\ cursor' = [cursor EXCEPT ![d] = to]
         /\ pc' = [pc EXCEPT ![d] = IF to > upper[d] THEN "bump" ELSE "scan"]
    /\ UNCHANGED <<rowVars, lock, redisVars, todo, cur, low, rid, upper, marks,
                   bumps, drained, audited, faults>>

(* A Redis or database error inside the reconciler is logged and dropped.  *)
ReconcileFails(d) ==
    /\ pc[d] \in {"recover", "scan"} /\ Fault("scan")
    /\ pc' = [pc EXCEPT ![d] = "bump"]
    /\ UNCHANGED <<rowVars, lock, redisVars, index, localVars, audited>>

\* Faulty variant: the loop is left at the first row that fails.
BumpAttemptsBreaks(d) ==
    /\ pc[d] = "bump"
    /\ bumps' = [bumps EXCEPT ![d] = @ \cup {cur[d]}]
    /\ cur' = [cur EXCEPT ![d] = None]
    /\ todo' = [todo EXCEPT ![d] = {}]
    /\ pc' = [pc EXCEPT ![d] = "row"]
    /\ UNCHANGED <<rowVars, lock, redisVars, index, low, rid, cursor, upper, marks,
                   drained, audited, faults>>

BumpAttempts(d) ==
    /\ pc[d] = "bump"
    /\ bumps' = [bumps EXCEPT ![d] = @ \cup {cur[d]}]
    /\ cur' = [cur EXCEPT ![d] = None]
    /\ pc' = [pc EXCEPT ![d] = "row"]
    /\ UNCHANGED <<rowVars, lock, redisVars, index, todo, low, rid, cursor,
                   upper, marks, drained, audited, faults>>

-----------------------------------------------------------------------------
(* The transaction ends: its locks go and its private state is forgotten.  *)
EndTransaction(d) ==
    /\ lock' = [e \in Events |-> IF lock[e] = d THEN None ELSE lock[e]]
    /\ todo' = [todo EXCEPT ![d] = {}]
    /\ cur' = [cur EXCEPT ![d] = None]
    /\ marks' = [marks EXCEPT ![d] = [e \in Events |-> 0]]
    /\ bumps' = [bumps EXCEPT ![d] = {}]
    /\ drained' = [drained EXCEPT ![d] = 0]
    /\ pc' = [pc EXCEPT ![d] = "idle"]
    /\ low' = [low EXCEPT ![d] = 0] /\ rid' = [rid EXCEPT ![d] = 0]
    /\ cursor' = [cursor EXCEPT ![d] = 0] /\ upper' = [upper EXCEPT ![d] = 0]

\* Faulty variant: the audit counts every row of the batch, failures included.
AuditedCountAll(d) == drained[d] + Cardinality(bumps[d])

(* drained_count of the batch audit, which is written when drained > 0.    *)
AuditedCount(d) == drained[d]

\* Faulty variant: one failed row takes the marks of the batch with it.
CommittedMarksIfClean(d) ==
    IF bumps[d] = {} THEN marks[d] ELSE [e \in Events |-> 0]

(* A failed row undoes its own savepoint and nothing else.                 *)
CommittedMarks(d) == marks[d]

(* The batch audit and session.commit(): the marks take effect, with the   *)
(* index rows written beside them.                                         *)
CommitBatch(d) ==
    /\ pc[d] = "row" /\ todo[d] = {}
    /\ published' = [e \in Events |->
                        IF CommittedMarks(d)[e] # 0 THEN CommittedMarks(d)[e]
                        ELSE published[e]]
    /\ index' = index \cup ({CommittedMarks(d)[e] : e \in Events} \ {0})
    /\ attempts' = [e \in Events |->
                        IF e \in bumps[d] THEN MinOf(attempts[e] + 1, AlertAfter + 1)
                        ELSE attempts[e]]
    /\ audited' = audited + AuditedCount(d)
    /\ EndTransaction(d)
    /\ UNCHANGED <<created, redisVars, faults>>

(* The process dies, or an error outside the per-row try (a failed commit, *)
(* a lost connection) leaves drain_outbox: the transaction rolls back.     *)
Crash(d) ==
    /\ pc[d] # "idle" /\ Fault("crash")
    /\ EndTransaction(d)
    /\ UNCHANGED <<rowVars, redisVars, index, audited>>

-----------------------------------------------------------------------------
DrainerStep(d) ==
    \/ SelectBatch(d) \/ BeginRow(d) \/ Xadd(d) \/ XaddFails(d)
    \/ IndexXadd(d) \/ IndexXaddFails(d)
    \/ MarkPublished(d) \/ MarkPublishedFails(d)
    \/ ReconcileStart(d) \/ ReconcilePage(d) \/ ReconcileFails(d)
    \/ BumpAttempts(d) \/ CommitBatch(d)

Next == \/ \E e \in Events : CommitPublish(e)
        \/ \E d \in Drainers : DrainerStep(d) \/ Crash(d)

Spec == Init /\ [][Next]_vars

(* The daemon keeps polling and is restarted after a crash.                *)
FairSpec == Spec /\ \A d \in Drainers : WF_vars(DrainerStep(d))

-----------------------------------------------------------------------------
PCs == {"idle", "row", "xadd", "index", "mark", "recover", "scan", "bump"}

(* The types of the variables.                                             *)
TypeOK ==
    /\ created \in Seq(Events)
    /\ published \in [Events -> Nat] /\ attempts \in [Events -> 0..AlertAfter+1]
    /\ lock \in [Events -> Drainers \cup {None}]
    /\ stream \in Seq(Events) /\ trimmed \in Nat /\ index \subseteq Nat
    /\ pc \in [Drainers -> PCs]
    /\ todo \in [Drainers -> SUBSET Events]
    /\ cur \in [Drainers -> Events \cup {None}]
    /\ low \in [Drainers -> Nat] /\ rid \in [Drainers -> Nat]
    /\ cursor \in [Drainers -> Nat] /\ upper \in [Drainers -> Nat]
    /\ marks \in [Drainers -> [Events -> Nat]]
    /\ bumps \in [Drainers -> SUBSET Events]
    /\ drained \in [Drainers -> Nat] /\ audited \in Nat
    /\ faults \in [all : 0..MaxFaults, gaps : Nat]

(* _drain_one_batch: a row published with a redis_message_id names an XADD *)
(* of that very event, and that copy is in event_id_to_redis, whatever     *)
(* crashed or failed on the way.                                           *)
PublishedCopyIndexed ==
    \A e \in Events : published[e] # 0 =>
        /\ published[e] \in 1..StreamTail
        /\ stream[published[e]] = e
        /\ published[e] \in index

(* A Redis copy in the hands of the drainer that added it, inside the      *)
(* window that its recovery is going to scan.                              *)
InFlight(r) ==
    \E d \in Drainers :
        /\ cur[d] = stream[r]
        /\ \/ pc[d] = "index" /\ rid[d] = r /\ low[d] <= r
           \/ pc[d] = "recover" /\ low[d] <= r
           \/ pc[d] = "scan" /\ cursor[d] <= r /\ r <= upper[d]

(* F-outbox, the recovery branch of _drain_one_batch: lost XADD answers    *)
(* and failed writes leave no copy that the redaction lookup cannot find.  *)
(* Only a kill or a failed recovery scan does, and each loses one copy.    *)
UnindexedCopiesNeedGaps ==
    Cardinality({r \in 1..StreamTail : Live(r) /\ r \notin index /\ ~InFlight(r)})
        <= faults.gaps

(* At-least-once, and no more often than something went wrong: of every    *)
(* event the stream has one copy, and one more for each fault.  Drainers   *)
(* that race for a row, refused rows beside it in the batch and recovery   *)
(* scans add none.                                                         *)
ExtraCopiesNeedFaults ==
    \A e \in Events :
        Cardinality({r \in 1..StreamTail : stream[r] = e}) <= 1 + faults.all

(* The stream.outbox_drained audits add up to the rows that were published.*)
AuditsCountPublished ==
    audited = Cardinality({e \in Events : published[e] # 0})

(* A published row keeps its redis_message_id: the UPDATE has no guard on  *)
(* published_at, so only the row locks protect it.                         *)
PublishedIsFinal ==
    [][\A e \in Events : published[e] # 0 => published'[e] = published[e]]_vars

(* The abstract relay this module implements: rows, marks and entries seen  *)
(* without the drainers that handle them.                                  *)
Relay == INSTANCE OutboxRelay
            WITH accepted <- Rows, settled <- published, copies <- stream

(* The drainers implement the at-least-once relay: an entry is only added  *)
(* for a committed row that is pending in the database at that moment, a   *)
(* row is published once, with the id of an entry of its own event, and    *)
(* then keeps it and is never added again.  The UPDATE has no guard on     *)
(* published_at, so this rests on FOR UPDATE SKIP LOCKED alone.            *)
ImplementsRelay == Relay!Spec

(* ORDER BY created_at LIMIT n: as long as fewer rows than a batch are     *)
(* refused forever, they do not starve the rows behind them, and a row     *)
(* survives every crash and failure until it is published.                 *)
CommittedRowsArePublished ==
    \A e \in Events \ Poison : (e \in Rows) ~> (published[e] # 0)

=============================================================================
