----------------------------- MODULE DeadLetter -----------------------------
(***************************************************************************)
(* Routing ONE failed message to its dead-letter stream                    *)
(* (streams/deadletter.py), the janitor that finishes or repairs routings  *)
(* (streams/janitor.py), and the operator's retry (cli/streams.py).        *)
(*                                                                         *)
(* Postgres holds the log row, the index row (failure_id -> Redis id) and  *)
(* the intent row (who may XADD, from which lower bound to look for its    *)
(* entry).  Redis holds the dead-letter stream.  Each database transaction *)
(* is one step; every Redis call between two transactions is a step of its *)
(* own.  Redis ids are the ordinals of the XADDs of this failure, 0 is     *)
(* "0-0" or NULL.                                                          *)
(***************************************************************************)
EXTENDS Naturals, FiniteSets

CONSTANTS
    Workers,     \* processes that may run route_to_deadletter
    Clis,        \* the workers that are `aslan streams deadletter retry`
    NoIntent,    \* no row in deadletter_xadd_intent
    Passes,      \* the janitor passes that are run (1..4, or none)
    SlowOwners,  \* may a live owner's heartbeat grow older than 60 s?
    QuietPass4,  \* does pass 4 only run while nothing is being routed?
    MaxFaults    \* bound: failed routes, lost answers, failed passes

CliOwner == "cli"   \* cli:retry:<host>, shared by every retry on a host

ASSUME DeadLetterConstants ==
    /\ Clis \subseteq Workers /\ CliOwner \notin Workers
    /\ Passes \subseteq 1..4 /\ MaxFaults \in Nat
    /\ SlowOwners \in BOOLEAN /\ QuietPass4 \in BOOLEAN

Owner(w) == IF w \in Clis THEN CliOwner ELSE w
Owners   == (Workers \ Clis) \cup {CliOwner}
Intents  == [owner : Owners, low : Nat, stale : BOOLEAN]

ASSUME NoIntentAssumption == NoIntent \notin Intents

VARIABLES
    log,        \* deadletter_log row: "absent", "pending" or "routed"
    logRid,     \* its redis_message_id
    index,      \* deadletter_redis_index row: Redis id, 0 when there is none
    intent,     \* deadletter_xadd_intent row
    dl,         \* Redis: entries of this failure on <stream>.deadletter
    lastId,     \* Redis: the last id handed out
    acked,      \* Redis: the original message was XACKed
    pc, low, rid, ours,     \* worker -> step, lower bound, Redis id, our_xadd
    jpc, jrid, jsnap, jheld,\* janitor: step, Redis id, entries read by pass 4,
                            \* what its open transaction of pass 2 holds
    routeAudited, \* an audit that records the routing exists
    lostAudit,    \* a stream.deadletter_orphan_lost audit exists
    missingAudit, \* a ..._index_orphaned_in_redis audit exists (pass 3)
    faults

dbVars     == <<log, logRid, index, intent>>
redisVars  == <<dl, lastId, acked>>
workerVars == <<pc, low, rid, ours>>
janVars    == <<jpc, jrid, jsnap, jheld>>
auditVars  == <<routeAudited, lostAudit, missingAudit>>
vars       == <<dbVars, redisVars, workerVars, janVars, auditVars, faults>>

-----------------------------------------------------------------------------
Fault == faults < MaxFaults /\ faults' = faults + 1

(* _capture_redis_lower_bound: the last entry, ours or that of another     *)
(* failure, which is before whatever we XADD next; a Redis error counts as *)
(* an empty stream.                                                        *)
LowerBounds == {0, lastId + 1} \cup {r \in dl : \A q \in dl : q <= r}

(* find_orphan: the first entry of this failure at or after the bound.     *)
IsOrphan(r, bound) == r \in dl /\ r >= bound /\ \A q \in dl : q >= bound => r <= q
NoOrphan(bound)    == \A r \in dl : r < bound

Pass4Steps == {"p4read", "p4xdel", "p4index"}

Goto(w, l) == pc' = [pc EXCEPT ![w] = l]

(* route_to_deadletter returns or raises: its locals are gone.             *)
Stop(w) == /\ Goto(w, "idle")
           /\ low' = [low EXCEPT ![w] = 0] /\ rid' = [rid EXCEPT ![w] = 0]
           /\ ours' = [ours EXCEPT ![w] = FALSE]

(* The pass-2 transaction of the janitor has locked the log row, and the   *)
(* intent row when there was one.                                          *)
LogLocked    == jheld # "nothing"
IntentLocked == jheld = "intent_row"

Init ==
    /\ log = "absent" /\ logRid = 0 /\ index = 0 /\ intent = NoIntent
    /\ dl = {} /\ lastId = 0 /\ acked = FALSE
    /\ pc = [w \in Workers |-> "idle"]
    /\ low = [w \in Workers |-> 0]
    /\ rid = [w \in Workers |-> 0]
    /\ ours = [w \in Workers |-> FALSE]
    /\ jpc = "p1" /\ jrid = 0 /\ jsnap = {} /\ jheld = "nothing"
    /\ routeAudited = FALSE /\ lostAudit = FALSE /\ missingAudit = FALSE
    /\ faults = 0

-----------------------------------------------------------------------------
(* Effects on the log, index and intent rows that several handlers share.  *)

\* UPDATE deadletter_log ... WHERE routed_at_redis IS NULL
RouteLog(r) ==
    IF log = "pending" THEN log' = "routed" /\ logRid' = r
    ELSE UNCHANGED <<log, logRid>>

\* INSERT INTO deadletter_redis_index ... ON CONFLICT DO NOTHING
Canonical(r) == IF index = 0 THEN r ELSE index

-----------------------------------------------------------------------------
(* Step 1: the log row, inserted or found.  A consumer routes a message of *)
(* its PEL; the operator retries a failure that is in the log.             *)
LogFailure(w) ==
    /\ pc[w] = "idle" /\ ~LogLocked
    /\ IF w \in Clis THEN log # "absent" ELSE ~acked
    /\ QuietPass4 => jpc \notin Pass4Steps
    /\ log' = IF log = "absent" THEN "pending" ELSE log
    /\ Goto(w, IF logRid # 0 THEN "xack" ELSE "lookup")
    /\ UNCHANGED <<logRid, index, intent, redisVars, low, rid, ours, janVars,
                   auditVars, faults>>

(* Step 2: an index row means that only step 4 is left.                    *)
LookupIndex(w) ==
    /\ pc[w] = "lookup"
    /\ IF index # 0
       THEN /\ rid' = [rid EXCEPT ![w] = index]
            /\ ours' = [ours EXCEPT ![w] = FALSE]
            /\ Goto(w, "step4")
       ELSE Goto(w, "bound") /\ UNCHANGED <<rid, ours>>
    /\ UNCHANGED <<dbVars, redisVars, low, janVars, auditVars, faults>>

(* Step 2.4.                                                               *)
CaptureLowerBound(w) ==
    /\ pc[w] = "bound"
    /\ \E b \in LowerBounds : low' = [low EXCEPT ![w] = b]
    /\ Goto(w, "adopt")
    /\ UNCHANGED <<dbVars, redisVars, rid, ours, janVars, auditVars, faults>>

-----------------------------------------------------------------------------
(* Step 2.5, acquire_or_adopt_intent: one transaction that holds the       *)
(* intent row, into which the lower bound goes for good.  The retry after  *)
(* a vanished row is a later execution of the same step.                   *)
OwnIntent(o, b) == intent' = [owner |-> o, low |-> b, stale |-> FALSE]

\* Fresh INSERT, or refresh of our own row, which keeps its bound.
MayOwn(o) == intent = NoIntent \/ (intent # NoIntent /\ intent.owner = o)

AcquireIntent(w) ==
    /\ pc[w] = "adopt" /\ ~LogLocked /\ MayOwn(Owner(w))
    /\ OwnIntent(Owner(w), IF intent = NoIntent THEN low[w] ELSE intent.low)
    /\ low' = [low EXCEPT ![w] = 0]
    /\ Goto(w, "xadd")
    /\ UNCHANGED <<log, logRid, index, redisVars, rid, ours, janVars,
                   auditVars, faults>>

\* Faulty variant: an aborted route is taken for a completed one.
AbortRouteAcks(w) ==
    /\ pc[w] = "adopt" /\ ~LogLocked /\ ~MayOwn(Owner(w)) /\ ~intent.stale
    /\ Goto(w, "xack")
    /\ UNCHANGED <<dbVars, redisVars, low, rid, ours, janVars, auditVars, faults>>

\* Another owner with a fresh heartbeat: the message stays in the PEL.
AbortRoute(w) ==
    /\ pc[w] = "adopt" /\ ~LogLocked /\ ~MayOwn(Owner(w)) /\ ~intent.stale
    /\ Stop(w)
    /\ UNCHANGED <<dbVars, redisVars, janVars, auditVars, faults>>

\* Stale, and the prior owner's entry is there: finish its routing.
ReconcileIntent(r) ==
    /\ index' = Canonical(r)
    /\ RouteLog(Canonical(r))
    /\ intent' = NoIntent
    /\ routeAudited' = TRUE

AdoptReconcile(w) ==
    /\ pc[w] = "adopt" /\ ~LogLocked /\ ~MayOwn(Owner(w)) /\ intent.stale
    /\ \E r \in dl : IsOrphan(r, intent.low) /\ ReconcileIntent(r)
    /\ Goto(w, "xack")
    /\ UNCHANGED <<redisVars, low, rid, ours, janVars, lostAudit, missingAudit,
                   faults>>

\* Stale, and nothing there: replace-and-own.
AdoptReplace(w) ==
    /\ pc[w] = "adopt" /\ ~LogLocked /\ ~MayOwn(Owner(w)) /\ intent.stale
    /\ NoOrphan(intent.low)
    /\ OwnIntent(Owner(w), low[w])
    /\ lostAudit' = TRUE
    /\ low' = [low EXCEPT ![w] = 0]
    /\ Goto(w, "xadd")
    /\ UNCHANGED <<log, logRid, index, redisVars, rid, ours, janVars,
                   routeAudited, missingAudit, faults>>

-----------------------------------------------------------------------------
(* Step 3: XADD, then INSERT index and (3.5) DELETE intent in one          *)
(* transaction.                                                            *)
Xadd(w) ==
    /\ pc[w] = "xadd"
    /\ lastId' = lastId + 1
    /\ dl' = dl \cup {lastId + 1}
    /\ rid' = [rid EXCEPT ![w] = lastId + 1]
    /\ ours' = [ours EXCEPT ![w] = TRUE]
    /\ Goto(w, "index")
    /\ UNCHANGED <<dbVars, acked, low, janVars, auditVars, faults>>

InsertIndex(w) ==
    /\ pc[w] = "index" /\ index = 0 /\ ~IntentLocked
    /\ index' = rid[w]
    /\ intent' = NoIntent
    /\ Goto(w, "step4")
    /\ UNCHANGED <<log, logRid, redisVars, low, rid, ours, janVars, auditVars,
                   faults>>

(* The INSERT fails: the primary key is taken, or any database error.  Our *)
(* entry is XDELed, where an error of XDEL is ignored; then the winner's   *)
(* id is read and its routing is completed.                                *)
InsertIndexFails(w) ==
    /\ pc[w] = "index"
    /\ \/ index # 0 /\ dl' = dl \ {rid[w]} /\ UNCHANGED faults
       \/ index # 0 /\ Fault /\ UNCHANGED dl
       \/ index = 0 /\ Fault /\ dl' = dl \ {rid[w]}
    /\ ours' = [ours EXCEPT ![w] = FALSE]
    /\ Goto(w, "winner")
    /\ UNCHANGED <<dbVars, lastId, acked, low, rid, janVars, auditVars>>

ReadWinner(w) ==
    /\ pc[w] = "winner" /\ index # 0
    /\ rid' = [rid EXCEPT ![w] = index]
    /\ Goto(w, "step4")
    /\ UNCHANGED <<dbVars, redisVars, low, ours, janVars, auditVars, faults>>

\* No winner: the database error is raised again.
NoWinner(w) ==
    /\ pc[w] = "winner" /\ index = 0
    /\ Stop(w)
    /\ UNCHANGED <<dbVars, redisVars, janVars, auditVars, faults>>

-----------------------------------------------------------------------------
(* Step 4: the race-detecting UPDATE, with the stream.deadletter audit.    *)
UpdateLog(w) ==
    /\ pc[w] = "step4" /\ ~LogLocked /\ log = "pending"
    /\ RouteLog(rid[w])
    /\ routeAudited' = TRUE
    /\ Goto(w, "xack")
    /\ UNCHANGED <<index, intent, redisVars, low, rid, ours, janVars, lostAudit,
                   missingAudit, faults>>

\* Faulty variant: the entry is deleted even when it is the winner's.
LoseRaceAnyXdel(w) ==
    /\ pc[w] = "step4" /\ ~LogLocked /\ log = "routed"
    /\ IF ours[w] THEN dl' = dl \ {rid[w]} /\ Goto(w, "unindex")
       ELSE UNCHANGED dl /\ Goto(w, "xack")
    /\ UNCHANGED <<dbVars, lastId, acked, low, rid, ours, janVars, auditVars, faults>>

(* The UPDATE matched no row.  Our own entry, if it is not the winner's,   *)
(* is XDELed while the DELETE of its index row is not committed yet; an    *)
(* error of XDEL is ignored.                                               *)
LoseRace(w) ==
    /\ pc[w] = "step4" /\ ~LogLocked /\ log = "routed"
    /\ \/ /\ ours[w] /\ logRid # rid[w]
          /\ Goto(w, "unindex")
          /\ \/ dl' = dl \ {rid[w]} /\ UNCHANGED faults
             \/ Fault /\ UNCHANGED dl
       \/ /\ ~(ours[w] /\ logRid # rid[w])
          /\ Goto(w, "xack")
          /\ UNCHANGED <<dl, faults>>
    /\ UNCHANGED <<dbVars, lastId, acked, low, rid, ours, janVars, auditVars>>

CommitUnindex(w) ==
    /\ pc[w] = "unindex"
    /\ index' = IF index = rid[w] THEN 0 ELSE index
    /\ Goto(w, "xack")
    /\ UNCHANGED <<log, logRid, intent, redisVars, low, rid, ours, janVars,
                   auditVars, faults>>

(* Step 5: StreamConsumer._route XACKs; the operator's retry only reports. *)
AckOriginal(w) ==
    /\ pc[w] = "xack"
    /\ acked' = IF w \in Clis THEN acked ELSE TRUE
    /\ Stop(w)
    /\ UNCHANGED <<dbVars, dl, lastId, janVars, auditVars, faults>>

(* An error or a kill ends the route; open transactions roll back.  The    *)
(* process is back with the same owner id, or never acts again.            *)
FailRoute(w) ==
    /\ pc[w] # "idle" /\ Fault
    /\ Stop(w)
    /\ UNCHANGED <<dbVars, redisVars, janVars, auditVars>>

\* XADD was executed but its answer is lost.
LoseXaddAnswer(w) ==
    /\ pc[w] = "xadd" /\ Fault
    /\ lastId' = lastId + 1
    /\ dl' = dl \cup {lastId + 1}
    /\ Stop(w)
    /\ UNCHANGED <<dbVars, acked, janVars, auditVars>>

-----------------------------------------------------------------------------
(* 60 seconds without a heartbeat.  Nothing in StreamConsumer or the CLI   *)
(* starts heartbeat_active_intents, so with SlowOwners the row of a live   *)
(* owner goes stale too.                                                   *)
HoldsIntent(w) == /\ intent # NoIntent /\ intent.owner = Owner(w)
                  /\ pc[w] \in {"xadd", "index"}

HeartbeatExpires ==
    /\ intent # NoIntent /\ ~intent.stale
    /\ SlowOwners \/ \A w \in Workers : ~HoldsIntent(w)
    /\ intent' = [intent EXCEPT !.stale = TRUE]
    /\ UNCHANGED <<log, logRid, index, redisVars, workerVars, janVars, auditVars,
                   faults>>

-----------------------------------------------------------------------------
(* The janitor's cycle.  Passes 1 and 2 select their rows in one           *)
(* transaction and handle each in another, in which acquire_or_adopt_intent*)
(* runs under the janitor's own owner id.  That intent is always deleted   *)
(* before the commit, so no committed intent belongs to the janitor.       *)
JGoto(l) == jpc' = l

Unused == <<redisVars, workerVars, jrid, jsnap, missingAudit, faults>>

\* Faulty variant: no intent ever counts as stale.
StaleIntentNever == FALSE

StaleIntent == intent # NoIntent /\ intent.stale
StaleNoOrphan == StaleIntent /\ NoOrphan(intent.low)

ReconcileStale ==
    /\ StaleIntent
    /\ \E r \in dl : IsOrphan(r, intent.low) /\ ReconcileIntent(r)

Pass1Select ==
    /\ jpc = "p1"
    /\ JGoto(IF 1 \in Passes /\ StaleIntent THEN "p1act" ELSE "p2")
    /\ UNCHANGED <<dbVars, jheld, routeAudited, lostAudit, Unused>>

\* A stale intent is finished or dropped; a fresh or vanished one is left.
Pass1Act ==
    /\ jpc = "p1act"
    /\ \/ ReconcileStale /\ UNCHANGED lostAudit
       \/ /\ StaleNoOrphan
          /\ intent' = NoIntent /\ lostAudit' = TRUE
          /\ UNCHANGED <<log, logRid, index, routeAudited>>
       \/ /\ ~StaleIntent
          /\ UNCHANGED <<dbVars, routeAudited, lostAudit>>
    /\ JGoto("p2")
    /\ UNCHANGED <<jheld, Unused>>

Pass2Select ==
    /\ jpc = "p2"
    /\ JGoto(IF 2 \in Passes /\ log = "pending" THEN "p2act" ELSE "p3")
    /\ UNCHANGED <<dbVars, jheld, routeAudited, lostAudit, Unused>>

\* Aborted by a fresh intent, or reconciled by the adoption itself.
Pass2Adopted ==
    /\ jpc = "p2act"
    /\ \/ /\ intent # NoIntent /\ ~intent.stale
          /\ UNCHANGED <<dbVars, routeAudited>>
       \/ ReconcileStale
    /\ JGoto("p3")
    /\ UNCHANGED <<jheld, lostAudit, Unused>>

\* Faulty variant: the index row is not looked up (F2).
Pass2OwnUnindexed ==
    /\ jpc = "p2act" /\ (intent = NoIntent \/ StaleNoOrphan)
    /\ jheld' = IF intent = NoIntent THEN "new_row" ELSE "intent_row"
    /\ JGoto("p2scan")
    /\ UNCHANGED <<dbVars, redisVars, workerVars, jrid, jsnap, auditVars, faults>>

(* "own": _finish_routing_after_adoption locks the log row and reads the   *)
(* index, in the transaction that holds the intent.  It does not look at   *)
(* routed_at_redis again.                                                  *)
Pass2Own ==
    /\ jpc = "p2act" /\ (intent = NoIntent \/ StaleNoOrphan)
    /\ jheld' = IF intent = NoIntent THEN "new_row" ELSE "intent_row"
    /\ IF index # 0 THEN JGoto("p2commit") /\ jrid' = index
       ELSE JGoto("p2scan") /\ UNCHANGED jrid
    /\ UNCHANGED <<dbVars, redisVars, workerVars, jsnap, auditVars, faults>>

\* _resolve_canonical_orphan: the whole stream is searched.
Pass2Scan ==
    /\ jpc = "p2scan"
    /\ \/ \E r \in dl : IsOrphan(r, 0) /\ jrid' = r /\ JGoto("p2commit")
       \/ dl = {} /\ JGoto("p2xadd") /\ UNCHANGED jrid
    /\ UNCHANGED <<dbVars, redisVars, workerVars, jsnap, jheld, auditVars, faults>>

Pass2Xadd ==
    /\ jpc = "p2xadd"
    /\ lastId' = lastId + 1
    /\ dl' = dl \cup {lastId + 1}
    /\ jrid' = lastId + 1
    /\ JGoto("p2commit")
    /\ UNCHANGED <<dbVars, acked, workerVars, jsnap, jheld, auditVars, faults>>

\* Index row if there is none yet, log row, intent row and audits commit.
Pass2Commit ==
    /\ jpc = "p2commit"
    /\ index' = Canonical(jrid)
    /\ RouteLog(jrid)
    /\ intent' = NoIntent
    /\ routeAudited' = TRUE
    /\ lostAudit' = (lostAudit \/ jheld = "intent_row")
    /\ jheld' = "nothing" /\ jrid' = 0
    /\ JGoto("p3")
    /\ UNCHANGED <<redisVars, workerVars, jsnap, missingAudit, faults>>

\* Pass 3: one audit when the indexed entry is not on the stream.
Pass3 ==
    /\ jpc = "p3"
    /\ missingAudit' = (missingAudit \/ (3 \in Passes /\ index # 0 /\ index \notin dl))
    /\ JGoto("p4")
    /\ UNCHANGED <<dbVars, redisVars, workerVars, jrid, jsnap, jheld, routeAudited,
                   lostAudit, faults>>

\* Pass 4: XREVRANGE, then each entry, newest first.
Pass4Scan ==
    /\ jpc = "p4"
    /\ LET runs == 4 \in Passes /\ (QuietPass4 => \A w \in Workers : pc[w] = "idle")
       IN  /\ jsnap' = IF runs THEN dl ELSE {}
           /\ JGoto(IF runs /\ dl # {} THEN "p4read" ELSE "p1")
    /\ UNCHANGED <<dbVars, redisVars, workerVars, jrid, jheld, auditVars, faults>>

AfterEntry(rest) == IF rest = {} THEN "p1" ELSE "p4read"

\* Faulty variant: only the newest entry is looked at.
Pass4ReadNewest ==
    /\ jpc = "p4read"
    /\ \E r \in jsnap :
         /\ \A q \in jsnap : q <= r
         /\ jsnap' = {}
         /\ jrid' = IF index = r THEN 0 ELSE r
         /\ JGoto(CASE index = r -> "p1" [] index = 0 -> "p4index" [] OTHER -> "p4xdel")
    /\ UNCHANGED <<dbVars, redisVars, workerVars, jheld, auditVars, faults>>

(* The index row decides; the entry without a log row that the code also   *)
(* deletes cannot exist, since step 1 precedes every XADD.                 *)
Pass4Read ==
    /\ jpc = "p4read"
    /\ \E r \in jsnap :
         /\ \A q \in jsnap : q <= r
         /\ jsnap' = jsnap \ {r}
         /\ jrid' = IF index = r THEN 0 ELSE r
         /\ JGoto(CASE index = r -> AfterEntry(jsnap \ {r})
                    [] index = 0 -> "p4index"
                    [] OTHER     -> "p4xdel")
    /\ UNCHANGED <<dbVars, redisVars, workerVars, jheld, auditVars, faults>>

Pass4Xdel ==
    /\ jpc = "p4xdel"
    /\ dl' = dl \ {jrid}
    /\ jrid' = 0
    /\ JGoto(AfterEntry(jsnap))
    /\ UNCHANGED <<dbVars, lastId, acked, workerVars, jsnap, jheld, auditVars, faults>>

Pass4Index ==
    /\ jpc = "p4index"
    /\ index' = Canonical(jrid)
    /\ RouteLog(jrid)
    /\ routeAudited' = TRUE
    /\ jrid' = 0
    /\ JGoto(AfterEntry(jsnap))
    /\ UNCHANGED <<intent, redisVars, workerVars, jsnap, jheld, lostAudit,
                   missingAudit, faults>>

\* An error rolls a row's transaction back and the pass goes on; what was
\* XADDed stays.
PassFails ==
    /\ Fault
    /\ \/ jpc = "p1act" /\ JGoto("p2")
       \/ jpc \in {"p2act", "p2scan", "p2xadd", "p2commit"} /\ JGoto("p3")
       \/ jpc \in {"p4xdel", "p4index"} /\ JGoto(AfterEntry(jsnap))
    /\ jheld' = "nothing" /\ jrid' = 0
    /\ UNCHANGED <<dbVars, redisVars, workerVars, jsnap, auditVars>>

-----------------------------------------------------------------------------
RouteStep(w) ==
    \/ LookupIndex(w) \/ CaptureLowerBound(w) \/ AcquireIntent(w)
    \/ AbortRoute(w) \/ AdoptReconcile(w) \/ AdoptReplace(w)
    \/ Xadd(w) \/ InsertIndex(w) \/ InsertIndexFails(w)
    \/ ReadWinner(w) \/ NoWinner(w)
    \/ UpdateLog(w) \/ LoseRace(w) \/ CommitUnindex(w) \/ AckOriginal(w)

RouteFault(w) == FailRoute(w) \/ LoseXaddAnswer(w)

JanitorStep ==
    \/ Pass1Select \/ Pass1Act
    \/ Pass2Select \/ Pass2Adopted \/ Pass2Own \/ Pass2Scan \/ Pass2Xadd \/ Pass2Commit
    \/ Pass3 \/ Pass4Scan \/ Pass4Read \/ Pass4Xdel \/ Pass4Index

Next == \/ \E w \in Workers : LogFailure(w) \/ RouteStep(w) \/ RouteFault(w)
        \/ HeartbeatExpires
        \/ JanitorStep \/ PassFails

Spec == Init /\ [][Next]_vars

(* The janitor keeps cycling and a started route goes on (or fails); no    *)
(* consumer has to pick the message up again.                              *)
FairSpec == /\ Spec
            /\ WF_vars(JanitorStep)
            /\ WF_vars(HeartbeatExpires)
            /\ \A w \in Workers : WF_vars(RouteStep(w))

-----------------------------------------------------------------------------
PCs  == {"idle", "lookup", "bound", "adopt", "xadd", "index", "winner",
         "step4", "unindex", "xack"}
JPCs == {"p1", "p1act", "p2", "p2act", "p2scan", "p2xadd", "p2commit", "p3", "p4"}
        \cup Pass4Steps

(* The types of the variables.                                             *)
TypeOK ==
    /\ log \in {"absent", "pending", "routed"} /\ logRid \in Nat /\ index \in Nat
    /\ intent \in Intents \cup {NoIntent}
    /\ dl \subseteq Nat /\ lastId \in Nat /\ acked \in BOOLEAN
    /\ pc \in [Workers -> PCs] /\ low \in [Workers -> Nat]
    /\ rid \in [Workers -> Nat] /\ ours \in [Workers -> BOOLEAN]
    /\ jpc \in JPCs /\ jrid \in Nat /\ jsnap \subseteq Nat
    /\ jheld \in {"nothing", "new_row", "intent_row"}
    /\ routeAudited \in BOOLEAN /\ lostAudit \in BOOLEAN /\ missingAudit \in BOOLEAN
    /\ faults \in 0..MaxFaults

(* StreamConsumer._route: the original message leaves the PEL only once    *)
(* the log row is routed, whoever routed it and whatever failed.           *)
AckedImpliesRouted == acked => log = "routed" /\ logRid # 0

(* deadletter.py step 6 and janitor.py: a routed row was audited in the    *)
(* transaction that routed it.                                             *)
RoutedIsAudited == log = "routed" => routeAudited

(* janitor.py pass 4: what losers, adopted owners, lost answers and failed *)
(* XDELs leave on the dead-letter stream does not stay there.  In the end  *)
(* the failure has no entry but the one its index row names.               *)
LeftoversAreRemoved == <>[](dl \subseteq {index})

(* Janitor passes 1 and 2: once the failure is in the log it is routed,    *)
(* even when every route that was started failed half-way.                 *)
LoggedIsRouted == (log = "pending") ~> (log = "routed")

(* deadletter.py:650-656 claims that the XDEL after a conflicting INSERT   *)
(* no longer loses dead letters: the entry a routed log row points to is   *)
(* on the dead-letter stream.                                              *)
RoutedEntryExists == log = "routed" => logRid \in dl

(* When nothing is in flight the log and the index name the same entry.    *)
Quiet == (\A w \in Workers : pc[w] = "idle") /\ jheld = "nothing"
         /\ jpc \notin Pass4Steps
LogIndexAgree == log = "routed" /\ Quiet => index = logRid

=============================================================================
