-------------------------- MODULE DeadLetterProofs --------------------------
(***************************************************************************)
(* Proofs about DeadLetter: types, what an acknowledged message implies,   *)
(* the audit of every routing; and, while no live owner is slow and pass 4 *)
(* meets no route, that no routed entry is lost and that log and index     *)
(* agree.                                                                  *)
(***************************************************************************)
EXTENDS DeadLetter, TLAPS

DbTypes ==
    /\ log \in {"absent", "pending", "routed"} /\ logRid \in Nat /\ index \in Nat
    /\ intent \in Intents \cup {NoIntent}

RedisTypes == dl \subseteq Nat /\ lastId \in Nat /\ acked \in BOOLEAN

WorkerTypes ==
    /\ pc \in [Workers -> PCs] /\ low \in [Workers -> Nat]
    /\ rid \in [Workers -> Nat] /\ ours \in [Workers -> BOOLEAN]

JanitorTypes ==
    /\ jpc \in JPCs /\ jrid \in Nat /\ jsnap \subseteq Nat
    /\ jheld \in {"nothing", "new_row", "intent_row"}

AuditTypes == routeAudited \in BOOLEAN /\ lostAudit \in BOOLEAN /\ missingAudit \in BOOLEAN

FaultTypes == faults \in 0..MaxFaults

Types == DbTypes /\ RedisTypes /\ WorkerTypes /\ JanitorTypes /\ AuditTypes /\ FaultTypes

LEMMA TypesAreTypeOK == Types <=> TypeOK
  BY DEF Types, TypeOK, DbTypes, RedisTypes, WorkerTypes, JanitorTypes, AuditTypes,
         FaultTypes

-----------------------------------------------------------------------------
LEMMA OwnerType == ASSUME NEW w \in Workers PROVE Owner(w) \in Owners
  BY DEF Owner, Owners

LEMMA GotoTypes ==
    ASSUME NEW w \in Workers, Types, NEW l \in PCs, Goto(w, l), UNCHANGED <<low, rid, ours>>
    PROVE  WorkerTypes'
  BY DEF Types, WorkerTypes, Goto

LEMMA StopTypes ==
    ASSUME NEW w \in Workers, Types, Stop(w) PROVE WorkerTypes'
  BY DEF Types, WorkerTypes, Stop, Goto, PCs

LEMMA FaultType == ASSUME Types, Fault PROVE FaultTypes'
  BY DeadLetterConstants DEF Types, FaultTypes, Fault

LEMMA OwnIntentType ==
    ASSUME NEW o \in Owners, NEW b \in Nat, OwnIntent(o, b)
    PROVE  intent' \in Intents \cup {NoIntent}
  BY DEF OwnIntent, Intents

LEMMA IntentLow == ASSUME Types, intent # NoIntent PROVE intent.low \in Nat
  BY DEF Types, DbTypes, Intents

LEMMA RouteLogTypes ==
    ASSUME Types, NEW r \in Nat, RouteLog(r)
    PROVE  log' \in {"absent", "pending", "routed"} /\ logRid' \in Nat
  BY DEF Types, DbTypes, RouteLog

LEMMA CanonicalType == ASSUME Types, NEW r \in Nat PROVE Canonical(r) \in Nat
  BY DEF Types, DbTypes, Canonical

LEMMA ReconcileTypes ==
    ASSUME Types, NEW r \in Nat, ReconcileIntent(r)
    PROVE  DbTypes' /\ routeAudited' \in BOOLEAN
<1>1. Canonical(r) \in Nat
  BY CanonicalType
<1>2. log' \in {"absent", "pending", "routed"} /\ logRid' \in Nat
  BY <1>1, RouteLogTypes DEF ReconcileIntent
<1> QED BY <1>1, <1>2 DEF ReconcileIntent, DbTypes, Types, AuditTypes

-----------------------------------------------------------------------------
LEMMA TypesInit == Init => Types
<1> SUFFICES ASSUME Init PROVE Types
  OBVIOUS
<1>1. DbTypes /\ RedisTypes /\ AuditTypes
  BY DEF Init, DbTypes, RedisTypes, AuditTypes
<1>2. WorkerTypes /\ JanitorTypes
  BY DEF Init, WorkerTypes, JanitorTypes, PCs, JPCs
<1>3. FaultTypes
  BY DeadLetterConstants DEF Init, FaultTypes
<1> QED BY <1>1, <1>2, <1>3 DEF Types

LEMMA TypesWorker ==
    ASSUME NEW w \in Workers, Types, LogFailure(w) \/ RouteStep(w) \/ RouteFault(w)
    PROVE  Types'
<1> USE DEF dbVars, redisVars, workerVars, janVars, auditVars
<1>1. CASE LogFailure(w)
  <2>1. WorkerTypes'
    BY <1>1, GotoTypes DEF LogFailure, PCs
  <2> QED BY <1>1, <2>1 DEF LogFailure, Types, DbTypes, RedisTypes, JanitorTypes,
                            AuditTypes, FaultTypes
<1>2. CASE LookupIndex(w)
  <2>1. WorkerTypes'
    BY <1>2 DEF LookupIndex, Goto, Types, DbTypes, WorkerTypes, PCs
  <2> QED BY <1>2, <2>1 DEF LookupIndex, Types, DbTypes, RedisTypes, JanitorTypes,
                            AuditTypes, FaultTypes
<1>3. CASE CaptureLowerBound(w)
  <2>1. ASSUME NEW b \in LowerBounds PROVE b \in Nat
    <3>1. dl \subseteq Nat
      BY DEF Types, RedisTypes
    <3>2. b = 0 \/ b = lastId + 1 \/ b \in dl
      BY DEF LowerBounds
    <3>3. 0 \in Nat /\ lastId + 1 \in Nat
      BY DEF Types, RedisTypes
    <3> QED BY <3>1, <3>2, <3>3, Zenon
  <2>2. PICK b \in Nat : low' = [low EXCEPT ![w] = b]
    BY <1>3, <2>1 DEF CaptureLowerBound
  <2>3. pc' = [pc EXCEPT ![w] = "adopt"] /\ UNCHANGED <<rid, ours>>
    BY <1>3 DEF CaptureLowerBound, Goto
  <2>4. WorkerTypes'
    BY <2>2, <2>3 DEF Types, WorkerTypes, PCs
  <2> QED BY <1>3, <2>4 DEF CaptureLowerBound, Types, DbTypes, RedisTypes,
                            JanitorTypes, AuditTypes, FaultTypes
<1>4. CASE AcquireIntent(w)
  <2>1. WorkerTypes'
    BY <1>4 DEF AcquireIntent, Goto, Types, WorkerTypes, PCs
  <2>2. (IF intent = NoIntent THEN low[w] ELSE intent.low) \in Nat
    BY IntentLow DEF Types, WorkerTypes
  <2>3. DbTypes'
    BY <1>4, <2>2, OwnerType, OwnIntentType DEF AcquireIntent, Types, DbTypes
  <2> QED BY <1>4, <2>1, <2>3 DEF AcquireIntent, Types, RedisTypes, JanitorTypes,
                                  AuditTypes, FaultTypes
<1>5. CASE AbortRoute(w)
  BY <1>5, StopTypes DEF AbortRoute, Types, DbTypes, RedisTypes, JanitorTypes,
                         AuditTypes, FaultTypes
<1>6. CASE AdoptReconcile(w)
  <2>1. PICK r \in dl : ReconcileIntent(r)
    BY <1>6 DEF AdoptReconcile
  <2>2. DbTypes' /\ routeAudited' \in BOOLEAN
    BY <2>1, ReconcileTypes DEF Types, RedisTypes
  <2>3. WorkerTypes'
    BY <1>6, GotoTypes DEF AdoptReconcile, PCs
  <2> QED BY <1>6, <2>2, <2>3 DEF AdoptReconcile, Types, RedisTypes, JanitorTypes,
                                  AuditTypes, FaultTypes
<1>7. CASE AdoptReplace(w)
  <2>1. WorkerTypes'
    BY <1>7 DEF AdoptReplace, Goto, Types, WorkerTypes, PCs
  <2>2. low[w] \in Nat
    BY DEF Types, WorkerTypes
  <2>3. DbTypes'
    BY <1>7, <2>2, OwnerType, OwnIntentType DEF AdoptReplace, Types, DbTypes
  <2> QED BY <1>7, <2>1, <2>3 DEF AdoptReplace, Types, RedisTypes, JanitorTypes,
                                  AuditTypes, FaultTypes
<1>8. CASE Xadd(w)
  <2>1. WorkerTypes'
    BY <1>8 DEF Xadd, Goto, Types, WorkerTypes, RedisTypes, PCs
  <2> QED BY <1>8, <2>1 DEF Xadd, Types, DbTypes, RedisTypes, JanitorTypes,
                            AuditTypes, FaultTypes
<1>9. CASE InsertIndex(w)
  <2>1. WorkerTypes' /\ rid[w] \in Nat
    BY <1>9, GotoTypes DEF InsertIndex, PCs, Types, WorkerTypes
  <2> QED BY <1>9, <2>1 DEF InsertIndex, Types, DbTypes, RedisTypes, JanitorTypes,
                            AuditTypes, FaultTypes
<1>10. CASE InsertIndexFails(w)
  <2>1. WorkerTypes'
    BY <1>10 DEF InsertIndexFails, Goto, Types, WorkerTypes, PCs
  <2>2. FaultTypes'
    BY <1>10, FaultType DEF InsertIndexFails, Types, FaultTypes
  <2> QED BY <1>10, <2>1, <2>2 DEF InsertIndexFails, Types, DbTypes, RedisTypes,
                                   JanitorTypes, AuditTypes
<1>11. CASE ReadWinner(w)
  <2>1. WorkerTypes'
    BY <1>11 DEF ReadWinner, Goto, Types, DbTypes, WorkerTypes, PCs
  <2> QED BY <1>11, <2>1 DEF ReadWinner, Types, DbTypes, RedisTypes, JanitorTypes,
                             AuditTypes, FaultTypes
<1>12. CASE NoWinner(w)
  BY <1>12, StopTypes DEF NoWinner, Types, DbTypes, RedisTypes, JanitorTypes,
                          AuditTypes, FaultTypes
<1>13. CASE UpdateLog(w)
  <2>1. WorkerTypes' /\ rid[w] \in Nat
    BY <1>13, GotoTypes DEF UpdateLog, PCs, Types, WorkerTypes
  <2> QED BY <1>13, <2>1, RouteLogTypes DEF UpdateLog, Types, DbTypes, RedisTypes,
                                            JanitorTypes, AuditTypes, FaultTypes
<1>14. CASE LoseRace(w)
  <2>1. WorkerTypes'
    BY <1>14, GotoTypes DEF LoseRace, PCs
  <2>2. FaultTypes'
    BY <1>14, FaultType DEF LoseRace, Types, FaultTypes
  <2> QED BY <1>14, <2>1, <2>2 DEF LoseRace, Types, DbTypes, RedisTypes, JanitorTypes,
                                   AuditTypes
<1>15. CASE CommitUnindex(w)
  <2>1. WorkerTypes'
    BY <1>15, GotoTypes DEF CommitUnindex, PCs
  <2> QED BY <1>15, <2>1 DEF CommitUnindex, Types, DbTypes, RedisTypes, JanitorTypes,
                             AuditTypes, FaultTypes
<1>16. CASE AckOriginal(w)
  BY <1>16, StopTypes DEF AckOriginal, Types, DbTypes, RedisTypes, JanitorTypes,
                          AuditTypes, FaultTypes
<1>17. CASE FailRoute(w)
  BY <1>17, StopTypes, FaultType DEF FailRoute, Types, DbTypes, RedisTypes,
                                     JanitorTypes, AuditTypes
<1>18. CASE LoseXaddAnswer(w)
  BY <1>18, StopTypes, FaultType DEF LoseXaddAnswer, Types, DbTypes, RedisTypes,
                                     JanitorTypes, AuditTypes
<1> QED BY <1>1, <1>2, <1>3, <1>4, <1>5, <1>6, <1>7, <1>8, <1>9, <1>10, <1>11, <1>12,
           <1>13, <1>14, <1>15, <1>16, <1>17, <1>18 DEF RouteStep, RouteFault

LEMMA TypesJanitor ==
    ASSUME Types, JanitorStep \/ PassFails \/ HeartbeatExpires PROVE Types'
<1> USE DEF dbVars, redisVars, workerVars, janVars, auditVars, Unused, JGoto, JPCs
<1>1. CASE Pass1Select
  BY <1>1 DEF Pass1Select, Types, DbTypes, RedisTypes, WorkerTypes, JanitorTypes,
              AuditTypes, FaultTypes
<1>2. ASSUME ReconcileStale PROVE DbTypes' /\ routeAudited' \in BOOLEAN
  <2>1. PICK r \in dl : ReconcileIntent(r)
    BY <1>2 DEF ReconcileStale
  <2> QED BY <2>1, ReconcileTypes DEF Types, RedisTypes
<1>3. CASE Pass1Act
  <2>1. DbTypes' /\ AuditTypes'
    BY <1>2, <1>3 DEF Pass1Act, Types, DbTypes, AuditTypes
  <2> QED BY <1>3, <2>1 DEF Pass1Act, Types, RedisTypes, WorkerTypes, JanitorTypes,
                            FaultTypes
<1>4. CASE Pass2Select
  BY <1>4 DEF Pass2Select, Types, DbTypes, RedisTypes, WorkerTypes, JanitorTypes,
              AuditTypes, FaultTypes
<1>5. CASE Pass2Adopted
  <2>1. DbTypes' /\ AuditTypes'
    BY <1>2, <1>5 DEF Pass2Adopted, Types, DbTypes, AuditTypes
  <2> QED BY <1>5, <2>1 DEF Pass2Adopted, Types, RedisTypes, WorkerTypes, JanitorTypes,
                            FaultTypes
<1>6. CASE Pass2Own
  <2>1. JanitorTypes'
    BY <1>6 DEF Pass2Own, Types, DbTypes, JanitorTypes
  <2> QED BY <1>6, <2>1 DEF Pass2Own, Types, DbTypes, RedisTypes, WorkerTypes,
                            AuditTypes, FaultTypes
<1>7. CASE Pass2Scan
  <2>1. JanitorTypes'
    BY <1>7 DEF Pass2Scan, Types, RedisTypes, JanitorTypes
  <2> QED BY <1>7, <2>1 DEF Pass2Scan, Types, DbTypes, RedisTypes, WorkerTypes,
                            AuditTypes, FaultTypes
<1>8. CASE Pass2Xadd
  BY <1>8 DEF Pass2Xadd, Types, DbTypes, RedisTypes, WorkerTypes, JanitorTypes,
              AuditTypes, FaultTypes
<1>9. CASE Pass2Commit
  <2>1. jrid \in Nat
    BY DEF Types, JanitorTypes
  <2>2. DbTypes'
    BY <1>9, <2>1, CanonicalType, RouteLogTypes DEF Pass2Commit, DbTypes
  <2>3. AuditTypes'
    BY <1>9 DEF Pass2Commit, Types, AuditTypes
  <2> QED BY <1>9, <2>2, <2>3 DEF Pass2Commit, Types, RedisTypes, WorkerTypes,
                                  JanitorTypes, FaultTypes
<1>10. CASE PassFails
  <2>1. JanitorTypes'
    BY <1>10 DEF PassFails, AfterEntry, Pass4Steps, Types, JanitorTypes
  <2> QED BY <1>10, <2>1, FaultType DEF PassFails, Types, DbTypes, RedisTypes,
                                        WorkerTypes, AuditTypes
<1>11. CASE Pass3
  <2>1. AuditTypes'
    BY <1>11 DEF Pass3, Types, AuditTypes
  <2> QED BY <1>11, <2>1 DEF Pass3, Types, DbTypes, RedisTypes, WorkerTypes,
                             JanitorTypes, FaultTypes
<1>12. CASE Pass4Scan
  <2>1. JanitorTypes'
    BY <1>12 DEF Pass4Scan, Types, RedisTypes, JanitorTypes, Pass4Steps
  <2> QED BY <1>12, <2>1 DEF Pass4Scan, Types, DbTypes, RedisTypes, WorkerTypes,
                             AuditTypes, FaultTypes
<1>13. CASE Pass4Read
  <2>1. PICK r \in jsnap :
          /\ jsnap' = jsnap \ {r}
          /\ jrid' = IF index = r THEN 0 ELSE r
          /\ jpc' = CASE index = r -> AfterEntry(jsnap \ {r})
                     [] index = 0 -> "p4index"
                     [] OTHER     -> "p4xdel"
    BY <1>13 DEF Pass4Read
  <2>2. jpc' \in JPCs
    BY <2>1 DEF AfterEntry, Pass4Steps
  <2>3. jrid' \in Nat /\ jsnap' \subseteq Nat
    BY <2>1 DEF Types, JanitorTypes
  <2>4. JanitorTypes'
    BY <1>13, <2>2, <2>3 DEF Pass4Read, Types, JanitorTypes
  <2> QED BY <1>13, <2>4 DEF Pass4Read, Types, DbTypes, RedisTypes, WorkerTypes,
                             AuditTypes, FaultTypes
<1>14. CASE Pass4Xdel
  <2>1. JanitorTypes'
    BY <1>14 DEF Pass4Xdel, AfterEntry, Types, JanitorTypes, Pass4Steps
  <2> QED BY <1>14, <2>1 DEF Pass4Xdel, Types, DbTypes, RedisTypes, WorkerTypes,
                             AuditTypes, FaultTypes
<1>15. CASE Pass4Index
  <2>1. jrid \in Nat
    BY DEF Types, JanitorTypes
  <2>2. DbTypes'
    BY <1>15, <2>1, CanonicalType, RouteLogTypes DEF Pass4Index, Types, DbTypes
  <2>3. JanitorTypes'
    BY <1>15 DEF Pass4Index, AfterEntry, Types, JanitorTypes, Pass4Steps
  <2> QED BY <1>15, <2>2, <2>3 DEF Pass4Index, Types, RedisTypes, WorkerTypes,
                                   AuditTypes, FaultTypes
<1>16. CASE HeartbeatExpires
  <2>1. DbTypes'
    BY <1>16 DEF HeartbeatExpires, Types, DbTypes, Intents
  <2> QED BY <1>16, <2>1 DEF HeartbeatExpires, Types, RedisTypes, WorkerTypes,
                             JanitorTypes, AuditTypes, FaultTypes
<1> QED BY <1>1, <1>3, <1>4, <1>5, <1>6, <1>7, <1>8, <1>9, <1>10, <1>11, <1>12,
           <1>13, <1>14, <1>15, <1>16 DEF JanitorStep

LEMMA TypesStep == Types /\ [Next]_vars => Types'
<1>1. CASE UNCHANGED vars
  BY <1>1 DEF vars, dbVars, redisVars, workerVars, janVars, auditVars, Types, DbTypes,
              RedisTypes, WorkerTypes, JanitorTypes, AuditTypes, FaultTypes
<1> QED BY <1>1, TypesWorker, TypesJanitor DEF Next

(* Every reachable state is type-correct, for any set of workers.          *)
THEOREM TypeCorrect == Spec => []TypeOK
<1>1. Spec => []Types
  BY TypesInit, TypesStep, PTL DEF Spec
<1> QED BY <1>1, TypesAreTypeOK, PTL

-----------------------------------------------------------------------------
(* Why an acknowledged message is routed: whoever is about to XACK has     *)
(* seen or made the log row routed, and a Redis id that is handed from     *)
(* step to step is a real one.                                             *)
HasRid == {"index", "winner", "step4", "unindex"}

Routing ==
    /\ (log = "routed") <=> (logRid # 0)
    /\ \A w \in Workers : pc[w] # "idle" => log # "absent"
    /\ \A w \in Workers : pc[w] \in {"xack", "unindex"} => log = "routed"
    /\ \A w \in Workers : pc[w] \in HasRid => rid[w] # 0
    /\ 0 \notin dl /\ 0 \notin jsnap
    /\ jpc \in {"p2commit", "p4index"} => jrid # 0
    /\ acked => log = "routed"
    /\ log = "routed" => routeAudited

LEMMA RoutingInit == Init => Routing
  BY DEF Init, Routing, HasRid

(* The log row only moves forward.                                         *)
LEMMA RouteLogForward ==
    ASSUME NEW r, r # 0, RouteLog(r), Types, (log = "routed") <=> (logRid # 0)
    PROVE  /\ (log' = "routed") <=> (logRid' # 0)
           /\ log # "absent" => log' = "routed"
           /\ log = "absent" => log' = "absent"
  BY DEF RouteLog, Types, DbTypes

(* A step that does not touch the log, acked or the audits, and that gives *)
(* a worker at most a real Redis id.                                       *)
LEMMA RoutingFrame ==
    ASSUME Types, Routing, UNCHANGED <<log, logRid, acked, routeAudited>>,
           dl' \subseteq dl \cup {lastId + 1},
           jsnap' \subseteq jsnap \cup dl, jpc' \in {"p2commit", "p4index"} => jrid' # 0,
           \A v \in Workers :
              /\ pc'[v] # "idle" => log # "absent"
              /\ pc'[v] \in {"xack", "unindex"} => log = "routed"
              /\ pc'[v] \in HasRid => rid'[v] # 0
    PROVE  Routing'
<1>1. lastId + 1 # 0
  BY DEF Types, RedisTypes
<1>2. 0 \notin dl' /\ 0 \notin jsnap'
  BY <1>1 DEF Routing
<1> QED BY <1>2 DEF Routing

LEMMA RoutingWorker ==
    ASSUME NEW w \in Workers, Types, Routing,
           LogFailure(w) \/ RouteStep(w) \/ RouteFault(w)
    PROVE  Routing'
<1> USE DEF dbVars, redisVars, workerVars, janVars, auditVars, Goto, HasRid
<1> DEFINE Others == \A v \in Workers \ {w} : pc'[v] = pc[v] /\ rid'[v] = rid[v]
<1>1. CASE LogFailure(w)
  <2>1. Others /\ rid' = rid /\ pc'[w] \in {"xack", "lookup"}
        /\ (pc'[w] = "xack" => logRid # 0)
    BY <1>1 DEF LogFailure, Types, WorkerTypes
  <2>2. log' # "absent" /\ (log' = "routed" <=> log = "routed")
    BY <1>1 DEF LogFailure, Types, DbTypes
  <2> QED BY <1>1, <2>1, <2>2 DEF LogFailure, Routing
<1>2. CASE LookupIndex(w)
  <2>1. Others /\ pc'[w] \in {"step4", "bound"} /\ (pc'[w] = "step4" => rid'[w] # 0)
    BY <1>2 DEF LookupIndex, Types, WorkerTypes
  <2>2. log # "absent"
    BY <1>2 DEF LookupIndex, Routing
  <2> QED BY <1>2, <2>1, <2>2, RoutingFrame DEF LookupIndex, Routing
<1>3. CASE CaptureLowerBound(w) \/ AcquireIntent(w) \/ AdoptReplace(w)
  <2>1. Others /\ pc'[w] \in {"adopt", "xadd"}
    BY <1>3 DEF CaptureLowerBound, AcquireIntent, AdoptReplace, Types, WorkerTypes
  <2>2. log # "absent"
    BY <1>3 DEF CaptureLowerBound, AcquireIntent, AdoptReplace, Routing
  <2>3. UNCHANGED <<log, logRid, acked, routeAudited, dl, jsnap, jpc, jrid>>
    BY <1>3 DEF CaptureLowerBound, AcquireIntent, AdoptReplace
  <2> QED BY <2>1, <2>2, <2>3, RoutingFrame DEF Routing
<1>4. CASE AbortRoute(w) \/ NoWinner(w) \/ FailRoute(w) \/ LoseXaddAnswer(w)
  <2>1. Others /\ pc'[w] = "idle"
    BY <1>4 DEF AbortRoute, NoWinner, FailRoute, LoseXaddAnswer, Stop, Types, WorkerTypes
  <2>2. UNCHANGED <<log, logRid, acked, routeAudited, jsnap, jpc, jrid>>
        /\ dl' \subseteq dl \cup {lastId + 1}
    BY <1>4 DEF AbortRoute, NoWinner, FailRoute, LoseXaddAnswer
  <2> QED BY <2>1, <2>2, RoutingFrame DEF Routing
<1>5. CASE AdoptReconcile(w)
  <2>1. PICK r \in dl : ReconcileIntent(r)
    BY <1>5 DEF AdoptReconcile
  <2>2. Canonical(r) # 0
    BY <2>1 DEF Canonical, Routing
  <2>3. log # "absent"
    BY <1>5 DEF AdoptReconcile, Routing
  <2>4. log' = "routed" /\ logRid' # 0
    BY <2>1, <2>2, <2>3, RouteLogForward DEF ReconcileIntent, Routing
  <2>5. routeAudited'
    BY <2>1 DEF ReconcileIntent, Types, AuditTypes
  <2>6. Others /\ rid' = rid /\ pc'[w] = "xack"
    BY <1>5 DEF AdoptReconcile, Types, WorkerTypes
  <2> QED BY <1>5, <2>4, <2>5, <2>6 DEF AdoptReconcile, Routing
<1>6. CASE Xadd(w)
  <2>1. Others /\ pc'[w] = "index" /\ rid'[w] = lastId + 1
    BY <1>6 DEF Xadd, Types, WorkerTypes
  <2>2. log # "absent" /\ lastId + 1 # 0
    BY <1>6 DEF Xadd, Routing, Types, RedisTypes
  <2> QED BY <1>6, <2>1, <2>2, RoutingFrame DEF Xadd, Routing
<1>7. CASE InsertIndex(w) \/ InsertIndexFails(w)
  <2>1. Others /\ pc[w] = "index" /\ pc'[w] \in {"step4", "winner"} /\ rid' = rid
    BY <1>7 DEF InsertIndex, InsertIndexFails, Types, WorkerTypes
  <2>2. UNCHANGED <<log, logRid, acked, routeAudited, jsnap, jpc, jrid>> /\ dl' \subseteq dl
    BY <1>7 DEF InsertIndex, InsertIndexFails
  <2> QED BY <2>1, <2>2, RoutingFrame DEF Routing
<1>8. CASE ReadWinner(w)
  <2>1. Others /\ pc'[w] = "step4" /\ rid'[w] # 0
    BY <1>8 DEF ReadWinner, Types, WorkerTypes
  <2>2. log # "absent"
    BY <1>8 DEF ReadWinner, Routing
  <2> QED BY <1>8, <2>1, <2>2, RoutingFrame DEF ReadWinner, Routing
<1>9. CASE UpdateLog(w)
  <2>1. Others /\ rid' = rid /\ pc'[w] = "xack"
    BY <1>9 DEF UpdateLog, Types, WorkerTypes
  <2>2. log' = "routed" /\ logRid' # 0 /\ routeAudited'
    BY <1>9 DEF UpdateLog, RouteLog, Routing, Types, AuditTypes
  <2> QED BY <1>9, <2>1, <2>2 DEF UpdateLog, Routing
<1>10. CASE LoseRace(w)
  <2>1. Others /\ rid' = rid /\ pc'[w] \in {"unindex", "xack"} /\ log = "routed"
        /\ rid[w] # 0
    BY <1>10 DEF LoseRace, Types, WorkerTypes, Routing
  <2>2. UNCHANGED <<log, logRid, acked, routeAudited, jsnap, jpc, jrid>> /\ dl' \subseteq dl
    BY <1>10 DEF LoseRace
  <2> QED BY <2>1, <2>2, RoutingFrame DEF Routing
<1>11. CASE CommitUnindex(w)
  (* Only a lost race leads here, and a routed row stays routed.           *)
  <2>1. log = "routed"
    BY <1>11 DEF CommitUnindex, Routing
  <2>2. Others /\ rid' = rid /\ pc'[w] = "xack"
    BY <1>11 DEF CommitUnindex, Types, WorkerTypes
  <2> QED BY <1>11, <2>1, <2>2, RoutingFrame DEF CommitUnindex, Routing
<1>12. CASE AckOriginal(w)
  <2>1. Others /\ pc'[w] = "idle" /\ log = "routed"
    BY <1>12 DEF AckOriginal, Stop, Types, WorkerTypes, Routing
  <2> QED BY <1>12, <2>1 DEF AckOriginal, Routing
<1> QED BY <1>1, <1>2, <1>3, <1>4, <1>5, <1>6, <1>7, <1>8, <1>9, <1>10, <1>11, <1>12
        DEF RouteStep, RouteFault

LEMMA RoutingJanitor ==
    ASSUME Types, Routing, JanitorStep \/ PassFails \/ HeartbeatExpires PROVE Routing'
<1> USE DEF dbVars, redisVars, workerVars, janVars, auditVars, Unused, JGoto, HasRid
<1>1. ASSUME ReconcileStale, UNCHANGED <<redisVars, workerVars, jrid, jsnap>>,
             jpc' \in {"p2", "p3"}
      PROVE  Routing'
  <2>1. PICK r \in dl : ReconcileIntent(r)
    BY <1>1 DEF ReconcileStale
  <2>2. Canonical(r) # 0
    BY <2>1 DEF Canonical, Routing
  <2>3. /\ (log' = "routed") <=> (logRid' # 0)
        /\ (log # "absent" => log' = "routed") /\ (log = "absent" => log' = "absent")
    BY <2>1, <2>2, RouteLogForward DEF ReconcileIntent, Routing
  <2>4. routeAudited'
    BY <2>1 DEF ReconcileIntent, Types, AuditTypes
  <2> QED BY <1>1, <2>3, <2>4 DEF Routing
<1>2. CASE Pass1Select \/ Pass2Select \/ Pass3 \/ PassFails \/ HeartbeatExpires
  <2>1. UNCHANGED <<log, logRid, acked, routeAudited, dl, jsnap, pc, rid>>
        /\ (jpc' \in {"p2commit", "p4index"} => jrid' # 0)
    BY <1>2 DEF Pass1Select, Pass2Select, Pass3, PassFails, AfterEntry,
               HeartbeatExpires, Routing
  <2> QED BY <2>1, RoutingFrame DEF Routing
<1>3. CASE Pass1Act
  <2>1. CASE ReconcileStale
    BY <1>1, <1>3, <2>1 DEF Pass1Act
  <2>2. CASE UNCHANGED <<log, logRid, routeAudited>>
    BY <1>3, <2>2, RoutingFrame DEF Pass1Act, Routing
  <2> QED BY <1>3, <2>1, <2>2 DEF Pass1Act
<1>4. CASE Pass2Adopted
  <2>1. CASE ReconcileStale
    BY <1>1, <1>4, <2>1 DEF Pass2Adopted
  <2>2. CASE UNCHANGED <<log, logRid, routeAudited>>
    BY <1>4, <2>2, RoutingFrame DEF Pass2Adopted, Routing
  <2> QED BY <1>4, <2>1, <2>2 DEF Pass2Adopted
<1>5. CASE Pass2Own
  BY <1>5, RoutingFrame DEF Pass2Own, Routing
<1>6. CASE Pass2Scan
  <2>1. jpc' \in {"p2commit", "p4index"} => jrid' # 0
    BY <1>6 DEF Pass2Scan, Routing
  <2> QED BY <1>6, <2>1, RoutingFrame DEF Pass2Scan, Routing
<1>7. CASE Pass2Xadd
  <2>1. lastId + 1 # 0
    BY DEF Types, RedisTypes
  <2> QED BY <1>7, <2>1, RoutingFrame DEF Pass2Xadd, Routing
<1>8. CASE Pass2Commit
  <2>1. /\ (log' = "routed") <=> (logRid' # 0)
        /\ (log # "absent" => log' = "routed") /\ (log = "absent" => log' = "absent")
    BY <1>8, RouteLogForward DEF Pass2Commit, Routing
  <2>2. routeAudited'
    BY <1>8 DEF Pass2Commit, Types, AuditTypes
  <2> QED BY <1>8, <2>1, <2>2 DEF Pass2Commit, Routing
<1>9. CASE Pass4Scan
  <2>1. jpc' \notin {"p2commit", "p4index"} /\ jsnap' \subseteq dl
    BY <1>9 DEF Pass4Scan
  <2> QED BY <1>9, <2>1, RoutingFrame DEF Pass4Scan, Routing
<1>10. CASE Pass4Read
  <2>1. PICK r \in jsnap :
          /\ jsnap' = jsnap \ {r}
          /\ jrid' = IF index = r THEN 0 ELSE r
          /\ jpc' = CASE index = r -> AfterEntry(jsnap \ {r})
                     [] index = 0 -> "p4index"
                     [] OTHER     -> "p4xdel"
    BY <1>10 DEF Pass4Read
  <2>2. r # 0
    BY DEF Routing
  <2>3. jpc' \in {"p2commit", "p4index"} => jrid' # 0
    BY <2>1, <2>2 DEF AfterEntry
  <2> QED BY <1>10, <2>1, <2>3, RoutingFrame DEF Pass4Read, Routing
<1>11. CASE Pass4Xdel
  <2>1. jpc' \notin {"p2commit", "p4index"}
    BY <1>11 DEF Pass4Xdel, AfterEntry
  <2> QED BY <1>11, <2>1, RoutingFrame DEF Pass4Xdel, Routing
<1>12. CASE Pass4Index
  <2>1. /\ (log' = "routed") <=> (logRid' # 0)
        /\ (log # "absent" => log' = "routed") /\ (log = "absent" => log' = "absent")
    BY <1>12, RouteLogForward DEF Pass4Index, Routing
  <2>2. routeAudited' /\ jpc' \notin {"p2commit", "p4index"}
    BY <1>12 DEF Pass4Index, AfterEntry, Types, AuditTypes
  <2> QED BY <1>12, <2>1, <2>2 DEF Pass4Index, Routing
<1> QED BY <1>2, <1>3, <1>4, <1>5, <1>6, <1>7, <1>8, <1>9, <1>10, <1>11, <1>12
        DEF JanitorStep

LEMMA RoutingStep == Types /\ Routing /\ [Next]_vars => Routing'
<1>1. ASSUME Routing, UNCHANGED vars PROVE Routing'
  BY <1>1 DEF vars, dbVars, redisVars, workerVars, janVars, auditVars, Routing
<1> QED BY <1>1, RoutingWorker, RoutingJanitor DEF Next

LEMMA RoutingInvariant == Spec => [](Types /\ Routing)
<1>1. Init => Types /\ Routing
  BY TypesInit, RoutingInit
<1>2. Types /\ Routing /\ [Next]_vars => (Types /\ Routing)'
  BY TypesStep, RoutingStep
<1> QED BY <1>1, <1>2, PTL DEF Spec

(* StreamConsumer._route acknowledges the original message only when its   *)
(* log row is routed to a real entry, for any number of workers, faults    *)
(* and janitor passes.                                                     *)
THEOREM AckIsJustified == Spec => []AckedImpliesRouted
<1>1. Types /\ Routing => AckedImpliesRouted
  BY DEF Routing, AckedImpliesRouted
<1> QED BY <1>1, RoutingInvariant, PTL

(* Every routed log row has an audit, whoever routed it.                   *)
THEOREM RoutingIsAudited == Spec => []RoutedIsAudited
<1>1. Types /\ Routing => RoutedIsAudited
  BY DEF Routing, RoutedIsAudited
<1> QED BY <1>1, RoutingInvariant, PTL

-----------------------------------------------------------------------------
(* Calm routing: a live owner's heartbeat does not expire and pass 4 meets *)
(* no route.  Then an index row, once inserted, stays and names an entry   *)
(* of the stream, and whoever completes the routing uses it.  Until it is  *)
(* inserted, who may add an entry holds the intent, which nobody adopts;   *)
(* so nobody deletes an entry that somebody else has found.                *)
Calm == ~SlowOwners /\ QuietPass4

Ids == /\ dl \subseteq 1..lastId /\ index <= lastId
       /\ \A w \in Workers : pc[w] = "index" => rid[w] <= lastId

Named == /\ log = "routed" => logRid = index
         /\ index # 0 => index \in dl

Adders ==
    \A w \in Workers : pc[w] = "index" =>
        /\ rid[w] # index /\ (index = 0 => rid[w] \in dl)
        /\ \A v \in Workers \ {w} : pc[v] = "index" => rid[v] # rid[w]

Finishers == \A w \in Workers : /\ pc[w] = "step4" => rid[w] = index
                                /\ pc[w] # "unindex"

Owned ==
    \A w \in Workers :
        /\ pc[w] \in {"xadd", "index"} /\ index = 0 => HoldsIntent(w)
        /\ HoldsIntent(w) => ~intent.stale

Pass2Steps == {"p2scan", "p2xadd", "p2commit"}

PassTwo ==
    /\ jheld # "nothing" <=> jpc \in Pass2Steps
    /\ jheld # "nothing" => \A w \in Workers : ~HoldsIntent(w)
    /\ jpc \in {"p2scan", "p2xadd"} => index = 0
    /\ jpc = "p2commit" => jrid \in dl /\ (index = 0 \/ index = jrid)

PassFour ==
    /\ jpc \in Pass4Steps => (\A w \in Workers : pc[w] = "idle") /\ jsnap \subseteq dl
    /\ jpc = "p4index" => jrid \in dl /\ index = 0
    /\ jpc = "p4xdel" => jrid # index /\ jrid \notin jsnap

CalmInv == Calm /\ Ids /\ Named /\ Adders /\ Finishers /\ Owned /\ PassTwo /\ PassFour

LEMMA CalmInit == Init /\ Calm => CalmInv
<1> SUFFICES ASSUME Init, Calm PROVE CalmInv
  OBVIOUS
<1>1. /\ index = 0 /\ lastId = 0 /\ dl = {} /\ log = "absent" /\ intent = NoIntent
      /\ jpc = "p1" /\ jheld = "nothing" /\ \A w \in Workers : pc[w] = "idle"
  BY DEF Init
<1>2. Ids /\ Named /\ Adders /\ Finishers
  BY <1>1 DEF Ids, Named, Adders, Finishers
<1>3. Owned /\ PassTwo /\ PassFour
  BY <1>1 DEF Owned, HoldsIntent, PassTwo, Pass2Steps, PassFour, Pass4Steps
<1> QED BY <1>2, <1>3 DEF CalmInv

(* Once there is an index row it does not matter who holds the intent.     *)
LEMMA NoHolder ==
    ASSUME CalmInv, NEW w \in Workers, pc[w] \in {"xadd", "index"},
           intent = NoIntent \/ intent.stale \/ jheld # "nothing"
    PROVE  index # 0
<1>1. HoldsIntent(w) => FALSE
  BY DEF CalmInv, Owned, PassTwo, HoldsIntent
<1> QED BY <1>1 DEF CalmInv, Owned

Others(w) == \A v \in Workers \ {w} : pc'[v] = pc[v] /\ rid'[v] = rid[v]

(* Routes and pass 4 exclude each other.                                   *)
LEMMA RoutesMeetNoPassFour ==
    ASSUME CalmInv, NEW w \in Workers, LogFailure(w) \/ pc[w] # "idle"
    PROVE  jpc \notin Pass4Steps
  BY DEF CalmInv, Calm, PassFour, LogFailure

(* A step of w that touches neither the stream, the index nor the intent   *)
(* and after which w is not about to add an entry.                         *)
LEMMA CalmLocal ==
    ASSUME Types, CalmInv, NEW w \in Workers, Others(w), jpc \notin Pass4Steps,
           UNCHANGED <<dl, lastId, index, intent, logRid, janVars>>,
           log' = "routed" => log = "routed",
           pc'[w] \notin {"xadd", "index", "unindex"}, pc'[w] = "step4" => rid'[w] = index
    PROVE  CalmInv'
<1> USE DEF janVars
<1>1. Ids'
  BY DEF CalmInv, Ids, Others
<1>2. Named'
  BY DEF CalmInv, Named
<1>3. Adders' /\ Finishers'
  BY DEF CalmInv, Adders, Finishers, Others
<1>4. \A v \in Workers : HoldsIntent(v)' => HoldsIntent(v)
  BY DEF HoldsIntent, Others
<1>5. \A v \in Workers : pc'[v] \in {"xadd", "index"} => HoldsIntent(v)' = HoldsIntent(v)
  BY DEF HoldsIntent, Others
<1>6. Owned'
  BY <1>4, <1>5 DEF CalmInv, Owned, Others
<1>7. PassTwo'
  BY <1>4 DEF CalmInv, PassTwo
<1>8. PassFour'
  BY DEF CalmInv, PassFour, Pass4Steps
<1>9. Calm'
  BY DEF CalmInv, Calm
<1> QED BY <1>1, <1>2, <1>3, <1>6, <1>7, <1>8, <1>9 DEF CalmInv

LEMMA OwnIntentIs ==
    ASSUME NEW o \in Owners, NEW b \in Nat, OwnIntent(o, b)
    PROVE  intent' # NoIntent /\ intent'.owner = o /\ intent'.stale = FALSE
<1>1. intent' \in Intents
  BY DEF OwnIntent, Intents
<1> QED BY <1>1, NoIntentAssumption DEF OwnIntent

(* Step 2.5 comes to own the intent: the others with an entry to add have  *)
(* the same owner id or find an index row.                                 *)
LEMMA CalmAcquire ==
    ASSUME Types, CalmInv, NEW w \in Workers, AcquireIntent(w) \/ AdoptReplace(w)
    PROVE  CalmInv'
<1> USE DEF janVars, redisVars
<1>0. /\ Others(w) /\ pc'[w] = "xadd" /\ pc[w] = "adopt" /\ jheld = "nothing"
      /\ UNCHANGED <<dl, lastId, index, log, logRid, jpc, jrid, jsnap, jheld>>
  BY DEF AcquireIntent, AdoptReplace, Goto, Others, Types, WorkerTypes, LogLocked
<1>1. intent' # NoIntent /\ intent'.owner = Owner(w) /\ intent'.stale = FALSE
  <2>1. low[w] \in Nat /\ (intent # NoIntent => intent.low \in Nat)
    BY IntentLow DEF Types, WorkerTypes
  <2> QED BY <2>1, OwnerType, OwnIntentIs DEF AcquireIntent, AdoptReplace
<1>2. \/ intent = NoIntent \/ intent.owner = Owner(w) \/ intent.stale
  BY DEF AcquireIntent, AdoptReplace, MayOwn
<1>3. jpc \notin Pass4Steps
  BY <1>0, RoutesMeetNoPassFour
<1>4. Ids' /\ Named' /\ Adders' /\ Finishers'
  BY <1>0 DEF CalmInv, Ids, Named, Adders, Finishers, Others
<1>5. ASSUME NEW v \in Workers, pc'[v] \in {"xadd", "index"}, index' = 0
      PROVE  HoldsIntent(v)'
  <2>1. CASE v = w
    BY <1>0, <1>1, <2>1 DEF HoldsIntent
  <2>2. CASE v # w
    <3>1. pc[v] \in {"xadd", "index"} /\ index = 0 /\ HoldsIntent(v)
      BY <1>0, <1>5, <2>2 DEF Others, CalmInv, Owned
    <3>2. intent.owner = Owner(v) /\ intent # NoIntent /\ ~intent.stale
      BY <3>1 DEF HoldsIntent, CalmInv, Owned
    <3> QED BY <1>1, <1>2, <1>5, <3>2 DEF HoldsIntent
  <2> QED BY <2>1, <2>2
<1>6. Owned'
  BY <1>1, <1>5 DEF Owned
<1>7. PassTwo' /\ PassFour'
  BY <1>0, <1>3 DEF CalmInv, PassTwo, PassFour, Pass4Steps
<1> QED BY <1>4, <1>6, <1>7 DEF CalmInv, Calm

(* A stale intent is finished: nobody is adding an entry any more, or the  *)
(* index row is there already.                                             *)
LEMMA CalmReconcile ==
    ASSUME Types, Routing, CalmInv, NEW r \in dl, intent # NoIntent, intent.stale,
           ReconcileIntent(r), UNCHANGED <<dl, lastId, jheld, jrid, jsnap>>,
           jheld = "nothing", jpc' \notin Pass2Steps, jpc' \notin Pass4Steps,
           \A v \in Workers : \/ pc'[v] = "xack"
                              \/ pc'[v] = pc[v] /\ rid'[v] = rid[v]
    PROVE  CalmInv'
<1>1. r # 0 /\ r \in Nat /\ r <= lastId
  BY DEF Routing, CalmInv, Ids, Types, RedisTypes
<1>2. /\ index' # 0 /\ (index # 0 => index' = index) /\ (index = 0 => index' = r)
      /\ intent' = NoIntent
  BY <1>1 DEF ReconcileIntent, Canonical
<1>3. \A v \in Workers : pc[v] \in {"xadd", "index"} => index # 0
  BY NoHolder
<1>4. Ids'
  BY <1>1, <1>2 DEF CalmInv, Ids
<1>5. Named'
  <2>1. log' = "routed" => logRid' = index'
    <3>1. CASE log = "routed"
      BY <1>2, <3>1 DEF ReconcileIntent, RouteLog, CalmInv, Named, Routing
    <3>2. CASE log # "routed"
      BY <3>2 DEF ReconcileIntent, RouteLog
    <3> QED BY <3>1, <3>2
  <2> QED BY <1>2, <2>1 DEF CalmInv, Named
<1>6. Adders'
  BY <1>2, <1>3 DEF CalmInv, Adders
<1>7. Finishers'
  BY <1>2 DEF CalmInv, Finishers, Routing, HasRid
<1>8. Owned' /\ PassTwo' /\ PassFour'
  BY <1>2 DEF Owned, HoldsIntent, PassTwo, Pass2Steps, PassFour, Pass4Steps
<1> QED BY <1>4, <1>5, <1>6, <1>7, <1>8 DEF CalmInv, Calm

(* XADD by a worker, whether it learns the id or not.                      *)
LEMMA CalmXadd ==
    ASSUME Types, Routing, CalmInv, NEW w \in Workers, Xadd(w) \/ LoseXaddAnswer(w)
    PROVE  CalmInv'
<1> USE DEF janVars, dbVars
<1>0. /\ Others(w) /\ pc[w] = "xadd" /\ lastId' = lastId + 1 /\ dl' = dl \cup {lastId + 1}
      /\ \/ pc'[w] = "idle"
         \/ pc'[w] = "index" /\ rid'[w] = lastId + 1
      /\ UNCHANGED <<log, logRid, index, intent, jpc, jrid, jsnap, jheld>>
  BY DEF Xadd, LoseXaddAnswer, Stop, Goto, Others, Types, WorkerTypes
<1>1. jpc \notin Pass4Steps
  BY <1>0, RoutesMeetNoPassFour
<1>2. /\ lastId \in Nat /\ index \in Nat /\ index <= lastId /\ dl \subseteq 1..lastId
      /\ \A v \in Workers : rid[v] \in Nat /\ (pc[v] = "index" => rid[v] <= lastId)
  BY DEF Types, RedisTypes, DbTypes, WorkerTypes, CalmInv, Ids
<1>3. Ids'
  <2>1. dl' \subseteq 1..lastId' /\ index' <= lastId'
    <3>1. lastId \in Nat /\ index \in Nat /\ index <= lastId /\ dl \subseteq 1..lastId
      BY <1>2
    <3>2. lastId' = lastId + 1 /\ dl' = dl \cup {lastId + 1} /\ index' = index
      BY <1>0
    <3> QED BY ONLY <3>1, <3>2, SMT
  <2>2. ASSUME NEW v \in Workers, pc'[v] = "index" PROVE rid'[v] <= lastId'
    <3>1. CASE v = w
      BY <1>0, <1>2, <2>2, <3>1
    <3>2. CASE v # w
      BY <1>0, <1>2, <2>2, <3>2 DEF Others
    <3> QED BY <3>1, <3>2
  <2> QED BY <2>1, <2>2 DEF Ids
<1>4. Named' /\ Finishers'
  BY <1>0 DEF CalmInv, Named, Finishers, Others
<1>5. Adders'
  <2>1. \A v \in Workers : pc[v] = "index" => rid[v] # lastId + 1
    BY <1>2
  <2>2. index # lastId + 1
    BY <1>2
  <2> QED BY <1>0, <2>1, <2>2 DEF CalmInv, Adders, Others
<1>6. \A v \in Workers : HoldsIntent(v)' => HoldsIntent(v)
  BY <1>0 DEF HoldsIntent, Others
<1>7. Owned'
  <2>1. ASSUME NEW v \in Workers, pc'[v] \in {"xadd", "index"}, index = 0 PROVE HoldsIntent(v)'
    BY <1>0, <2>1 DEF CalmInv, Owned, HoldsIntent, Others
  <2> QED BY <1>0, <1>6, <2>1 DEF CalmInv, Owned
<1>8. PassTwo' /\ PassFour'
  BY <1>0, <1>1, <1>6 DEF CalmInv, PassTwo, PassFour, Pass4Steps
<1> QED BY <1>3, <1>4, <1>5, <1>7, <1>8 DEF CalmInv, Calm

(* Step 3 succeeds: the entry is on the stream, and the others who added   *)
(* one will find the index row.                                            *)
LEMMA CalmInsert ==
    ASSUME Types, Routing, CalmInv, NEW w \in Workers, InsertIndex(w) PROVE CalmInv'
<1> USE DEF janVars, redisVars
<1>0. /\ Others(w) /\ pc[w] = "index" /\ index = 0 /\ pc'[w] = "step4" /\ rid' = rid
      /\ index' = rid[w] /\ intent' = NoIntent
      /\ UNCHANGED <<dl, lastId, log, logRid, jpc, jrid, jsnap, jheld>>
  BY DEF InsertIndex, Goto, Others, Types, WorkerTypes
<1>1. rid[w] # 0 /\ rid[w] \in dl /\ rid[w] <= lastId
  BY <1>0 DEF Routing, HasRid, CalmInv, Adders, Ids
<1>2. jpc \notin Pass4Steps /\ jheld = "nothing"
  BY <1>0, RoutesMeetNoPassFour, NoHolder
<1>3. Ids' /\ Adders'
  BY <1>0, <1>1 DEF CalmInv, Ids, Adders, Others
<1>4. Named'
  BY <1>0, <1>1 DEF CalmInv, Named, Routing
<1>5. Finishers'
  BY <1>0 DEF CalmInv, Finishers, Others, Routing, HasRid
<1>6. Owned' /\ PassTwo' /\ PassFour'
  BY <1>0, <1>1, <1>2 DEF CalmInv, Owned, HoldsIntent, PassTwo, Pass2Steps, PassFour, Pass4Steps
<1> QED BY <1>3, <1>4, <1>5, <1>6 DEF CalmInv, Calm

(* Step 3 fails: the entry that is deleted is nobody else's.               *)
LEMMA CalmInsertFails ==
    ASSUME Types, Routing, CalmInv, NEW w \in Workers, InsertIndexFails(w) PROVE CalmInv'
<1> USE DEF janVars, dbVars
<1>0. /\ Others(w) /\ pc[w] = "index" /\ pc'[w] = "winner" /\ rid' = rid
      /\ dl' = dl \/ dl' = dl \ {rid[w]}
      /\ UNCHANGED <<lastId, index, intent, log, logRid, jpc, jrid, jsnap, jheld>>
  BY DEF InsertIndexFails, Goto, Others, Types, WorkerTypes
<1>1. jpc \notin Pass4Steps /\ (index = 0 => jheld = "nothing")
  BY <1>0, RoutesMeetNoPassFour, NoHolder
<1>2. rid[w] # index /\ \A v \in Workers \ {w} : pc[v] = "index" => rid[v] # rid[w]
  BY <1>0 DEF CalmInv, Adders
<1>3. Ids' /\ Finishers'
  BY <1>0 DEF CalmInv, Ids, Finishers, Others
<1>4. Named'
  BY <1>0, <1>2 DEF CalmInv, Named
<1>5. Adders'
  BY <1>0, <1>2 DEF CalmInv, Adders, Others
<1>6. \A v \in Workers : HoldsIntent(v)' => HoldsIntent(v)
  BY <1>0 DEF HoldsIntent, Others
<1>7. Owned'
  <2>1. ASSUME NEW v \in Workers, pc'[v] \in {"xadd", "index"}, index = 0 PROVE HoldsIntent(v)'
    BY <1>0, <2>1 DEF CalmInv, Owned, HoldsIntent, Others
  <2> QED BY <1>0, <1>6, <2>1 DEF CalmInv, Owned
<1>8. PassTwo'
  <2>1. jpc = "p2commit" => jrid \in dl' /\ (index = 0 \/ index = jrid)
    BY <1>0, <1>1, <1>2 DEF CalmInv, PassTwo, Pass2Steps
  <2> QED BY <1>0, <1>6, <2>1 DEF CalmInv, PassTwo
<1>9. PassFour'
  BY <1>0, <1>1 DEF PassFour, Pass4Steps
<1> QED BY <1>3, <1>4, <1>5, <1>7, <1>8, <1>9 DEF CalmInv, Calm

(* Step 4: the log row takes the id of the index row.                      *)
LEMMA CalmUpdate ==
    ASSUME Types, Routing, CalmInv, NEW w \in Workers, UpdateLog(w) PROVE CalmInv'
<1> USE DEF janVars, redisVars
<1>0. /\ Others(w) /\ pc[w] = "step4" /\ pc'[w] = "xack" /\ logRid' = rid[w]
      /\ UNCHANGED <<dl, lastId, index, intent, rid, jpc, jrid, jsnap, jheld>>
  BY DEF UpdateLog, RouteLog, Goto, Others, Types, WorkerTypes
<1>1. jpc \notin Pass4Steps /\ rid[w] = index
  BY <1>0, RoutesMeetNoPassFour DEF CalmInv, Finishers
<1>2. Ids' /\ Named' /\ Adders' /\ Finishers'
  BY <1>0, <1>1 DEF CalmInv, Ids, Named, Adders, Finishers, Others
<1>3. \A v \in Workers : HoldsIntent(v)' => HoldsIntent(v)
  BY <1>0 DEF HoldsIntent, Others
<1>4. Owned'
  <2>1. ASSUME NEW v \in Workers, pc'[v] \in {"xadd", "index"}, index = 0 PROVE HoldsIntent(v)'
    BY <1>0, <2>1 DEF CalmInv, Owned, HoldsIntent, Others
  <2> QED BY <1>0, <1>3, <2>1 DEF CalmInv, Owned
<1>5. PassTwo' /\ PassFour'
  BY <1>0, <1>1, <1>3 DEF CalmInv, PassTwo, PassFour, Pass4Steps
<1> QED BY <1>2, <1>4, <1>5 DEF CalmInv, Calm

LEMMA CalmWorker ==
    ASSUME Types, Routing, CalmInv, NEW w \in Workers,
           LogFailure(w) \/ RouteStep(w) \/ RouteFault(w)
    PROVE  CalmInv'
<1> USE DEF dbVars, redisVars, janVars, Goto
<1>1. CASE LogFailure(w)
  <2>1. /\ Others(w) /\ pc'[w] \in {"xack", "lookup"}
        /\ UNCHANGED <<dl, lastId, index, intent, logRid, janVars>>
        /\ log' = "routed" => log = "routed"
    BY <1>1 DEF LogFailure, Others, Types, WorkerTypes
  <2> QED BY <1>1, <2>1, RoutesMeetNoPassFour, CalmLocal
<1>2. CASE LookupIndex(w) \/ CaptureLowerBound(w) \/ ReadWinner(w)
  <2>1. /\ Others(w) /\ pc'[w] \in {"step4", "bound", "adopt"} /\ pc[w] # "idle"
        /\ UNCHANGED <<dl, lastId, index, intent, log, logRid, janVars>>
        /\ pc'[w] = "step4" => rid'[w] = index
    BY <1>2 DEF LookupIndex, CaptureLowerBound, ReadWinner, Others, Types, WorkerTypes
  <2> QED BY <2>1, RoutesMeetNoPassFour, CalmLocal
<1>3. CASE AbortRoute(w) \/ NoWinner(w) \/ AckOriginal(w) \/ FailRoute(w)
  <2>1. /\ Others(w) /\ pc'[w] = "idle" /\ pc[w] # "idle"
        /\ UNCHANGED <<dl, lastId, index, intent, log, logRid, janVars>>
    BY <1>3 DEF AbortRoute, NoWinner, AckOriginal, FailRoute, Stop, Others, Types, WorkerTypes
  <2> QED BY <2>1, RoutesMeetNoPassFour, CalmLocal
<1>4. CASE LoseRace(w)
  <2>1. logRid = rid[w]
    BY <1>4 DEF LoseRace, CalmInv, Named, Finishers
  <2>2. /\ Others(w) /\ pc'[w] = "xack" /\ pc[w] # "idle"
        /\ UNCHANGED <<dl, lastId, index, intent, log, logRid, janVars>>
    BY <1>4, <2>1 DEF LoseRace, Others, Types, WorkerTypes
  <2> QED BY <2>2, RoutesMeetNoPassFour, CalmLocal
<1>5. CASE AdoptReconcile(w)
  <2>1. PICK r \in dl : ReconcileIntent(r)
    BY <1>5 DEF AdoptReconcile
  <2>2. /\ intent # NoIntent /\ intent.stale /\ jheld = "nothing" /\ pc[w] # "idle"
        /\ UNCHANGED <<dl, lastId, jpc, jheld, jrid, jsnap>>
        /\ \A v \in Workers : pc'[v] = "xack" \/ (pc'[v] = pc[v] /\ rid'[v] = rid[v])
    BY <1>5 DEF AdoptReconcile, MayOwn, LogLocked, Types, WorkerTypes
  <2>3. jpc' \notin Pass2Steps /\ jpc' \notin Pass4Steps
    BY <2>2, RoutesMeetNoPassFour DEF CalmInv, PassTwo
  <2> QED BY <2>1, <2>2, <2>3, CalmReconcile
<1>6. CASE CommitUnindex(w)
  BY <1>6 DEF CommitUnindex, CalmInv, Finishers
<1> QED BY <1>1, <1>2, <1>3, <1>4, <1>5, <1>6, CalmAcquire, CalmXadd, CalmInsert,
           CalmInsertFails, CalmUpdate DEF RouteStep, RouteFault

(* A step of the janitor that moves it out of passes 2 and 4 and touches   *)
(* no row but the intent, which nobody holds if it changes.                *)
LEMMA CalmMove ==
    ASSUME Types, CalmInv, UNCHANGED <<dl, lastId, index, log, logRid, pc, rid>>,
           jpc' \notin Pass2Steps, jpc' \notin Pass4Steps, jheld' = "nothing",
           \/ UNCHANGED intent
           \/ /\ \A w \in Workers : ~HoldsIntent(w)
              /\ \A w \in Workers : ~HoldsIntent(w)'
    PROVE  CalmInv'
<1>1. Ids' /\ Named' /\ Adders' /\ Finishers'
  BY DEF CalmInv, Ids, Named, Adders, Finishers
<1>2. Owned'
  <2>1. CASE UNCHANGED intent
    BY <2>1 DEF CalmInv, Owned, HoldsIntent
  <2>2. CASE /\ \A w \in Workers : ~HoldsIntent(w)
             /\ \A w \in Workers : ~HoldsIntent(w)'
    BY <2>2 DEF CalmInv, Owned
  <2> QED BY <2>1, <2>2
<1>3. PassTwo' /\ PassFour'
  BY DEF PassTwo, Pass2Steps, PassFour, Pass4Steps
<1> QED BY <1>1, <1>2, <1>3 DEF CalmInv, Calm

LEMMA StaleIsNotHeld ==
    ASSUME CalmInv, StaleIntent PROVE \A w \in Workers : ~HoldsIntent(w)
  BY DEF CalmInv, Owned, StaleIntent

LEMMA NobodyHoldsNothing ==
    ASSUME intent = NoIntent PROVE \A w \in Workers : ~HoldsIntent(w)
  BY DEF HoldsIntent

LEMMA CalmExpire ==
    ASSUME Types, CalmInv, HeartbeatExpires PROVE CalmInv'
<1> USE DEF redisVars, workerVars, janVars
<1>0. /\ intent # NoIntent /\ (\A w \in Workers : ~HoldsIntent(w))
      /\ intent' = [intent EXCEPT !.stale = TRUE]
      /\ UNCHANGED <<dl, lastId, index, log, logRid, pc, rid, jpc, jrid, jsnap, jheld>>
  BY DEF HeartbeatExpires, CalmInv, Calm
<1>1. \A w \in Workers : ~HoldsIntent(w)'
  <2>1. intent'.owner = intent.owner
    BY <1>0 DEF Types, DbTypes, Intents
  <2> QED BY <1>0, <2>1 DEF HoldsIntent
<1>2. Ids' /\ Named' /\ Adders' /\ Finishers'
  BY <1>0 DEF CalmInv, Ids, Named, Adders, Finishers
<1>3. Owned'
  BY <1>0, <1>1 DEF CalmInv, Owned
<1>4. PassTwo' /\ PassFour'
  BY <1>0, <1>1 DEF CalmInv, PassTwo, PassFour
<1> QED BY <1>2, <1>3, <1>4 DEF CalmInv, Calm

(* Adoption by the janitor itself, in passes 1 and 2.                      *)
LEMMA CalmReconcileStale ==
    ASSUME Types, Routing, CalmInv, ReconcileStale, jheld = "nothing",
           UNCHANGED <<dl, lastId, jheld, jrid, jsnap, pc, rid>>,
           jpc' \notin Pass2Steps, jpc' \notin Pass4Steps
    PROVE  CalmInv'
<1>1. PICK r \in dl : ReconcileIntent(r)
  BY DEF ReconcileStale
<1>2. intent # NoIntent /\ intent.stale
  BY DEF ReconcileStale, StaleIntent
<1> QED BY <1>1, <1>2, CalmReconcile

LEMMA CalmPassOne ==
    ASSUME Types, Routing, CalmInv, Pass1Select \/ Pass1Act PROVE CalmInv'
<1> USE DEF dbVars, redisVars, workerVars, Unused, JGoto
<1>1. /\ jpc' \notin Pass2Steps /\ jpc' \notin Pass4Steps /\ jheld = "nothing"
      /\ UNCHANGED <<dl, lastId, pc, rid, jheld, jrid, jsnap>>
  BY DEF Pass1Select, Pass1Act, Pass2Steps, Pass4Steps, CalmInv, PassTwo
<1>2. CASE Pass1Select \/ (Pass1Act /\ UNCHANGED dbVars)
  BY <1>1, <1>2, CalmMove DEF Pass1Select
<1>3. CASE ReconcileStale
  BY <1>1, <1>3, CalmReconcileStale
<1>4. CASE StaleIntent /\ intent' = NoIntent /\ UNCHANGED <<log, logRid, index>>
  <2>1. /\ \A w \in Workers : ~HoldsIntent(w)
        /\ \A w \in Workers : ~HoldsIntent(w)'
    BY <1>4, StaleIsNotHeld DEF HoldsIntent
  <2> QED BY <1>1, <1>4, <2>1, CalmMove
<1> QED BY <1>2, <1>3, <1>4 DEF Pass1Act, StaleNoOrphan

LEMMA CalmPassTwoEnters ==
    ASSUME Types, Routing, CalmInv, Pass2Select \/ Pass2Adopted \/ Pass2Own
    PROVE  CalmInv'
<1> USE DEF dbVars, redisVars, workerVars, Unused, JGoto
<1>1. CASE Pass2Select \/ Pass2Adopted
  <2>1. /\ jpc' \notin Pass2Steps /\ jpc' \notin Pass4Steps /\ jheld = "nothing"
        /\ UNCHANGED <<dl, lastId, pc, rid, jheld, jrid, jsnap>>
    BY <1>1 DEF Pass2Select, Pass2Adopted, Pass2Steps, Pass4Steps, CalmInv, PassTwo
  <2>2. CASE UNCHANGED dbVars
    BY <2>1, <2>2, CalmMove
  <2>3. CASE ReconcileStale
    BY <2>1, <2>3, CalmReconcileStale
  <2> QED BY <1>1, <2>2, <2>3 DEF Pass2Select, Pass2Adopted
<1>2. CASE Pass2Own
  <2>1. /\ jheld' # "nothing" /\ (intent = NoIntent \/ StaleIntent)
        /\ IF index # 0 THEN jpc' = "p2commit" /\ jrid' = index ELSE jpc' = "p2scan"
        /\ UNCHANGED <<log, logRid, index, intent, dl, lastId, pc, rid>>
    BY <1>2 DEF Pass2Own, StaleNoOrphan
  <2>2. \A w \in Workers : ~HoldsIntent(w) /\ ~HoldsIntent(w)'
    BY <2>1, StaleIsNotHeld, NobodyHoldsNothing DEF HoldsIntent
  <2>3. Ids' /\ Named' /\ Adders' /\ Finishers'
    BY <2>1 DEF CalmInv, Ids, Named, Adders, Finishers
  <2>4. Owned'
    BY <2>1, <2>2 DEF CalmInv, Owned
  <2>5. PassTwo' /\ PassFour'
    BY <2>1, <2>2 DEF CalmInv, Named, PassTwo, Pass2Steps, PassFour, Pass4Steps
  <2> QED BY <2>3, <2>4, <2>5 DEF CalmInv, Calm
<1> QED BY <1>1, <1>2

(* While pass 2 holds its rows the index row stays away, and the entry it  *)
(* has found or added stays on the stream.                                 *)
LEMMA CalmPassTwoFinds ==
    ASSUME Types, Routing, CalmInv, Pass2Scan \/ Pass2Xadd PROVE CalmInv'
<1> USE DEF dbVars, redisVars, workerVars, JGoto
<1>0. /\ UNCHANGED <<log, logRid, index, intent, pc, rid, jheld>> /\ index = 0
      /\ jheld # "nothing" /\ dl \subseteq dl'
      /\ jpc' = "p2xadd" \/ (jpc' = "p2commit" /\ jrid' \in dl')
  BY DEF Pass2Scan, Pass2Xadd, CalmInv, PassTwo, Pass2Steps
<1>1. \A w \in Workers : ~HoldsIntent(w) /\ ~HoldsIntent(w)'
  BY <1>0 DEF CalmInv, PassTwo, HoldsIntent
<1>2. Ids'
  <2>1. /\ lastId \in Nat /\ dl \subseteq 1..lastId /\ index = 0
        /\ \A w \in Workers : rid[w] \in Nat /\ (pc[w] = "index" => rid[w] <= lastId)
    BY <1>0 DEF CalmInv, Ids, Types, RedisTypes, WorkerTypes
  <2>2. \/ lastId' = lastId /\ dl' = dl
        \/ lastId' = lastId + 1 /\ dl' = dl \cup {lastId + 1}
    BY DEF Pass2Scan, Pass2Xadd
  <2>3. pc' = pc /\ rid' = rid /\ index' = index
    BY <1>0
  <2>4. dl' \subseteq 1..lastId' /\ index' <= lastId'
    <3>1. CASE lastId' = lastId /\ dl' = dl
      BY ONLY <2>1, <2>3, <3>1, SMT
    <3>2. CASE lastId' = lastId + 1 /\ dl' = dl \cup {lastId + 1}
      BY ONLY <2>1, <2>3, <3>2, SMT
    <3> QED BY <2>2, <3>1, <3>2
  <2>5. \A w \in Workers : pc'[w] = "index" => rid'[w] <= lastId'
    BY ONLY <2>1, <2>2, <2>3, SMT
  <2> QED BY <2>4, <2>5 DEF Ids
<1>3. Named' /\ Adders' /\ Finishers' /\ Owned'
  BY <1>0, <1>1 DEF CalmInv, Named, Adders, Finishers, Owned
<1>4. PassTwo' /\ PassFour'
  BY <1>0, <1>1 DEF PassTwo, Pass2Steps, PassFour, Pass4Steps
<1> QED BY <1>2, <1>3, <1>4 DEF CalmInv, Calm

LEMMA CalmPassTwoCommits ==
    ASSUME Types, Routing, CalmInv, Pass2Commit PROVE CalmInv'
<1> USE DEF dbVars, redisVars, workerVars, JGoto
<1>0. /\ jrid # 0 /\ jrid \in dl /\ index' = jrid /\ (index = 0 \/ index = jrid)
      /\ intent' = NoIntent /\ jheld' = "nothing" /\ jpc' = "p3"
      /\ UNCHANGED <<dl, lastId, pc, rid>>
  BY DEF Pass2Commit, Canonical, CalmInv, PassTwo, Routing
<1>1. \A w \in Workers : pc[w] \in {"xadd", "index"} => index # 0
  BY NoHolder DEF Pass2Commit, CalmInv, PassTwo, Pass2Steps
<1>2. Ids'
  BY <1>0 DEF CalmInv, Ids, Types, RedisTypes
<1>3. Named'
  BY <1>0 DEF Pass2Commit, RouteLog, CalmInv, Named, Routing
<1>4. Adders'
  BY <1>0, <1>1 DEF CalmInv, Adders
<1>5. Finishers'
  BY <1>0 DEF CalmInv, Finishers, Routing, HasRid
<1>6. Owned' /\ PassTwo' /\ PassFour'
  BY <1>0 DEF Owned, HoldsIntent, PassTwo, Pass2Steps, PassFour, Pass4Steps
<1> QED BY <1>2, <1>3, <1>4, <1>5, <1>6 DEF CalmInv, Calm

(* Pass 4 runs alone: an entry without an index row is deleted only when   *)
(* another entry has one.                                                  *)
LEMMA CalmPassFourReads ==
    ASSUME Types, Routing, CalmInv, Pass4Scan \/ Pass4Read PROVE CalmInv'
<1> USE DEF dbVars, redisVars, workerVars, JGoto
<1>0. /\ UNCHANGED <<log, logRid, index, intent, dl, lastId, pc, rid, jheld>>
      /\ jheld = "nothing" /\ jpc' \notin Pass2Steps
  BY DEF Pass4Scan, Pass4Read, AfterEntry, Pass2Steps, CalmInv, PassTwo
<1>1. Ids' /\ Named' /\ Adders' /\ Finishers'
  BY <1>0 DEF CalmInv, Ids, Named, Adders, Finishers
<1>2. Owned' /\ PassTwo'
  BY <1>0 DEF CalmInv, Owned, HoldsIntent, PassTwo, Pass2Steps
<1>3. PassFour'
  <2>1. CASE Pass4Scan
    BY <1>0, <2>1 DEF Pass4Scan, CalmInv, Calm, PassFour, Pass4Steps
  <2>2. CASE Pass4Read
    <3>1. PICK r \in jsnap :
            /\ jsnap' = jsnap \ {r} /\ jrid' = IF index = r THEN 0 ELSE r
            /\ jpc' = CASE index = r -> AfterEntry(jsnap \ {r})
                        [] index = 0 -> "p4index"
                        [] OTHER     -> "p4xdel"
      BY <2>2 DEF Pass4Read
    <3>2. (\A w \in Workers : pc[w] = "idle") /\ jsnap \subseteq dl /\ r # 0
      BY <2>2 DEF Pass4Read, CalmInv, PassFour, Pass4Steps, Routing
    <3>3. CASE index = r
      BY <1>0, <3>1, <3>2, <3>3 DEF AfterEntry, PassFour
    <3>4. CASE index # r /\ index = 0
      BY <1>0, <3>1, <3>2, <3>4 DEF PassFour
    <3>5. CASE index # r /\ index # 0
      BY <1>0, <3>1, <3>2, <3>5 DEF PassFour
    <3> QED BY <3>3, <3>4, <3>5
  <2> QED BY <2>1, <2>2
<1> QED BY <1>1, <1>2, <1>3 DEF CalmInv, Calm

LEMMA CalmPassFourRepairs ==
    ASSUME Types, Routing, CalmInv, Pass4Xdel \/ Pass4Index PROVE CalmInv'
<1> USE DEF dbVars, redisVars, workerVars, JGoto
<1>0. /\ UNCHANGED <<intent, lastId, pc, rid, jheld, jsnap>>
      /\ jheld = "nothing" /\ jpc' \notin Pass2Steps /\ jpc' \notin {"p4xdel", "p4index"}
      /\ (\A w \in Workers : pc[w] = "idle") /\ jsnap \subseteq dl
  BY DEF Pass4Xdel, Pass4Index, AfterEntry, Pass2Steps, CalmInv, PassTwo, PassFour, Pass4Steps
<1>1. Adders' /\ Finishers' /\ Owned' /\ PassTwo'
  BY <1>0 DEF Adders, Finishers, Owned, HoldsIntent, PassTwo, Pass2Steps
<1>2. CASE Pass4Xdel
  <2>1. /\ dl' = dl \ {jrid} /\ jrid # index /\ jrid \notin jsnap
        /\ UNCHANGED <<log, logRid, index>>
    BY <1>2 DEF Pass4Xdel, CalmInv, PassFour
  <2>2. Ids' /\ Named' /\ PassFour'
    BY <1>0, <2>1 DEF CalmInv, Ids, Named, PassFour
  <2> QED BY <1>1, <2>2 DEF CalmInv, Calm
<1>3. CASE Pass4Index
  <2>1. /\ jrid \in dl /\ index = 0 /\ index' = jrid /\ dl' = dl /\ jrid # 0
        /\ RouteLog(jrid)
    BY <1>3 DEF Pass4Index, Canonical, CalmInv, PassFour, Routing
  <2>2. Ids'
    BY <1>0, <2>1 DEF CalmInv, Ids, Types, RedisTypes
  <2>3. Named'
    BY <2>1 DEF RouteLog, CalmInv, Named, Routing
  <2>4. PassFour'
    BY <1>0, <2>1 DEF PassFour
  <2> QED BY <1>1, <2>2, <2>3, <2>4 DEF CalmInv, Calm
<1> QED BY <1>2, <1>3

LEMMA CalmPassFails ==
    ASSUME Types, CalmInv, PassFails PROVE CalmInv'
<1> USE DEF dbVars, redisVars, workerVars, JGoto
<1>0. /\ UNCHANGED <<log, logRid, index, intent, dl, lastId, pc, rid, jsnap>>
      /\ jheld' = "nothing" /\ jpc' \notin Pass2Steps
  BY DEF PassFails, AfterEntry, Pass2Steps
<1>1. CASE jpc' \notin Pass4Steps
  BY <1>0, <1>1, CalmMove
<1>2. CASE jpc' \in Pass4Steps
  <2>1. jpc \in Pass4Steps /\ jpc' = "p4read"
    BY <1>2 DEF PassFails, AfterEntry, Pass4Steps
  <2>2. Ids' /\ Named' /\ Adders' /\ Finishers' /\ Owned'
    BY <1>0 DEF CalmInv, Ids, Named, Adders, Finishers, Owned, HoldsIntent
  <2>3. PassTwo' /\ PassFour'
    BY <1>0, <2>1 DEF CalmInv, PassTwo, Pass2Steps, PassFour
  <2> QED BY <2>2, <2>3 DEF CalmInv, Calm
<1> QED BY <1>1, <1>2

LEMMA CalmStep == Types /\ Routing /\ CalmInv /\ [Next]_vars => CalmInv'
<1> SUFFICES ASSUME Types, Routing, CalmInv, [Next]_vars PROVE CalmInv'
  OBVIOUS
<1>1. CASE UNCHANGED vars
  <2>1. UNCHANGED <<log, logRid, index, intent, dl, lastId, pc, rid, jpc, jrid, jsnap, jheld>>
    BY <1>1 DEF vars, dbVars, redisVars, workerVars, janVars
  <2> QED BY <2>1 DEF CalmInv, Calm, Ids, Named, Adders, Finishers, Owned, HoldsIntent,
                      PassTwo, PassFour
<1>2. CASE \E w \in Workers : LogFailure(w) \/ RouteStep(w) \/ RouteFault(w)
  BY <1>2, CalmWorker
<1>3. CASE HeartbeatExpires
  BY <1>3, CalmExpire
<1>4. CASE JanitorStep
  <2>1. CASE Pass3
    <3>1. /\ UNCHANGED <<log, logRid, index, intent, dl, lastId, pc, rid>>
          /\ jpc' \notin Pass2Steps /\ jpc' \notin Pass4Steps /\ jheld' = "nothing"
      BY <2>1 DEF Pass3, JGoto, Pass2Steps, Pass4Steps, CalmInv, PassTwo, dbVars,
                  redisVars, workerVars
    <3> QED BY <3>1, CalmMove
  <2> QED BY <1>4, <2>1, CalmPassOne, CalmPassTwoEnters, CalmPassTwoFinds,
             CalmPassTwoCommits, CalmPassFourReads, CalmPassFourRepairs DEF JanitorStep
<1>5. CASE PassFails
  BY <1>5, CalmPassFails
<1> QED BY <1>1, <1>2, <1>3, <1>4, <1>5 DEF Next

LEMMA CalmInvariant == Spec /\ Calm => [](Types /\ Routing /\ CalmInv)
<1>1. Init /\ Calm => Types /\ Routing /\ CalmInv
  BY TypesInit, RoutingInit, CalmInit
<1>2. Types /\ Routing /\ CalmInv /\ [Next]_vars => (Types /\ Routing /\ CalmInv)'
  BY TypesStep, RoutingStep, CalmStep
<1> QED BY <1>1, <1>2, PTL DEF Spec

(* deadletter.py steps 3 and 4 and janitor passes 1, 2 and 4: while no     *)
(* heartbeat of a live owner expires and pass 4 meets no route, the entry  *)
(* that a routed log row names is on the dead-letter stream, whatever      *)
(* fails, for any number of consumers and retries.  Both conditions are    *)
(* needed: without the second the run dead_loss shows the loss, without    *)
(* the first pass 1 may finish a live route, whose XDEL then deletes it.   *)
THEOREM CalmRoutingKeepsEntry == Spec /\ Calm => []RoutedEntryExists
<1>1. Types /\ Routing /\ CalmInv => RoutedEntryExists
  BY DEF Routing, CalmInv, Named, RoutedEntryExists
<1> QED BY <1>1, CalmInvariant, PTL

(* Under the same conditions the index row of a routed failure names the   *)
(* same entry as its log row, for any number of consumers and retries.     *)
THEOREM CalmRoutingAgrees == Spec /\ Calm => []LogIndexAgree
<1>1. Types /\ Routing /\ CalmInv => LogIndexAgree
  BY DEF CalmInv, Named, LogIndexAgree
<1> QED BY <1>1, CalmInvariant, PTL

=============================================================================
