------------------------ MODULE StreamConsumerProofs ------------------------
(***************************************************************************)
(* Proofs about StreamConsumer.  Base is the type invariant plus the fact  *)
(* that a consumer past the head of its loop has a message; LockInv and    *)
(* AuditInv add what the advisory lock and the audit-before-Redis order    *)
(* give, and RepeatInv counts the consumers that may still yield an event  *)
(* that is processed.                                                      *)
(***************************************************************************)
EXTENDS StreamConsumer, FiniteSetTheorems, TLAPS

LoopSteps == {"autoclaim", "xread", "next"}

(* A consumer past the head of its loop is handling a delivered message.   *)
HasMsg == \A c \in Consumers : pc[c] \notin LoopSteps => msg[c] \in 1..last

RedisTypes ==
    /\ trimmed \in 0..NMsgs /\ last \in 0..NMsgs
    /\ pending \subseteq 1..last /\ idle \subseteq pending
    /\ claim \in [Events -> Consumers \cup {None}]
    /\ processed \subseteq Events /\ cache \subseteq Events
    /\ failures \in [Msgs -> Nat] /\ repeats \in [Events -> Nat]

DbTypes ==
    /\ registry \subseteq Events /\ dead \subseteq Msgs
    /\ lock \in [Events -> Consumers \cup {None, Redactor}]
    /\ audits \in [Events -> Nat]

LocalTypes ==
    /\ pc \in [Consumers -> PCs]
    /\ batch \in [Consumers -> SUBSET (1..last)]
    /\ after \in [Consumers -> {"autoclaim", "xread"}]
    /\ cursor \in [Consumers -> 0..last]
    /\ msg \in [Consumers -> 0..last]
    /\ red \in [Consumers -> BOOLEAN]

FaultTypes == faults \in 0..MaxFaults

Base == RedisTypes /\ DbTypes /\ LocalTypes /\ FaultTypes /\ HasMsg

-----------------------------------------------------------------------------
(* The message in hand and its event.                                      *)
LEMMA EvType ==
    ASSUME NEW c \in Consumers, Base, pc[c] \notin LoopSteps
    PROVE  msg[c] \in 1..last /\ msg[c] \in Msgs /\ Ev(c) \in Events
<1>1. msg[c] \in 1..last
  BY DEF Base, HasMsg
<1>2. msg[c] \in Msgs
  BY <1>1, ConsumerConstants DEF Base, RedisTypes, Msgs
<1> QED BY <1>1, <1>2, ConsumerConstants DEF Ev

(* What a jump to another step does to the types.                          *)
LEMMA GotoTypes ==
    ASSUME NEW c \in Consumers, Base, NEW l \in PCs, Goto(c, l), last' = last,
           UNCHANGED locals, pc[c] \notin LoopSteps \/ l \in LoopSteps
    PROVE  LocalTypes' /\ HasMsg'
  BY DEF Base, LocalTypes, HasMsg, Goto, locals, LoopSteps

LEMMA ReturnTypes ==
    ASSUME NEW c \in Consumers, Base, Return(c), last' = last
    PROVE  LocalTypes' /\ HasMsg'
<1>1. last \in Nat
  BY ConsumerConstants DEF Base, RedisTypes
<1> QED BY <1>1 DEF Base, LocalTypes, HasMsg, Return, Goto, LoopSteps, PCs

LEMMA UnlockedType ==
    ASSUME NEW c \in Consumers, Base
    PROVE  Unlocked(c) \in [Events -> Consumers \cup {None, Redactor}]
  BY DEF Base, DbTypes, Unlocked

LEMMA LeaveTypes ==
    ASSUME NEW c \in Consumers, Base, Leave(c), last' \in last..NMsgs
    PROVE  /\ LocalTypes' /\ HasMsg'
           /\ lock' \in [Events -> Consumers \cup {None, Redactor}]
<1>1. last \in Nat /\ NMsgs \in Nat /\ 1..last \subseteq 1..last' /\ 0..last \subseteq 0..last'
  BY ConsumerConstants DEF Base, RedisTypes
<1>2. lock' \in [Events -> Consumers \cup {None, Redactor}]
  BY UnlockedType DEF Leave
<1>3. LocalTypes'
  BY <1>1 DEF Base, LocalTypes, Leave, Goto, PCs
<1>4. HasMsg'
  BY <1>1 DEF Base, LocalTypes, HasMsg, Leave, Goto, LoopSteps
<1> QED BY <1>2, <1>3, <1>4

(* Leave when nothing was read.                                            *)
LEMMA LeaveHere ==
    ASSUME NEW c \in Consumers, Base, Leave(c), last' = last
    PROVE  /\ LocalTypes' /\ HasMsg'
           /\ lock' \in [Events -> Consumers \cup {None, Redactor}]
<1>1. last' \in last..NMsgs
  BY ConsumerConstants DEF Base, RedisTypes
<1> QED BY <1>1, LeaveTypes

(* The effect of the two calls that deliver.                               *)
LEMMA XAutoClaimTypes ==
    ASSUME NEW c \in Consumers, Base, XAutoClaim(c)
    PROVE  pending' \subseteq 1..last /\ idle' \subseteq pending'
  BY DEF Base, RedisTypes, XAutoClaim

LEMMA NextCursorTypes ==
    ASSUME NEW c \in Consumers, Base, NextCursor(c)
    PROVE  cursor' \in [Consumers -> 0..last]
<1>1. last \in Nat /\ Behind(c) \subseteq 0..last
  <2>1. last \in Nat /\ pending \subseteq 1..last
    BY ConsumerConstants DEF Base, RedisTypes
  <2>2. Behind(c) \subseteq pending
    BY DEF Behind
  <2>3. 1..last \subseteq 0..last
    BY <2>1
  <2> QED BY <2>1, <2>2, <2>3
<1>2. 0 \in 0..last
  BY <1>1
<1>3. cursor \in [Consumers -> 0..last]
  BY DEF Base, LocalTypes
<1>4. \E m \in 0..last : cursor' = [cursor EXCEPT ![c] = m]
  <2>1. CASE cursor' = [cursor EXCEPT ![c] = 0]
    BY <1>2, <2>1
  <2>2. CASE GoesOn(c)
    BY <1>1, <2>2 DEF GoesOn
  <2> QED BY <2>1, <2>2 DEF NextCursor
<1> QED BY <1>3, <1>4

LEMMA XReadGroupTypes ==
    ASSUME NEW n \in last..NMsgs, Base, XReadGroup(n), idle' = idle
    PROVE  /\ last' = n /\ last' \in 0..NMsgs
           /\ NewUpTo(n) \subseteq 1..n
           /\ pending' \subseteq 1..last' /\ idle' \subseteq pending'
<1>1. last \in Nat /\ NMsgs \in Nat
  BY ConsumerConstants DEF Base, RedisTypes
<1>2. NewUpTo(n) \subseteq 1..n /\ 1..last \subseteq 1..n
  BY <1>1 DEF NewUpTo
<1>3. last' = n /\ pending' = pending \cup NewUpTo(n)
  BY DEF XReadGroup
<1>4. n \in 0..NMsgs
  BY <1>1
<1> QED BY <1>1, <1>2, <1>3, <1>4 DEF Base, RedisTypes

LEMMA FaultType ==
    ASSUME NEW k, Fault(k), Base PROVE FaultTypes'
  BY ConsumerConstants DEF Base, FaultTypes, Fault

-----------------------------------------------------------------------------
LEMMA BaseIsTypeOK == Base => TypeOK
  BY DEF Base, RedisTypes, DbTypes, LocalTypes, FaultTypes, TypeOK

LEMMA BaseInit == Init => Base
  BY ConsumerConstants
  DEF Init, Base, RedisTypes, DbTypes, LocalTypes, FaultTypes, HasMsg, PCs,
      LoopSteps, Msgs

LEMMA BaseProcess ==
    ASSUME NEW c \in Consumers, Base, Process(c) PROVE Base'
<1> USE DEF redisVars, dbVars, pel, done, XAck
<1>0. CASE AutoClaim(c)
  <2>1. LocalTypes'
    BY <1>0, NextCursorTypes
    DEF AutoClaim, Goto, Base, LocalTypes, RedisTypes, PCs, Answer, Due
  <2>2. HasMsg'
    BY <1>0 DEF AutoClaim, Goto, Base, LocalTypes, HasMsg, LoopSteps
  <2>3. RedisTypes'
    BY <1>0, XAutoClaimTypes DEF AutoClaim, Base, RedisTypes
  <2> QED BY <1>0, <2>1, <2>2, <2>3 DEF AutoClaim, Base, DbTypes, FaultTypes
<1>1. CASE ReadNew(c)
  <2>1. PICK n \in last..NMsgs :
          XReadGroup(n) /\ batch' = [batch EXCEPT ![c] = NewUpTo(n)]
    BY <1>1 DEF ReadNew
  <2>2. last \in Nat /\ NMsgs \in Nat
    BY ConsumerConstants DEF Base, RedisTypes
  <2>3. /\ last' = n /\ last' \in 0..NMsgs /\ NewUpTo(n) \subseteq 1..n
        /\ pending' \subseteq 1..last' /\ idle' \subseteq pending'
    BY <1>1, <2>1, XReadGroupTypes DEF ReadNew
  <2>4. RedisTypes' /\ DbTypes' /\ FaultTypes'
    BY <1>1, <2>3 DEF ReadNew, Base, RedisTypes, DbTypes, FaultTypes
  <2>5. 1..last \subseteq 1..n /\ 0..last \subseteq 0..n
    BY <2>1, <2>2
  <2>6. LocalTypes'
    BY <1>1, <2>1, <2>3, <2>5 DEF ReadNew, Goto, Base, LocalTypes, PCs
  <2>7. HasMsg'
    BY <1>1, <2>3, <2>5 DEF ReadNew, Goto, Base, LocalTypes, HasMsg, LoopSteps
  <2> QED BY <2>4, <2>6, <2>7 DEF Base
<1>2. CASE BatchDone(c)
  <2>1. after[c] \in PCs /\ after[c] \in LoopSteps
    BY DEF Base, LocalTypes, PCs, LoopSteps
  <2>2. LocalTypes' /\ HasMsg'
    BY <1>2, <2>1, GotoTypes DEF BatchDone
  <2> QED BY <1>2, <2>2 DEF BatchDone, Base, RedisTypes, DbTypes, FaultTypes
<1>3. CASE Begin(c)
  <2>1. PICK m \in Msgs :
          /\ m \in batch[c]
          /\ msg' = [msg EXCEPT ![c] = m]
          /\ batch' = [batch EXCEPT ![c] = @ \ {m}]
          /\ Goto(c, IF m \in Bad THEN "route" ELSE "early")
    BY <1>3 DEF Begin, IsNext
  <2>2. m \in 1..last /\ m \in 0..last
    BY <2>1, ConsumerConstants DEF Base, LocalTypes, RedisTypes
  <2>3. LocalTypes' /\ HasMsg'
    BY <1>3, <2>1, <2>2 DEF Begin, Goto, Base, LocalTypes, HasMsg, PCs
  <2> QED BY <1>3, <2>3 DEF Begin, Base, RedisTypes, DbTypes, FaultTypes
<1>4. CASE BeginRaises(c)
  BY <1>4, LeaveHere DEF BeginRaises, Base, RedisTypes, DbTypes, FaultTypes
<1>5. CASE RouteComplete(c)
  <2>1. msg[c] \in Msgs
    BY <1>5, EvType DEF RouteComplete, LoopSteps
  <2>2. LocalTypes' /\ HasMsg' /\ lock' \in [Events -> Consumers \cup {None, Redactor}]
    BY <1>5, LeaveHere, ReturnTypes DEF RouteComplete, EndRoute, Base, DbTypes
  <2>3. FaultTypes'
    BY <1>5, FaultType DEF RouteComplete, Base, FaultTypes
  <2> QED BY <1>5, <2>1, <2>2, <2>3 DEF RouteComplete, Base, RedisTypes, DbTypes
<1>6. CASE EarlyLookup(c)
  <2>1. Ev(c) \in Events /\ pc[c] \notin LoopSteps
    BY <1>6, EvType DEF EarlyLookup, LoopSteps
  <2>2. LocalTypes'
    BY <1>6, <2>1 DEF EarlyLookup, Goto, Base, LocalTypes, PCs
  <2>3. HasMsg'
    BY <1>6, <2>1 DEF EarlyLookup, Goto, Base, LocalTypes, HasMsg
  <2>4. RedisTypes'
    BY <1>6, <2>1 DEF EarlyLookup, Base, RedisTypes
  <2> QED BY <1>6, <2>2, <2>3, <2>4 DEF EarlyLookup, Base, DbTypes, FaultTypes
<1>7. CASE DedupGate(c)
  <2>1. LocalTypes' /\ HasMsg'
    BY <1>7, GotoTypes, ReturnTypes DEF DedupGate, PCs, LoopSteps
  <2> QED BY <1>7, <2>1 DEF DedupGate, Base, RedisTypes, DbTypes, FaultTypes
<1>8. CASE Claim(c)
  <2>1. Ev(c) \in Events
    BY <1>8, EvType DEF Claim, LoopSteps
  <2>2. LocalTypes' /\ HasMsg'
    BY <1>8, GotoTypes DEF Claim, PCs, LoopSteps
  <2>3. RedisTypes'
    BY <1>8, <2>1 DEF Claim, Base, RedisTypes
  <2> QED BY <1>8, <2>2, <2>3 DEF Claim, Base, DbTypes, FaultTypes
<1>9. CASE CheckHolder(c)
  <2>1. LocalTypes' /\ HasMsg'
    BY <1>9, GotoTypes, ReturnTypes DEF CheckHolder, PCs, LoopSteps
  <2> QED BY <1>9, <2>1 DEF CheckHolder, Base, RedisTypes, DbTypes, FaultTypes
<1>10. CASE Loser(c)
  BY <1>10, ReturnTypes DEF Loser, Base, RedisTypes, DbTypes, FaultTypes
<1>11. CASE AcquireEventLock(c)
  <2>1. LocalTypes' /\ HasMsg'
    BY <1>11, GotoTypes DEF AcquireEventLock, PCs, LoopSteps
  <2> QED BY <1>11, <2>1 DEF AcquireEventLock, Base, RedisTypes, DbTypes, FaultTypes
<1>12. CASE FetchRegistry(c)
  <2>1. pc[c] \notin LoopSteps
    BY <1>12 DEF FetchRegistry, LoopSteps
  <2>2. LocalTypes'
    BY <1>12 DEF FetchRegistry, Goto, Base, LocalTypes, PCs
  <2>3. HasMsg'
    BY <1>12, <2>1 DEF FetchRegistry, Goto, Base, LocalTypes, HasMsg
  <2> QED BY <1>12, <2>2, <2>3 DEF FetchRegistry, Base, RedisTypes, DbTypes, FaultTypes
<1>13. CASE AckAudit(c)
  <2>1. LocalTypes' /\ HasMsg'
    BY <1>13, GotoTypes DEF AckAudit, PCs, LoopSteps
  <2>2. Ev(c) \in Events
    BY <1>13, EvType DEF AckAudit, LoopSteps
  <2>3. DbTypes'
    BY <1>13, <2>2, UnlockedType DEF AckAudit, Base, DbTypes
  <2> QED BY <1>13, <2>1, <2>3 DEF AckAudit, Base, RedisTypes, FaultTypes
<1>14. CASE AckLua(c)
  <2>1. Ev(c) \in Events
    BY <1>14, EvType DEF AckLua, LoopSteps
  <2>2. RedisTypes'
    BY <1>14, <2>1 DEF AckLua, LuaEffect, Base, RedisTypes
  <2> QED BY <1>14, <2>2, ReturnTypes DEF AckLua, Base, DbTypes, FaultTypes
<1>15. CASE BodyRaises(c)
  <2>1. FaultTypes'
    BY <1>15, FaultType DEF BodyRaises, Base, FaultTypes
  <2> QED BY <1>15, <2>1, LeaveHere DEF BodyRaises, Base, RedisTypes, DbTypes
<1> QED BY <1>0, <1>1, <1>2, <1>3, <1>4, <1>5, <1>6, <1>7, <1>8, <1>9, <1>10, <1>11,
           <1>12, <1>13, <1>14, <1>15 DEF Process

LEMMA BaseFailing ==
    ASSUME NEW c \in Consumers, Base, Failing(c) PROVE Base'
<1> USE DEF redisVars, pel, done, XAck
<1>1. CASE RouteAborted(c)
  <2>1. LocalTypes' /\ HasMsg' /\ lock' \in [Events -> Consumers \cup {None, Redactor}]
    BY <1>1, LeaveHere, ReturnTypes DEF RouteAborted, EndRoute, Base, DbTypes
  <2> QED BY <1>1, <2>1, FaultType DEF RouteAborted, Base, RedisTypes, DbTypes
<1>2. CASE RouteRaises(c)
  BY <1>2, LeaveHere, FaultType DEF RouteRaises, Base, RedisTypes, DbTypes
<1>3. CASE LookupRaises(c)
  BY <1>3, LeaveHere, FaultType DEF LookupRaises, Base, RedisTypes, DbTypes
<1>4. CASE LockRaises(c)
  <2>1. RedisTypes'
    BY <1>4 DEF LockRaises, Base, RedisTypes
  <2> QED BY <1>4, <2>1, LeaveHere, FaultType DEF LockRaises, Base, DbTypes
<1>5. CASE SpanRaises(c)
  <2>1. pc[c] \notin LoopSteps /\ msg[c] \in Msgs
    BY <1>5, EvType DEF SpanRaises, LoopSteps
  <2>2. RedisTypes'
    <3>1. failures' \in [Msgs -> Nat]
      BY <1>5, <2>1 DEF SpanRaises, Base, RedisTypes
    <3>2. claim' \in [Events -> Consumers \cup {None}]
      BY <1>5 DEF SpanRaises, Base, RedisTypes
    <3> QED BY <1>5, <3>1, <3>2 DEF SpanRaises, Base, RedisTypes
  <2>3. LocalTypes' /\ HasMsg' /\ lock' \in [Events -> Consumers \cup {None, Redactor}]
    <3>1. CASE Leave(c)
      BY <1>5, <3>1, LeaveHere DEF SpanRaises
    <3>2. CASE Goto(c, "route") /\ UNCHANGED locals /\ UNCHANGED lock
      BY <1>5, <2>1, <3>2, GotoTypes DEF SpanRaises, PCs, Base, DbTypes
    <3> QED BY <1>5, <3>1, <3>2 DEF SpanRaises, locals
  <2> QED BY <1>5, <2>2, <2>3, FaultType DEF SpanRaises, Base, DbTypes
<1>6. CASE AckLuaFails(c)
  <2>1. Ev(c) \in Events
    BY <1>6, EvType DEF AckLuaFails, LoopSteps
  <2>2. RedisTypes'
    <3>1. CASE LuaEffect(c)
      BY <1>6, <2>1, <3>1 DEF AckLuaFails, LuaEffect, Base, RedisTypes
    <3>2. CASE UNCHANGED <<done, claim, pel>>
      BY <1>6, <3>2 DEF AckLuaFails, Base, RedisTypes
    <3> QED BY <1>6, <3>1, <3>2 DEF AckLuaFails
  <2> QED BY <1>6, <2>2, LeaveHere, FaultType DEF AckLuaFails, Base, DbTypes
<1>7. CASE SkipAck(c)
  BY <1>7, ReturnTypes, UnlockedType, FaultType DEF SkipAck, Base, RedisTypes, DbTypes
<1>8. CASE Crash(c)
  BY <1>8, LeaveHere, FaultType DEF Crash, Base, RedisTypes, DbTypes
<1>9. CASE AutoClaimFails(c)
  <2>1. LocalTypes' /\ HasMsg'
    BY <1>9, GotoTypes DEF AutoClaimFails, PCs, LoopSteps
  <2>2. RedisTypes'
    BY <1>9, XAutoClaimTypes DEF AutoClaimFails, Base, RedisTypes
  <2> QED BY <1>9, <2>1, <2>2, FaultType DEF AutoClaimFails, dbVars, Base, DbTypes
<1>10. CASE ReadFails(c)
  <2>1. /\ last' \in last..NMsgs /\ last' \in 0..NMsgs
        /\ pending' \subseteq 1..last' /\ idle' \subseteq pending'
    <3>1. CASE UNCHANGED <<last, pending>>
      BY <1>10, <3>1, ConsumerConstants DEF ReadFails, Base, RedisTypes
    <3>2. CASE \E n \in last..NMsgs : XReadGroup(n)
      BY <1>10, <3>2, XReadGroupTypes DEF ReadFails
    <3> QED BY <1>10, <3>1, <3>2 DEF ReadFails
  <2>2. RedisTypes'
    BY <1>10, <2>1 DEF ReadFails, Base, RedisTypes
  <2> QED BY <1>10, <2>1, <2>2, LeaveTypes, FaultType DEF ReadFails, Base, DbTypes
<1> QED BY <1>1, <1>2, <1>3, <1>4, <1>5, <1>6, <1>7, <1>8, <1>9, <1>10 DEF Failing

LEMMA BaseStep == Base /\ [Next]_vars => Base'
<1> SUFFICES ASSUME Base, [Next]_vars PROVE Base'
  OBVIOUS
<1> USE DEF pel, done
<1>1. ASSUME NEW m \in Msgs, GetsIdle(m) PROVE Base'
  <2>1. LocalTypes' /\ HasMsg'
    BY <1>1 DEF GetsIdle, locals, Base, LocalTypes, HasMsg
  <2> QED BY <1>1, <2>1 DEF GetsIdle, dbVars, Base, RedisTypes, DbTypes, FaultTypes
<1>2. ASSUME NEW e \in Events, ClaimExpires(e) \/ Operate(e) \/ Redact(e) PROVE Base'
  <2>1. LocalTypes' /\ HasMsg'
    BY <1>2 DEF ClaimExpires, Operate, ClaimRelease, ProcessedClear, Redact,
                RedactInsert, RedactCommit, RedactRollback, redisVars, locals,
                Base, LocalTypes, HasMsg
  <2>2. FaultTypes'
    BY <1>2, FaultType DEF ClaimExpires, Operate, ClaimRelease, ProcessedClear,
                Redact, RedactInsert, RedactCommit, RedactRollback, Base, FaultTypes
  <2>3. RedisTypes' /\ DbTypes'
    BY <1>2 DEF ClaimExpires, Operate, ClaimRelease, ProcessedClear, Redact,
                RedactInsert, RedactCommit, RedactRollback, redisVars, dbVars,
                Base, RedisTypes, DbTypes
  <2> QED BY <2>1, <2>2, <2>3 DEF Base
<1>3. CASE UNCHANGED vars
  BY <1>3 DEF vars, redisVars, dbVars, locals, Base, RedisTypes, DbTypes,
              LocalTypes, FaultTypes, HasMsg
<1>4. CASE ProcessedExpires \/ Trim
  <2>1. LocalTypes' /\ HasMsg' /\ DbTypes'
    BY <1>4 DEF ProcessedExpires, Trim, dbVars, locals, Base, LocalTypes, HasMsg, DbTypes
  <2>2. FaultTypes'
    BY <1>4, FaultType DEF ProcessedExpires, Trim
  <2>3. trimmed' \in 0..NMsgs
    BY <1>4, ConsumerConstants DEF ProcessedExpires, Trim, Base, RedisTypes, Msgs
  <2>4. RedisTypes'
    BY <1>4, <2>3 DEF ProcessedExpires, Trim, Base, RedisTypes
  <2> QED BY <2>1, <2>2, <2>4 DEF Base
<1> QED BY <1>1, <1>2, <1>3, <1>4, BaseProcess, BaseFailing DEF Next

(* Every reachable state is type-correct, for any number of consumers,     *)
(* messages and faults.                                                    *)
THEOREM TypeCorrect == Spec => []TypeOK
<1>1. Spec => []Base
  BY BaseInit, BaseStep, PTL DEF Spec
<1> QED BY <1>1, BaseIsTypeOK, PTL

-----------------------------------------------------------------------------
(* The safety argument.  Whoever is at "fetch" or "yielded" holds the      *)
(* event's advisory lock, so no one else is there and no redaction can     *)
(* commit; whoever is at "acking" has committed its audit.                 *)
HoldsLock ==
    \A c \in Consumers : pc[c] \in {"fetch", "yielded"} => lock[Ev(c)] = c

AckingIsAudited == \A c \in Consumers : pc[c] = "acking" => audits[Ev(c)] > 0

(* Consumer d did not move and keeps its message and its redaction flag.   *)
Still(d) == pc'[d] = pc[d] /\ msg'[d] = msg[d] /\ red'[d] = red[d]

LockInv == HoldsLock /\ NoRawYieldAfterRedaction
AuditInv == AckingIsAudited /\ ProcessedIsAudited /\ NothingLost

LEMMA LockInvImpliesSingleYield == Base /\ LockInv => SingleYield
  BY DEF LockInv, HoldsLock, SingleYield

(* Leaving or returning: nobody else is touched, and no one else's lock    *)
(* goes away.                                                              *)
LEMMA LeaveStill ==
    ASSUME NEW c \in Consumers, Base, Leave(c) \/ Return(c)
    PROVE  /\ \A d \in Consumers \ {c} : Still(d)
           /\ pc'[c] \in LoopSteps
  BY DEF Base, LocalTypes, Leave, Return, Goto, Still, LoopSteps

LEMMA LockInvQuiet ==
    ASSUME NEW c \in Consumers, Base, LockInv,
           \A d \in Consumers \ {c} : Still(d),
           pc'[c] \notin {"fetch", "yielded"},
           lock' = lock \/ lock' = Unlocked(c), registry' = registry
    PROVE  LockInv'
<1>1. ASSUME NEW d \in Consumers, pc'[d] \in {"fetch", "yielded"}
      PROVE  /\ lock'[(Ev(d))'] = d
             /\ pc'[d] = "yielded" /\ ~red'[d] => (Ev(d))' \notin registry'
  <2>1. d # c /\ pc[d] = pc'[d] /\ msg'[d] = msg[d] /\ red'[d] = red[d]
    BY <1>1 DEF Still
  <2>2. Ev(d) \in Events /\ (Ev(d))' = Ev(d)
    BY <1>1, <2>1, EvType DEF LoopSteps, Ev
  <2>3. lock[Ev(d)] = d
    BY <1>1, <2>1 DEF LockInv, HoldsLock
  <2>4. lock'[Ev(d)] = d
    BY <2>1, <2>2, <2>3 DEF Unlocked
  <2> QED BY <1>1, <2>1, <2>2, <2>4 DEF LockInv, NoRawYieldAfterRedaction
<1> QED BY <1>1 DEF LockInv, HoldsLock, NoRawYieldAfterRedaction

LEMMA LockInvInit == Init => LockInv
  BY DEF Init, LockInv, HoldsLock, NoRawYieldAfterRedaction

LEMMA LockInvProcess ==
    ASSUME NEW c \in Consumers, Base, LockInv, Process(c) PROVE LockInv'
<1> USE DEF dbVars
<1>0. CASE AutoClaim(c)
  <2>1. \A d \in Consumers \ {c} : Still(d)
    BY <1>0 DEF AutoClaim, Goto, Still, Base, LocalTypes
  <2> QED BY <1>0, <2>1, LockInvQuiet DEF AutoClaim, Goto, Base, LocalTypes
<1>1. CASE ReadNew(c)
  <2>1. \A d \in Consumers \ {c} : Still(d)
    BY <1>1 DEF ReadNew, Goto, Still, Base, LocalTypes
  <2> QED BY <1>1, <2>1, LockInvQuiet DEF ReadNew, Goto, Base, LocalTypes
<1>2. CASE BatchDone(c)
  <2>1. /\ \A d \in Consumers \ {c} : Still(d)
        /\ pc'[c] \notin {"fetch", "yielded"}
    BY <1>2 DEF BatchDone, Goto, locals, Still, Base, LocalTypes
  <2> QED BY <1>2, <2>1, LockInvQuiet DEF BatchDone
<1>3. CASE Begin(c)
  <2>1. /\ \A d \in Consumers \ {c} : Still(d)
        /\ pc'[c] \notin {"fetch", "yielded"}
    BY <1>3 DEF Begin, Goto, Still, Base, LocalTypes
  <2> QED BY <1>3, <2>1, LockInvQuiet DEF Begin
<1>4. CASE BeginRaises(c)
  BY <1>4, LeaveStill, LockInvQuiet DEF BeginRaises, Leave, LoopSteps
<1>5. CASE RouteComplete(c)
  BY <1>5, LeaveStill, LockInvQuiet DEF RouteComplete, EndRoute, Leave, LoopSteps
<1>6. CASE EarlyLookup(c)
  <2>1. /\ \A d \in Consumers \ {c} : Still(d)
        /\ pc'[c] \notin {"fetch", "yielded"}
    BY <1>6 DEF EarlyLookup, Goto, Still, Base, LocalTypes
  <2> QED BY <1>6, <2>1, LockInvQuiet DEF EarlyLookup
<1>7. CASE DedupGate(c)
  <2>1. /\ \A d \in Consumers \ {c} : Still(d)
        /\ pc'[c] \notin {"fetch", "yielded"}
    BY <1>7, LeaveStill DEF DedupGate, Goto, locals, Still, Base, LocalTypes, LoopSteps
  <2> QED BY <1>7, <2>1, LockInvQuiet DEF DedupGate
<1>8. CASE Claim(c)
  <2>1. /\ \A d \in Consumers \ {c} : Still(d)
        /\ pc'[c] \notin {"fetch", "yielded"}
    BY <1>8 DEF Claim, Goto, locals, Still, Base, LocalTypes
  <2> QED BY <1>8, <2>1, LockInvQuiet DEF Claim
<1>9. CASE CheckHolder(c)
  <2>1. /\ \A d \in Consumers \ {c} : Still(d)
        /\ pc'[c] \notin {"fetch", "yielded"}
    BY <1>9, LeaveStill DEF CheckHolder, Goto, locals, Still, Base, LocalTypes, LoopSteps
  <2> QED BY <1>9, <2>1, LockInvQuiet DEF CheckHolder
<1>10. CASE Loser(c)
  BY <1>10, LeaveStill, LockInvQuiet DEF Loser, LoopSteps
<1>11. CASE AcquireEventLock(c)
  <2>1. /\ \A d \in Consumers : d # c => pc'[d] = pc[d]
        /\ pc'[c] = "fetch" /\ msg' = msg /\ red' = red /\ registry' = registry
    BY <1>11 DEF AcquireEventLock, Goto, locals, Base, LocalTypes
  <2>2. Ev(c) \in Events /\ lock[Ev(c)] = None /\ lock' = [lock EXCEPT ![Ev(c)] = c]
    BY <1>11, EvType DEF AcquireEventLock, LoopSteps
  <2>3. \A d \in Consumers : (Ev(d))' = Ev(d)
    BY <2>1 DEF Ev
  <2>4. lock'[Ev(c)] = c
    BY <2>2 DEF Base, DbTypes
  <2>5. ASSUME NEW d \in Consumers, d # c, pc[d] \in {"fetch", "yielded"}
        PROVE  lock'[Ev(d)] = d
    <3>1. lock[Ev(d)] = d /\ Ev(d) \in Events
      BY <2>5, EvType DEF LockInv, HoldsLock, LoopSteps
    <3>2. Ev(d) # Ev(c)
      BY <2>2, <3>1, ConsumerConstants
    <3> QED BY <2>2, <3>1, <3>2 DEF Base, DbTypes
  <2>6. HoldsLock'
    BY <2>1, <2>3, <2>4, <2>5 DEF HoldsLock
  <2>7. NoRawYieldAfterRedaction'
    BY <2>1, <2>3 DEF LockInv, NoRawYieldAfterRedaction
  <2> QED BY <2>6, <2>7 DEF LockInv
<1>12. CASE FetchRegistry(c)
  <2>1. /\ \A d \in Consumers : d # c => pc'[d] = pc[d] /\ red'[d] = red[d]
        /\ pc[c] = "fetch" /\ pc'[c] = "yielded" /\ msg' = msg
        /\ registry' = registry /\ lock' = lock
        /\ red'[c] = (red[c] \/ Ev(c) \in registry)
    BY <1>12 DEF FetchRegistry, Goto, Base, LocalTypes
  <2>2. \A d \in Consumers : (Ev(d))' = Ev(d)
    BY <2>1 DEF Ev
  <2>3. HoldsLock'
    BY <2>1, <2>2 DEF LockInv, HoldsLock
  <2>4. NoRawYieldAfterRedaction'
    BY <2>1, <2>2 DEF LockInv, NoRawYieldAfterRedaction
  <2> QED BY <2>3, <2>4 DEF LockInv
<1>13. CASE AckAudit(c)
  <2>1. /\ \A d \in Consumers \ {c} : Still(d)
        /\ pc'[c] \notin {"fetch", "yielded"}
    BY <1>13 DEF AckAudit, Goto, locals, Still, Base, LocalTypes
  <2> QED BY <1>13, <2>1, LockInvQuiet DEF AckAudit
<1>14. CASE AckLua(c)
  BY <1>14, LeaveStill, LockInvQuiet DEF AckLua, LoopSteps
<1>15. CASE BodyRaises(c)
  BY <1>15, LeaveStill, LockInvQuiet DEF BodyRaises, Leave, LoopSteps
<1> QED BY <1>0, <1>1, <1>2, <1>3, <1>4, <1>5, <1>6, <1>7, <1>8, <1>9, <1>10, <1>11,
           <1>12, <1>13, <1>14, <1>15 DEF Process

LEMMA LockInvFailing ==
    ASSUME NEW c \in Consumers, Base, LockInv, Failing(c) PROVE LockInv'
<1>1. CASE SpanRaises(c)
  <2>1. /\ \A d \in Consumers \ {c} : Still(d)
        /\ pc'[c] \notin {"fetch", "yielded"}
    BY <1>1, LeaveStill DEF SpanRaises, Goto, locals, Still, Base, LocalTypes, LoopSteps
  <2> QED BY <1>1, <2>1, LockInvQuiet DEF SpanRaises, Leave
<1>2. CASE RouteAborted(c)
  BY <1>2, LeaveStill, LockInvQuiet DEF RouteAborted, EndRoute, Leave, LoopSteps
<1>3. CASE SkipAck(c)
  BY <1>3, LeaveStill, LockInvQuiet DEF SkipAck, LoopSteps
<1>4. CASE \/ RouteRaises(c) \/ LookupRaises(c) \/ LockRaises(c) \/ AckLuaFails(c)
           \/ Crash(c) \/ ReadFails(c)
  BY <1>4, LeaveStill, LockInvQuiet
  DEF RouteRaises, LookupRaises, LockRaises, AckLuaFails, Crash, ReadFails, Leave, LoopSteps
<1>5. CASE AutoClaimFails(c)
  <2>1. /\ \A d \in Consumers \ {c} : Still(d)
        /\ pc'[c] \notin {"fetch", "yielded"}
    BY <1>5 DEF AutoClaimFails, Goto, locals, Still, Base, LocalTypes
  <2> QED BY <1>5, <2>1, LockInvQuiet DEF AutoClaimFails, dbVars
<1> QED BY <1>1, <1>2, <1>3, <1>4, <1>5 DEF Failing

(* A redaction takes, keeps and releases the event's lock; the events of   *)
(* consumers at "fetch" or "yielded" are out of its reach.                 *)
LEMMA LockInvRedact ==
    ASSUME NEW e \in Events, Base, LockInv, Redact(e) PROVE LockInv'
<1>1. /\ pc' = pc /\ msg' = msg /\ red' = red /\ lock[e] \in {None, Redactor}
      /\ \A f \in Events \ {e} : lock'[f] = lock[f]
      /\ registry' = registry \/ registry' = registry \cup {e}
  BY DEF Redact, RedactInsert, RedactCommit, RedactRollback, locals, Base, DbTypes
<1>2. ASSUME NEW d \in Consumers, pc[d] \in {"fetch", "yielded"}
      PROVE  Ev(d) \in Events \ {e} /\ lock[Ev(d)] = d
  BY <1>1, <1>2, EvType, ConsumerConstants DEF LockInv, HoldsLock, LoopSteps
<1>3. \A d \in Consumers : (Ev(d))' = Ev(d)
  BY <1>1 DEF Ev
<1>4. HoldsLock'
  BY <1>1, <1>2, <1>3 DEF HoldsLock
<1>5. NoRawYieldAfterRedaction'
  BY <1>1, <1>2, <1>3 DEF LockInv, NoRawYieldAfterRedaction
<1> QED BY <1>4, <1>5 DEF LockInv

LEMMA LockInvStep == Base /\ LockInv /\ [Next]_vars => LockInv'
<1> SUFFICES ASSUME Base, LockInv, [Next]_vars PROVE LockInv'
  OBVIOUS
<1>1. ASSUME NEW m \in Msgs, GetsIdle(m) PROVE LockInv'
  BY <1>1 DEF GetsIdle, dbVars, locals, LockInv, HoldsLock, NoRawYieldAfterRedaction, Ev
<1>2. ASSUME NEW e \in Events, ClaimExpires(e) \/ Operate(e) PROVE LockInv'
  BY <1>2 DEF ClaimExpires, Operate, ClaimRelease, ProcessedClear, dbVars, locals,
              LockInv, HoldsLock, NoRawYieldAfterRedaction, Ev
<1>3. CASE UNCHANGED vars \/ ProcessedExpires \/ Trim
  BY <1>3 DEF vars, ProcessedExpires, Trim, dbVars, locals, LockInv, HoldsLock,
              NoRawYieldAfterRedaction, Ev
<1> QED BY <1>1, <1>2, <1>3, LockInvProcess, LockInvFailing, LockInvRedact DEF Next

(* For any group and any stream, an event is never in the hands of two     *)
(* callers: the advisory lock of step 4 decides, not the claim lease.      *)
THEOREM OneCallerAtATime == Spec => []SingleYield
<1>1. Init => Base /\ LockInv
  BY BaseInit, LockInvInit
<1>2. Base /\ LockInv /\ [Next]_vars => (Base /\ LockInv)'
  BY BaseStep, LockInvStep
<1>3. Base /\ LockInv => SingleYield
  BY LockInvImpliesSingleYield
<1> QED BY <1>1, <1>2, <1>3, PTL DEF Spec

(* For any group and any stream, a caller that holds an original payload   *)
(* holds it while no redaction of that event is committed.                 *)
THEOREM RedactionIsRespected == Spec => []NoRawYieldAfterRedaction
<1>1. Init => Base /\ LockInv
  BY BaseInit, LockInvInit
<1>2. Base /\ LockInv /\ [Next]_vars => (Base /\ LockInv)'
  BY BaseStep, LockInvStep
<1>3. Base /\ LockInv => NoRawYieldAfterRedaction
  BY DEF LockInv
<1> QED BY <1>1, <1>2, <1>3, PTL DEF Spec

-----------------------------------------------------------------------------
(* A step that settles at most the message in hand, and that one only when *)
(* its event is audited or the message dead-lettered.                      *)
LEMMA AuditFrame ==
    ASSUME NEW c \in Consumers, Base, AuditInv,
           \A d \in Consumers \ {c} : Still(d), pc'[c] # "acking",
           last' = last, trimmed' = trimmed, audits' = audits, dead \subseteq dead',
           \/ pending' = pending
           \/ /\ pending' = pending \ {msg[c]}
              /\ audits[Ev(c)] > 0 \/ msg[c] \in dead',
           \/ processed' \subseteq processed
           \/ processed' = processed \cup {Ev(c)} /\ audits[Ev(c)] > 0
    PROVE  AuditInv'
<1>1. AckingIsAudited'
  BY DEF AuditInv, AckingIsAudited, Still, Ev
<1>2. ProcessedIsAudited'
  BY DEF AuditInv, ProcessedIsAudited
<1>3. NothingLost'
  BY DEF AuditInv, NothingLost, Ev
<1> QED BY <1>1, <1>2, <1>3 DEF AuditInv

(* The two calls that deliver: XAUTOCLAIM drops only evicted entries.      *)
LEMMA XAutoClaimKeeps ==
    ASSUME NEW c \in Consumers, Base, AuditInv, XAutoClaim(c),
           UNCHANGED <<trimmed, last, audits, dead>>
    PROVE  NothingLost'
<1>1. \A m \in 1..last : m \in pending => m \in pending' \/ m <= trimmed
  BY DEF XAutoClaim, Base, RedisTypes
<1> QED BY <1>1 DEF AuditInv, NothingLost

LEMMA XReadGroupKeeps ==
    ASSUME NEW n \in last..NMsgs, Base, AuditInv, XReadGroup(n),
           UNCHANGED <<trimmed, audits, dead>>
    PROVE  NothingLost'
<1>1. last \in Nat /\ NMsgs \in Nat
  BY ConsumerConstants DEF Base, RedisTypes
<1>2. \A m \in 1..n : m \in 1..last \/ m \in last+1..n
  BY <1>1
<1>3. \A m \in 1..n : m \in 1..trimmed => m <= trimmed
  BY DEF Base, RedisTypes
<1>4. last' = n /\ pending' = pending \cup ((last+1 .. n) \ (1..trimmed))
  BY DEF XReadGroup, NewUpTo
<1> QED BY <1>2, <1>3, <1>4 DEF AuditInv, NothingLost

LEMMA AuditInvInit == Init => AuditInv
  BY ConsumerConstants
  DEF Init, AuditInv, AckingIsAudited, ProcessedIsAudited, NothingLost

LEMMA AuditInvProcess ==
    ASSUME NEW c \in Consumers, Base, AuditInv, Process(c) PROVE AuditInv'
<1> USE DEF redisVars, dbVars, pel, done, XAck
<1>0. CASE AutoClaim(c)
  <2>1. AckingIsAudited' /\ ProcessedIsAudited'
    BY <1>0 DEF AutoClaim, Goto, Base, LocalTypes, AuditInv, AckingIsAudited,
                ProcessedIsAudited, Ev
  <2> QED BY <1>0, <2>1, XAutoClaimKeeps DEF AutoClaim, AuditInv
<1>1. CASE ReadNew(c)
  <2>1. AckingIsAudited' /\ ProcessedIsAudited'
    BY <1>1 DEF ReadNew, Goto, AuditInv, AckingIsAudited, ProcessedIsAudited, Ev,
                Base, LocalTypes
  <2> QED BY <1>1, <2>1, XReadGroupKeeps DEF ReadNew, AuditInv
<1>2. CASE BatchDone(c)
  <2>1. (\A d \in Consumers \ {c} : Still(d)) /\ pc'[c] # "acking"
    BY <1>2 DEF BatchDone, Goto, locals, Still, Base, LocalTypes
  <2> QED BY <1>2, <2>1, AuditFrame DEF BatchDone
<1>3. CASE Begin(c)
  <2>1. (\A d \in Consumers \ {c} : Still(d)) /\ pc'[c] # "acking"
    BY <1>3 DEF Begin, Goto, Still, Base, LocalTypes
  <2> QED BY <1>3, <2>1, AuditFrame DEF Begin
<1>4. CASE BeginRaises(c)
  BY <1>4, LeaveStill, AuditFrame DEF BeginRaises, LoopSteps
<1>5. CASE RouteComplete(c)
  <2>1. (\A d \in Consumers \ {c} : Still(d)) /\ pc'[c] # "acking"
    BY <1>5, LeaveStill DEF RouteComplete, EndRoute, LoopSteps
  <2> QED BY <1>5, <2>1, AuditFrame DEF RouteComplete
<1>6. CASE EarlyLookup(c)
  <2>1. (\A d \in Consumers \ {c} : Still(d)) /\ pc'[c] # "acking"
    BY <1>6 DEF EarlyLookup, Goto, Still, Base, LocalTypes
  <2> QED BY <1>6, <2>1, AuditFrame DEF EarlyLookup
<1>7. CASE DedupGate(c)
  <2>1. (\A d \in Consumers \ {c} : Still(d)) /\ pc'[c] # "acking"
    BY <1>7, LeaveStill DEF DedupGate, Goto, locals, Still, Base, LocalTypes, LoopSteps
  <2>2. Ev(c) \in processed => audits[Ev(c)] > 0
    BY DEF AuditInv, ProcessedIsAudited
  <2> QED BY <1>7, <2>1, <2>2, AuditFrame DEF DedupGate
<1>8. CASE Claim(c)
  <2>1. (\A d \in Consumers \ {c} : Still(d)) /\ pc'[c] # "acking"
    BY <1>8 DEF Claim, Goto, locals, Still, Base, LocalTypes
  <2> QED BY <1>8, <2>1, AuditFrame DEF Claim
<1>9. CASE CheckHolder(c)
  <2>1. (\A d \in Consumers \ {c} : Still(d)) /\ pc'[c] # "acking"
    BY <1>9, LeaveStill DEF CheckHolder, Goto, locals, Still, Base, LocalTypes, LoopSteps
  <2> QED BY <1>9, <2>1, AuditFrame DEF CheckHolder
<1>10. CASE Loser(c)
  <2>1. Ev(c) \in processed => audits[Ev(c)] > 0
    BY DEF AuditInv, ProcessedIsAudited
  <2> QED BY <1>10, <2>1, LeaveStill, AuditFrame DEF Loser, LoopSteps
<1>11. CASE AcquireEventLock(c)
  <2>1. (\A d \in Consumers \ {c} : Still(d)) /\ pc'[c] # "acking"
    BY <1>11 DEF AcquireEventLock, Goto, locals, Still, Base, LocalTypes
  <2> QED BY <1>11, <2>1, AuditFrame DEF AcquireEventLock
<1>12. CASE FetchRegistry(c)
  <2>1. (\A d \in Consumers \ {c} : Still(d)) /\ pc'[c] # "acking"
    BY <1>12 DEF FetchRegistry, Goto, Still, Base, LocalTypes
  <2> QED BY <1>12, <2>1, AuditFrame DEF FetchRegistry
<1>13. CASE AckAudit(c)
  <2>1. Ev(c) \in Events
    BY <1>13, EvType DEF AckAudit, LoopSteps
  <2>2. /\ audits'[Ev(c)] > 0
        /\ \A e \in Events : audits[e] > 0 => audits'[e] > 0
    BY <1>13, <2>1 DEF AckAudit, Base, DbTypes
  <2>3. processed \subseteq Events /\ \A m \in 1..last : EventOf[m] \in Events
    BY ConsumerConstants DEF Base, RedisTypes, Msgs
  <2>4. ProcessedIsAudited' /\ NothingLost'
    BY <1>13, <2>2, <2>3 DEF AckAudit, AuditInv, ProcessedIsAudited, NothingLost
  <2>5. ASSUME NEW d \in Consumers, pc'[d] = "acking" PROVE audits'[(Ev(d))'] > 0
    <3>1. (Ev(d))' = Ev(d)
      BY <1>13 DEF AckAudit, locals, Ev
    <3>2. CASE d # c
      BY <1>13, <2>2, <2>5, <3>1, <3>2, EvType
      DEF AckAudit, Goto, AuditInv, AckingIsAudited, Base, LocalTypes, LoopSteps
    <3> QED BY <2>2, <3>1, <3>2
  <2> QED BY <2>4, <2>5 DEF AuditInv, AckingIsAudited
<1>14. CASE AckLua(c)
  <2>1. audits[Ev(c)] > 0
    BY <1>14 DEF AckLua, AuditInv, AckingIsAudited
  <2> QED BY <1>14, <2>1, LeaveStill, AuditFrame DEF AckLua, LuaEffect, LoopSteps
<1>15. CASE BodyRaises(c)
  BY <1>15, LeaveStill, AuditFrame DEF BodyRaises, LoopSteps
<1> QED BY <1>0, <1>1, <1>2, <1>3, <1>4, <1>5, <1>6, <1>7, <1>8, <1>9, <1>10, <1>11,
           <1>12, <1>13, <1>14, <1>15 DEF Process

LEMMA AuditInvStep == Base /\ AuditInv /\ [Next]_vars => AuditInv'
<1> SUFFICES ASSUME Base, AuditInv, [Next]_vars PROVE AuditInv'
  OBVIOUS
<1>1. ASSUME NEW c \in Consumers, Failing(c) PROVE AuditInv'
  <2> USE DEF redisVars, pel, done, XAck
  <2>1. CASE SpanRaises(c)
    <3>1. (\A d \in Consumers \ {c} : Still(d)) /\ pc'[c] # "acking"
      BY <2>1, LeaveStill DEF SpanRaises, Goto, locals, Still, Base, LocalTypes, LoopSteps
    <3> QED BY <2>1, <3>1, AuditFrame DEF SpanRaises
  <2>2. CASE RouteAborted(c)
    BY <2>2, LeaveStill, AuditFrame DEF RouteAborted, EndRoute, LoopSteps
  <2>3. CASE AckLuaFails(c)
    <3>1. audits[Ev(c)] > 0
      BY <2>3 DEF AckLuaFails, AuditInv, AckingIsAudited
    <3> QED BY <2>3, <3>1, LeaveStill, AuditFrame DEF AckLuaFails, LuaEffect, LoopSteps
  <2>4. CASE RouteRaises(c) \/ LookupRaises(c) \/ LockRaises(c) \/ SkipAck(c) \/ Crash(c)
    BY <2>4, LeaveStill, AuditFrame
    DEF RouteRaises, LookupRaises, LockRaises, SkipAck, Crash, LoopSteps
  <2>5. CASE AutoClaimFails(c)
    <3>1. AckingIsAudited' /\ ProcessedIsAudited'
      BY <2>5 DEF AutoClaimFails, Goto, dbVars, locals, Base, LocalTypes, AuditInv,
                  AckingIsAudited, ProcessedIsAudited, Ev
    <3>2. NothingLost'
      BY <2>5, XAutoClaimKeeps DEF AutoClaimFails, dbVars, AuditInv, NothingLost
    <3> QED BY <3>1, <3>2 DEF AuditInv
  <2>6. CASE ReadFails(c)
    <3>1. AckingIsAudited'
      BY <2>6, LeaveStill DEF ReadFails, AuditInv, AckingIsAudited, Still, Ev, LoopSteps
    <3>2. ProcessedIsAudited'
      BY <2>6 DEF ReadFails, AuditInv, ProcessedIsAudited
    <3>3. NothingLost'
      BY <2>6, XReadGroupKeeps DEF ReadFails, AuditInv, NothingLost
    <3> QED BY <3>1, <3>2, <3>3 DEF AuditInv
  <2> QED BY <1>1, <2>1, <2>2, <2>3, <2>4, <2>5, <2>6 DEF Failing
<1> USE DEF pel, done
<1>2. ASSUME NEW m \in Msgs, GetsIdle(m) PROVE AuditInv'
  BY <1>2 DEF GetsIdle, dbVars, locals, AuditInv, AckingIsAudited, ProcessedIsAudited,
              NothingLost, Ev
<1>3. ASSUME NEW e \in Events, ClaimExpires(e) \/ Operate(e) \/ Redact(e) PROVE AuditInv'
  BY <1>3 DEF ClaimExpires, Operate, ClaimRelease, ProcessedClear, Redact, RedactInsert,
              RedactCommit, RedactRollback, redisVars, dbVars, locals, AuditInv,
              AckingIsAudited, ProcessedIsAudited, NothingLost, Ev
<1>4. CASE UNCHANGED vars
  BY <1>4 DEF vars, redisVars, dbVars, locals, AuditInv, AckingIsAudited,
              ProcessedIsAudited, NothingLost, Ev
<1>5. CASE ProcessedExpires
  BY <1>5 DEF ProcessedExpires, dbVars, locals, AuditInv, AckingIsAudited,
              ProcessedIsAudited, NothingLost, Ev
<1>6. CASE Trim
  <2>1. \A m \in 1..last : m <= trimmed => m <= trimmed'
    BY <1>6, ConsumerConstants DEF Trim, Msgs, Base, RedisTypes
  <2> QED BY <1>6, <2>1 DEF Trim, dbVars, locals, AuditInv, AckingIsAudited,
              ProcessedIsAudited, NothingLost, Ev
<1> QED BY <1>1, <1>2, <1>3, <1>4, <1>5, <1>6, AuditInvProcess DEF Next

(* For any group and any stream, a delivered message leaves the PEL only   *)
(* after an audited ack of its event or a completed dead-letter routing.   *)
THEOREM NoMessageIsLost == Spec => []NothingLost
<1>1. Init => Base /\ AuditInv
  BY BaseInit, AuditInvInit
<1>2. Base /\ AuditInv /\ [Next]_vars => (Base /\ AuditInv)'
  BY BaseStep, AuditInvStep
<1>3. Base /\ AuditInv => NothingLost
  BY DEF AuditInv
<1> QED BY <1>1, <1>2, <1>3, PTL DEF Spec

(* For any group and any stream, an event is marked processed only after   *)
(* its consume audit was committed.                                        *)
THEOREM AuditPrecedesProcessed == Spec => []ProcessedIsAudited
<1>1. Init => Base /\ AuditInv
  BY BaseInit, AuditInvInit
<1>2. Base /\ AuditInv /\ [Next]_vars => (Base /\ AuditInv)'
  BY BaseStep, AuditInvStep
<1>3. Base /\ AuditInv => ProcessedIsAudited
  BY DEF AuditInv
<1> QED BY <1>1, <1>2, <1>3, PTL DEF Spec

-----------------------------------------------------------------------------
(* The repeats.  Waiting(e) are the consumers between the dedup gate and   *)
(* the yield of e.  While e is processed nobody joins them, and each leaves *)
(* with at most one yield; the consumer whose ack made e processed was not *)
(* one of them.                                                            *)
FreshSteps == {"claim", "holder", "lock", "fetch"}
Waiting(e) == {d \in Consumers : pc[d] \in FreshSteps /\ Ev(d) = e}

K == Cardinality(Consumers)

RepeatInv ==
    \A e \in Events :
        /\ repeats[e] < K
        /\ e \in processed => repeats[e] + Cardinality(Waiting(e)) < K

LEMMA ConsumersSize == K \in Nat /\ K > 0
<1>1. K \in Nat
  BY FS_CardinalityType, ConsumerConstants DEF K
<1>2. K # 0
  BY FS_EmptySet, ConsumerConstants DEF K
<1> QED BY <1>1, <1>2

LEMMA SubsetSize ==
    ASSUME NEW S \in SUBSET Consumers, NEW T \in SUBSET S
    PROVE  /\ Cardinality(S) \in Nat /\ Cardinality(T) \in Nat
           /\ Cardinality(T) <= Cardinality(S) /\ Cardinality(S) <= K
<1>1. IsFiniteSet(S) /\ Cardinality(S) <= K
  BY FS_Subset, ConsumerConstants DEF K
<1>2. IsFiniteSet(T) /\ Cardinality(T) <= Cardinality(S)
  BY <1>1, FS_Subset
<1> QED BY <1>1, <1>2, FS_CardinalityType

LEMMA SmallerSize ==
    ASSUME NEW S \in SUBSET Consumers, NEW c \in S, NEW T \in SUBSET (S \ {c})
    PROVE  Cardinality(T) \in Nat /\ Cardinality(T) < Cardinality(S)
<1>1. IsFiniteSet(S)
  BY FS_Subset, ConsumerConstants
<1>2. IsFiniteSet(S \ {c}) /\ Cardinality(S \ {c}) = Cardinality(S) - 1
  BY <1>1, FS_RemoveElement
<1>3. Cardinality(T) <= Cardinality(S \ {c})
  BY <1>2, FS_Subset
<1>4. Cardinality(S) \in Nat /\ Cardinality(T) \in Nat
  BY SubsetSize
<1> QED BY <1>2, <1>3, <1>4

LEMMA WaitingType == \A e \in Events : Waiting(e) \in SUBSET Consumers
  BY DEF Waiting

(* A step that neither yields nor puts an event into processed, and lets   *)
(* nobody pass the gate of a processed event.                              *)
LEMMA RepeatQuiet ==
    ASSUME RepeatInv, Base, repeats' = repeats, processed' \subseteq processed,
           \A e \in processed' : Waiting(e)' \subseteq Waiting(e)
    PROVE  RepeatInv'
<1>1. ASSUME NEW e \in Events, e \in processed'
      PROVE  repeats[e] + Cardinality(Waiting(e)') < K
  <2>1. repeats[e] + Cardinality(Waiting(e)) < K /\ repeats[e] \in Nat
    BY <1>1 DEF RepeatInv, Base, RedisTypes
  <2>2. /\ Cardinality(Waiting(e)) \in Nat /\ Cardinality(Waiting(e)') \in Nat
        /\ Cardinality(Waiting(e)') <= Cardinality(Waiting(e))
    BY <1>1, WaitingType, SubsetSize
  <2> QED BY <2>1, <2>2, ConsumersSize
<1> QED BY <1>1 DEF RepeatInv, K

(* The same, of one consumer's step.                                       *)
LEMMA RepeatFrame ==
    ASSUME NEW c \in Consumers, Base, RepeatInv,
           \A d \in Consumers \ {c} : Still(d),
           pc'[c] \in FreshSteps =>
               msg'[c] = msg[c] /\ (pc[c] \in FreshSteps \/ Ev(c) \notin processed),
           UNCHANGED done
    PROVE  RepeatInv'
<1>1. \A e \in processed' : Waiting(e)' \subseteq Waiting(e)
  BY DEF Waiting, Still, Ev, done
<1> QED BY <1>1, RepeatQuiet DEF done

LEMMA RepeatInit == Init => RepeatInv
  BY ConsumersSize DEF Init, RepeatInv

(* The ack script: whoever runs it is past its own yield.                  *)
LEMMA RepeatLua ==
    ASSUME NEW c \in Consumers, Base, RepeatInv, pc[c] = "acking", LuaEffect(c),
           \A d \in Consumers \ {c} : Still(d), pc'[c] \in LoopSteps
    PROVE  RepeatInv'
<1>1. PICK f \in Events : f = Ev(c)
  BY EvType DEF LoopSteps
<1>2. \A e \in Events : Waiting(e)' \subseteq Waiting(e) /\ Waiting(e) \subseteq Consumers \ {c}
  BY DEF Waiting, Still, Ev, FreshSteps, LoopSteps
<1>3. CASE f \in processed
  <2>1. repeats' = repeats /\ processed' = processed
    BY <1>1, <1>3 DEF LuaEffect
  <2> QED BY <1>2, <2>1, RepeatQuiet DEF Base, RedisTypes
<1>4. CASE f \notin processed
  <2>1. /\ repeats'[f] = 0
        /\ \A e \in Events \ {f} : repeats'[e] = repeats[e] /\ (e \in processed' => e \in processed)
    BY <1>1, <1>4 DEF LuaEffect, Base, RedisTypes
  <2>2. ASSUME NEW e \in Events, e # f
        PROVE  /\ repeats'[e] < K
               /\ e \in processed' => repeats'[e] + Cardinality(Waiting(e)') < K
    <3>1. /\ Cardinality(Waiting(e)) \in Nat /\ Cardinality(Waiting(e)') \in Nat
          /\ Cardinality(Waiting(e)') <= Cardinality(Waiting(e))
      BY <1>2, WaitingType, SubsetSize
    <3>2. repeats'[e] = repeats[e] /\ (e \in processed' => e \in processed) /\ repeats[e] \in Nat
      BY <2>1, <2>2 DEF Base, RedisTypes
    <3> QED BY <3>1, <3>2, ConsumersSize DEF RepeatInv
  <2>3. repeats'[f] + Cardinality(Waiting(f)') < K
    <3>1. Waiting(f)' \in SUBSET (Consumers \ {c})
      BY <1>1, <1>2
    <3>2. Cardinality(Waiting(f)') \in Nat /\ Cardinality(Waiting(f)') < K
      BY <3>1, SmallerSize DEF K
    <3> QED BY <2>1, <3>2, ConsumersSize
  <2> QED BY <2>1, <2>2, <2>3, ConsumersSize DEF RepeatInv, K
<1> QED BY <1>3, <1>4

(* The yield of an event that is processed: one consumer less may repeat.  *)
LEMMA RepeatYield ==
    ASSUME NEW c \in Consumers, Base, RepeatInv, FetchRegistry(c)
    PROVE  RepeatInv'
<1>1. PICK f \in Events : f = Ev(c) /\ c \in Waiting(f)
  BY EvType DEF FetchRegistry, Waiting, LoopSteps, FreshSteps
<1>2. /\ pc'[c] = "yielded" /\ msg' = msg /\ processed' = processed
      /\ \A d \in Consumers \ {c} : pc'[d] = pc[d]
  BY DEF FetchRegistry, Goto, Base, LocalTypes
<1>3. \A e \in Events : Waiting(e)' \subseteq Waiting(e) \ {c}
  BY <1>2 DEF Waiting, Ev, FreshSteps
<1>4. CASE f \notin processed
  <2>1. repeats' = repeats
    BY <1>1, <1>4 DEF FetchRegistry
  <2>2. \A e \in processed' : Waiting(e)' \subseteq Waiting(e)
    BY <1>2, <1>3 DEF Base, RedisTypes
  <2> QED BY <1>2, <2>1, <2>2, RepeatQuiet
<1>5. CASE f \in processed
  <2>1. /\ repeats'[f] = repeats[f] + 1
        /\ \A e \in Events \ {f} : repeats'[e] = repeats[e]
    BY <1>1, <1>5 DEF FetchRegistry, Base, RedisTypes
  <2>2. ASSUME NEW e \in Events, e # f
        PROVE  /\ repeats'[e] < K
               /\ e \in processed' => repeats'[e] + Cardinality(Waiting(e)') < K
    <3>1. /\ Cardinality(Waiting(e)) \in Nat /\ Cardinality(Waiting(e)') \in Nat
          /\ Cardinality(Waiting(e)') <= Cardinality(Waiting(e))
      BY <1>3, WaitingType, SubsetSize
    <3>2. repeats'[e] = repeats[e] /\ repeats[e] \in Nat
      BY <2>1, <2>2 DEF Base, RedisTypes
    <3> QED BY <1>2, <3>1, <3>2, ConsumersSize DEF RepeatInv
  <2>3. /\ repeats'[f] < K
        /\ repeats'[f] + Cardinality(Waiting(f)') < K
    <3>1. /\ Cardinality(Waiting(f)') \in Nat
          /\ Cardinality(Waiting(f)') < Cardinality(Waiting(f))
      BY <1>1, <1>3, WaitingType, SmallerSize
    <3>2. Cardinality(Waiting(f)) \in Nat
      BY <1>1, WaitingType, SubsetSize
    <3>3. repeats[f] \in Nat /\ repeats[f] + Cardinality(Waiting(f)) < K
      BY <1>1, <1>5 DEF RepeatInv, Base, RedisTypes
    <3> QED BY <2>1, <3>1, <3>2, <3>3, ConsumersSize
  <2> QED BY <2>2, <2>3 DEF RepeatInv, K
<1> QED BY <1>4, <1>5

LEMMA RepeatProcess ==
    ASSUME NEW c \in Consumers, Base, RepeatInv, Process(c) PROVE RepeatInv'
<1> USE DEF redisVars, dbVars, FreshSteps, LoopSteps
<1>0. CASE AutoClaim(c)
  <2>1. pc'[c] = "next" /\ \A d \in Consumers \ {c} : Still(d)
    BY <1>0 DEF AutoClaim, Goto, Still, Base, LocalTypes
  <2> QED BY <1>0, <2>1, RepeatFrame DEF AutoClaim
<1>1. CASE ReadNew(c)
  <2>1. pc'[c] = "next" /\ \A d \in Consumers \ {c} : Still(d)
    BY <1>1 DEF ReadNew, Goto, Still, Base, LocalTypes
  <2> QED BY <1>1, <2>1, RepeatFrame DEF ReadNew
<1>2. CASE BatchDone(c)
  <2>1. pc'[c] \in {"autoclaim", "xread"} /\ \A d \in Consumers \ {c} : Still(d)
    BY <1>2 DEF BatchDone, Goto, locals, Still, Base, LocalTypes
  <2> QED BY <1>2, <2>1, RepeatFrame DEF BatchDone
<1>3. CASE Begin(c)
  <2>1. pc'[c] \in {"route", "early"} /\ \A d \in Consumers \ {c} : Still(d)
    BY <1>3 DEF Begin, Goto, Still, Base, LocalTypes
  <2> QED BY <1>3, <2>1, RepeatFrame DEF Begin
<1>4. CASE BeginRaises(c)
  BY <1>4, LeaveStill, RepeatFrame DEF BeginRaises
<1>5. CASE RouteComplete(c)
  BY <1>5, LeaveStill, RepeatFrame DEF RouteComplete, EndRoute
<1>6. CASE EarlyLookup(c)
  <2>1. pc'[c] = "gate" /\ \A d \in Consumers \ {c} : Still(d)
    BY <1>6 DEF EarlyLookup, Goto, Still, Base, LocalTypes
  <2> QED BY <1>6, <2>1, RepeatFrame DEF EarlyLookup
<1>7. CASE DedupGate(c)
  <2>1. CASE Ev(c) \in processed
    BY <1>7, <2>1, LeaveStill, RepeatFrame DEF DedupGate
  <2>2. CASE Ev(c) \notin processed
    <3>1. \A d \in Consumers \ {c} : Still(d)
      BY <1>7, <2>2 DEF DedupGate, Goto, locals, Still, Base, LocalTypes
    <3> QED BY <1>7, <2>2, <3>1, RepeatFrame DEF DedupGate, locals
  <2> QED BY <2>1, <2>2
<1>8. CASE Claim(c)
  <2>1. \A d \in Consumers \ {c} : Still(d)
    BY <1>8 DEF Claim, Goto, locals, Still, Base, LocalTypes
  <2> QED BY <1>8, <2>1, RepeatFrame DEF Claim, locals
<1>9. CASE CheckHolder(c)
  <2>1. /\ \A d \in Consumers \ {c} : Still(d)
        /\ pc'[c] \in FreshSteps => msg'[c] = msg[c]
    BY <1>9, LeaveStill DEF CheckHolder, Goto, locals, Still, Base, LocalTypes
  <2> QED BY <1>9, <2>1, RepeatFrame DEF CheckHolder
<1>10. CASE Loser(c)
  BY <1>10, LeaveStill, RepeatFrame DEF Loser
<1>11. CASE AcquireEventLock(c)
  <2>1. \A d \in Consumers \ {c} : Still(d)
    BY <1>11 DEF AcquireEventLock, Goto, locals, Still, Base, LocalTypes
  <2> QED BY <1>11, <2>1, RepeatFrame DEF AcquireEventLock, locals
<1>12. CASE FetchRegistry(c)
  BY <1>12, RepeatYield
<1>13. CASE AckAudit(c)
  <2>1. pc'[c] = "acking" /\ \A d \in Consumers \ {c} : Still(d)
    BY <1>13 DEF AckAudit, Goto, locals, Still, Base, LocalTypes
  <2> QED BY <1>13, <2>1, RepeatFrame DEF AckAudit
<1>14. CASE AckLua(c)
  BY <1>14, LeaveStill, RepeatLua DEF AckLua
<1>15. CASE BodyRaises(c)
  BY <1>15, LeaveStill, RepeatFrame DEF BodyRaises
<1> QED BY <1>0, <1>1, <1>2, <1>3, <1>4, <1>5, <1>6, <1>7, <1>8, <1>9, <1>10, <1>11,
           <1>12, <1>13, <1>14, <1>15 DEF Process

LEMMA RepeatFailing ==
    ASSUME NEW c \in Consumers, Base, RepeatInv, Failing(c) PROVE RepeatInv'
<1> USE DEF redisVars, FreshSteps, LoopSteps
<1>1. CASE AutoClaimFails(c)
  <2>1. pc'[c] = "xread" /\ \A d \in Consumers \ {c} : Still(d)
    BY <1>1 DEF AutoClaimFails, Goto, locals, Still, Base, LocalTypes
  <2> QED BY <1>1, <2>1, RepeatFrame DEF AutoClaimFails
<1>2. CASE ReadFails(c)
  BY <1>2, LeaveStill, RepeatFrame DEF ReadFails
<1>3. CASE SpanRaises(c)
  <2>1. pc'[c] \notin FreshSteps /\ \A d \in Consumers \ {c} : Still(d)
    BY <1>3, LeaveStill DEF SpanRaises, Goto, locals, Still, Base, LocalTypes
  <2> QED BY <1>3, <2>1, RepeatFrame DEF SpanRaises
<1>4. CASE AckLuaFails(c)
  <2>1. (\A d \in Consumers \ {c} : Still(d)) /\ pc'[c] \in LoopSteps
    BY <1>4, LeaveStill DEF AckLuaFails
  <2>2. CASE LuaEffect(c)
    BY <1>4, <2>1, <2>2, RepeatLua DEF AckLuaFails
  <2>3. CASE UNCHANGED done
    BY <2>1, <2>3, RepeatFrame
  <2> QED BY <1>4, <2>2, <2>3 DEF AckLuaFails
<1>5. CASE \/ RouteAborted(c) \/ RouteRaises(c) \/ LookupRaises(c) \/ LockRaises(c)
           \/ SkipAck(c) \/ Crash(c)
  BY <1>5, LeaveStill, RepeatFrame
  DEF RouteAborted, EndRoute, RouteRaises, LookupRaises, LockRaises, SkipAck, Crash
<1> QED BY <1>1, <1>2, <1>3, <1>4, <1>5 DEF Failing

LEMMA RepeatStep == Base /\ RepeatInv /\ [Next]_vars => RepeatInv'
<1> SUFFICES ASSUME Base, RepeatInv, [Next]_vars PROVE RepeatInv'
  OBVIOUS
<1>1. CASE \/ \E m \in Msgs : GetsIdle(m)
           \/ \E e \in Events : ClaimExpires(e) \/ Operate(e) \/ Redact(e)
           \/ ProcessedExpires \/ Trim \/ UNCHANGED vars
  <2>1. pc' = pc /\ msg' = msg /\ repeats' = repeats /\ processed' \subseteq processed
    BY <1>1 DEF GetsIdle, ClaimExpires, Operate, ClaimRelease, ProcessedClear, Redact,
                RedactInsert, RedactCommit, RedactRollback, ProcessedExpires, Trim,
                vars, redisVars, done, locals
  <2>2. \A e \in processed' : Waiting(e)' \subseteq Waiting(e)
    BY <2>1 DEF Waiting, Ev
  <2> QED BY <2>1, <2>2, RepeatQuiet
<1> QED BY <1>1, RepeatProcess, RepeatFailing DEF Next

(* For any group and any stream: once an ack put an event into processed,  *)
(* each other consumer of the group yields it at most once more, whatever  *)
(* leases expire, entries are redelivered and processes die in between.    *)
THEOREM FewRepeats == Spec => []RepeatsAreBounded
<1>1. Init => Base /\ RepeatInv
  BY BaseInit, RepeatInit
<1>2. Base /\ RepeatInv /\ [Next]_vars => (Base /\ RepeatInv)'
  BY BaseStep, RepeatStep
<1>3. Base /\ RepeatInv => RepeatsAreBounded
  BY DEF RepeatInv, RepeatsAreBounded, K
<1> QED BY <1>1, <1>2, <1>3, PTL DEF Spec

=============================================================================
