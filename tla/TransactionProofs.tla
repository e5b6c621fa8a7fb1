------------------------- MODULE TransactionProofs -------------------------
(***************************************************************************)
(* Proofs about the two components that write only in the transaction of   *)
(* their caller: StreamProducer, for any number of sessions, events, calls *)
(* and failures, and EntityRegistry, for any number of jobs, identifiers,  *)
(* tables and failures and any programs of the jobs.                       *)
(***************************************************************************)
EXTENDS StreamProducer, EntityRegistry, TLAPS

(* The first event of a list and the rest of it.                           *)
LEMMA ListFacts ==
    ASSUME NEW q \in Seq(Events), q # <<>>
    PROVE  /\ Head(q) \in Events /\ Tail(q) \in Seq(Events)
           /\ EventsOf(q) = {Head(q)} \cup EventsOf(Tail(q))
<1>1. Len(q) \in Nat \ {0} /\ Len(Tail(q)) = Len(q) - 1
  OBVIOUS
<1>2. /\ Head(q) = q[1] /\ Tail(q) \in Seq(Events)
      /\ \A i \in 1..Len(q) : q[i] \in Events
      /\ \A i \in 1..Len(Tail(q)) : Tail(q)[i] = q[i+1]
  OBVIOUS
<1>3. \A i \in 1..Len(q) : i = 1 \/ (i - 1 \in 1..Len(Tail(q)) /\ q[i] = Tail(q)[i - 1])
  BY <1>1, <1>2
<1>4. EventsOf(q) = {Head(q)} \cup EventsOf(Tail(q))
  <2>1. ASSUME NEW e \in EventsOf(q) PROVE e \in {Head(q)} \cup EventsOf(Tail(q))
    <3>1. PICK i \in 1..Len(q) : e = q[i]
      BY DEF EventsOf
    <3>2. CASE i = 1
      BY <3>1, <3>2, <1>2
    <3>3. CASE i # 1
      BY <3>1, <3>3, <1>3 DEF EventsOf
    <3>. QED BY <3>2, <3>3
  <2>2. ASSUME NEW e \in EventsOf(Tail(q)) PROVE e \in EventsOf(q)
    <3>1. PICK i \in 1..Len(Tail(q)) : e = Tail(q)[i]
      BY DEF EventsOf
    <3>2. i + 1 \in 1..Len(q) /\ e = q[i + 1]
      BY <3>1, <1>1, <1>2
    <3>. QED BY <3>2 DEF EventsOf
  <2>3. Head(q) \in EventsOf(q)
    BY <1>1, <1>2 DEF EventsOf
  <2>. QED BY <2>1, <2>2, <2>3
<1>. QED BY <1>1, <1>2, <1>4

-----------------------------------------------------------------------------
(* The variables keep their types.                                         *)
LEMMA TypeInit == Init => TypeOK
BY ProducerConstants DEF Init, TypeOK, NoRows, Exceptions

(* TypeOK by parts: the open transactions, the running calls, the tables.  *)
TxTypes ==
    /\ rows \in [Sessions -> [Events -> 0..Len(calls)]]
    /\ noted \in [Sessions -> SUBSET (1..Len(calls))]
    /\ own \in [Sessions -> BOOLEAN] /\ failed \in [Sessions -> BOOLEAN]

CallTypes ==
    /\ pc \in [Sessions -> {"caller", "insert", "audit"}]
    /\ todo \in [Sessions -> Seq(Events)]
    /\ \A s \in Sessions : /\ pc[s] = "insert" <=> todo[s] # <<>>
                           /\ pc[s] # "caller" => call[s] # 0
    /\ call \in [Sessions -> 0..Len(calls)] /\ actor \in [Sessions -> BOOLEAN]
    /\ raised \in [Sessions -> Exceptions \cup {"none"}]

DbTypes ==
    /\ calls \in Seq(SUBSET Events)
    /\ outbox \in [Events -> 0..Len(calls)] /\ audits \subseteq 1..Len(calls)

LEMMA DiscardType ==
    ASSUME TxTypes, DbTypes, calls' = calls, NEW s \in Sessions, Discard(s)
    PROVE  TxTypes'
<1>. Len(calls) \in Nat
  BY DEF DbTypes
<1>. QED BY DEF TxTypes, Discard, NoRows

LEMMA ReturnType ==
    ASSUME CallTypes, calls' = calls, NEW s \in Sessions,
           NEW exc \in Exceptions \cup {"none"}, Return(s, exc)
    PROVE  CallTypes'
<1>1. /\ pc' \in [Sessions -> {"caller", "insert", "audit"}]
      /\ todo' \in [Sessions -> Seq(Events)]
      /\ raised' \in [Sessions -> Exceptions \cup {"none"}]
      /\ call' = call /\ actor' = actor
      /\ pc'[s] = "caller" /\ todo'[s] = <<>>
      /\ \A t \in Sessions \ {s} : pc'[t] = pc[t] /\ todo'[t] = todo[t]
  BY DEF CallTypes, Return
<1>. QED BY <1>1 DEF CallTypes

LEMMA TypeNext == TypeOK /\ [Next]_vars => TypeOK'
<1>. SUFFICES ASSUME DbTypes, TxTypes, CallTypes, faults \in 0..MaxFaults, [Next]_vars
              PROVE  DbTypes' /\ TxTypes' /\ CallTypes' /\ faults' \in 0..MaxFaults
  BY DEF TypeOK, DbTypes, TxTypes, CallTypes
<1>. USE ProducerConstants
<1> DEFINE Post == DbTypes' /\ TxTypes' /\ CallTypes' /\ faults' \in 0..MaxFaults
<1>0. "none" \in Exceptions \cup {"none"} /\ Len(calls) \in Nat
      /\ "conflict" \in Exceptions /\ "db" \in Exceptions /\ "actor" \in Exceptions
  BY DEF Exceptions, DbTypes
<1>f. Fault => faults' \in 0..MaxFaults
  BY DEF Fault
<1>1. CASE UNCHANGED vars
  BY <1>1 DEF DbTypes, TxTypes, CallTypes, vars, txVars, callVars
<1>2. ASSUME NEW s \in Sessions, OwnWrite(s) PROVE Post
  BY <1>2 DEF OwnWrite, DbTypes, TxTypes, CallTypes, callVars
<1>3. ASSUME NEW s \in Sessions, Commit(s) PROVE Post
  <2>1. DbTypes'
    BY <1>3, <1>0 DEF Commit, DbTypes, TxTypes
  <2>. QED BY <1>3, <1>0, <2>1, DiscardType, ReturnType DEF Commit
<1>4. ASSUME NEW s \in Sessions, Rollback(s) PROVE Post
  <2>1. DbTypes'
    BY <1>4 DEF Rollback, DbTypes
  <2>. QED BY <1>4, <1>0, <2>1, DiscardType, ReturnType DEF Rollback
<1>5. ASSUME NEW s \in Sessions, NEW b \in Batches, NEW h \in BOOLEAN, Refuse(s, b, h)
      PROVE Post
  <2>1. Refused(b, h) \in Exceptions \cup {"none"}
    BY DEF Refused, Exceptions
  <2>2. CallTypes'
    BY <1>5, <1>0, <2>1, ReturnType DEF Refuse
  <2>. QED BY <1>5, <2>2 DEF Refuse, DbTypes, TxTypes, txVars
<1>6. ASSUME NEW s \in Sessions, NEW b \in Batches, NEW h \in BOOLEAN, Publish(s, b, h)
      PROVE Post
  <2>1. b \in Seq(Events) /\ b # <<>> /\ EventsOf(b) \in SUBSET Events
    BY DEF EventsOf
  <2>2. /\ calls' \in Seq(SUBSET Events) /\ Len(calls') = Len(calls) + 1
        /\ Len(calls) \in Nat
    BY <1>6, <2>1 DEF Publish, DbTypes
  <2>3. DbTypes' /\ TxTypes' /\ faults' \in 0..MaxFaults
    BY <1>6, <2>2 DEF Publish, DbTypes, TxTypes, txVars
  <2>4. CallTypes'
    BY <1>6, <2>1, <2>2 DEF Publish, CallTypes
  <2>. QED BY <2>3, <2>4
<1>7. ASSUME NEW s \in Sessions, InsertOutbox(s) PROVE Post
  <2>1. todo[s] \in Seq(Events) /\ todo[s] # <<>>
    BY <1>7 DEF InsertOutbox, CallTypes
  <2>2. Head(todo[s]) \in Events /\ Tail(todo[s]) \in Seq(Events)
    BY <2>1
  <2>3. TxTypes'
    BY <1>7, <2>2 DEF InsertOutbox, TxTypes, CallTypes
  <2>4. CallTypes'
    BY <1>7, <2>2 DEF InsertOutbox, CallTypes
  <2>. QED BY <1>7, <2>3, <2>4 DEF InsertOutbox, DbTypes
<1>8. ASSUME NEW s \in Sessions, InsertConflict(s) PROVE Post
  <2>1. DbTypes'
    BY <1>8 DEF InsertConflict, DbTypes
  <2>. QED BY <1>8, <1>0, <2>1, DiscardType, ReturnType DEF InsertConflict
<1>9. ASSUME NEW s \in Sessions, Abort(s), faults' \in 0..MaxFaults PROVE Post
  <2>1. CallTypes'
    BY <1>9, <1>0, ReturnType DEF Abort
  <2>. QED BY <1>9, <1>0, <2>1 DEF Abort, DbTypes, TxTypes, NoRows
<1>10. ASSUME NEW s \in Sessions, RecordAudit(s) PROVE Post
  <2>1. call[s] \in 1..Len(calls)
    BY <1>10, <1>0 DEF CallTypes, RecordAudit
  <2>2. CallTypes'
    BY <1>10, <1>0, ReturnType DEF RecordAudit
  <2>. QED BY <1>10, <2>1, <2>2 DEF RecordAudit, DbTypes, TxTypes
<1>11. ASSUME NEW s \in Sessions, RecordAuditRefused(s) PROVE Post
  <2>1. CallTypes'
    BY <1>11, <1>0, ReturnType DEF RecordAuditRefused
  <2>. QED BY <1>11, <2>1 DEF RecordAuditRefused, DbTypes, TxTypes, txVars
<1>12. ASSUME NEW s \in Sessions, Crash(s) PROVE Post
  <2>1. DbTypes'
    BY <1>12 DEF Crash, DbTypes
  <2>. QED BY <1>12, <1>0, <1>f, <2>1, DiscardType, ReturnType DEF Crash
<1>13. ASSUME NEW s \in Sessions, StatementFails(s) \/ DeadlockDetected(s) PROVE Post
  BY <1>13, <1>9, <1>f DEF StatementFails, DeadlockDetected
<1>. QED
  BY <1>1, <1>2, <1>3, <1>4, <1>5, <1>6, <1>7, <1>8, <1>10, <1>11, <1>12, <1>13
     DEF Next, Running

(* The types of StreamProducer hold in every reachable state.              *)
THEOREM TypeCorrect == Spec => []TypeOK
BY TypeInit, TypeNext, PTL DEF Spec

-----------------------------------------------------------------------------
(* An event is in one open transaction at most, and then not committed.    *)
RowsExclusive ==
    \A s \in Sessions, e \in Events : rows[s][e] # 0 =>
        outbox[e] = 0 /\ \A t \in Sessions : rows[t][e] # 0 => t = s

(* In a transaction that may still commit, the rows of every call that is  *)
(* over are there exactly when its audit is.                               *)
TxMatches(s) ==
    raised[s] \in Swallows \cup {"none"} =>
        \A n \in 1..Len(calls) : (pc[s] = "caller" \/ n # call[s]) =>
            \A e \in calls[n] : rows[s][e] = n <=> n \in noted[s]

(* A running call has inserted every event that it need not insert any more*)
CallProgress(s) ==
    pc[s] # "caller" =>
        /\ raised[s] = "none" /\ (StrictCheck => actor[s])
        /\ \A e \in calls[call[s]] : rows[s][e] = call[s] \/ e \in EventsOf(todo[s])

IInv == /\ TypeOK /\ RowsExclusive /\ RowsMatchAudits
        /\ \A s \in Sessions : TxMatches(s) /\ CallProgress(s)

(* audit.record is not stricter than the check before the I/O, or a caller *)
(* does not go on after AuditMissingActor.                                 *)
ForwardedSettings == StrictRecord /\ "actor" \in Swallows => StrictCheck

LEMMA IInvInit == Init => IInv
<1>. SUFFICES ASSUME Init PROVE IInv
  OBVIOUS
<1>1. TypeOK
  BY TypeInit
<1>2. RowsExclusive /\ RowsMatchAudits
  BY DEF Init, RowsExclusive, RowsMatchAudits, NoRows
<1>3. \A s \in Sessions : TxMatches(s) /\ CallProgress(s)
  BY DEF Init, TxMatches, CallProgress, NoRows
<1>. QED BY <1>1, <1>2, <1>3 DEF IInv

(* A step leaves the invariants of another session alone.                  *)
LEMMA OtherSession ==
    ASSUME TypeOK, NEW t \in Sessions, TxMatches(t), CallProgress(t), calls' = calls,
           rows'[t] = rows[t], noted'[t] = noted[t], pc'[t] = pc[t],
           todo'[t] = todo[t], call'[t] = call[t], raised'[t] = raised[t],
           actor'[t] = actor[t]
    PROVE  TxMatches(t)' /\ CallProgress(t)'
BY DEF TxMatches, CallProgress, EventsOf

(* A transaction without rows and audits matches.                          *)
LEMMA EmptyTx ==
    ASSUME TypeOK, NEW s \in Sessions, calls' = calls, pc'[s] = "caller",
           rows'[s] = NoRows, noted'[s] = {}
    PROVE  TxMatches(s)' /\ CallProgress(s)'
<1>1. \A n \in 1..Len(calls) : calls[n] \subseteq Events /\ n # 0
  BY DEF TypeOK
<1>. QED BY <1>1 DEF TxMatches, CallProgress, NoRows

(* What Discard and Return change, session by session.                     *)
LEMMA DiscardReturn ==
    ASSUME TypeOK, NEW s \in Sessions, NEW exc, Discard(s), Return(s, exc)
    PROVE  /\ rows'[s] = NoRows /\ noted'[s] = {} /\ pc'[s] = "caller"
           /\ \A t \in Sessions \ {s} :
                 /\ rows'[t] = rows[t] /\ noted'[t] = noted[t] /\ pc'[t] = pc[t]
                 /\ todo'[t] = todo[t] /\ raised'[t] = raised[t]
           /\ call' = call /\ actor' = actor
BY DEF TypeOK, Discard, Return

LEMMA IInvNext ==
    ASSUME ForwardedSettings, IInv, [Next]_vars
    PROVE  IInv'
<1>. USE ProducerConstants
<1>. TypeOK'
  BY TypeNext DEF IInv
<1>. SUFFICES /\ RowsExclusive' /\ RowsMatchAudits'
              /\ \A s \in Sessions : TxMatches(s)' /\ CallProgress(s)'
  BY DEF IInv
<1>. TypeOK /\ RowsExclusive /\ RowsMatchAudits
     /\ \A s \in Sessions : TxMatches(s) /\ CallProgress(s)
  BY DEF IInv
<1> DEFINE Post == /\ RowsExclusive' /\ RowsMatchAudits'
                   /\ \A s \in Sessions : TxMatches(s)' /\ CallProgress(s)'
<1>0. \A n \in 1..Len(calls) : calls[n] \subseteq Events /\ n # 0
  BY DEF TypeOK
<1>1. CASE UNCHANGED vars
  <2>1. RowsExclusive' /\ RowsMatchAudits'
    BY <1>1 DEF vars, txVars, RowsExclusive, RowsMatchAudits
  <2>. QED BY <1>1, <2>1, OtherSession DEF vars, txVars, callVars
\* The steps that empty the transaction of s, without a commit.
<1>2. ASSUME NEW s \in Sessions, NEW exc, Discard(s), Return(s, exc),
             UNCHANGED <<outbox, audits, calls>>
      PROVE  Post
  <2>1. \A t \in Sessions : TxMatches(t)' /\ CallProgress(t)'
    BY <1>2, DiscardReturn, OtherSession, EmptyTx
  <2>2. RowsExclusive'
    BY <1>2, DiscardReturn DEF RowsExclusive, NoRows
  <2>. QED BY <1>2, <2>1, <2>2 DEF RowsMatchAudits
<1>3. ASSUME NEW s \in Sessions, OwnWrite(s) PROVE Post
  <2>1. RowsExclusive' /\ RowsMatchAudits'
    BY <1>3 DEF OwnWrite, RowsExclusive, RowsMatchAudits
  <2>. QED BY <1>3, <2>1, OtherSession DEF OwnWrite, callVars
<1>4. ASSUME NEW s \in Sessions, Commit(s) PROVE Post
  <2>1. calls' = calls /\ Discard(s) /\ Return(s, "none")
    BY <1>4 DEF Commit
  <2>2. \A t \in Sessions : TxMatches(t)' /\ CallProgress(t)'
    BY <2>1, DiscardReturn, OtherSession, EmptyTx
  <2>3. \A e \in Events : outbox'[e] = IF rows[s][e] # 0 THEN rows[s][e] ELSE outbox[e]
    BY <1>4 DEF Commit
  <2>4. RowsExclusive'
    BY <2>1, <2>3, DiscardReturn DEF RowsExclusive, NoRows
  <2>5. \A n \in 1..Len(calls) : \A e \in calls[n] : rows[s][e] = n <=> n \in noted[s]
    BY <1>4 DEF Commit, GoesOn, TxMatches
  <2>6. RowsMatchAudits'
    <3>. SUFFICES ASSUME NEW n \in 1..Len(calls), NEW e \in calls[n]
                  PROVE  outbox'[e] = n <=> n \in audits'
      BY <2>1 DEF RowsMatchAudits
    <3>1. e \in Events /\ n # 0 /\ (outbox[e] = n <=> n \in audits)
      BY <1>0 DEF RowsMatchAudits
    <3>2. audits' = audits \cup noted[s]
      BY <1>4 DEF Commit
    <3>3. rows[s][e] # 0 => outbox[e] = 0
      BY <3>1 DEF RowsExclusive
    <3>. QED BY <3>1, <3>2, <3>3, <2>3, <2>5
  <2>. QED BY <2>2, <2>4, <2>6
<1>5. ASSUME NEW s \in Sessions, Rollback(s) PROVE Post
  BY <1>5, <1>2 DEF Rollback
<1>6. ASSUME NEW s \in Sessions, NEW b \in Batches, NEW h \in BOOLEAN, Refuse(s, b, h)
      PROVE Post
  <2>1. /\ calls' = calls /\ rows' = rows /\ noted' = noted /\ call' = call
        /\ actor' = actor /\ outbox' = outbox /\ audits' = audits
        /\ pc'[s] = "caller"
        /\ \A t \in Sessions \ {s} :
              pc'[t] = pc[t] /\ todo'[t] = todo[t] /\ raised'[t] = raised[t]
    BY <1>6 DEF Refuse, Return, TypeOK, txVars
  <2>2. TxMatches(s)' /\ CallProgress(s)'
    BY <1>6, <2>1 DEF Refuse, GoesOn, TxMatches, CallProgress
  <2>3. RowsExclusive' /\ RowsMatchAudits'
    BY <2>1 DEF RowsExclusive, RowsMatchAudits
  <2>. QED BY <2>1, <2>2, <2>3, OtherSession
<1>7. ASSUME NEW s \in Sessions, NEW b \in Batches, NEW h \in BOOLEAN, Publish(s, b, h)
      PROVE Post
  <2> DEFINE new == Len(calls) + 1
  <2>1. /\ new \in Nat \ {0} /\ Len(calls') = new /\ calls'[new] = EventsOf(b)
        /\ \A n \in 1..Len(calls) : calls'[n] = calls[n]
        /\ \A n \in 1..new : n = new \/ n \in 1..Len(calls)
        /\ EventsOf(b) \subseteq Events
    <3>1. EventsOf(b) \in SUBSET Events
      BY DEF EventsOf
    <3>2. calls \in Seq(SUBSET Events) /\ calls' = Append(calls, EventsOf(b))
      BY <1>7 DEF Publish, TypeOK
    <3>. QED BY <3>1, <3>2
  <2>2. /\ rows' = rows /\ noted' = noted /\ outbox' = outbox /\ audits' = audits
        /\ call'[s] = new /\ todo'[s] = b /\ pc'[s] = "insert" /\ raised'[s] = "none"
        /\ actor'[s] = h
        /\ \A t \in Sessions \ {s} :
              /\ pc'[t] = pc[t] /\ todo'[t] = todo[t] /\ raised'[t] = raised[t]
              /\ call'[t] = call[t] /\ actor'[t] = actor[t]
    BY <1>7 DEF Publish, TypeOK, txVars
  <2>3. /\ \A e \in Events : outbox[e] # new
        /\ \A t \in Sessions, e \in Events : rows[t][e] # new
        /\ new \notin audits /\ \A t \in Sessions : new \notin noted[t] /\ call[t] # new
    <3>1. Len(calls) \in Nat /\ new \notin 0..Len(calls) /\ new \notin 1..Len(calls)
      BY <2>1 DEF TypeOK
    <3>. QED BY <3>1 DEF TypeOK
  <2>4. RowsExclusive'
    BY <2>2 DEF RowsExclusive
  <2>5. RowsMatchAudits'
    BY <2>1, <2>2, <2>3 DEF RowsMatchAudits
  <2>6. StrictCheck => h
    BY <1>7 DEF Publish, Refused
  <2>7. TxMatches(s)' /\ CallProgress(s)'
    BY <1>7, <2>1, <2>2, <2>6 DEF TxMatches, CallProgress, Publish, GoesOn, EventsOf
  <2>8. ASSUME NEW t \in Sessions \ {s} PROVE TxMatches(t)' /\ CallProgress(t)'
    <3>1. TxMatches(t)'
      BY <2>1, <2>2, <2>3 DEF TxMatches
    <3>2. CallProgress(t)'
      <4>1. pc[t] # "caller" => call[t] \in 1..Len(calls)
        BY <2>1 DEF TypeOK
      <4>. QED BY <2>1, <2>2, <4>1 DEF CallProgress, EventsOf
    <3>. QED BY <3>1, <3>2
  <2>. QED BY <2>4, <2>5, <2>7, <2>8
<1>8. ASSUME NEW s \in Sessions, InsertOutbox(s) PROVE Post
  <2> DEFINE e0 == Head(todo[s])
  <2>1. /\ todo[s] \in Seq(Events) /\ todo[s] # <<>> /\ call[s] \in Nat /\ call[s] # 0
    BY <1>8 DEF InsertOutbox, TypeOK
  <2>2. e0 \in Events /\ EventsOf(todo[s]) = {e0} \cup EventsOf(Tail(todo[s]))
    BY <2>1, ListFacts
  <2>3. /\ outbox[e0] = 0 /\ \A t \in Sessions : rows[t][e0] = 0
        /\ rows'[s][e0] = call[s]
        /\ \A e \in Events \ {e0} : rows'[s][e] = rows[s][e]
        /\ \A t \in Sessions \ {s} : rows'[t] = rows[t] /\ todo'[t] = todo[t] /\ pc'[t] = pc[t]
        /\ todo'[s] = Tail(todo[s]) /\ pc'[s] # "caller"
        /\ calls' = calls /\ noted' = noted /\ call' = call /\ actor' = actor
        /\ raised' = raised /\ outbox' = outbox /\ audits' = audits /\ pc[s] # "caller"
    BY <1>8, <2>2 DEF InsertOutbox, Taken, TypeOK
  <2>4. RowsExclusive'
    BY <2>2, <2>3 DEF RowsExclusive
  <2>5. RowsMatchAudits'
    BY <2>3 DEF RowsMatchAudits
  <2>6. TxMatches(s)'
    <3>. SUFFICES ASSUME raised[s] \in Swallows \cup {"none"}, NEW n \in 1..Len(calls),
                         n # call[s], NEW e \in calls[n]
                  PROVE  rows'[s][e] = n <=> n \in noted[s]
      BY <2>3 DEF TxMatches
    <3>1. e \in Events /\ (rows[s][e] = n <=> n \in noted[s])
      BY <1>0 DEF TxMatches
    <3>. QED BY <3>1, <2>3, <1>0
  <2>7. CallProgress(s)'
    <3>1. \A e \in calls[call[s]] : e \in Events
      BY <2>1 DEF TypeOK
    <3>2. \A e \in calls[call[s]] : rows'[s][e] = call[s] \/ e \in EventsOf(Tail(todo[s]))
      BY <2>2, <2>3, <3>1 DEF CallProgress
    <3>3. EventsOf(todo[s])' = EventsOf(Tail(todo[s]))
      BY <2>3 DEF EventsOf
    <3>. QED BY <2>3, <3>2, <3>3 DEF CallProgress
  <2>. QED BY <2>3, <2>4, <2>5, <2>6, <2>7, OtherSession
<1>9. ASSUME NEW s \in Sessions, InsertConflict(s) PROVE Post
  BY <1>9, <1>2 DEF InsertConflict
<1>10. ASSUME NEW s \in Sessions, Abort(s) PROVE Post
  <2>1. /\ rows'[s] = NoRows /\ noted'[s] = {} /\ pc'[s] = "caller"
        /\ \A t \in Sessions \ {s} :
              /\ rows'[t] = rows[t] /\ noted'[t] = noted[t] /\ pc'[t] = pc[t]
              /\ todo'[t] = todo[t] /\ raised'[t] = raised[t]
        /\ call' = call /\ actor' = actor
        /\ outbox' = outbox /\ audits' = audits /\ calls' = calls
    BY <1>10 DEF Abort, Return, TypeOK
  <2>2. RowsExclusive' /\ RowsMatchAudits'
    BY <2>1 DEF RowsExclusive, RowsMatchAudits, NoRows
  <2>. QED BY <2>1, <2>2, OtherSession, EmptyTx
<1>11. ASSUME NEW s \in Sessions, RecordAudit(s) \/ RecordAuditRefused(s) PROVE Post
  <2>1. /\ rows' = rows /\ call' = call /\ actor' = actor
        /\ outbox' = outbox /\ audits' = audits /\ calls' = calls
        /\ pc[s] = "audit" /\ pc'[s] = "caller" /\ todo[s] = <<>>
        /\ \A t \in Sessions \ {s} :
              /\ noted'[t] = noted[t] /\ pc'[t] = pc[t]
              /\ todo'[t] = todo[t] /\ raised'[t] = raised[t]
    BY <1>11 DEF RecordAudit, RecordAuditRefused, Return, TypeOK, txVars
  <2>2. RowsExclusive' /\ RowsMatchAudits'
    BY <2>1 DEF RowsExclusive, RowsMatchAudits
  <2>3. CallProgress(s)'
    BY <2>1 DEF CallProgress
  <2>4. CASE RecordAudit(s)
    <3>1. noted'[s] = noted[s] \cup {call[s]} /\ call[s] \in 1..Len(calls)
      BY <2>4 DEF RecordAudit, TypeOK
    <3>2. \A e \in calls[call[s]] : rows[s][e] = call[s]
      BY <2>1 DEF CallProgress, EventsOf
    <3>3. TxMatches(s)'
      BY <2>1, <3>1, <3>2 DEF TxMatches, CallProgress
    <3>. QED BY <2>1, <2>2, <2>3, <3>3, OtherSession
  <2>5. CASE RecordAuditRefused(s)
    <3>1. raised'[s] = "actor" /\ StrictRecord /\ ~actor[s]
      BY <2>5 DEF RecordAuditRefused, Return, TypeOK
    <3>2. "actor" \notin Swallows
      BY <2>1, <3>1 DEF ForwardedSettings, CallProgress
    <3>3. TxMatches(s)'
      BY <3>1, <3>2 DEF TxMatches
    <3>. QED BY <2>1, <2>2, <2>3, <3>3, OtherSession
  <2>. QED BY <1>11, <2>4, <2>5
<1>12. ASSUME NEW s \in Sessions, Crash(s) PROVE Post
  BY <1>12, <1>2 DEF Crash
<1>. QED
  BY <1>1, <1>3, <1>4, <1>5, <1>6, <1>7, <1>8, <1>9, <1>10, <1>11, <1>12
     DEF Next, Running, StatementFails, DeadlockDetected

(* Critical-contract item 2: in every reachable state the committed rows   *)
(* of a call and its committed audit are there together or not at all, for *)
(* any number of sessions, calls and failures, when audit.record is not    *)
(* stricter than the check before the I/O or no caller swallows its error. *)
THEOREM PublishIsAtomic ==
    ASSUME ForwardedSettings PROVE Spec => []RowsMatchAudits
<1>1. Init => IInv
  BY IInvInit
<1>2. IInv /\ [Next]_vars => IInv'
  BY IInvNext
<1>3. IInv => RowsMatchAudits
  BY DEF IInv
<1>. QED BY <1>1, <1>2, <1>3, PTL DEF Spec

(* _insert_outbox and UNIQUE(event_id): a committed row is never replaced. *)
THEOREM CommittedRowStays ==
    ASSUME ForwardedSettings PROVE Spec => RowIsFinal
<1>1. Init => IInv
  BY IInvInit
<1>2. IInv /\ [Next]_vars => IInv'
  BY IInvNext
<1>3. IInv /\ [Next]_vars => [\A e \in Events : outbox[e] # 0 => outbox'[e] = outbox[e]]_vars
  <2>. SUFFICES ASSUME IInv, Next, NEW e \in Events, outbox[e] # 0
                PROVE  outbox'[e] = outbox[e]
    OBVIOUS
  <2>1. ASSUME NEW s \in Sessions, Commit(s) PROVE outbox'[e] = outbox[e]
    BY <2>1 DEF Commit, IInv, RowsExclusive
  <2>. QED
    BY <2>1 DEF Next, Running, OwnWrite, Rollback, Refuse, Publish, InsertOutbox,
       InsertConflict, DeadlockDetected, StatementFails, Abort, RecordAudit,
       RecordAuditRefused, Crash
<1>. QED BY <1>1, <1>2, <1>3, PTL DEF Spec, RowIsFinal

-----------------------------------------------------------------------------
(* The registry.  Types of what a transaction holds and of the variables.  *)
OwnerRow == [of : Jobs \cup {NoEntity}, source : Text]

Cell == [value : Text]

Version == [entity : Jobs, asof : Nat, row : Row]

Change == [by : Jobs, of : Jobs \cup Tables, set : Row \cup Arguments \cup Cell,
           after : Row \cup Cell]

Creation == [by : Jobs, of : Jobs, idents : SUBSET Idents]

Writes == [entity : [Jobs -> Row], owner : [Idents -> OwnerRow],
           table : [Tables -> Text], versions : SUBSET Version,
           trail : Seq(Change), creates : SUBSET Creation]

StoreTypes ==
    /\ entity \in [Jobs -> Row] /\ owner \in [Idents -> OwnerRow]
    /\ table \in [Tables -> Text] /\ versions \in SUBSET Version
    /\ trail \in Seq(Change) /\ creates \in SUBSET Creation

JobTypes ==
    /\ at \in [Jobs -> Labels] /\ ip \in [Jobs -> Nat] /\ adding \in [Jobs -> Seq(Idents)]
    /\ to \in [Jobs -> Jobs \cup {NoEntity}] /\ seen \in [Jobs -> Row]

Typed ==
    /\ prog \in Programs /\ StoreTypes /\ JobTypes /\ tx \in [Jobs -> Writes]
    /\ clock \in Nat /\ began \in [Jobs -> Nat]

ElementsOf(s) == {s[n] : n \in DOMAIN s}

(* What the program of a job may hold.                                     *)
LEMMA RegistryPlain ==
    NoEntity \notin Jobs /\ \A x \in Jobs : x \notin Tables
BY RegistryConstants

LEMMA ProgramFacts ==
    ASSUME NEW q \in Programs, NEW j \in Jobs
    PROVE  /\ q[j].source \in STRING /\ q[j].source # ""
           /\ q[j].calls \in Seq(CallRecords) /\ q[j].calls # <<>>
           /\ \A n \in DOMAIN q[j].calls :
                 q[j].calls[n].op = "create" =>
                    q[j].calls[n].idents = ElementsOf(q[j].calls[n].order)
BY RegistryConstants DEF ElementsOf

LEMMA CallFacts ==
    ASSUME NEW c \in CallRecords
    PROVE  /\ c.op \in {"create", "add", "update", "put", "expire"}
           /\ c.op = "create" => /\ c.order \in Seq(Idents) /\ c.idents \in SUBSET Idents
                                 /\ c.name \in STRING
           /\ c.op = "add" => c.target \in Jobs /\ c.order \in Seq(Idents)
           /\ c.op = "update" => c.target \in Jobs /\ c.set \in Arguments
           /\ c.op = "put" => c.table \in Tables /\ c.value \in STRING /\ c.value # ""
BY DEF CallRecords

LEMMA ArgumentFacts ==
    ASSUME NEW a \in Arguments
    PROVE  /\ DOMAIN a \subseteq {"name", "status"}
           /\ \A f \in DOMAIN a : a[f] \in STRING
BY DEF Arguments

LEMMA RowFacts ==
    /\ NoRow \in Row /\ NoRow.source = ""
    /\ DOMAIN NoRow = {"name", "status", "source"}
    /\ \A r \in Row : DOMAIN r = DOMAIN NoRow
    /\ \A r \in Row : r.source # "" => r # NoRow
    /\ \A r \in Row : \A f \in DOMAIN NoRow : r[f] \in Text
<1>1. NoRow \in Row /\ NoRow.source = "" /\ DOMAIN NoRow = {"name", "status", "source"}
  BY DEF NoRow, Row, Text
<1>2. ASSUME NEW r \in Row
      PROVE  /\ DOMAIN r = DOMAIN NoRow /\ (r.source # "" => r # NoRow)
             /\ \A f \in DOMAIN NoRow : r[f] \in Text
  BY <1>1 DEF Row
<1>. QED BY <1>1, <1>2

LEMMA MadeRow ==
    ASSUME NEW r \in [DOMAIN NoRow -> Text]
    PROVE  r \in Row /\ r.source = r["source"]
<1>1. r \in [{"name", "status", "source"} -> Text]
  BY RowFacts
<1>. QED BY <1>1 DEF Row

LEMMA NothingWritten == Nothing \in Writes
<1>1. NoOwner \in OwnerRow
  BY DEF NoOwner, OwnerRow, Text
<1>2. <<>> \in Seq(Change)
  OBVIOUS
<1>. QED BY <1>1, <1>2, RowFacts DEF Nothing, Writes, Text

LEMMA CaptureType ==
    ASSUME NEW j \in Jobs, NEW e \in Jobs, NEW row \in Row, tx[j] \in Writes, began[j] \in Nat
    PROVE  Capture(j, e, row) \in SUBSET Version
<1>1. tx[j].versions \in SUBSET Version
  BY DEF Writes
<1>2. [entity |-> e, asof |-> began[j], row |-> row] \in Version
  BY DEF Version
<1>. QED BY <1>1, <1>2 DEF Capture

(* What a statement sees is of its type.                                   *)
LEMMA ViewTypes ==
    ASSUME Typed, NEW j \in Jobs
    PROVE  /\ \A e \in Jobs : Entity(j, e) \in Row
           /\ \A i \in Idents : Owner(j, i) \in OwnerRow
           /\ \A t \in Tables : Table(j, t) \in Text
BY DEF Typed, StoreTypes, Writes, Entity, Owner, Table

LEMMA RegistryTypeInit == RegistryInit => Typed
<1>. SUFFICES ASSUME RegistryInit PROVE Typed
  OBVIOUS
<1>1. NoOwner \in OwnerRow /\ NoRow \in Row /\ Nothing \in Writes
  BY RowFacts, NothingWritten DEF NoOwner, OwnerRow, Text
<1>2. <<>> \in Seq(Change) /\ <<>> \in Seq(Idents) /\ "new" \in Labels /\ "" \in Text
  BY DEF Labels, Text
<1>3. StoreTypes
  BY <1>1, <1>2 DEF RegistryInit, StoreTypes
<1>4. JobTypes
  BY <1>1, <1>2 DEF RegistryInit, JobTypes
<1>. QED BY <1>1, <1>3, <1>4 DEF RegistryInit, Typed

LEMMA TypedGives == Typed => RegistryTypes
<1>. SUFFICES ASSUME Typed PROVE RegistryTypes
  OBVIOUS
<1>1. \A j \in Jobs : \A e \in Jobs : tx[j].entity[e] \in Row
  BY DEF Typed, Writes
<1>. QED BY <1>1 DEF Typed, StoreTypes, JobTypes, RegistryTypes, OwnerRow

-----------------------------------------------------------------------------
(* Which call a job is at, and what an open transaction may hold.          *)
InCall == {"call", "insert", "add", "addrow", "update", "put"}

AtCall(j) ==
    /\ at[j] \in {"new"} \cup InCall => ip[j] \in DOMAIN prog[j].calls
    /\ at[j] = "insert" => Call(j).op = "create"
    /\ at[j] \in {"add", "addrow"} => Call(j).op \in {"create", "add"} /\ to[j] \in Jobs
    /\ at[j] = "update" => Call(j).op = "update"
    /\ at[j] = "put" => Call(j).op = "put"
    /\ at[j] \in {"new", "done"} => tx[j] = Nothing
    /\ at[j] = "addrow" => adding[j] # <<>> /\ tx[j].owner[Head(adding[j])] = NoOwner
    /\ \A i \in Idents : tx[j].owner[i] # NoOwner => tx[j].owner[i].of \in Jobs

RegistryPhases == Typed /\ \A j \in Jobs : AtCall(j)

(* The steps of a job by what they do to its transaction and to the        *)
(* store: a statement that writes nothing, the start and the end of the    *)
(* transaction, the writes of an entity, an identifier, a table's row or   *)
(* the result of a create, and the commit.                                 *)
Others(j) ==
    /\ prog' = prog
    /\ \A k \in Jobs \ {j} :
          /\ at'[k] = at[k] /\ ip'[k] = ip[k] /\ adding'[k] = adding[k] /\ to'[k] = to[k]
          /\ seen'[k] = seen[k] /\ tx'[k] = tx[k]

Alone(j) ==
    /\ Others(j) /\ at[j] \notin {"new", "done"} /\ clock' = clock /\ began' = began

SameStore ==
    /\ entity' = entity /\ owner' = owner /\ table' = table /\ versions' = versions
    /\ trail' = trail /\ creates' = creates

Starts(j) ==
    /\ Others(j) /\ SameStore /\ tx' = tx /\ at[j] = "new" /\ at'[j] = "call"
    /\ ip' = ip /\ adding' = adding /\ to' = to /\ seen' = seen
    /\ clock' = clock + 1 /\ began' = [began EXCEPT ![j] = clock + 1]

Reads(j) == Alone(j) /\ SameStore /\ tx'[j] = tx[j] /\ at'[j] \notin {"new", "done"}

Ended(j) ==
    /\ at'[j] = "done" /\ tx'[j] = Nothing /\ adding'[j] = <<>> /\ to'[j] = NoEntity
    /\ seen'[j] = NoRow /\ ip'[j] = ip[j]

RollsBack(j) == Alone(j) /\ SameStore /\ Ended(j)

Going(j) == Alone(j) /\ SameStore /\ at'[j] \notin {"new", "done"}

WritesEntity(j, e, set, row) ==
    /\ Going(j)
    /\ tx'[j].entity = [tx[j].entity EXCEPT ![e] = row]
    /\ tx'[j].owner = tx[j].owner /\ tx'[j].table = tx[j].table
    /\ tx'[j].versions = Capture(j, e, row) /\ tx'[j].creates = tx[j].creates
    /\ tx'[j].trail = Append(tx[j].trail, Event(j, e, set, row))

WritesIdent(j, i, row) ==
    /\ Going(j)
    /\ tx'[j].owner = [tx[j].owner EXCEPT ![i] = row]
    /\ tx'[j].entity = tx[j].entity /\ tx'[j].table = tx[j].table
    /\ tx'[j].versions = tx[j].versions /\ tx'[j].creates = tx[j].creates
    /\ tx'[j].trail = tx[j].trail

WritesTable(j, t, val) ==
    /\ Going(j)
    /\ tx'[j].table = [tx[j].table EXCEPT ![t] = val]
    /\ tx'[j].entity = tx[j].entity /\ tx'[j].owner = tx[j].owner
    /\ tx'[j].versions = tx[j].versions /\ tx'[j].creates = tx[j].creates
    /\ tx'[j].trail = Append(tx[j].trail, Event(j, t, [value |-> val], [value |-> val]))

WritesCreates(j, C) ==
    /\ Going(j)
    /\ tx'[j].creates = tx[j].creates \cup C
    /\ tx'[j].entity = tx[j].entity /\ tx'[j].owner = tx[j].owner /\ tx'[j].table = tx[j].table
    /\ tx'[j].versions = tx[j].versions /\ tx'[j].trail = tx[j].trail

Commits(j) ==
    /\ Alone(j) /\ Ended(j)
    /\ entity' = [e \in Jobs |-> Entity(j, e)] /\ owner' = [i \in Idents |-> Owner(j, i)]
    /\ table' = [t \in Tables |-> Table(j, t)]
    /\ versions' = versions \cup tx[j].versions /\ trail' = trail \o tx[j].trail
    /\ creates' = creates \cup tx[j].creates

(* The row that an insert makes, and the one that an identifier gets.      *)
NewRow(j) == [name |-> Call(j).name, status |-> "active", source |-> prog[j].source]

NewOwner(j) == [of |-> to[j], source |-> prog[j].source]

Returns(j) ==
    IF Call(j).op = "create"
    THEN {[by |-> j, of |-> to[j], idents |-> Call(j).idents]} ELSE {}

LEMMA EndEffect ==
    ASSUME Typed, NEW j \in Jobs, EndTransaction(j), prog' = prog
    PROVE  Others(j) /\ Ended(j)
BY DEF Typed, JobTypes, EndTransaction, Goto, Others, Ended

LEMMA RaiseEffect ==
    ASSUME Typed, NEW j \in Jobs, at[j] \notin {"new", "done"}, Raise(j)
    PROVE  RollsBack(j)
<1>1. EndTransaction(j) /\ prog' = prog /\ SameStore /\ clock' = clock /\ began' = began
  BY DEF Raise, dbVars, SameStore
<1>. QED BY <1>1, EndEffect DEF RollsBack, Alone

LEMMA StartEffect == ASSUME Typed, NEW j \in Jobs, Begin(j) PROVE Starts(j)
BY DEF Typed, JobTypes, Begin, Goto, Starts, Others, SameStore, dbVars, jobVars

LEMMA FailsEffect == ASSUME Typed, NEW j \in Jobs, Fails(j) PROVE RollsBack(j)
<1>1. /\ EndTransaction(j) /\ prog' = prog /\ SameStore /\ clock' = clock /\ began' = began
      /\ at[j] \notin {"new", "done"}
  BY DEF Fails, dbVars, SameStore
<1>. QED BY <1>1, EndEffect DEF RollsBack, Alone

LEMMA DeadlockEffect == ASSUME Typed, NEW j \in Jobs, DeadlockEnds(j) PROVE RollsBack(j)
<1>1. \E k : WaitsFor(j, k)
  BY DEF DeadlockEnds
<1>2. at[j] \notin {"new", "done"}
  BY <1>1 DEF WaitsFor
<1>. QED BY <1>2, RaiseEffect DEF DeadlockEnds

LEMMA CommitEffect == ASSUME Typed, NEW j \in Jobs, CommitJob(j) PROVE Commits(j)
<1>1. /\ EndTransaction(j) /\ prog' = prog /\ clock' = clock /\ began' = began
      /\ at[j] = "returned"
  BY DEF CommitJob
<1>2. Others(j) /\ Ended(j)
  BY <1>1, EndEffect
<1>. QED BY <1>1, <1>2 DEF CommitJob, Commits, Alone

LEMMA RestEffect ==
    ASSUME Rest PROVE prog' = prog /\ SameStore /\ clock' = clock /\ began' = began
BY DEF Rest, dbVars, SameStore

LEMMA LookUpEffect ==
    ASSUME Typed, NEW j \in Jobs, CreateLookUp(j) PROVE Reads(j)
<1>1. at[j] = "call" /\ Rest
  BY DEF CreateLookUp
<1>2. Others(j) /\ tx'[j] = tx[j] /\ at'[j] \in {"insert", "add"}
  BY RestEffect DEF CreateLookUp, Typed, JobTypes, Goto, Others, jobVars
<1>. QED BY <1>1, <1>2, RestEffect DEF Reads, Alone

LEMMA MergeEffect ==
    ASSUME Typed, NEW j \in Jobs, CreateMergeRequired(j) PROVE RollsBack(j)
BY RaiseEffect DEF CreateMergeRequired

LEMMA ExpireEffect ==
    ASSUME Typed, NEW j \in Jobs, ExpireIdentifier(j) PROVE RollsBack(j)
BY RaiseEffect DEF ExpireIdentifier

LEMMA AddCallEffect ==
    ASSUME Typed, NEW j \in Jobs, AddCall(j) PROVE Reads(j) \/ RollsBack(j)
<1>1. at[j] = "call"
  BY DEF AddCall
<1>2. CASE Entity(j, Call(j).target) = NoRow
  BY <1>1, <1>2, RaiseEffect DEF AddCall
<1>3. CASE Entity(j, Call(j).target) # NoRow
  <2>1. Rest
    BY <1>3 DEF AddCall
  <2>2. Others(j) /\ tx'[j] = tx[j] /\ at'[j] = "add"
    BY <1>3, <2>1, RestEffect DEF AddCall, Typed, JobTypes, Goto, Others
  <2>. QED BY <1>1, <2>1, <2>2, RestEffect DEF Reads, Alone
<1>. QED BY <1>2, <1>3

LEMMA AddIdentifierEffect ==
    ASSUME Typed, NEW j \in Jobs, AddIdentifier(j) PROVE Reads(j) \/ RollsBack(j)
<1>1. at[j] = "add"
  BY DEF AddIdentifier
<1>2. CASE Raise(j)
  BY <1>1, <1>2, RaiseEffect
<1>3. CASE ~Raise(j)
  <2>1. Rest
    BY <1>3 DEF AddIdentifier
  <2>2. Others(j) /\ tx'[j] = tx[j] /\ at'[j] \in {"add", "addrow"}
    BY <1>1, <1>3, <2>1, RestEffect DEF AddIdentifier, Typed, JobTypes, Goto, Others, jobVars
  <2>. QED BY <1>1, <2>1, <2>2, RestEffect DEF Reads, Alone
<1>. QED BY <1>2, <1>3

LEMMA UpdateReadsEffect ==
    ASSUME Typed, NEW j \in Jobs, UpdateReads(j) PROVE Reads(j) \/ RollsBack(j)
<1>1. at[j] = "call"
  BY DEF UpdateReads
<1>2. CASE Entity(j, Call(j).target) = NoRow
  BY <1>1, <1>2, RaiseEffect DEF UpdateReads
<1>3. CASE Entity(j, Call(j).target) # NoRow
  <2>1. Rest
    BY <1>3 DEF UpdateReads
  <2>2. Others(j) /\ tx'[j] = tx[j] /\ at'[j] = "update"
    BY <1>3, <2>1, RestEffect DEF UpdateReads, Typed, JobTypes, Goto, Others
  <2>. QED BY <1>1, <2>1, <2>2, RestEffect DEF Reads, Alone
<1>. QED BY <1>2, <1>3

LEMMA NextCallEffect ==
    ASSUME Typed, NEW j \in Jobs, NextCall(j)
    PROVE  /\ at'[j] \in {"returned", "call"} /\ ip'[j] = ip[j] + 1
           /\ at'[j] = (IF ip[j] = Len(prog[j].calls) THEN "returned" ELSE "call")
           /\ at' \in [Jobs -> Labels] /\ ip' \in [Jobs -> Nat]
           /\ \A k \in Jobs \ {j} : at'[k] = at[k] /\ ip'[k] = ip[k]
BY DEF Typed, JobTypes, NextCall, Goto, Labels

LEMMA PutReadsEffect ==
    ASSUME Typed, NEW j \in Jobs, PutReads(j) PROVE Reads(j)
<1>1. at[j] = "call" /\ Rest
  BY DEF PutReads
<1>2. CASE Table(j, Call(j).table) = Call(j).value
  <2>1. NextCall(j) /\ UNCHANGED <<adding, to, seen, tx>>
    BY <1>2 DEF PutReads
  <2>2. Others(j) /\ tx'[j] = tx[j] /\ at'[j] \in {"returned", "call"}
    BY <1>1, <2>1, RestEffect, NextCallEffect DEF Others
  <2>. QED BY <1>1, <2>2, RestEffect DEF Reads, Alone
<1>3. CASE Table(j, Call(j).table) # Call(j).value
  <2>1. Goto(j, "put") /\ UNCHANGED jobVars
    BY <1>3 DEF PutReads
  <2>2. Others(j) /\ tx'[j] = tx[j] /\ at'[j] = "put"
    BY <1>1, <2>1, RestEffect DEF Typed, JobTypes, Goto, Others, jobVars
  <2>. QED BY <1>1, <2>2, RestEffect DEF Reads, Alone
<1>. QED BY <1>2, <1>3

LEMMA CallAt ==
    ASSUME Typed, NEW j \in Jobs, ip[j] \in DOMAIN prog[j].calls
    PROVE  /\ Call(j) \in CallRecords
           /\ Call(j).op = "create" => Call(j).idents = ElementsOf(Call(j).order)
           /\ Call(j).op \in {"create", "add"} => Call(j).order \in Seq(Idents)
           /\ Call(j).op \in {"add", "update"} => Call(j).target \in Jobs
<1>1. prog \in Programs
  BY DEF Typed
<1>2. prog[j].calls \in Seq(CallRecords)
  BY <1>1, ProgramFacts
<1>3. Call(j) \in CallRecords
  BY <1>2 DEF Call
<1>4. Call(j).op = "create" => Call(j).idents = ElementsOf(Call(j).order)
  BY <1>1, ProgramFacts DEF Call
<1>. QED BY <1>3, <1>4, CallFacts

(* A write of a transaction: what it changes, and that it keeps the types. *)
EntityWrite(t, j, e, row, V, c) ==
    [t EXCEPT ![j].entity[e] = row, ![j].versions = V, ![j].trail = Append(@, c)]

TableWrite(t, j, x, val, c) == [t EXCEPT ![j].table[x] = val, ![j].trail = Append(@, c)]

EntityPut(t, u, j, e, row, V, c) ==
    /\ u \in [Jobs -> Writes] /\ u[j].entity = [t[j].entity EXCEPT ![e] = row]
    /\ u[j].owner = t[j].owner /\ u[j].table = t[j].table /\ u[j].versions = V
    /\ u[j].creates = t[j].creates /\ u[j].trail = Append(t[j].trail, c)
    /\ \A k \in Jobs \ {j} : u[k] = t[k]

TablePut(t, u, j, x, val, c) ==
    /\ u \in [Jobs -> Writes] /\ u[j].table = [t[j].table EXCEPT ![x] = val]
    /\ u[j].owner = t[j].owner /\ u[j].entity = t[j].entity
    /\ u[j].versions = t[j].versions /\ u[j].creates = t[j].creates
    /\ u[j].trail = Append(t[j].trail, c) /\ \A k \in Jobs \ {j} : u[k] = t[k]

LEMMA EntityWritten ==
    ASSUME NEW t \in [Jobs -> Writes], NEW j \in Jobs, NEW e \in Jobs, NEW row \in Row,
           NEW V \in SUBSET Version, NEW c \in Change,
           NEW u, u = EntityWrite(t, j, e, row, V, c)
    PROVE  EntityPut(t, u, j, e, row, V, c)
<1> DEFINE n == [t[j] EXCEPT !.entity[e] = row, !.versions = V, !.trail = Append(@, c)]
<1>1. Append(t[j].trail, c) \in Seq(Change) /\ [t[j].entity EXCEPT ![e] = row] \in [Jobs -> Row]
  BY DEF Writes
<1>2. /\ n \in Writes /\ n.entity = [t[j].entity EXCEPT ![e] = row]
      /\ n.owner = t[j].owner /\ n.table = t[j].table /\ n.versions = V
      /\ n.creates = t[j].creates /\ n.trail = Append(t[j].trail, c)
  BY <1>1 DEF Writes
<1>3. u[j] = n /\ DOMAIN u = Jobs /\ \A k \in Jobs \ {j} : u[k] = t[k]
  BY DEF Writes, EntityWrite
<1> HIDE DEF n
<1>4. \A k \in Jobs : u[k] \in Writes
  BY <1>2, <1>3
<1>5. u = [k \in Jobs |-> u[k]]
  BY DEF EntityWrite
<1>. QED BY <1>2, <1>3, <1>4, <1>5 DEF EntityPut

LEMMA TableWritten ==
    ASSUME NEW t \in [Jobs -> Writes], NEW j \in Jobs, NEW x \in Tables, NEW val \in Text,
           NEW c \in Change, NEW u, u = TableWrite(t, j, x, val, c)
    PROVE  TablePut(t, u, j, x, val, c)
<1> DEFINE n == [t[j] EXCEPT !.table[x] = val, !.trail = Append(@, c)]
<1>1. Append(t[j].trail, c) \in Seq(Change) /\ [t[j].table EXCEPT ![x] = val] \in [Tables -> Text]
  BY DEF Writes
<1>2. /\ n \in Writes /\ n.table = [t[j].table EXCEPT ![x] = val]
      /\ n.owner = t[j].owner /\ n.entity = t[j].entity /\ n.versions = t[j].versions
      /\ n.creates = t[j].creates /\ n.trail = Append(t[j].trail, c)
  BY <1>1 DEF Writes
<1>3. u[j] = n /\ DOMAIN u = Jobs /\ \A k \in Jobs \ {j} : u[k] = t[k]
  BY DEF Writes, TableWrite
<1> HIDE DEF n
<1>4. \A k \in Jobs : u[k] \in Writes
  BY <1>2, <1>3
<1>5. u = [k \in Jobs |-> u[k]]
  BY DEF TableWrite
<1>. QED BY <1>2, <1>3, <1>4, <1>5 DEF TablePut

(* The row that update_entity leaves.                                      *)
LEMMA UpdatedRow ==
    ASSUME Typed, NEW j \in Jobs, ip[j] \in DOMAIN prog[j].calls, Call(j).op = "update"
    PROVE  LET e == Call(j).target IN
           /\ e \in Jobs /\ Call(j).set \in Arguments /\ NewValues(j) \in Row
           /\ DOMAIN Call(j).set \subseteq DOMAIN NewValues(j)
           /\ \A f \in DOMAIN Call(j).set : NewValues(j)[f] = Call(j).set[f]
           /\ \A f \in DOMAIN NewValues(j) :
                 f \notin DOMAIN Call(j).set => NewValues(j)[f] = Entity(j, e)[f]
           /\ NewValues(j).source = Entity(j, e).source
<1>1. Call(j).target \in Jobs /\ Call(j).set \in Arguments
  BY CallAt, CallFacts
<1>2. Entity(j, Call(j).target) \in Row
  BY <1>1, ViewTypes
<1>3. /\ DOMAIN Call(j).set \subseteq {"name", "status"}
      /\ \A f \in DOMAIN Call(j).set : Call(j).set[f] \in STRING
  BY <1>1, ArgumentFacts
<1>4. \A f \in DOMAIN NoRow : Entity(j, Call(j).target)[f] \in Text
  BY <1>2, RowFacts
<1>5. NewValues(j) \in [DOMAIN NoRow -> Text]
  BY <1>3, <1>4 DEF NewValues, Text
<1>6. NewValues(j) \in Row /\ NewValues(j).source = NewValues(j)["source"]
  BY <1>5, MadeRow
<1>7. DOMAIN NewValues(j) = DOMAIN NoRow /\ DOMAIN NoRow = {"name", "status", "source"}
  BY <1>5, RowFacts
<1>8. /\ \A f \in DOMAIN Call(j).set : NewValues(j)[f] = Call(j).set[f]
      /\ \A f \in DOMAIN NoRow :
            f \notin DOMAIN Call(j).set => NewValues(j)[f] = Entity(j, Call(j).target)[f]
  BY <1>3, <1>7 DEF NewValues
<1>9. NewValues(j).source = Entity(j, Call(j).target).source
  BY <1>3, <1>6, <1>7, <1>8, <1>2 DEF Row
<1>. QED BY <1>1, <1>3, <1>6, <1>7, <1>8, <1>9

LEMMA InsertedRow ==
    ASSUME Typed, NEW j \in Jobs, ip[j] \in DOMAIN prog[j].calls, Call(j).op = "create"
    PROVE  /\ NewRow(j) \in Row /\ NewRow(j) # NoRow /\ NewRow(j).source = prog[j].source
           /\ Call(j).order \in Seq(Idents)
<1>1. Call(j).name \in STRING /\ Call(j).order \in Seq(Idents)
  BY CallAt, CallFacts
<1>2. prog[j].source \in STRING /\ prog[j].source # ""
  BY ProgramFacts DEF Typed
<1>3. NewRow(j) \in Row /\ NewRow(j).source = prog[j].source
  BY <1>1, <1>2 DEF NewRow, Row, Text
<1>. QED BY <1>1, <1>2, <1>3, RowFacts

LEMMA InsertEffect ==
    ASSUME Typed, NEW j \in Jobs, AtCall(j), InsertEntity(j)
    PROVE  /\ WritesEntity(j, j, NewRow(j), NewRow(j)) /\ tx' \in [Jobs -> Writes]
           /\ at'[j] = "add" /\ to'[j] = j /\ adding'[j] = Call(j).order /\ ip' = ip
<1>. PICK row : row = NewRow(j)
  OBVIOUS
<1>1. /\ at[j] = "insert" /\ Rest /\ ip[j] \in DOMAIN prog[j].calls /\ Call(j).op = "create"
  BY DEF InsertEntity, AtCall, InCall
<1>2. row \in Row
  BY <1>1, InsertedRow
<1>3. tx \in [Jobs -> Writes] /\ tx[j] \in Writes /\ began[j] \in Nat
  BY DEF Typed
<1>4. Capture(j, j, row) \in SUBSET Version
  BY <1>2, <1>3, CaptureType
<1>5. Event(j, j, row, row) \in Change
  BY <1>2 DEF Event, Change
<1>6. tx' = EntityWrite(tx, j, j, row, Capture(j, j, row), Event(j, j, row, row))
  BY DEF InsertEntity, NewRow, EntityWrite
<1>7. EntityPut(tx, tx', j, j, row, Capture(j, j, row), Event(j, j, row, row))
  BY <1>2, <1>3, <1>4, <1>5, <1>6, EntityWritten, Zenon
<1>10. /\ at'[j] = "add" /\ to'[j] = j /\ adding'[j] = Call(j).order /\ ip' = ip /\ seen' = seen
       /\ \A k \in Jobs \ {j} : at'[k] = at[k] /\ to'[k] = to[k] /\ adding'[k] = adding[k]
  BY DEF InsertEntity, Typed, JobTypes, Goto
<1>11. Going(j)
  BY <1>1, <1>7, <1>10, RestEffect DEF Going, Alone, Others, EntityPut
<1>. QED BY <1>7, <1>10, <1>11 DEF WritesEntity, EntityPut

LEMMA UpdateEffect ==
    ASSUME Typed, NEW j \in Jobs, AtCall(j), UpdateEntity(j)
    PROVE  /\ WritesEntity(j, Call(j).target, Call(j).set, NewValues(j))
           /\ tx' \in [Jobs -> Writes] /\ NextCall(j) /\ adding' = adding /\ to' = to
<1>. PICK e, row, set : e = Call(j).target /\ row = NewValues(j) /\ set = Call(j).set
  OBVIOUS
<1>1. at[j] = "update" /\ Rest /\ ip[j] \in DOMAIN prog[j].calls /\ Call(j).op = "update"
  BY DEF UpdateEntity, AtCall, InCall
<1>2. row \in Row /\ e \in Jobs /\ set \in Arguments
  BY <1>1, UpdatedRow
<1>3. tx \in [Jobs -> Writes] /\ tx[j] \in Writes /\ began[j] \in Nat
  BY DEF Typed
<1>4. Capture(j, e, row) \in SUBSET Version
  BY <1>2, <1>3, CaptureType
<1>5. Event(j, e, set, row) \in Change
  BY <1>2 DEF Event, Change
<1>6. tx' = EntityWrite(tx, j, e, row, Capture(j, e, row), Event(j, e, set, row))
  BY DEF UpdateEntity, EntityWrite
<1>7. EntityPut(tx, tx', j, e, row, Capture(j, e, row), Event(j, e, set, row))
  BY <1>2, <1>3, <1>4, <1>5, <1>6, EntityWritten, Zenon
<1>10. /\ NextCall(j) /\ adding' = adding /\ to' = to
       /\ \A k \in Jobs \ {j} : seen'[k] = seen[k]
  BY DEF UpdateEntity, Typed, JobTypes
<1>11. Going(j)
  BY <1>1, <1>7, <1>10, RestEffect, NextCallEffect DEF Going, Alone, Others, EntityPut
<1>. QED BY <1>7, <1>10, <1>11 DEF WritesEntity, EntityPut

LEMMA PutEffect ==
    ASSUME Typed, NEW j \in Jobs, AtCall(j), PutRow(j)
    PROVE  /\ WritesTable(j, Call(j).table, Call(j).value) /\ tx' \in [Jobs -> Writes]
           /\ Call(j).table \in Tables /\ Call(j).value \in Text /\ Call(j).value # ""
           /\ NextCall(j) /\ adding' = adding /\ to' = to /\ seen' = seen
<1>. PICK t, val : t = Call(j).table /\ val = Call(j).value
  OBVIOUS
<1> DEFINE c == Event(j, t, [value |-> val], [value |-> val])
<1>1. at[j] = "put" /\ Rest /\ ip[j] \in DOMAIN prog[j].calls /\ Call(j).op = "put"
  BY DEF PutRow, AtCall, InCall
<1>2. t \in Tables /\ val \in Text /\ val # ""
  BY <1>1, CallAt, CallFacts DEF Text
<1>3. tx \in [Jobs -> Writes]
  BY DEF Typed
<1>4. c \in Change
  BY <1>2 DEF Event, Change, Cell
<1>5. tx' = TableWrite(tx, j, t, val, c)
  BY DEF PutRow, TableWrite
<1> HIDE DEF c
<1>6. TablePut(tx, tx', j, t, val, c)
  BY <1>2, <1>3, <1>4, <1>5, TableWritten, Zenon
<1>7. NextCall(j) /\ adding' = adding /\ to' = to /\ seen' = seen
  BY DEF PutRow
<1>8. Going(j)
  BY <1>1, <1>6, <1>7, RestEffect, NextCallEffect DEF Going, Alone, Others, TablePut
<1>. QED BY <1>2, <1>6, <1>7, <1>8 DEF WritesTable, TablePut, c

LEMMA IdentEffect ==
    ASSUME Typed, NEW j \in Jobs, AtCall(j), InsertIdentifier(j)
    PROVE  LET i == Head(adding[j]) IN
           \/ RollsBack(j)
           \/ /\ WritesIdent(j, i, NewOwner(j)) /\ tx' \in [Jobs -> Writes]
              /\ owner[i] = NoOwner /\ at'[j] = "add" /\ adding'[j] = Tail(adding[j])
              /\ ip' = ip /\ to' = to /\ seen' = seen
<1>. PICK i : i = Head(adding[j])
  OBVIOUS
<1>1. at[j] = "addrow" /\ adding[j] # <<>> /\ adding[j] \in Seq(Idents)
  BY DEF InsertIdentifier, AtCall, Typed, JobTypes
<1>2. CASE owner[i] # NoOwner
  BY <1>1, <1>2, RaiseEffect DEF InsertIdentifier
<1>3. CASE owner[i] = NoOwner
  <2>1. Rest /\ i \in Idents /\ tx \in [Jobs -> Writes]
    BY <1>1, <1>3 DEF InsertIdentifier, Typed
  <2>2. prog[j].source \in STRING
    BY ProgramFacts DEF Typed
  <2>3. NewOwner(j) \in OwnerRow
    BY <2>2 DEF NewOwner, OwnerRow, Text, Typed, JobTypes
  <2>4. tx' = [tx EXCEPT ![j].owner[i] = NewOwner(j)]
    BY <1>3 DEF InsertIdentifier, NewOwner
  <2>5. [tx[j].owner EXCEPT ![i] = NewOwner(j)] \in [Idents -> OwnerRow]
    BY <2>1, <2>3 DEF Writes
  <2>6. /\ tx' \in [Jobs -> Writes] /\ tx'[j].owner = [tx[j].owner EXCEPT ![i] = NewOwner(j)]
        /\ tx'[j].entity = tx[j].entity /\ tx'[j].table = tx[j].table
        /\ tx'[j].versions = tx[j].versions /\ tx'[j].creates = tx[j].creates
        /\ tx'[j].trail = tx[j].trail /\ \A k \in Jobs \ {j} : tx'[k] = tx[k]
    BY <2>1, <2>3, <2>4, <2>5 DEF Writes
  <2>7. /\ at'[j] = "add" /\ adding'[j] = Tail(adding[j]) /\ ip' = ip /\ to' = to /\ seen' = seen
        /\ \A k \in Jobs \ {j} : at'[k] = at[k] /\ adding'[k] = adding[k]
    BY <1>3 DEF InsertIdentifier, Goto, Typed, JobTypes
  <2>8. Going(j)
    BY <1>1, <2>1, <2>6, <2>7, RestEffect DEF Going, Alone, Others
  <2>. QED BY <1>3, <2>6, <2>7, <2>8 DEF WritesIdent
<1>. QED BY <1>2, <1>3

LEMMA DoneEffect ==
    ASSUME Typed, NEW j \in Jobs, AtCall(j), AddDone(j)
    PROVE  /\ WritesCreates(j, Returns(j)) /\ tx' \in [Jobs -> Writes]
           /\ NextCall(j) /\ adding' = adding /\ seen' = seen
<1>. PICK C : C = Returns(j)
  OBVIOUS
<1>1. at[j] = "add" /\ Rest /\ ip[j] \in DOMAIN prog[j].calls /\ to[j] \in Jobs
  BY DEF AddDone, AtCall, InCall
<1>2. C \in SUBSET Creation
  <2>1. CASE Call(j).op # "create"
    BY <2>1 DEF Returns
  <2>2. CASE Call(j).op = "create"
    <3>1. Call(j) \in CallRecords
      BY <1>1, CallAt
    <3>2. Call(j).idents \in SUBSET Idents
      BY <2>2, <3>1, CallFacts
    <3>3. [by |-> j, of |-> to[j], idents |-> Call(j).idents] \in Creation
      BY <1>1, <3>2 DEF Creation
    <3>. QED BY <2>2, <3>3 DEF Returns
  <2>. QED BY <2>1, <2>2
<1>3. tx \in [Jobs -> Writes]
  BY DEF Typed
<1>4. tx' = [tx EXCEPT ![j].creates = @ \cup C]
  BY DEF AddDone, Returns
<1>5. tx[j].creates \cup C \in SUBSET Creation
  BY <1>2, <1>3 DEF Writes
<1>6. /\ tx' \in [Jobs -> Writes] /\ tx'[j].creates = tx[j].creates \cup C
      /\ tx'[j].owner = tx[j].owner /\ tx'[j].entity = tx[j].entity
      /\ tx'[j].table = tx[j].table /\ tx'[j].versions = tx[j].versions
      /\ tx'[j].trail = tx[j].trail /\ \A k \in Jobs \ {j} : tx'[k] = tx[k]
  BY <1>3, <1>4, <1>5 DEF Writes
<1>7. /\ NextCall(j) /\ adding' = adding /\ seen' = seen
      /\ \A k \in Jobs \ {j} : to'[k] = to[k]
  BY DEF AddDone, Typed, JobTypes
<1>8. Going(j)
  BY <1>1, <1>6, <1>7, RestEffect, NextCallEffect DEF Going, Alone, Others
<1>. QED BY <1>6, <1>7, <1>8 DEF WritesCreates

-----------------------------------------------------------------------------
(* Types and phases are kept.                                              *)
LEMMA StoreKept ==
    ASSUME Typed, SameStore, prog' = prog, clock' \in Nat, began' \in [Jobs -> Nat],
           JobTypes', tx' \in [Jobs -> Writes]
    PROVE  Typed'
BY DEF Typed, StoreTypes, SameStore

LEMMA OthersAt ==
    ASSUME NEW j \in Jobs, Others(j), NEW k \in Jobs \ {j}, AtCall(k)
    PROVE  AtCall(k)'
BY DEF Others, AtCall, Call

LEMMA EndedPhase ==
    ASSUME Typed, NEW j \in Jobs, EndTransaction(j), prog' = prog
    PROVE  JobTypes' /\ tx' \in [Jobs -> Writes] /\ AtCall(j)'
<1>0. <<>> \in Seq(Idents) /\ NoRow \in Row /\ "done" \in Labels
  <2>1. <<>> \in Seq(Idents)
    OBVIOUS
  <2>2. "done" \in Labels
    BY DEF Labels
  <2>. QED BY <2>1, <2>2, RowFacts
<1>1. JobTypes' /\ tx' \in [Jobs -> Writes]
  <2>1. at' \in [Jobs -> Labels] /\ ip' \in [Jobs -> Nat]
    BY <1>0 DEF EndTransaction, Goto, Typed, JobTypes
  <2>2. adding' \in [Jobs -> Seq(Idents)]
    BY <1>0 DEF EndTransaction, Typed, JobTypes
  <2>3. to' \in [Jobs -> Jobs \cup {NoEntity}]
    BY DEF EndTransaction, Typed, JobTypes
  <2>4. seen' \in [Jobs -> Row]
    BY <1>0 DEF EndTransaction, Typed, JobTypes
  <2>5. tx' \in [Jobs -> Writes]
    BY NothingWritten DEF EndTransaction, Typed
  <2>. QED BY <2>1, <2>2, <2>3, <2>4, <2>5 DEF JobTypes
<1>2. at'[j] = "done" /\ tx'[j] = Nothing
  BY DEF EndTransaction, Goto, Typed, JobTypes
<1>3. \A i \in Idents : Nothing.owner[i] = NoOwner
  BY DEF Nothing
<1>. QED BY <1>1, <1>2, <1>3 DEF AtCall, InCall

LEMMA RaisePhase ==
    ASSUME Typed, NEW j \in Jobs, Raise(j) PROVE Typed' /\ AtCall(j)'
<1>1. EndTransaction(j) /\ prog' = prog /\ SameStore /\ clock' = clock /\ began' = began
  BY DEF Raise, dbVars, SameStore
<1>2. clock' \in Nat /\ began' \in [Jobs -> Nat]
  BY <1>1 DEF Typed
<1>. QED BY <1>1, <1>2, EndedPhase, StoreKept

LEMMA FailsPhase ==
    ASSUME Typed, NEW j \in Jobs, Fails(j) PROVE Typed' /\ AtCall(j)'
<1>1. EndTransaction(j) /\ prog' = prog /\ SameStore /\ clock' = clock /\ began' = began
  BY DEF Fails, dbVars, SameStore
<1>2. clock' \in Nat /\ began' \in [Jobs -> Nat]
  BY <1>1 DEF Typed
<1>. QED BY <1>1, <1>2, EndedPhase, StoreKept

LEMMA CommitPhase ==
    ASSUME Typed, NEW j \in Jobs, CommitJob(j) PROVE Typed' /\ AtCall(j)'
<1>1. EndTransaction(j) /\ prog' = prog /\ clock' = clock /\ began' = began
  BY DEF CommitJob
<1>2. JobTypes' /\ tx' \in [Jobs -> Writes] /\ AtCall(j)'
  BY <1>1, EndedPhase
<1>3. /\ entity' \in [Jobs -> Row] /\ owner' \in [Idents -> OwnerRow]
      /\ table' \in [Tables -> Text]
  BY ViewTypes DEF CommitJob
<1>4. /\ tx[j].versions \in SUBSET Version /\ tx[j].trail \in Seq(Change)
      /\ tx[j].creates \in SUBSET Creation
  BY DEF Typed, Writes
<1>5. versions' \in SUBSET Version /\ creates' \in SUBSET Creation
  BY <1>4 DEF CommitJob, Typed, StoreTypes
<1>6. trail' \in Seq(Change)
  BY <1>4 DEF CommitJob, Typed, StoreTypes
<1>. QED BY <1>1, <1>2, <1>3, <1>5, <1>6 DEF Typed, StoreTypes

LEMMA BeginPhase ==
    ASSUME Typed, NEW j \in Jobs, AtCall(j), Begin(j) PROVE Typed' /\ AtCall(j)'
<1>1. /\ Starts(j) /\ at' = [at EXCEPT ![j] = "call"]
  BY StartEffect DEF Begin, Goto
<1>2. JobTypes' /\ tx' = tx
  BY <1>1 DEF Starts, Typed, JobTypes, Labels
<1>3. clock' \in Nat /\ began' \in [Jobs -> Nat]
  BY <1>1 DEF Starts, Typed
<1>4. Typed'
  BY <1>1, <1>2, <1>3, StoreKept DEF Starts, Others, Typed
<1>. QED BY <1>1, <1>2, <1>4 DEF AtCall, InCall, Starts, Others, Call

(* The next call is one of the program, if there is one.                   *)
LEMMA NextCallPhase ==
    ASSUME Typed, NEW j \in Jobs, NextCall(j), prog' = prog, ip[j] \in DOMAIN prog[j].calls,
           \A i \in Idents : tx'[j].owner[i] # NoOwner => tx'[j].owner[i].of \in Jobs
    PROVE  AtCall(j)'
<1>1. prog[j].calls \in Seq(CallRecords)
  BY ProgramFacts DEF Typed
<1>2. at'[j] = "call" => ip'[j] \in DOMAIN prog[j].calls
  BY <1>1, NextCallEffect
<1>3. at'[j] \in {"call", "returned"}
  BY NextCallEffect
<1>. QED BY <1>2, <1>3 DEF AtCall, InCall

LEMMA RestKept ==
    ASSUME Typed, Rest, JobTypes', tx' \in [Jobs -> Writes] PROVE Typed'
<1>1. prog' = prog /\ SameStore /\ clock' = clock /\ began' = began
  BY RestEffect
<1>2. clock' \in Nat /\ began' \in [Jobs -> Nat]
  BY <1>1 DEF Typed
<1>. QED BY <1>1, <1>2, StoreKept

LEMMA LookUpPhase ==
    ASSUME Typed, NEW j \in Jobs, AtCall(j), CreateLookUp(j) PROVE Typed' /\ AtCall(j)'
<1>1. /\ at[j] = "call" /\ Call(j).op = "create" /\ Rest /\ tx' = tx /\ ip' = ip
      /\ ip[j] \in DOMAIN prog[j].calls /\ prog' = prog
  BY RestEffect DEF CreateLookUp, jobVars, AtCall, InCall
<1>2. Call(j).order \in Seq(Idents)
  BY <1>1, CallAt
<1>3. /\ JobTypes' /\ at'[j] \in {"insert", "add"}
      /\ at'[j] = "add" => to'[j] \in Jobs
  <2>1. CASE Goto(j, "insert") /\ UNCHANGED jobVars
    BY <2>1 DEF Goto, jobVars, Typed, JobTypes, Labels
  <2>2. ASSUME NEW e \in Jobs, to' = [to EXCEPT ![j] = e],
               adding' = [adding EXCEPT ![j] = Call(j).order], Goto(j, "add"), ip' = ip, seen' = seen
        PROVE  JobTypes' /\ at'[j] = "add" /\ to'[j] \in Jobs
    <3>1. at' \in [Jobs -> Labels] /\ at'[j] = "add"
      BY <2>2 DEF Goto, Typed, JobTypes, Labels
    <3>2. adding' \in [Jobs -> Seq(Idents)]
      BY <1>2, <2>2 DEF Typed, JobTypes
    <3>3. to' \in [Jobs -> Jobs \cup {NoEntity}] /\ to'[j] \in Jobs
      BY <2>2 DEF Typed, JobTypes
    <3>. QED BY <2>2, <3>1, <3>2, <3>3 DEF Typed, JobTypes
  <2>. QED BY <2>1, <2>2 DEF CreateLookUp
<1>4. Typed'
  BY <1>1, <1>3, RestKept DEF Typed
<1>. QED BY <1>1, <1>3, <1>4 DEF AtCall, InCall, Call

LEMMA AddCallPhase ==
    ASSUME Typed, NEW j \in Jobs, AtCall(j), AddCall(j) PROVE Typed' /\ AtCall(j)'
<1>1. CASE Entity(j, Call(j).target) = NoRow
  BY <1>1, RaisePhase DEF AddCall
<1>2. CASE Entity(j, Call(j).target) # NoRow
  <2>1. /\ at[j] = "call" /\ Call(j).op = "add" /\ Rest /\ tx' = tx /\ ip' = ip
        /\ ip[j] \in DOMAIN prog[j].calls /\ prog' = prog
    BY <1>2, RestEffect DEF AddCall, AtCall, InCall
  <2>2. Call(j).order \in Seq(Idents) /\ Call(j).target \in Jobs
    BY <2>1, CallAt
  <2>3. JobTypes' /\ at'[j] = "add" /\ to'[j] \in Jobs
    BY <1>2, <2>2 DEF AddCall, Goto, Typed, JobTypes, Labels
  <2>4. Typed'
    BY <2>1, <2>3, RestKept DEF Typed
  <2>. QED BY <2>1, <2>3, <2>4 DEF AtCall, InCall, Call
<1>. QED BY <1>1, <1>2

LEMMA AddIdentifierPhase ==
    ASSUME Typed, NEW j \in Jobs, AtCall(j), AddIdentifier(j) PROVE Typed' /\ AtCall(j)'
<1>1. CASE Raise(j)
  BY <1>1, RaisePhase
<1>2. CASE ~Raise(j)
  <2>1. /\ at[j] = "add" /\ Rest /\ tx' = tx /\ ip' = ip /\ prog' = prog /\ to' = to
        /\ ip[j] \in DOMAIN prog[j].calls /\ adding[j] # <<>> /\ adding[j] \in Seq(Idents)
    BY <1>2, RestEffect DEF AddIdentifier, jobVars, AtCall, InCall, Typed, JobTypes
  <2>2. Head(adding[j]) \in Idents /\ Tail(adding[j]) \in Seq(Idents)
    BY <2>1
  <2>3. /\ JobTypes' /\ at'[j] \in {"add", "addrow"}
        /\ at'[j] = "addrow" => adding' = adding /\ Owner(j, Head(adding[j])).of = NoEntity
    BY <1>2, <2>1, <2>2 DEF AddIdentifier, Goto, jobVars, Typed, JobTypes, Labels
  <2>4. Typed'
    BY <2>1, <2>3, RestKept DEF Typed
  <2>5. at'[j] = "addrow" => tx[j].owner[Head(adding[j])] = NoOwner
    BY <2>2, <2>3, RegistryPlain DEF Owner, AtCall
  <2>. QED BY <2>1, <2>3, <2>4, <2>5 DEF AtCall, InCall, Call
<1>. QED BY <1>1, <1>2

LEMMA UpdateReadsPhase ==
    ASSUME Typed, NEW j \in Jobs, AtCall(j), UpdateReads(j) PROVE Typed' /\ AtCall(j)'
<1>1. CASE Entity(j, Call(j).target) = NoRow
  BY <1>1, RaisePhase DEF UpdateReads
<1>2. CASE Entity(j, Call(j).target) # NoRow
  <2>1. /\ at[j] = "call" /\ Call(j).op = "update" /\ Rest /\ tx' = tx /\ ip' = ip
        /\ ip[j] \in DOMAIN prog[j].calls /\ prog' = prog
    BY <1>2, RestEffect DEF UpdateReads, AtCall, InCall
  <2>2. Call(j).target \in Jobs
    BY <2>1, CallAt
  <2>3. Entity(j, Call(j).target) \in Row
    BY <2>2, ViewTypes
  <2>4. JobTypes' /\ at'[j] = "update"
    BY <1>2, <2>3 DEF UpdateReads, Goto, Typed, JobTypes, Labels
  <2>5. Typed'
    BY <2>1, <2>4, RestKept DEF Typed
  <2>. QED BY <2>1, <2>4, <2>5 DEF AtCall, InCall, Call
<1>. QED BY <1>1, <1>2

LEMMA PutReadsPhase ==
    ASSUME Typed, NEW j \in Jobs, AtCall(j), PutReads(j) PROVE Typed' /\ AtCall(j)'
<1>1. /\ at[j] = "call" /\ Call(j).op = "put" /\ Rest /\ tx' = tx /\ prog' = prog
      /\ adding' = adding /\ to' = to /\ seen' = seen /\ ip[j] \in DOMAIN prog[j].calls
  BY RestEffect DEF PutReads, jobVars, AtCall, InCall
<1>2. CASE Table(j, Call(j).table) = Call(j).value
  <2>1. NextCall(j)
    BY <1>2 DEF PutReads
  <2>2. JobTypes'
    BY <1>1, <2>1, NextCallEffect DEF Typed, JobTypes
  <2>3. AtCall(j)'
    BY <1>1, <2>1, NextCallPhase DEF AtCall
  <2>. QED BY <1>1, <2>2, <2>3, RestKept DEF Typed
<1>3. CASE Table(j, Call(j).table) # Call(j).value
  <2>1. Goto(j, "put") /\ ip' = ip
    BY <1>3 DEF PutReads, jobVars
  <2>2. JobTypes' /\ at'[j] = "put"
    BY <1>1, <2>1 DEF Typed, JobTypes, Goto, Labels
  <2>3. Typed'
    BY <1>1, <2>2, RestKept DEF Typed
  <2>. QED BY <1>1, <2>1, <2>2, <2>3 DEF AtCall, InCall, Call
<1>. QED BY <1>2, <1>3

LEMMA InsertPhase ==
    ASSUME Typed, NEW j \in Jobs, AtCall(j), InsertEntity(j) PROVE Typed' /\ AtCall(j)'
<1>1. /\ WritesEntity(j, j, NewRow(j), NewRow(j)) /\ tx' \in [Jobs -> Writes]
      /\ at'[j] = "add" /\ to'[j] = j /\ ip' = ip /\ Rest /\ prog' = prog
      /\ ip[j] \in DOMAIN prog[j].calls /\ Call(j).op = "create"
  BY InsertEffect, RestEffect DEF InsertEntity, AtCall, InCall
<1>2. Call(j).order \in Seq(Idents)
  BY <1>1, CallAt
<1>3. JobTypes'
  BY <1>2 DEF InsertEntity, Goto, Typed, JobTypes, Labels
<1>4. Typed'
  BY <1>1, <1>3, RestKept
<1>. QED BY <1>1, <1>4 DEF AtCall, InCall, Call, WritesEntity

LEMMA UpdatePhase ==
    ASSUME Typed, NEW j \in Jobs, AtCall(j), UpdateEntity(j) PROVE Typed' /\ AtCall(j)'
<1>1. /\ tx' \in [Jobs -> Writes] /\ NextCall(j) /\ adding' = adding /\ to' = to
      /\ tx'[j].owner = tx[j].owner
  BY UpdateEffect DEF WritesEntity
<1>2. Rest /\ prog' = prog /\ ip[j] \in DOMAIN prog[j].calls
  BY RestEffect DEF UpdateEntity, AtCall, InCall
<1>3. seen' \in [Jobs -> Row]
  BY RowFacts DEF UpdateEntity, Typed, JobTypes
<1>4. JobTypes'
  BY <1>1, <1>3, NextCallEffect DEF Typed, JobTypes
<1>5. AtCall(j)'
  BY <1>1, <1>2, NextCallPhase DEF AtCall
<1>. QED BY <1>1, <1>2, <1>4, <1>5, RestKept

LEMMA PutPhase ==
    ASSUME Typed, NEW j \in Jobs, AtCall(j), PutRow(j) PROVE Typed' /\ AtCall(j)'
<1>1. /\ tx' \in [Jobs -> Writes] /\ NextCall(j) /\ adding' = adding /\ to' = to
      /\ tx'[j].owner = tx[j].owner /\ seen' = seen
  BY PutEffect DEF WritesTable
<1>2. Rest /\ prog' = prog /\ ip[j] \in DOMAIN prog[j].calls
  BY RestEffect DEF PutRow, AtCall, InCall
<1>3. JobTypes'
  BY <1>1, NextCallEffect DEF Typed, JobTypes
<1>4. AtCall(j)'
  BY <1>1, <1>2, NextCallPhase DEF AtCall
<1>. QED BY <1>1, <1>2, <1>3, <1>4, RestKept

LEMMA DonePhase ==
    ASSUME Typed, NEW j \in Jobs, AtCall(j), AddDone(j) PROVE Typed' /\ AtCall(j)'
<1>1. /\ tx' \in [Jobs -> Writes] /\ NextCall(j) /\ adding' = adding
      /\ tx'[j].owner = tx[j].owner /\ seen' = seen
  BY DoneEffect DEF WritesCreates
<1>2. Rest /\ prog' = prog /\ ip[j] \in DOMAIN prog[j].calls
  BY RestEffect DEF AddDone, AtCall, InCall
<1>3. to' \in [Jobs -> Jobs \cup {NoEntity}]
  BY DEF AddDone, Typed, JobTypes
<1>4. JobTypes'
  BY <1>1, <1>3, NextCallEffect DEF Typed, JobTypes
<1>5. AtCall(j)'
  BY <1>1, <1>2, NextCallPhase DEF AtCall
<1>. QED BY <1>1, <1>2, <1>4, <1>5, RestKept

LEMMA IdentPhase ==
    ASSUME Typed, NEW j \in Jobs, AtCall(j), InsertIdentifier(j) PROVE Typed' /\ AtCall(j)'
<1>. PICK i : i = Head(adding[j])
  OBVIOUS
<1>1. CASE owner[i] # NoOwner
  BY <1>1, RaisePhase DEF InsertIdentifier
<1>2. CASE owner[i] = NoOwner
  <2>1. /\ at[j] = "addrow" /\ Rest /\ prog' = prog /\ ip[j] \in DOMAIN prog[j].calls
        /\ adding[j] # <<>> /\ to[j] \in Jobs /\ adding[j] \in Seq(Idents) /\ ip' = ip /\ to' = to
        /\ Call(j).op \in {"create", "add"}
    BY <1>2, RestEffect DEF InsertIdentifier, AtCall, InCall, Typed, JobTypes
  <2>2. i \in Idents /\ Tail(adding[j]) \in Seq(Idents)
    BY <2>1
  <2>3. JobTypes' /\ at'[j] = "add"
    BY <1>2, <2>1, <2>2 DEF InsertIdentifier, Goto, Typed, JobTypes, Labels
  <2>4. WritesIdent(j, i, NewOwner(j)) /\ tx' \in [Jobs -> Writes]
    <3>1. ~RollsBack(j)
      BY <2>3 DEF RollsBack, Ended
    <3>. QED BY <3>1, IdentEffect
  <2>5. Typed'
    BY <2>1, <2>3, <2>4, RestKept
  <2>6. /\ tx[j].owner \in [Idents -> OwnerRow]
        /\ tx'[j].owner = [tx[j].owner EXCEPT ![i] = NewOwner(j)]
    BY <2>4 DEF WritesIdent, Typed, Writes
  <2>7. \A x \in Idents : tx'[j].owner[x] # NoOwner => tx'[j].owner[x].of \in Jobs
    BY <2>1, <2>2, <2>6 DEF NewOwner, AtCall
  <2>. QED BY <2>1, <2>3, <2>5, <2>7 DEF AtCall, InCall, Call
<1>. QED BY <1>1, <1>2

LEMMA RegistryPhasesNext == RegistryPhases /\ [RegistryNext]_registryVars => RegistryPhases'
<1>. SUFFICES ASSUME RegistryPhases, [RegistryNext]_registryVars PROVE RegistryPhases'
  OBVIOUS
<1>1. CASE UNCHANGED registryVars
  BY <1>1 DEF RegistryPhases, Typed, StoreTypes, JobTypes, AtCall, Call, registryVars, dbVars,
              jobVars
<1>2. ASSUME NEW j \in Jobs, JobStep(j) \/ Fails(j) PROVE RegistryPhases'
  <2>. Typed /\ AtCall(j)
    BY DEF RegistryPhases
  <2>1. Typed' /\ AtCall(j)' /\ Others(j)
    <3>1. CASE Begin(j)
      BY <3>1, BeginPhase, StartEffect DEF Starts
    <3>2. CASE CreateLookUp(j)
      BY <3>2, LookUpPhase, LookUpEffect DEF Reads, Alone
    <3>3. CASE CreateMergeRequired(j)
      BY <3>3, RaisePhase, MergeEffect DEF CreateMergeRequired, RollsBack, Alone
    <3>4. CASE InsertEntity(j)
      BY <3>4, InsertPhase, InsertEffect DEF WritesEntity, Going, Alone
    <3>5. CASE AddCall(j)
      BY <3>5, AddCallPhase, AddCallEffect DEF Reads, RollsBack, Alone
    <3>6. CASE AddIdentifier(j)
      BY <3>6, AddIdentifierPhase, AddIdentifierEffect DEF Reads, RollsBack, Alone
    <3>7. CASE InsertIdentifier(j)
      BY <3>7, IdentPhase, IdentEffect DEF WritesIdent, Going, RollsBack, Alone
    <3>8. CASE AddDone(j)
      BY <3>8, DonePhase, DoneEffect DEF WritesCreates, Going, Alone
    <3>9. CASE DeadlockEnds(j)
      BY <3>9, RaisePhase, DeadlockEffect DEF DeadlockEnds, RollsBack, Alone
    <3>10. CASE UpdateReads(j)
      BY <3>10, UpdateReadsPhase, UpdateReadsEffect DEF Reads, RollsBack, Alone
    <3>11. CASE UpdateEntity(j)
      BY <3>11, UpdatePhase, UpdateEffect DEF WritesEntity, Going, Alone
    <3>12. CASE ExpireIdentifier(j)
      BY <3>12, RaisePhase, ExpireEffect DEF ExpireIdentifier, RollsBack, Alone
    <3>13. CASE PutReads(j)
      BY <3>13, PutReadsPhase, PutReadsEffect DEF Reads, Alone
    <3>14. CASE PutRow(j)
      BY <3>14, PutPhase, PutEffect DEF WritesTable, Going, Alone
    <3>15. CASE CommitJob(j)
      BY <3>15, CommitPhase, CommitEffect DEF Commits, Alone
    <3>16. CASE Fails(j)
      BY <3>16, FailsPhase, FailsEffect DEF RollsBack, Alone
    <3>. QED BY <1>2, <3>1, <3>2, <3>3, <3>4, <3>5, <3>6, <3>7, <3>8, <3>9, <3>10, <3>11, <3>12,
                <3>13, <3>14, <3>15, <3>16 DEF JobStep
  <2>2. \A k \in Jobs \ {j} : AtCall(k)'
    BY <2>1, OthersAt DEF RegistryPhases
  <2>. QED BY <2>1, <2>2 DEF RegistryPhases
<1>. QED BY <1>1, <1>2 DEF RegistryNext

LEMMA RegistryPhasesInit == RegistryInit => RegistryPhases
<1>. SUFFICES ASSUME RegistryInit PROVE RegistryPhases
  OBVIOUS
<1>1. Typed
  BY RegistryTypeInit
<1>2. ASSUME NEW j \in Jobs PROVE AtCall(j)
  <2>1. prog[j].calls \in Seq(CallRecords) /\ prog[j].calls # <<>>
    BY ProgramFacts DEF RegistryInit
  <2>2. 1 \in DOMAIN prog[j].calls
    BY <2>1
  <2>3. \A i \in Idents : Nothing.owner[i] = NoOwner
    BY DEF Nothing
  <2>. QED BY <2>2, <2>3 DEF RegistryInit, AtCall, InCall
<1>. QED BY <1>1, <1>2 DEF RegistryPhases

(* The registry's variables keep their types, whatever the jobs do.        *)
THEOREM RegistryTypeCorrect == RegistrySpec => []RegistryTypes
<1>1. RegistryPhases => RegistryTypes
  BY TypedGives DEF RegistryPhases
<1>. QED BY <1>1, RegistryPhasesInit, RegistryPhasesNext, PTL DEF RegistrySpec

-----------------------------------------------------------------------------
(* Locks: what one transaction has written no other one has, and what it   *)
(* has inserted is not there yet.                                          *)
NoneOfBoth(v, w) ==
    /\ \A e \in Jobs : v.entity[e] = NoRow \/ w.entity[e] = NoRow
    /\ \A i \in Idents : v.owner[i] = NoOwner \/ w.owner[i] = NoOwner
    /\ \A t \in Tables : v.table[t] = "" \/ w.table[t] = ""

Apart == \A j, k \in Jobs : j # k => NoneOfBoth(tx[j], tx[k])

(* An entity keeps the source of the job that made it.                     *)
Sourced ==
    \A e \in Jobs :
        /\ entity[e] # NoRow => at[e] = "done" /\ entity[e].source = prog[e].source
        /\ \A j \in Jobs : tx[j].entity[e] # NoRow =>
              /\ tx[j].entity[e].source = prog[e].source
              /\ e = j \/ entity[e] # NoRow

(* An identifier names an entity that is there, and no transaction holds   *)
(* one that is taken.                                                      *)
Owned ==
    \A i \in Idents :
        /\ owner[i] # NoOwner => owner[i].of \in Jobs /\ entity[owner[i].of] # NoRow
        /\ \A j \in Jobs : tx[j].owner[i] # NoOwner =>
              owner[i] = NoOwner /\ Entity(j, tx[j].owner[i].of) # NoRow

(* What a call adds to or updates is there.                                *)
Sees(j) ==
    /\ at[j] \in {"add", "addrow"} => Entity(j, to[j]) # NoRow
    /\ at[j] = "update" => Entity(j, Call(j).target) # NoRow

LocksHold == RegistryPhases /\ Apart /\ Sourced /\ Owned /\ \A j \in Jobs : Sees(j)

(* The writes, with what the statements have made sure of.                 *)
EntityStep(j, e, set, row) ==
    /\ WritesEntity(j, e, set, row) /\ e \in Jobs /\ row \in Row /\ row # NoRow
    /\ row.source = prog[e].source
    /\ e = j \/ Entity(j, e) # NoRow
    /\ Event(j, e, set, row) \in Change /\ \A k \in Jobs \ {j} : tx[k].entity[e] = NoRow
    /\ DOMAIN set \subseteq DOMAIN row /\ \A f \in DOMAIN set : row[f] = set[f]
    /\ \A f \in DOMAIN row : f \notin DOMAIN set => row[f] = Entity(j, e)[f]

IdentStep(j, i) ==
    /\ WritesIdent(j, i, NewOwner(j)) /\ i \in Idents
    /\ tx[j].owner[i] = NoOwner /\ owner[i] = NoOwner
    /\ to[j] \in Jobs /\ Entity(j, to[j]) # NoRow
    /\ \A k \in Jobs \ {j} : tx[k].owner[i] = NoOwner

TableStep(j, t, val) ==
    /\ WritesTable(j, t, val) /\ t \in Tables /\ val \in Text /\ val # ""
    /\ \A k \in Jobs \ {j} : tx[k].table[t] = ""

RegistryEffect(j) ==
    \/ Starts(j) \/ Reads(j) \/ RollsBack(j) \/ Commits(j)
    \/ \E e, set, row : EntityStep(j, e, set, row)
    \/ \E i : IdentStep(j, i)
    \/ \E t, val : TableStep(j, t, val)
    \/ \E C : WritesCreates(j, C)

LEMMA NothingFacts ==
    /\ \A e \in Jobs : Nothing.entity[e] = NoRow
    /\ \A i \in Idents : Nothing.owner[i] = NoOwner
    /\ \A t \in Tables : Nothing.table[t] = ""
    /\ Nothing.versions = {} /\ Nothing.trail = <<>> /\ Nothing.creates = {}
BY DEF Nothing

LEMMA SourceNamed ==
    ASSUME LocksHold, NEW j \in Jobs, NEW e \in Jobs, Entity(j, e) # NoRow
    PROVE  /\ Entity(j, e).source = prog[e].source /\ prog[e].source # ""
           /\ Entity(j, e) \in Row
<1>1. prog[e].source # ""
  BY ProgramFacts DEF LocksHold, RegistryPhases, Typed
<1>2. Entity(j, e) \in Row
  BY ViewTypes DEF LocksHold, RegistryPhases
<1>. QED BY <1>1, <1>2 DEF LocksHold, Sourced, Entity

LEMMA InsertStep ==
    ASSUME LocksHold, NEW j \in Jobs, InsertEntity(j)
    PROVE  EntityStep(j, j, NewRow(j), NewRow(j))
<1>1. Typed /\ AtCall(j)
  BY DEF LocksHold, RegistryPhases
<1>2. at[j] = "insert" /\ ip[j] \in DOMAIN prog[j].calls /\ Call(j).op = "create"
  BY <1>1 DEF InsertEntity, AtCall, InCall
<1>3. WritesEntity(j, j, NewRow(j), NewRow(j))
  BY <1>1, InsertEffect
<1>4. NewRow(j) \in Row /\ NewRow(j) # NoRow /\ NewRow(j).source = prog[j].source
  BY <1>1, <1>2, InsertedRow
<1>5. \A k \in Jobs \ {j} : tx[k].entity[j] = NoRow
  BY <1>2 DEF LocksHold, Sourced
<1>6. Event(j, j, NewRow(j), NewRow(j)) \in Change
  BY <1>4 DEF Event, Change
<1>. QED BY <1>3, <1>4, <1>5, <1>6 DEF EntityStep

LEMMA UpdateStep ==
    ASSUME LocksHold, NEW j \in Jobs, UpdateEntity(j)
    PROVE  EntityStep(j, Call(j).target, Call(j).set, NewValues(j))
<1>. PICK e, set, row : e = Call(j).target /\ set = Call(j).set /\ row = NewValues(j)
  OBVIOUS
<1>1. Typed /\ AtCall(j) /\ Sees(j)
  BY DEF LocksHold, RegistryPhases
<1>2. /\ at[j] = "update" /\ ip[j] \in DOMAIN prog[j].calls /\ Call(j).op = "update"
      /\ Entity(j, e) # NoRow /\ \A k \in Jobs \ {j} : tx[k].entity[e] = NoRow
  BY <1>1 DEF UpdateEntity, AtCall, InCall, Sees
<1>3. WritesEntity(j, e, set, row)
  BY <1>1, UpdateEffect
<1>4. /\ e \in Jobs /\ row \in Row /\ set \in Arguments
      /\ DOMAIN set \subseteq DOMAIN row /\ \A f \in DOMAIN set : row[f] = set[f]
      /\ \A f \in DOMAIN row : f \notin DOMAIN set => row[f] = Entity(j, e)[f]
      /\ row.source = Entity(j, e).source
  BY <1>1, <1>2, UpdatedRow
<1>5. row.source = prog[e].source /\ prog[e].source # ""
  BY <1>2, <1>4, SourceNamed
<1>6. row # NoRow
  BY <1>4, <1>5, RowFacts
<1>7. Event(j, e, set, row) \in Change
  BY <1>4 DEF Event, Change
<1>. QED BY <1>2, <1>3, <1>4, <1>5, <1>6, <1>7 DEF EntityStep

LEMMA IdentifierStep ==
    ASSUME LocksHold, NEW j \in Jobs, InsertIdentifier(j)
    PROVE  RollsBack(j) \/ (IdentStep(j, Head(adding[j])) /\ to' = to /\ ip' = ip /\ at'[j] = "add"
                            /\ adding'[j] = Tail(adding[j]))
<1>. PICK i : i = Head(adding[j])
  OBVIOUS
<1>1. Typed /\ AtCall(j) /\ Sees(j)
  BY DEF LocksHold, RegistryPhases
<1>2. at[j] = "addrow" /\ adding[j] # <<>> /\ adding[j] \in Seq(Idents)
  BY <1>1 DEF InsertIdentifier, AtCall, Typed, JobTypes
<1>3. /\ i \in Idents /\ tx[j].owner[i] = NoOwner /\ to[j] \in Jobs /\ Entity(j, to[j]) # NoRow
      /\ \A k \in Jobs \ {j} : tx[k].owner[i] = NoOwner
  BY <1>1, <1>2 DEF InsertIdentifier, AtCall, Sees
<1>4. CASE RollsBack(j)
  BY <1>4
<1>5. CASE ~RollsBack(j)
  <2>1. /\ WritesIdent(j, i, NewOwner(j)) /\ owner[i] = NoOwner /\ to' = to /\ ip' = ip
        /\ at'[j] = "add" /\ adding'[j] = Tail(adding[j])
    BY <1>1, <1>5, IdentEffect
  <2>. QED BY <1>3, <2>1 DEF IdentStep
<1>. QED BY <1>4, <1>5

LEMMA PutStep ==
    ASSUME LocksHold, NEW j \in Jobs, PutRow(j)
    PROVE  TableStep(j, Call(j).table, Call(j).value)
<1>1. Typed /\ AtCall(j)
  BY DEF LocksHold, RegistryPhases
<1>2. /\ WritesTable(j, Call(j).table, Call(j).value)
      /\ Call(j).table \in Tables /\ Call(j).value \in Text /\ Call(j).value # ""
  BY <1>1, PutEffect
<1>3. \A k \in Jobs \ {j} : tx[k].table[Call(j).table] = ""
  BY DEF PutRow
<1>. QED BY <1>2, <1>3 DEF TableStep

LEMMA RegistryStep ==
    ASSUME LocksHold, NEW j \in Jobs, JobStep(j) \/ Fails(j)
    PROVE  RegistryEffect(j) /\ Others(j)
<1>. Typed /\ AtCall(j)
  BY DEF LocksHold, RegistryPhases
<1>1. RegistryEffect(j)
  <2>1. CASE Begin(j)
    BY <2>1, StartEffect DEF RegistryEffect
  <2>2. CASE CreateLookUp(j) \/ PutReads(j)
    BY <2>2, LookUpEffect, PutReadsEffect DEF RegistryEffect
  <2>3. CASE CreateMergeRequired(j) \/ DeadlockEnds(j) \/ ExpireIdentifier(j) \/ Fails(j)
    BY <2>3, MergeEffect, DeadlockEffect, ExpireEffect, FailsEffect DEF RegistryEffect
  <2>4. CASE InsertEntity(j) \/ UpdateEntity(j)
    <3>1. \E e, set, row : EntityStep(j, e, set, row)
      BY <2>4, InsertStep, UpdateStep
    <3>. QED BY <3>1 DEF RegistryEffect
  <2>5. CASE AddCall(j) \/ AddIdentifier(j) \/ UpdateReads(j)
    BY <2>5, AddCallEffect, AddIdentifierEffect, UpdateReadsEffect DEF RegistryEffect
  <2>6. CASE InsertIdentifier(j)
    BY <2>6, IdentifierStep DEF RegistryEffect
  <2>7. CASE AddDone(j)
    BY <2>7, DoneEffect DEF RegistryEffect
  <2>8. CASE PutRow(j)
    BY <2>8, PutStep DEF RegistryEffect
  <2>9. CASE CommitJob(j)
    BY <2>9, CommitEffect DEF RegistryEffect
  <2>. QED BY <2>1, <2>2, <2>3, <2>4, <2>5, <2>6, <2>7, <2>8, <2>9 DEF JobStep
<1>2. Others(j)
  BY <1>1 DEF RegistryEffect, Starts, Reads, RollsBack, Commits, EntityStep, IdentStep, TableStep,
              WritesEntity, WritesIdent, WritesTable, WritesCreates, Going, Alone
<1>. QED BY <1>1, <1>2

(* What a job sees only grows, until its transaction ends.                 *)
Grows(k) ==
    /\ \A e \in Jobs : Entity(k, e) # NoRow => Entity(k, e)' # NoRow
    /\ \A i \in Idents : Owner(k, i).of \in Jobs => Owner(k, i)' = Owner(k, i)

LEMMA NoOwnerFacts == NoOwner.of \notin Jobs /\ NoOwner.of = NoEntity
BY RegistryPlain DEF NoOwner

LEMMA GrowsOthers ==
    ASSUME LocksHold, NEW j \in Jobs, RegistryEffect(j), Others(j), NEW k \in Jobs \ {j}
    PROVE  Grows(k)
<1>1. tx'[k] = tx[k]
  BY DEF Others
<1>2. CASE SameStore
  BY <1>1, <1>2 DEF SameStore, Grows, Entity, Owner
<1>3. CASE ~SameStore
  <2>1. Commits(j)
    BY <1>3 DEF RegistryEffect, Starts, Reads, RollsBack, EntityStep, IdentStep, TableStep,
                WritesEntity, WritesIdent, WritesTable, WritesCreates, Going
  <2>2. entity' = [e \in Jobs |-> Entity(j, e)] /\ owner' = [i \in Idents |-> Owner(j, i)]
    BY <2>1 DEF Commits
  <2>3. \A e \in Jobs : Entity(k, e) # NoRow => Entity(k, e)' # NoRow
    BY <1>1, <2>2 DEF Entity
  <2>4. ASSUME NEW i \in Idents, Owner(k, i).of \in Jobs PROVE Owner(k, i)' = Owner(k, i)
    <3>1. CASE tx[k].owner[i] # NoOwner
      BY <1>1, <3>1 DEF Owner
    <3>2. CASE tx[k].owner[i] = NoOwner
      <4>1. owner[i] # NoOwner
        BY <2>4, <3>2, NoOwnerFacts DEF Owner
      <4>2. tx[j].owner[i] = NoOwner
        BY <4>1 DEF LocksHold, Owned
      <4>. QED BY <1>1, <2>2, <3>2, <4>2 DEF Owner
    <3>. QED BY <3>1, <3>2
  <2>. QED BY <2>3, <2>4 DEF Grows
<1>. QED BY <1>2, <1>3

LEMMA GrowsOwn ==
    ASSUME LocksHold, NEW j \in Jobs, RegistryEffect(j), at'[j] # "done"
    PROVE  Grows(j) /\ SameStore
<1>. tx[j] \in Writes
  BY DEF LocksHold, RegistryPhases, Typed
<1>1. CASE Starts(j) \/ Reads(j)
  BY <1>1 DEF Starts, Reads, SameStore, Grows, Entity, Owner
<1>2. CASE RollsBack(j) \/ Commits(j)
  BY <1>2 DEF RollsBack, Commits, Ended
<1>3. ASSUME NEW e, NEW set, NEW row, EntityStep(j, e, set, row) PROVE Grows(j) /\ SameStore
  <2>1. /\ SameStore /\ tx'[j].owner = tx[j].owner /\ row # NoRow
        /\ \A x \in Jobs : tx'[j].entity[x] = IF x = e THEN row ELSE tx[j].entity[x]
    BY <1>3 DEF EntityStep, WritesEntity, Going, Writes
  <2>. QED BY <2>1 DEF SameStore, Grows, Entity, Owner
<1>4. ASSUME NEW i, IdentStep(j, i) PROVE Grows(j) /\ SameStore
  <2>1. /\ SameStore /\ tx'[j].entity = tx[j].entity /\ tx[j].owner[i] = NoOwner
        /\ owner[i] = NoOwner
        /\ \A x \in Idents : x # i => tx'[j].owner[x] = tx[j].owner[x]
    BY <1>4 DEF IdentStep, WritesIdent, Going, Writes
  <2>. QED BY <2>1, NoOwnerFacts DEF SameStore, Grows, Entity, Owner
<1>5. ASSUME NEW t, NEW val, TableStep(j, t, val) PROVE Grows(j) /\ SameStore
  BY <1>5 DEF TableStep, WritesTable, Going, SameStore, Grows, Entity, Owner
<1>6. ASSUME NEW C, WritesCreates(j, C) PROVE Grows(j) /\ SameStore
  BY <1>6 DEF WritesCreates, Going, SameStore, Grows, Entity, Owner
<1>. QED BY <1>1, <1>2, <1>3, <1>4, <1>5, <1>6 DEF RegistryEffect

LEMMA ApartKept ==
    ASSUME LocksHold, NEW j \in Jobs, RegistryEffect(j), Others(j) PROVE Apart'
<1>. tx[j] \in Writes
  BY DEF LocksHold, RegistryPhases, Typed
<1>0. \A k, l \in Jobs : k # l => NoneOfBoth(tx[k], tx[l])
  BY DEF LocksHold, Apart
<1>1. ASSUME NEW k \in Jobs \ {j} PROVE NoneOfBoth(tx'[j], tx'[k])
  <2>0. tx'[k] = tx[k] /\ NoneOfBoth(tx[j], tx[k])
    BY <1>0 DEF Others
  <2>1. CASE Starts(j) \/ Reads(j)
    BY <2>0, <2>1 DEF Starts, Reads
  <2>2. CASE RollsBack(j) \/ Commits(j)
    <3>1. tx'[j] = Nothing
      BY <2>2 DEF RollsBack, Commits, Ended
    <3>. QED BY <3>1, NothingFacts DEF NoneOfBoth
  <2>3. ASSUME NEW e, NEW set, NEW row, EntityStep(j, e, set, row) PROVE NoneOfBoth(tx'[j], tx'[k])
    <3>1. /\ tx'[j].owner = tx[j].owner /\ tx'[j].table = tx[j].table /\ tx[k].entity[e] = NoRow
          /\ \A x \in Jobs : x # e => tx'[j].entity[x] = tx[j].entity[x]
      BY <2>3 DEF EntityStep, WritesEntity, Writes
    <3>. QED BY <2>0, <3>1 DEF NoneOfBoth
  <2>4. ASSUME NEW i, IdentStep(j, i) PROVE NoneOfBoth(tx'[j], tx'[k])
    <3>1. /\ tx'[j].entity = tx[j].entity /\ tx'[j].table = tx[j].table /\ tx[k].owner[i] = NoOwner
          /\ \A x \in Idents : x # i => tx'[j].owner[x] = tx[j].owner[x]
      BY <2>4 DEF IdentStep, WritesIdent, Writes
    <3>. QED BY <2>0, <3>1 DEF NoneOfBoth
  <2>5. ASSUME NEW t, NEW val, TableStep(j, t, val) PROVE NoneOfBoth(tx'[j], tx'[k])
    <3>1. /\ tx'[j].entity = tx[j].entity /\ tx'[j].owner = tx[j].owner /\ tx[k].table[t] = ""
          /\ \A x \in Tables : x # t => tx'[j].table[x] = tx[j].table[x]
      BY <2>5 DEF TableStep, WritesTable, Writes
    <3>. QED BY <2>0, <3>1 DEF NoneOfBoth
  <2>6. ASSUME NEW C, WritesCreates(j, C) PROVE NoneOfBoth(tx'[j], tx'[k])
    BY <2>0, <2>6 DEF WritesCreates, NoneOfBoth
  <2>. QED BY <2>1, <2>2, <2>3, <2>4, <2>5, <2>6 DEF RegistryEffect
<1>2. ASSUME NEW k \in Jobs \ {j}, NEW l \in Jobs \ {j}, k # l PROVE NoneOfBoth(tx'[k], tx'[l])
  BY <1>0, <1>2 DEF Others
<1>3. ASSUME NEW k \in Jobs, NEW l \in Jobs, k # l PROVE NoneOfBoth(tx'[k], tx'[l])
  <2>1. ASSUME NEW v, NEW w, NoneOfBoth(v, w) PROVE NoneOfBoth(w, v)
    BY <2>1 DEF NoneOfBoth
  <2>2. CASE k = j
    BY <1>1, <1>3, <2>2
  <2>3. CASE l = j
    BY <1>1, <1>3, <2>1, <2>3
  <2>. QED BY <1>2, <1>3, <2>2, <2>3
<1>. QED BY <1>3 DEF Apart

LEMMA SourcedKept ==
    ASSUME LocksHold, NEW j \in Jobs, RegistryEffect(j), Others(j) PROVE Sourced'
<1>. tx[j] \in Writes
  BY DEF LocksHold, RegistryPhases, Typed
<1>0. at[j] # "done" /\ prog' = prog
  BY DEF RegistryEffect, Starts, Reads, RollsBack, Commits, EntityStep, IdentStep, TableStep,
         WritesEntity, WritesIdent, WritesTable, WritesCreates, Going, Alone, Others
<1>1. ASSUME NEW e \in Jobs, entity'[e] # NoRow
      PROVE  at'[e] = "done" /\ entity'[e].source = prog[e].source
  <2>1. CASE SameStore
    <3>1. at[e] = "done" /\ entity[e].source = prog[e].source /\ entity'[e] = entity[e]
      BY <1>1, <2>1 DEF LocksHold, Sourced, SameStore
    <3>. QED BY <1>0, <3>1 DEF Others
  <2>2. CASE ~SameStore
    <3>1. Commits(j)
      BY <2>2 DEF RegistryEffect, Starts, Reads, RollsBack, EntityStep, IdentStep, TableStep,
                  WritesEntity, WritesIdent, WritesTable, WritesCreates, Going
    <3>2. entity'[e] = Entity(j, e) /\ at'[j] = "done"
      BY <3>1 DEF Commits, Ended
    <3>3. entity'[e].source = prog[e].source
      BY <1>1, <3>2, SourceNamed
    <3>4. e = j \/ entity[e] # NoRow
      BY <1>1, <3>2 DEF LocksHold, Sourced, Entity
    <3>5. e # j => at[e] = "done" /\ at'[e] = at[e]
      BY <3>4 DEF LocksHold, Sourced, Others
    <3>. QED BY <3>2, <3>3, <3>5
  <2>. QED BY <2>1, <2>2
<1>2. \A e \in Jobs : entity[e] # NoRow => entity'[e] # NoRow
  <2>1. CASE SameStore
    BY <2>1 DEF SameStore
  <2>2. CASE ~SameStore
    <3>1. Commits(j)
      BY <2>2 DEF RegistryEffect, Starts, Reads, RollsBack, EntityStep, IdentStep, TableStep,
                  WritesEntity, WritesIdent, WritesTable, WritesCreates, Going
    <3>. QED BY <3>1 DEF Commits, Entity
  <2>. QED BY <2>1, <2>2
<1>3. ASSUME NEW e \in Jobs, NEW k \in Jobs \ {j}, tx'[k].entity[e] # NoRow
      PROVE  tx'[k].entity[e].source = prog[e].source /\ (e = k \/ entity'[e] # NoRow)
  <2>1. tx'[k] = tx[k]
    BY DEF Others
  <2>2. tx[k].entity[e].source = prog[e].source /\ (e = k \/ entity[e] # NoRow)
    BY <1>3, <2>1 DEF LocksHold, Sourced
  <2>. QED BY <1>2, <2>1, <2>2
<1>4. ASSUME NEW x \in Jobs, tx'[j].entity[x] # NoRow
      PROVE  tx'[j].entity[x].source = prog[x].source /\ (x = j \/ entity'[x] # NoRow)
  <2>1. CASE tx'[j].entity[x] = tx[j].entity[x]
    <3>1. tx[j].entity[x].source = prog[x].source /\ (x = j \/ entity[x] # NoRow)
      BY <1>4, <2>1 DEF LocksHold, Sourced
    <3>. QED BY <1>2, <2>1, <3>1
  <2>2. CASE tx'[j].entity[x] # tx[j].entity[x]
    <3>1. CASE RollsBack(j) \/ Commits(j)
      <4>1. tx'[j] = Nothing
        BY <3>1 DEF RollsBack, Commits, Ended
      <4>. QED BY <1>4, <4>1, NothingFacts
    <3>2. CASE \E e, set, row : EntityStep(j, e, set, row)
      <4>1. PICK e, set, row : EntityStep(j, e, set, row)
        BY <3>2
      <4>2. x = e /\ tx'[j].entity[x] = row
        BY <2>2, <4>1 DEF EntityStep, WritesEntity, Writes
      <4>3. row.source = prog[x].source /\ (x = j \/ Entity(j, x) # NoRow)
        BY <4>1, <4>2 DEF EntityStep
      <4>4. x = j \/ entity[x] # NoRow
        BY <4>3 DEF LocksHold, Sourced, Entity
      <4>. QED BY <1>2, <4>2, <4>3, <4>4
    <3>. QED BY <2>2, <3>1, <3>2 DEF RegistryEffect, Starts, Reads, IdentStep, TableStep,
                WritesIdent, WritesTable, WritesCreates
  <2>. QED BY <2>1, <2>2
<1>5. ASSUME NEW e \in Jobs, NEW k \in Jobs, tx'[k].entity[e] # NoRow
      PROVE  tx'[k].entity[e].source = prog[e].source /\ (e = k \/ entity'[e] # NoRow)
  BY <1>3, <1>4, <1>5
<1>. QED BY <1>0, <1>1, <1>5 DEF Sourced

LEMMA OwnedKept ==
    ASSUME LocksHold, NEW j \in Jobs, RegistryEffect(j), Others(j) PROVE Owned'
<1>. tx[j] \in Writes /\ \A k \in Jobs : AtCall(k)
  BY DEF LocksHold, RegistryPhases, Typed
<1>1. \A e \in Jobs : entity[e] # NoRow => entity'[e] # NoRow
  BY DEF RegistryEffect, Starts, Reads, RollsBack, EntityStep, IdentStep, TableStep,
         WritesEntity, WritesIdent, WritesTable, WritesCreates, Going, SameStore, Commits, Entity
<1>2. ASSUME NEW i \in Idents, owner'[i] # NoOwner
      PROVE  owner'[i].of \in Jobs /\ entity'[owner'[i].of] # NoRow
  <2>1. CASE owner'[i] = owner[i]
    BY <1>1, <1>2, <2>1 DEF LocksHold, Owned
  <2>2. CASE owner'[i] # owner[i]
    <3>1. Commits(j)
      BY <2>2 DEF RegistryEffect, Starts, Reads, RollsBack, EntityStep, IdentStep, TableStep,
                  WritesEntity, WritesIdent, WritesTable, WritesCreates, Going, SameStore
    <3>2. tx[j].owner[i] # NoOwner /\ owner'[i] = tx[j].owner[i]
      BY <2>2, <3>1 DEF Commits, Owner
    <3>3. tx[j].owner[i].of \in Jobs /\ Entity(j, tx[j].owner[i].of) # NoRow
      BY <3>2 DEF AtCall, LocksHold, Owned
    <3>. QED BY <3>1, <3>2, <3>3 DEF Commits
  <2>. QED BY <2>1, <2>2
<1>3. ASSUME NEW i \in Idents, NEW k \in Jobs \ {j}, tx'[k].owner[i] # NoOwner
      PROVE  owner'[i] = NoOwner /\ Entity(k, tx[k].owner[i].of)' # NoRow
  <2>1. tx'[k] = tx[k]
    BY DEF Others
  <2>2. owner[i] = NoOwner /\ Entity(k, tx[k].owner[i].of) # NoRow /\ tx[k].owner[i].of \in Jobs
    BY <1>3, <2>1 DEF LocksHold, Owned, AtCall
  <2>3. tx[j].owner[i] = NoOwner
    <3>1. NoneOfBoth(tx[j], tx[k])
      BY DEF LocksHold, Apart
    <3>. QED BY <1>3, <2>1, <3>1 DEF NoneOfBoth
  <2>4. owner'[i] = NoOwner
    BY <2>2, <2>3 DEF RegistryEffect, Starts, Reads, RollsBack, EntityStep, IdentStep, TableStep,
         WritesEntity, WritesIdent, WritesTable, WritesCreates, Going, SameStore, Commits, Owner
  <2>5. Grows(k)
    BY GrowsOthers
  <2>6. \A e \in Jobs : Entity(k, e) # NoRow => Entity(k, e)' # NoRow
    BY <2>5 DEF Grows
  <2>7. PICK x \in Jobs : x = tx[k].owner[i].of
    BY <2>2
  <2>8. Entity(k, x)' # NoRow
    BY <2>2, <2>6, <2>7
  <2>. QED BY <2>1, <2>4, <2>7, <2>8
<1>4. ASSUME NEW x \in Idents, tx'[j].owner[x] # NoOwner
      PROVE  owner'[x] = NoOwner /\ Entity(j, tx[j].owner[x].of)' # NoRow
  <2>1. ~RollsBack(j) /\ ~Commits(j)
    BY <1>4, NothingFacts DEF RollsBack, Commits, Ended
  <2>2. at'[j] # "done"
    BY <2>1 DEF RegistryEffect, Starts, Reads, EntityStep, IdentStep, TableStep,
                WritesEntity, WritesIdent, WritesTable, WritesCreates, Going
  <2>3. Grows(j) /\ SameStore
    BY <2>2, GrowsOwn
  <2>4. CASE tx'[j].owner[x] = tx[j].owner[x]
    <3>1. /\ owner[x] = NoOwner /\ Entity(j, tx[j].owner[x].of) # NoRow
          /\ tx[j].owner[x].of \in Jobs
      BY <1>4, <2>4 DEF LocksHold, Owned, AtCall
    <3>2. PICK e \in Jobs : e = tx[j].owner[x].of
      BY <3>1
    <3>3. Entity(j, e)' # NoRow
      BY <2>3, <3>1, <3>2 DEF Grows
    <3>. QED BY <2>3, <2>4, <3>1, <3>2, <3>3 DEF SameStore
  <2>5. CASE tx'[j].owner[x] # tx[j].owner[x]
    <3>1. PICK i : IdentStep(j, i)
      BY <2>1, <2>5 DEF RegistryEffect, Starts, Reads, EntityStep, TableStep,
                WritesEntity, WritesTable, WritesCreates
    <3>2. /\ x = i /\ tx'[j].owner[x].of = to[j] /\ owner[x] = NoOwner
          /\ to[j] \in Jobs /\ Entity(j, to[j]) # NoRow
      BY <2>5, <3>1 DEF IdentStep, WritesIdent, Writes, NewOwner
    <3>3. PICK e \in Jobs : e = to[j]
      BY <3>2
    <3>4. Entity(j, e)' # NoRow
      BY <2>3, <3>2, <3>3 DEF Grows
    <3>. QED BY <2>3, <3>2, <3>3, <3>4 DEF SameStore
  <2>. QED BY <2>4, <2>5
<1>5. ASSUME NEW i \in Idents, NEW k \in Jobs, tx'[k].owner[i] # NoOwner
      PROVE  owner'[i] = NoOwner /\ Entity(k, tx[k].owner[i].of)' # NoRow
  <2>1. CASE k = j
    BY <1>4, <1>5, <2>1
  <2>2. CASE k # j
    BY <1>3, <1>5, <2>2
  <2>. QED BY <2>1, <2>2
<1>. QED BY <1>2, <1>5 DEF Owned

(* What a call sees stays there while it needs it.                         *)
LEMMA SeesKept ==
    ASSUME LocksHold, NEW j \in Jobs, JobStep(j) \/ Fails(j) PROVE \A k \in Jobs : Sees(k)'
<1>. /\ Typed /\ AtCall(j) /\ RegistryEffect(j) /\ Others(j)
     /\ \A k \in Jobs : Sees(k) /\ AtCall(k)
  BY RegistryStep DEF LocksHold, RegistryPhases
<1>1. ASSUME NEW k \in Jobs \ {j} PROVE Sees(k)'
  <2>1. Grows(k) /\ at'[k] = at[k] /\ to'[k] = to[k] /\ ip'[k] = ip[k] /\ prog' = prog
    BY GrowsOthers DEF Others
  <2>2. at[k] = "update" => Call(k).target \in Jobs
    BY CallAt DEF AtCall, InCall
  <2>3. at[k] \in {"add", "addrow"} => Entity(k, to[k])' # NoRow
    <3>1. SUFFICES ASSUME at[k] \in {"add", "addrow"} PROVE Entity(k, to[k])' # NoRow
      OBVIOUS
    <3>2. to[k] \in Jobs /\ Entity(k, to[k]) # NoRow
      BY <3>1 DEF AtCall, Sees
    <3>3. PICK e \in Jobs : e = to[k]
      BY <3>2
    <3>4. Entity(k, e)' # NoRow
      BY <2>1, <3>2, <3>3 DEF Grows
    <3>. QED BY <2>1, <3>3, <3>4
  <2>4. at[k] = "update" => Entity(k, Call(k).target)' # NoRow
    <3>1. SUFFICES ASSUME at[k] = "update" PROVE Entity(k, Call(k).target)' # NoRow
      OBVIOUS
    <3>2. PICK e \in Jobs : e = Call(k).target
      BY <2>2, <3>1
    <3>3. Entity(k, e)' # NoRow
      BY <2>1, <3>1, <3>2 DEF Grows, Sees
    <3>4. Call(k)' = Call(k)
      BY <2>1 DEF Call
    <3>. QED BY <3>2, <3>3, <3>4
  <2>. QED BY <2>1, <2>3, <2>4 DEF Sees
<1>2. Sees(j)'
  <2>1. CASE at'[j] \notin {"add", "addrow", "update"}
    BY <2>1 DEF Sees
  <2>2. CASE at'[j] \in {"add", "addrow", "update"}
    <3>1. Grows(j) /\ SameStore /\ prog' = prog
      BY <2>2, GrowsOwn DEF Others
    <3>2. CASE CreateLookUp(j)
      <4>1. Reads(j)
        BY <3>2, LookUpEffect
      <4>2. PICK e \in Jobs : Matches(j) = {e} /\ to'[j] = e /\ at'[j] = "add"
        BY <2>2, <3>2 DEF CreateLookUp, Goto, Typed, JobTypes
      <4>3. ip[j] \in DOMAIN prog[j].calls /\ Call(j).op = "create"
        BY <3>2 DEF CreateLookUp, AtCall, InCall
      <4>4. Call(j).idents \subseteq Idents
        BY <4>3, CallAt, CallFacts
      <4>5. PICK i \in Idents : Owner(j, i).of = e
        BY <4>2, <4>4 DEF Matches
      <4>6. Entity(j, e) # NoRow
        BY <4>5, NoOwnerFacts DEF Owner, LocksHold, Owned, Entity
      <4>7. Entity(j, e)' # NoRow
        BY <3>1, <4>6 DEF Grows
      <4>. QED BY <4>2, <4>7 DEF Sees
    <3>3. CASE InsertEntity(j)
      <4>1. at'[j] = "add" /\ to'[j] = j
        BY <3>3, InsertEffect
      <4>2. EntityStep(j, j, NewRow(j), NewRow(j))
        BY <3>3, InsertStep
      <4>3. tx'[j].entity[j] # NoRow
        BY <4>2 DEF EntityStep, WritesEntity, Typed, Writes
      <4>. QED BY <4>1, <4>3 DEF Sees, Entity
    <3>4. CASE AddCall(j)
      <4>1. /\ Entity(j, Call(j).target) # NoRow /\ to'[j] = Call(j).target /\ at'[j] = "add"
        BY <2>2, <3>4 DEF AddCall, Raise, EndTransaction, Goto, Typed, JobTypes
      <4>2. Call(j).target \in Jobs
        BY <3>4, CallAt DEF AddCall, AtCall, InCall
      <4>3. PICK e \in Jobs : e = Call(j).target
        BY <4>2
      <4>4. Entity(j, e)' # NoRow
        BY <3>1, <4>1, <4>3 DEF Grows
      <4>. QED BY <4>1, <4>3, <4>4 DEF Sees
    <3>5. CASE AddIdentifier(j) \/ InsertIdentifier(j)
      <4>1. at[j] \in {"add", "addrow"} /\ to' = to /\ at'[j] \in {"add", "addrow"}
        BY <2>2, <3>5 DEF AddIdentifier, InsertIdentifier, Raise, EndTransaction, Goto, Typed,
                          JobTypes, jobVars
      <4>2. to[j] \in Jobs /\ Entity(j, to[j]) # NoRow
        BY <4>1 DEF AtCall, Sees
      <4>3. PICK e \in Jobs : e = to[j]
        BY <4>2
      <4>4. Entity(j, e)' # NoRow
        BY <3>1, <4>2, <4>3 DEF Grows
      <4>. QED BY <4>1, <4>3, <4>4 DEF Sees
    <3>6. CASE UpdateReads(j)
      <4>1. /\ Entity(j, Call(j).target) # NoRow /\ at'[j] = "update" /\ ip' = ip
        BY <2>2, <3>6 DEF UpdateReads, Raise, EndTransaction, Goto, Typed, JobTypes
      <4>2. Call(j).target \in Jobs
        BY <3>6, CallAt DEF UpdateReads, AtCall, InCall
      <4>3. PICK e \in Jobs : e = Call(j).target
        BY <4>2
      <4>4. Entity(j, e)' # NoRow
        BY <3>1, <4>1, <4>3 DEF Grows
      <4>5. Call(j)' = Call(j)
        BY <3>1, <4>1 DEF Call
      <4>. QED BY <4>1, <4>3, <4>4, <4>5 DEF Sees
    <3>7. CASE AddDone(j) \/ UpdateEntity(j) \/ PutRow(j)
      BY <2>2, <3>7, DoneEffect, UpdateEffect, PutEffect, NextCallEffect
    <3>8. CASE PutReads(j)
      BY <2>2, <3>8, NextCallEffect DEF PutReads, Goto, Typed, JobTypes
    <3>9. CASE Begin(j)
      BY <2>2, <3>9, StartEffect DEF Starts
    <3>10. CASE RollsBack(j) \/ Commits(j)
      BY <2>2, <3>10 DEF RollsBack, Commits, Ended
    <3>11. CASE CreateMergeRequired(j) \/ DeadlockEnds(j) \/ ExpireIdentifier(j) \/ Fails(j)
      BY <3>10, <3>11, MergeEffect, DeadlockEffect, ExpireEffect, FailsEffect
    <3>12. CASE CommitJob(j)
      BY <3>10, <3>12, CommitEffect
    <3>. QED BY <3>2, <3>3, <3>4, <3>5, <3>6, <3>7, <3>8, <3>9, <3>11, <3>12 DEF JobStep
  <2>. QED BY <2>1, <2>2
<1>3. ASSUME NEW k \in Jobs PROVE Sees(k)'
  BY <1>1, <1>2, <1>3
<1>. QED BY <1>3

LEMMA LocksNext == LocksHold /\ [RegistryNext]_registryVars => LocksHold'
<1>. SUFFICES ASSUME LocksHold, [RegistryNext]_registryVars PROVE LocksHold'
  OBVIOUS
<1>0. RegistryPhases'
  BY RegistryPhasesNext DEF LocksHold
<1>1. CASE UNCHANGED registryVars
  <2>1. /\ prog' = prog /\ entity' = entity /\ owner' = owner /\ at' = at /\ to' = to
        /\ ip' = ip /\ tx' = tx
    BY <1>1 DEF registryVars, dbVars, jobVars
  <2>2. Apart' /\ Sourced'
    <3>1. Apart'
      BY <2>1 DEF LocksHold, Apart
    <3>2. Sourced'
      BY <2>1 DEF LocksHold, Sourced
    <3>. QED BY <3>1, <3>2
  <2>3. Owned'
    BY <2>1 DEF LocksHold, Owned, Entity
  <2>4. ASSUME NEW j \in Jobs PROVE Sees(j)'
    <3>1. Sees(j) /\ Call(j)' = Call(j)
      BY <2>1 DEF LocksHold, Call
    <3>. QED BY <2>1, <3>1 DEF Sees, Entity
  <2>. QED BY <1>0, <2>2, <2>3, <2>4 DEF LocksHold
<1>2. ASSUME NEW j \in Jobs, JobStep(j) \/ Fails(j) PROVE LocksHold'
  <2>1. RegistryEffect(j) /\ Others(j)
    BY <1>2, RegistryStep
  <2>2. Apart' /\ Sourced' /\ Owned'
    BY <2>1, ApartKept, SourcedKept, OwnedKept
  <2>3. \A k \in Jobs : Sees(k)'
    BY <1>2, SeesKept
  <2>. QED BY <1>0, <2>2, <2>3 DEF LocksHold
<1>. QED BY <1>1, <1>2 DEF RegistryNext

LEMMA LocksInit == RegistryInit => LocksHold
<1>. SUFFICES ASSUME RegistryInit PROVE LocksHold
  OBVIOUS
<1>1. RegistryPhases
  BY RegistryPhasesInit
<1>2. /\ \A j \in Jobs : tx[j] = Nothing /\ at[j] = "new"
      /\ \A e \in Jobs : entity[e] = NoRow
      /\ \A i \in Idents : owner[i] = NoOwner
  BY DEF RegistryInit
<1>3. Apart
  BY <1>2, NothingFacts DEF Apart, NoneOfBoth
<1>4. Sourced /\ Owned
  BY <1>2, NothingFacts DEF Sourced, Owned
<1>5. \A j \in Jobs : Sees(j)
  BY <1>2 DEF Sees
<1>. QED BY <1>1, <1>3, <1>4, <1>5 DEF LocksHold

(* A committed identifier stays with its entity and source: nothing in the *)
(* client takes it over, whichever jobs race for it.                       *)
THEOREM IdentifierStays ==
    RegistrySpec => [][\A i \in Idents : owner[i] # NoOwner => owner'[i] = owner[i]]_registryVars
<1>1. ASSUME LocksHold, [RegistryNext]_registryVars
      PROVE  [\A i \in Idents : owner[i] # NoOwner => owner'[i] = owner[i]]_registryVars
  <2>1. ASSUME NEW j \in Jobs, JobStep(j) \/ Fails(j), NEW i \in Idents, owner[i] # NoOwner
        PROVE  owner'[i] = owner[i]
    <3>1. RegistryEffect(j)
      BY <1>1, <2>1, RegistryStep
    <3>2. CASE SameStore
      BY <3>2 DEF SameStore
    <3>3. CASE ~SameStore
      <4>1. Commits(j)
        BY <3>1, <3>3 DEF RegistryEffect, Starts, Reads, RollsBack, EntityStep, IdentStep,
                  TableStep, WritesEntity, WritesIdent, WritesTable, WritesCreates, Going
      <4>2. tx[j].owner[i] = NoOwner
        BY <1>1, <2>1 DEF LocksHold, Owned
      <4>. QED BY <4>1, <4>2 DEF Commits, Owner
    <3>. QED BY <3>2, <3>3
  <2>. QED BY <1>1, <2>1 DEF RegistryNext
<1>. QED BY <1>1, LocksInit, LocksNext, PTL DEF RegistrySpec

(* A committed entity stays, with the source that created it: an update of *)
(* another job changes its name and status only.                           *)
THEOREM EntityKeepsSource ==
    RegistrySpec => [][\A e \in Jobs : entity[e] # NoRow =>
                          entity'[e] # NoRow /\ entity'[e].source = entity[e].source]_registryVars
<1>1. ASSUME LocksHold, LocksHold', [RegistryNext]_registryVars
      PROVE  [\A e \in Jobs : entity[e] # NoRow =>
                 entity'[e] # NoRow /\ entity'[e].source = entity[e].source]_registryVars
  <2>1. ASSUME NEW j \in Jobs, JobStep(j) \/ Fails(j), NEW e \in Jobs, entity[e] # NoRow
        PROVE  entity'[e] # NoRow /\ entity'[e].source = entity[e].source
    <3>1. RegistryEffect(j) /\ prog' = prog
      BY <1>1, <2>1, RegistryStep DEF Others
    <3>2. entity'[e] # NoRow
      BY <2>1, <3>1 DEF RegistryEffect, Starts, Reads, RollsBack, EntityStep, IdentStep,
         TableStep, WritesEntity, WritesIdent, WritesTable, WritesCreates, Going, SameStore,
         Commits, Entity
    <3>3. entity[e].source = prog[e].source
      BY <1>1, <2>1 DEF LocksHold, Sourced
    <3>4. entity'[e].source = prog[e].source
      BY <1>1, <3>1, <3>2 DEF LocksHold, Sourced
    <3>. QED BY <3>2, <3>3, <3>4
  <2>. QED BY <1>1, <2>1 DEF RegistryNext
<1>2. LocksHold /\ [RegistryNext]_registryVars => LocksHold'
  BY LocksNext
<1>. QED BY <1>1, <1>2, LocksInit, PTL DEF RegistrySpec

-----------------------------------------------------------------------------
(* Creates: the entity a create adds to is of its source, and its          *)
(* identifiers name it or are still to be added.                           *)
Named(j, e, S) ==
    /\ e \in Jobs /\ Entity(j, e) # NoRow /\ prog[e].source = prog[j].source
    /\ \A i \in S : Owner(j, i).of = e

Adds(j) ==
    /\ at[j] \in {"add", "addrow"} /\ Call(j).op = "create" =>
          Named(j, to[j], Call(j).idents \ ElementsOf(adding[j]))
    /\ \A c \in tx[j].creates : c.by = j /\ Named(j, c.of, c.idents)

CreatesInv == LocksHold /\ (\A j \in Jobs : Adds(j)) /\ CreatesStand

LEMMA NamedGrows ==
    ASSUME NEW k \in Jobs, Grows(k), prog' = prog, NEW e, NEW S \in SUBSET Idents, Named(k, e, S)
    PROVE  Named(k, e, S)'
<1>1. Entity(k, e)' # NoRow
  BY DEF Named, Grows
<1>2. \A i \in S : Owner(k, i)' = Owner(k, i)
  BY DEF Named, Grows
<1>. QED BY <1>1, <1>2 DEF Named

LEMMA ListElements ==
    ASSUME NEW s \in Seq(Idents), s # <<>>
    PROVE  ElementsOf(s) \subseteq {Head(s)} \cup ElementsOf(Tail(s))
<1>1. /\ Len(s) \in Nat \ {0} /\ DOMAIN s = 1..Len(s) /\ Tail(s) \in Seq(Idents)
      /\ Len(Tail(s)) = Len(s) - 1 /\ DOMAIN Tail(s) = 1..(Len(s) - 1) /\ Head(s) = s[1]
      /\ \A n \in 1..(Len(s) - 1) : Tail(s)[n] = s[n + 1]
  OBVIOUS
<1>2. ASSUME NEW n \in DOMAIN s PROVE s[n] \in {Head(s)} \cup ElementsOf(Tail(s))
  <2>1. CASE n = 1
    BY <1>1, <2>1
  <2>2. CASE n # 1
    <3>1. n - 1 \in DOMAIN Tail(s) /\ Tail(s)[n - 1] = s[n]
      BY <1>1, <2>2
    <3>. QED BY <3>1 DEF ElementsOf
  <2>. QED BY <2>1, <2>2
<1>. QED BY <1>2 DEF ElementsOf

LEMMA NoElements == ElementsOf(<<>>) = {}
BY DEF ElementsOf

(* The calls that have returned: what they have created stays named.       *)
LEMMA CreatedGrows ==
    ASSUME LocksHold, NEW k \in Jobs, Adds(k), Grows(k), prog' = prog,
           tx'[k].creates = tx[k].creates
    PROVE  \A c \in tx'[k].creates : c.by = k /\ Named(k, c.of, c.idents)'
<1>1. tx[k].creates \in SUBSET Creation
  BY DEF LocksHold, RegistryPhases, Typed, Writes
<1>2. ASSUME NEW c \in tx[k].creates PROVE c.by = k /\ Named(k, c.of, c.idents)'
  <2>1. c.by = k /\ Named(k, c.of, c.idents) /\ c.idents \in SUBSET Idents
    BY <1>1 DEF Adds, Creation
  <2>2. PICK e, S : e = c.of /\ S = c.idents
    OBVIOUS
  <2>3. Named(k, e, S)'
    BY <2>1, <2>2, NamedGrows
  <2>. QED BY <2>1, <2>2, <2>3
<1>. QED BY <1>2

LEMMA AddsOthers ==
    ASSUME LocksHold, NEW j \in Jobs, RegistryEffect(j), Others(j), NEW k \in Jobs \ {j}, Adds(k)
    PROVE  Adds(k)'
<1>1. /\ Grows(k) /\ at'[k] = at[k] /\ to'[k] = to[k] /\ ip'[k] = ip[k] /\ prog' = prog
      /\ adding'[k] = adding[k] /\ tx'[k] = tx[k]
  BY GrowsOthers DEF Others
<1>2. Call(k)' = Call(k)
  BY <1>1 DEF Call
<1>3. \A c \in tx'[k].creates : c.by = k /\ Named(k, c.of, c.idents)'
  BY <1>1, CreatedGrows
<1>4. ASSUME at[k] \in {"add", "addrow"}, Call(k).op = "create"
      PROVE  Named(k, to[k], Call(k).idents \ ElementsOf(adding[k]))'
  <2>1. ip[k] \in DOMAIN prog[k].calls /\ Typed
    BY <1>4 DEF LocksHold, RegistryPhases, AtCall, InCall
  <2>2. Call(k).idents \in SUBSET Idents
    BY <1>4, <2>1, CallAt, CallFacts
  <2>3. PICK e, S : e = to[k] /\ S = Call(k).idents \ ElementsOf(adding[k])
    OBVIOUS
  <2>4. Named(k, e, S)'
    BY <1>1, <1>4, <2>2, <2>3, NamedGrows DEF Adds
  <2>5. to'[k] = e /\ Call(k)'.idents \ ElementsOf(adding'[k]) = S
    BY <1>1, <1>2, <2>3
  <2>. QED BY <2>4, <2>5 DEF ElementsOf
<1>. QED BY <1>1, <1>2, <1>3, <1>4 DEF Adds

(* A job that goes on, by its statements.                                  *)
LEMMA AddsOwn ==
    ASSUME LocksHold, LocksHold', NEW j \in Jobs, Adds(j), JobStep(j) \/ Fails(j)
    PROVE  Adds(j)'
<1>. Typed /\ AtCall(j) /\ RegistryEffect(j) /\ Others(j)
  BY RegistryStep DEF LocksHold, RegistryPhases
<1>1. CASE RollsBack(j) \/ Commits(j)
  <2>1. at'[j] = "done" /\ tx'[j].creates = {}
    BY <1>1, NothingFacts DEF RollsBack, Commits, Ended
  <2>. QED BY <2>1 DEF Adds
<1>2. ASSUME at'[j] # "done", tx'[j].creates = tx[j].creates,
             at'[j] \in {"add", "addrow"} /\ Call(j)'.op = "create" =>
                Named(j, to[j], Call(j).idents \ ElementsOf(adding[j]))'
      PROVE  Adds(j)'
  <2>1. Grows(j) /\ prog' = prog
    BY <1>2, GrowsOwn DEF Others
  <2>2. \A c \in tx'[j].creates : c.by = j /\ Named(j, c.of, c.idents)'
    BY <1>2, <2>1, CreatedGrows
  <2>. QED BY <1>2, <2>2 DEF Adds
<1>3. CASE CreateLookUp(j)
  <2>1. /\ Reads(j) /\ at'[j] \in {"insert", "add"} /\ at'[j] # "done" /\ ip' = ip
        /\ prog' = prog /\ ip[j] \in DOMAIN prog[j].calls /\ Call(j).op = "create"
    BY <1>3, LookUpEffect DEF CreateLookUp, Goto, Typed, JobTypes, Reads, Others, jobVars,
                              AtCall, InCall
  <2>2. CASE at'[j] = "insert"
    BY <1>2, <2>1, <2>2 DEF Reads
  <2>3. CASE at'[j] = "add"
    <3>1. PICK e \in Jobs : /\ Matches(j) = {e} /\ Trusted(j, e) /\ to'[j] = e
                            /\ adding'[j] = Call(j).order
      BY <1>3, <2>3 DEF CreateLookUp, Goto, Typed, JobTypes
    <3>2. Call(j)' = Call(j) /\ Call(j).idents = ElementsOf(Call(j).order)
      BY <2>1, CallAt DEF Call
    <3>3. Entity(j, e)' # NoRow
      BY <2>3, <3>1 DEF LocksHold, Sees
    <3>4. Entity(j, e)' = Entity(j, e)
      BY <2>1 DEF Reads, SameStore, Entity
    <3>5. prog[e].source = prog[j].source
      BY <3>1, <3>3, <3>4, SourceNamed DEF Trusted
    <3>6. (Call(j).idents \ ElementsOf(adding[j]))' = {}
      <4>1. Call(j)'.idents \ ElementsOf(adding'[j]) = {}
        BY <3>1, <3>2
      <4>. QED BY <4>1 DEF ElementsOf
    <3>7. Named(j, to[j], Call(j).idents \ ElementsOf(adding[j]))'
      BY <2>1, <3>1, <3>3, <3>5, <3>6 DEF Named
    <3>. QED BY <1>2, <2>1, <3>7 DEF Reads
  <2>. QED BY <2>1, <2>2, <2>3
<1>4. CASE InsertEntity(j)
  <2>1. /\ at'[j] = "add" /\ to'[j] = j /\ adding'[j] = Call(j).order /\ ip' = ip
        /\ tx'[j].creates = tx[j].creates /\ prog' = prog
        /\ ip[j] \in DOMAIN prog[j].calls /\ Call(j).op = "create"
    BY <1>4, InsertEffect DEF WritesEntity, InsertEntity, AtCall, InCall, Others
  <2>2. Call(j)' = Call(j) /\ Call(j).idents = ElementsOf(Call(j).order)
    BY <2>1, CallAt DEF Call
  <2>3. Entity(j, j)' # NoRow
    BY <2>1 DEF LocksHold, Sees
  <2>4. (Call(j).idents \ ElementsOf(adding[j]))' = {}
    <3>1. Call(j)'.idents \ ElementsOf(adding'[j]) = {}
      BY <2>1, <2>2
    <3>. QED BY <3>1 DEF ElementsOf
  <2>5. Named(j, to[j], Call(j).idents \ ElementsOf(adding[j]))'
    BY <2>1, <2>3, <2>4 DEF Named
  <2>. QED BY <1>2, <2>1, <2>5
<1>5. CASE AddCall(j) \/ UpdateReads(j) \/ PutReads(j) \/ Begin(j)
  <2>1. CASE at'[j] = "done"
    BY <1>1, <1>5, <2>1, AddCallEffect, UpdateReadsEffect, PutReadsEffect, StartEffect
       DEF Reads, Starts
  <2>2. CASE at'[j] # "done"
    <3>1. tx'[j].creates = tx[j].creates
      BY <1>5, <2>2, AddCallEffect, UpdateReadsEffect, PutReadsEffect, StartEffect
         DEF Reads, Starts, RollsBack, Ended
    <3>2. CASE AddCall(j)
      <4>1. ip' = ip /\ prog' = prog /\ Call(j).op = "add"
        BY <2>2, <3>2 DEF AddCall, Raise, EndTransaction, Goto, Typed, JobTypes, Others
      <4>2. Call(j)' = Call(j)
        BY <4>1 DEF Call
      <4>. QED BY <1>2, <2>2, <3>1, <4>1, <4>2
    <3>3. CASE UpdateReads(j)
      <4>1. at'[j] = "update"
        BY <2>2, <3>3 DEF UpdateReads, Raise, EndTransaction, Goto, Typed, JobTypes
      <4>. QED BY <1>2, <2>2, <3>1, <4>1
    <3>4. CASE PutReads(j)
      <4>1. at'[j] \in {"put", "call", "returned"}
        BY <3>4, NextCallEffect DEF PutReads, Goto, Typed, JobTypes
      <4>. QED BY <1>2, <2>2, <3>1, <4>1
    <3>5. CASE Begin(j)
      <4>1. at'[j] = "call"
        BY <3>5, StartEffect DEF Starts
      <4>. QED BY <1>2, <2>2, <3>1, <4>1
    <3>. QED BY <1>5, <3>2, <3>3, <3>4, <3>5
  <2>. QED BY <2>1, <2>2
<1>6. CASE AddIdentifier(j) \/ InsertIdentifier(j)
  <2>1. CASE RollsBack(j)
    BY <1>1, <2>1
  <2>2. CASE ~RollsBack(j)
    <3>1. /\ at[j] \in {"add", "addrow"} /\ to' = to /\ ip' = ip /\ at'[j] \in {"add", "addrow"}
          /\ tx'[j].creates = tx[j].creates
          /\ \/ adding'[j] = adding[j]
             \/ /\ adding'[j] = Tail(adding[j])
                /\ \E i : i = Head(adding[j]) /\ Owner(j, i)'.of = to[j]
      <4>1. CASE AddIdentifier(j)
        <5>1. Reads(j)
          BY <2>2, <4>1, AddIdentifierEffect
        <5>2. /\ at[j] = "add" /\ to' = to /\ ip' = ip /\ at'[j] \in {"add", "addrow"}
              /\ \/ adding'[j] = adding[j]
                 \/ adding'[j] = Tail(adding[j]) /\ Owner(j, Head(adding[j])).of = to[j]
          BY <4>1, <5>1 DEF AddIdentifier, Reads, Raise, EndTransaction, Goto, Typed, JobTypes,
                            jobVars
        <5>3. PICK i : i = Head(adding[j])
          OBVIOUS
        <5>4. Owner(j, i)' = Owner(j, i)
          BY <5>1 DEF Reads, SameStore, Owner
        <5>. QED BY <5>1, <5>2, <5>3, <5>4 DEF Reads, Owner
      <4>2. CASE InsertIdentifier(j)
        <5>1. /\ IdentStep(j, Head(adding[j])) /\ to' = to /\ ip' = ip /\ at'[j] = "add"
              /\ adding'[j] = Tail(adding[j]) /\ at[j] = "addrow"
          BY <2>2, <4>2, IdentifierStep DEF InsertIdentifier
        <5>2. PICK i : i = Head(adding[j])
          OBVIOUS
        <5>3. /\ tx'[j].owner[i] = NewOwner(j) /\ to[j] \in Jobs
              /\ tx'[j].creates = tx[j].creates
          BY <5>1, <5>2 DEF IdentStep, WritesIdent, Typed, Writes
        <5>4. Owner(j, i)'.of = to[j]
          BY <5>3, NoOwnerFacts DEF Owner, NewOwner
        <5>. QED BY <5>1, <5>2, <5>3, <5>4 DEF Owner
      <4>. QED BY <1>6, <4>1, <4>2
    <3>2. Grows(j) /\ prog' = prog /\ Call(j)' = Call(j)
      BY <3>1, GrowsOwn DEF Others, Call
    <3>3. ASSUME Call(j).op = "create"
          PROVE  Named(j, to[j], Call(j).idents \ ElementsOf(adding[j]))'
      <4>1. ip[j] \in DOMAIN prog[j].calls /\ adding[j] \in Seq(Idents)
        BY <3>1 DEF AtCall, InCall, Typed, JobTypes
      <4>2. Call(j).idents \in SUBSET Idents
        BY <3>3, <4>1, CallAt, CallFacts
      <4>3. PICK e, S, h, R : /\ e = to[j] /\ S = Call(j).idents \ ElementsOf(adding[j])
                              /\ h = Head(adding[j])
                              /\ R = Call(j).idents \ ElementsOf(adding'[j])
        OBVIOUS
      <4>4. Named(j, e, S)'
        BY <3>1, <3>2, <3>3, <4>2, <4>3, NamedGrows DEF Adds
      <4>5. \A i \in R : Owner(j, i)'.of = e
        <5>1. CASE adding'[j] = adding[j]
          BY <4>3, <4>4, <5>1 DEF Named
        <5>2. CASE adding'[j] = Tail(adding[j]) /\ Owner(j, h)'.of = e /\ adding[j] # <<>>
          <6>1. ElementsOf(adding[j]) \subseteq {h} \cup ElementsOf(adding'[j])
            BY <4>1, <4>3, <5>2, ListElements
          <6>2. \A i \in R : i \in S \/ i = h
            BY <4>3, <6>1
          <6>. QED BY <4>4, <5>2, <6>2 DEF Named
        <5>3. adding[j] # <<>>
          BY <1>6 DEF AddIdentifier, InsertIdentifier, AtCall
        <5>. QED BY <3>1, <4>3, <5>1, <5>2, <5>3 DEF Owner
      <4>6. to'[j] = e /\ Call(j)'.idents \ ElementsOf(adding'[j]) = R
        BY <3>1, <3>2, <4>3
      <4>7. Named(j, e, R)'
        BY <4>4, <4>5 DEF Named
      <4>. QED BY <4>6, <4>7 DEF ElementsOf
    <3>. QED BY <1>2, <3>1, <3>2, <3>3
  <2>. QED BY <2>1, <2>2
<1>7. CASE UpdateEntity(j) \/ PutRow(j)
  <2>1. at'[j] \in {"returned", "call"} /\ tx'[j].creates = tx[j].creates
    BY <1>7, UpdateEffect, PutEffect, NextCallEffect DEF WritesEntity, WritesTable
  <2>. QED BY <1>2, <2>1
<1>8. CASE AddDone(j)
  <2>1. /\ WritesCreates(j, Returns(j)) /\ at'[j] \in {"returned", "call"} /\ at[j] = "add"
        /\ adding[j] = <<>> /\ prog' = prog /\ ip[j] \in DOMAIN prog[j].calls
    BY <1>8, DoneEffect, NextCallEffect DEF AddDone, Others, AtCall, InCall
  <2>2. Grows(j)
    BY <2>1, GrowsOwn
  <2>3. ASSUME NEW c \in tx'[j].creates PROVE c.by = j /\ Named(j, c.of, c.idents)'
    <3>1. CASE c \in tx[j].creates
      <4>1. tx[j].creates \in SUBSET Creation
        BY DEF Typed, Writes
      <4>2. c.by = j /\ Named(j, c.of, c.idents) /\ c.idents \in SUBSET Idents
        BY <3>1, <4>1 DEF Adds, Creation
      <4>3. PICK e, S : e = c.of /\ S = c.idents
        OBVIOUS
      <4>4. Named(j, e, S)'
        BY <2>1, <2>2, <4>2, <4>3, NamedGrows
      <4>. QED BY <4>2, <4>3, <4>4
    <3>2. CASE c \notin tx[j].creates
      <4>1. Call(j).op = "create" /\ c = [by |-> j, of |-> to[j], idents |-> Call(j).idents]
        BY <2>1, <3>2 DEF WritesCreates, Returns
      <4>2. PICK e, S : e = to[j] /\ S = Call(j).idents
        OBVIOUS
      <4>3. Call(j).idents \ ElementsOf(adding[j]) = Call(j).idents
        BY <2>1, NoElements
      <4>4. S \in SUBSET Idents
        BY <2>1, <4>1, <4>2, CallAt, CallFacts
      <4>5. Named(j, e, S)
        BY <2>1, <4>1, <4>2, <4>3 DEF Adds
      <4>6. Named(j, e, S)'
        BY <2>1, <2>2, <4>4, <4>5, NamedGrows
      <4>7. c.by = j /\ c.of = e /\ c.idents = S
        BY <4>1, <4>2
      <4>. QED BY <4>6, <4>7
    <3>. QED BY <3>1, <3>2
  <2>. QED BY <2>1, <2>3 DEF Adds
<1>9. CASE \/ CreateMergeRequired(j) \/ DeadlockEnds(j) \/ ExpireIdentifier(j)
           \/ Fails(j) \/ CommitJob(j)
  BY <1>1, <1>9, MergeEffect, DeadlockEffect, ExpireEffect, FailsEffect, CommitEffect
<1>. QED BY <1>3, <1>4, <1>5, <1>6, <1>7, <1>8, <1>9 DEF JobStep

LEMMA StandKept ==
    ASSUME LocksHold, CreatesStand, NEW j \in Jobs, Adds(j), Others(j), RegistryEffect(j)
    PROVE  CreatesStand'
<1>0. /\ prog' = prog /\ creates \in SUBSET Creation /\ tx[j].creates \in SUBSET Creation
      /\ Typed
  BY DEF Others, LocksHold, RegistryPhases, Typed, StoreTypes, Writes
<1>1. CASE SameStore
  BY <1>0, <1>1 DEF SameStore, CreatesStand
<1>2. CASE ~SameStore
  <2>1. Commits(j)
    BY <1>2 DEF RegistryEffect, Starts, Reads, RollsBack, EntityStep, IdentStep, TableStep,
                WritesEntity, WritesIdent, WritesTable, WritesCreates, Going
  <2>2. /\ \A e \in Jobs : entity'[e] = Entity(j, e)
        /\ \A i \in Idents : owner'[i] = Owner(j, i)
        /\ creates' = creates \cup tx[j].creates
    BY <2>1 DEF Commits
  <2>3. ASSUME NEW c \in creates
        PROVE  /\ entity'[c.of] # NoRow /\ entity'[c.of].source = prog[c.by].source
               /\ \A i \in c.idents : owner'[i].of = c.of
    <3>1. c.of \in Jobs /\ c.idents \subseteq Idents
      BY <1>0 DEF Creation
    <3>2. /\ entity[c.of] # NoRow /\ entity[c.of].source = prog[c.by].source
          /\ \A i \in c.idents : owner[i].of = c.of
      BY DEF CreatesStand
    <3>3. prog[c.of].source = prog[c.by].source
      BY <3>1, <3>2 DEF LocksHold, Sourced
    <3>4. Entity(j, c.of) # NoRow
      BY <3>2 DEF Entity
    <3>5. Entity(j, c.of).source = prog[c.of].source
      BY <3>1, <3>4, SourceNamed
    <3>6. ASSUME NEW i \in c.idents PROVE owner'[i].of = c.of
      <4>1. owner[i] # NoOwner
        BY <3>1, <3>2, NoOwnerFacts
      <4>2. tx[j].owner[i] = NoOwner
        BY <3>1, <4>1 DEF LocksHold, Owned
      <4>. QED BY <2>2, <3>1, <3>2, <4>2 DEF Owner
    <3>. QED BY <2>2, <3>1, <3>3, <3>4, <3>5, <3>6
  <2>4. ASSUME NEW c \in tx[j].creates
        PROVE  /\ entity'[c.of] # NoRow /\ entity'[c.of].source = prog[c.by].source
               /\ \A i \in c.idents : owner'[i].of = c.of
    <3>1. c.of \in Jobs /\ c.idents \subseteq Idents
      BY <1>0 DEF Creation
    <3>2. /\ c.by = j /\ Entity(j, c.of) # NoRow /\ prog[c.of].source = prog[j].source
          /\ \A i \in c.idents : Owner(j, i).of = c.of
      BY DEF Adds, Named
    <3>3. Entity(j, c.of).source = prog[c.of].source
      BY <3>1, <3>2, SourceNamed
    <3>. QED BY <2>2, <3>1, <3>2, <3>3
  <2>5. ASSUME NEW c \in creates'
        PROVE  /\ entity'[c.of] # NoRow /\ entity'[c.of].source = prog[c.by].source
               /\ \A i \in c.idents : owner'[i].of = c.of
    BY <2>2, <2>3, <2>4
  <2>. QED BY <1>0, <2>5 DEF CreatesStand
<1>. QED BY <1>1, <1>2

LEMMA CreatesNext == CreatesInv /\ [RegistryNext]_registryVars => CreatesInv'
<1>. SUFFICES ASSUME CreatesInv, [RegistryNext]_registryVars PROVE CreatesInv'
  OBVIOUS
<1>0. LocksHold' /\ LocksHold
  BY LocksNext DEF CreatesInv
<1>1. CASE UNCHANGED registryVars
  <2>1. /\ prog' = prog /\ entity' = entity /\ owner' = owner /\ creates' = creates
        /\ at' = at /\ to' = to /\ ip' = ip /\ tx' = tx /\ adding' = adding
    BY <1>1 DEF registryVars, dbVars, jobVars
  <2>2. CreatesStand'
    BY <2>1 DEF CreatesInv, CreatesStand
  <2>3. ASSUME NEW j \in Jobs PROVE Adds(j)'
    <3>1. Adds(j) /\ Call(j)' = Call(j)
      BY <2>1 DEF CreatesInv, Call
    <3>. QED BY <2>1, <3>1 DEF Adds, Named, Entity, Owner, ElementsOf
  <2>. QED BY <1>0, <2>2, <2>3 DEF CreatesInv
<1>2. ASSUME NEW j \in Jobs, JobStep(j) \/ Fails(j) PROVE CreatesInv'
  <2>1. RegistryEffect(j) /\ Others(j)
    BY <1>0, <1>2, RegistryStep
  <2>2. CreatesStand'
    BY <1>0, <2>1, StandKept DEF CreatesInv
  <2>3. Adds(j)'
    BY <1>0, <1>2, AddsOwn DEF CreatesInv
  <2>4. \A k \in Jobs \ {j} : Adds(k)'
    BY <1>0, <2>1, AddsOthers DEF CreatesInv
  <2>. QED BY <1>0, <2>2, <2>3, <2>4 DEF CreatesInv
<1>. QED BY <1>1, <1>2 DEF RegistryNext

LEMMA CreatesInit == RegistryInit => CreatesInv
<1>. SUFFICES ASSUME RegistryInit PROVE CreatesInv
  OBVIOUS
<1>1. LocksHold
  BY LocksInit
<1>2. creates = {} /\ \A j \in Jobs : at[j] = "new" /\ tx[j].creates = {}
  BY NothingFacts DEF RegistryInit
<1>. QED BY <1>1, <1>2 DEF CreatesInv, Adds, CreatesStand

(* A committed create_entity stands, for any jobs, identifiers and order   *)
(* of statements: its identifiers name the entity it returned, which is    *)
(* there and of the caller's source.                                       *)
THEOREM CommittedCreatesStand == RegistrySpec => []CreatesStand
<1>1. CreatesInv => CreatesStand
  BY DEF CreatesInv
<1>. QED BY <1>1, CreatesInit, CreatesNext, PTL DEF RegistrySpec

-----------------------------------------------------------------------------
(* Trails.  s tells x: of every field the last event of x that set it has  *)
(* set what v holds, and the last event of x ends with v.                  *)
Touches(s, x) == \E n \in DOMAIN s : s[n].of = x

Tells(s, x, v) ==
    \A n \in DOMAIN s : s[n].of = x =>
        /\ DOMAIN s[n].set \subseteq DOMAIN v
        /\ \A f \in DOMAIN s[n].set :
              (\A m \in DOMAIN s : s[m].of = x /\ m > n => f \notin DOMAIN s[m].set)
              => v[f] = s[n].set[f]
        /\ (\A m \in DOMAIN s : s[m].of = x => m <= n) => s[n].after = v

(* The fields that s does not set are those of c.                          *)
Keeps(s, x, v, c) ==
    \A f \in DOMAIN v :
        (\A n \in DOMAIN s : s[n].of = x => f \notin DOMAIN s[n].set) => v[f] = c[f]

View(j, x) == IF x \in Jobs THEN Entity(j, x) ELSE [value |-> Table(j, x)]

Wrote(j, x) == IF x \in Jobs THEN tx[j].entity[x] # NoRow ELSE tx[j].table[x] # ""

(* The events of a transaction tell the rows as it sees them: they set the *)
(* fields in which those differ from the committed ones.                   *)
TxTells(j) ==
    /\ \A n \in DOMAIN tx[j].trail : tx[j].trail[n].by = j
    /\ \A x \in Jobs \cup Tables :
          /\ Wrote(j, x) <=> Touches(tx[j].trail, x)
          /\ Tells(tx[j].trail, x, View(j, x))
          /\ Keeps(tx[j].trail, x, View(j, x), Current(x))

RegistryTrail ==
    /\ \A n \in DOMAIN trail : at[trail[n].by] = "done"
    /\ \A x \in Jobs \cup Tables : Tells(trail, x, Current(x))

TrailsInv == LocksHold /\ (\A j \in Jobs : TxTells(j)) /\ RegistryTrail

LEMMA AppendAt ==
    ASSUME NEW T, NEW s \in Seq(T), NEW c \in T
    PROVE  /\ Len(s) \in Nat /\ DOMAIN s = 1..Len(s) /\ DOMAIN Append(s, c) = 1..(Len(s) + 1)
           /\ \A n \in 1..Len(s) : Append(s, c)[n] = s[n]
           /\ Append(s, c)[Len(s) + 1] = c
OBVIOUS

LEMMA TellsAppend ==
    ASSUME NEW s \in Seq(Change), NEW c \in Change, NEW x, NEW v, NEW w, Tells(s, x, v),
           c.of = x, c.after = w, DOMAIN v = DOMAIN w, DOMAIN c.set \subseteq DOMAIN w,
           \A f \in DOMAIN c.set : w[f] = c.set[f],
           \A f \in DOMAIN w : f \notin DOMAIN c.set => w[f] = v[f]
    PROVE  Tells(Append(s, c), x, w)
<1>. PICK u, L : u = Append(s, c) /\ L = Len(s)
  OBVIOUS
<1>0. /\ L \in Nat /\ DOMAIN s = 1..L /\ DOMAIN u = 1..(L + 1)
      /\ \A n \in 1..L : u[n] = s[n]
      /\ u[L + 1] = c
  BY AppendAt
<1>1. ASSUME NEW n \in DOMAIN u, u[n].of = x
      PROVE  /\ DOMAIN u[n].set \subseteq DOMAIN w
             /\ \A f \in DOMAIN u[n].set :
                   (\A m \in DOMAIN u : u[m].of = x /\ m > n => f \notin DOMAIN u[m].set)
                   => w[f] = u[n].set[f]
             /\ (\A m \in DOMAIN u : u[m].of = x => m <= n) => u[n].after = w
  <2>1. CASE n = L + 1
    BY <1>0, <2>1
  <2>2. CASE n # L + 1
    <3>1. n \in DOMAIN s /\ u[n] = s[n] /\ L + 1 \in DOMAIN u /\ L + 1 > n
      BY <1>0, <2>2
    <3>2. DOMAIN u[n].set \subseteq DOMAIN w
      BY <1>1, <3>1 DEF Tells
    <3>3. ASSUME NEW f \in DOMAIN u[n].set,
                 \A m \in DOMAIN u : u[m].of = x /\ m > n => f \notin DOMAIN u[m].set
          PROVE  w[f] = u[n].set[f]
      <4>1. f \notin DOMAIN c.set
        BY <1>0, <3>1, <3>3
      <4>2. \A m \in DOMAIN s : s[m].of = x /\ m > n => f \notin DOMAIN s[m].set
        BY <1>0, <3>3
      <4>3. v[f] = s[n].set[f]
        BY <1>1, <3>1, <3>3, <4>2 DEF Tells
      <4>. QED BY <3>1, <3>2, <3>3, <4>1, <4>3
    <3>4. ~(\A m \in DOMAIN u : u[m].of = x => m <= n)
      BY <1>0, <3>1
    <3>. QED BY <3>2, <3>3, <3>4
  <2>. QED BY <2>1, <2>2
<1>. QED BY <1>1 DEF Tells

LEMMA TellsAppendOther ==
    ASSUME NEW s \in Seq(Change), NEW c \in Change, NEW x, NEW v, Tells(s, x, v), c.of # x
    PROVE  Tells(Append(s, c), x, v)
<1>. PICK u, L : u = Append(s, c) /\ L = Len(s)
  OBVIOUS
<1>0. /\ L \in Nat /\ DOMAIN s = 1..L /\ DOMAIN u = 1..(L + 1)
      /\ \A n \in 1..L : u[n] = s[n]
      /\ u[L + 1] = c
  BY AppendAt
<1>1. \A n \in DOMAIN u : u[n].of = x => n \in DOMAIN s
  BY <1>0
<1>2. \A n \in DOMAIN s : n \in DOMAIN u /\ u[n] = s[n]
  BY <1>0
<1>. QED BY <1>1, <1>2 DEF Tells

LEMMA KeepsAppend ==
    ASSUME NEW s \in Seq(Change), NEW d \in Change, NEW x, NEW v, NEW w, NEW c, Keeps(s, x, v, c),
           d.of = x, DOMAIN v = DOMAIN w,
           \A f \in DOMAIN w : f \notin DOMAIN d.set => w[f] = v[f]
    PROVE  Keeps(Append(s, d), x, w, c)
<1>. PICK u, L : u = Append(s, d) /\ L = Len(s)
  OBVIOUS
<1>0. /\ L \in Nat /\ DOMAIN s = 1..L /\ DOMAIN u = 1..(L + 1)
      /\ \A n \in 1..L : u[n] = s[n]
      /\ u[L + 1] = d
  BY AppendAt
<1>1. ASSUME NEW f \in DOMAIN w, \A n \in DOMAIN u : u[n].of = x => f \notin DOMAIN u[n].set
      PROVE  w[f] = c[f]
  <2>1. f \notin DOMAIN d.set
    BY <1>0, <1>1
  <2>2. \A n \in DOMAIN s : s[n].of = x => f \notin DOMAIN s[n].set
    BY <1>0, <1>1
  <2>. QED BY <2>1, <2>2 DEF Keeps
<1>. QED BY <1>1 DEF Keeps

LEMMA KeepsAppendOther ==
    ASSUME NEW s \in Seq(Change), NEW d \in Change, NEW x, NEW v, NEW c, Keeps(s, x, v, c),
           d.of # x
    PROVE  Keeps(Append(s, d), x, v, c)
<1>. PICK u, L : u = Append(s, d) /\ L = Len(s)
  OBVIOUS
<1>0. /\ L \in Nat /\ DOMAIN s = 1..L /\ DOMAIN u = 1..(L + 1)
      /\ \A n \in 1..L : u[n] = s[n]
      /\ u[L + 1] = d
  BY AppendAt
<1>1. \A n \in DOMAIN s : n \in DOMAIN u /\ u[n] = s[n]
  BY <1>0
<1>. QED BY <1>1 DEF Keeps

LEMMA TouchesAppend ==
    ASSUME NEW s \in Seq(Change), NEW d \in Change, NEW x
    PROVE  Touches(Append(s, d), x) <=> (Touches(s, x) \/ d.of = x)
<1>. PICK u, L : u = Append(s, d) /\ L = Len(s)
  OBVIOUS
<1>0. /\ L \in Nat /\ DOMAIN s = 1..L /\ DOMAIN u = 1..(L + 1)
      /\ \A n \in 1..L : u[n] = s[n]
      /\ u[L + 1] = d
  BY AppendAt
<1>1. \A n \in DOMAIN u : n \in DOMAIN s \/ n = L + 1
  BY <1>0
<1>2. L + 1 \in DOMAIN u /\ \A n \in DOMAIN s : n \in DOMAIN u /\ u[n] = s[n]
  BY <1>0
<1>. QED BY <1>0, <1>1, <1>2 DEF Touches

(* The events of a transaction come after the committed ones.              *)
LEMMA ConcatAt ==
    ASSUME NEW s \in Seq(Change), NEW t \in Seq(Change)
    PROVE  /\ Len(s) \in Nat /\ Len(t) \in Nat /\ DOMAIN s = 1..Len(s) /\ DOMAIN t = 1..Len(t)
           /\ DOMAIN (s \o t) = 1..(Len(s) + Len(t))
           /\ \A n \in 1..Len(s) : (s \o t)[n] = s[n]
           /\ \A n \in 1..Len(t) : (s \o t)[Len(s) + n] = t[n]
           /\ \A n \in 1..(Len(s) + Len(t)) :
                 n \in 1..Len(s) \/ (n - Len(s) \in 1..Len(t) /\ (s \o t)[n] = t[n - Len(s)])
<1>1. /\ Len(s) \in Nat /\ Len(t) \in Nat /\ DOMAIN s = 1..Len(s) /\ DOMAIN t = 1..Len(t)
      /\ Len(s \o t) = Len(s) + Len(t) /\ s \o t \in Seq(Change)
      /\ \A n \in 1..(Len(s) + Len(t)) :
            (s \o t)[n] = IF n <= Len(s) THEN s[n] ELSE t[n - Len(s)]
  OBVIOUS
<1>2. DOMAIN (s \o t) = 1..(Len(s) + Len(t))
  BY <1>1
<1>3. ASSUME NEW n \in 1..Len(t) PROVE (s \o t)[Len(s) + n] = t[n]
  <2>1. Len(s) + n \in 1..(Len(s) + Len(t)) /\ ~(Len(s) + n <= Len(s)) /\ (Len(s) + n) - Len(s) = n
    BY <1>1
  <2>. QED BY <1>1, <2>1
<1>4. \A n \in 1..Len(s) : (s \o t)[n] = s[n]
  BY <1>1
<1>. QED BY <1>1, <1>2, <1>3, <1>4

LEMMA TellsConcat ==
    ASSUME NEW s \in Seq(Change), NEW t \in Seq(Change), NEW x, NEW v, NEW c,
           Tells(s, x, c), Tells(t, x, v), ~Touches(t, x) => v = c, Keeps(t, x, v, c),
           DOMAIN v = DOMAIN c
    PROVE  Tells(s \o t, x, v)
<1>. PICK u, L, K : u = s \o t /\ L = Len(s) /\ K = Len(t)
  OBVIOUS
<1>0. /\ L \in Nat /\ K \in Nat /\ DOMAIN s = 1..L /\ DOMAIN t = 1..K /\ DOMAIN u = 1..(L + K)
      /\ \A n \in 1..L : u[n] = s[n]
      /\ \A n \in 1..K : u[L + n] = t[n]
      /\ \A n \in 1..(L + K) : n \in 1..L \/ (n - L \in 1..K /\ u[n] = t[n - L])
  BY ConcatAt
<1>s. \A n \in DOMAIN s : n \in DOMAIN u /\ u[n] = s[n] /\ n <= L
  BY <1>0
<1>t. \A n \in DOMAIN t : L + n \in DOMAIN u /\ u[L + n] = t[n] /\ L + n > L
  BY <1>0
<1>1. ASSUME NEW n \in DOMAIN u, u[n].of = x
      PROVE  /\ DOMAIN u[n].set \subseteq DOMAIN v
             /\ \A f \in DOMAIN u[n].set :
                   (\A m \in DOMAIN u : u[m].of = x /\ m > n => f \notin DOMAIN u[m].set)
                   => v[f] = u[n].set[f]
             /\ (\A m \in DOMAIN u : u[m].of = x => m <= n) => u[n].after = v
  <2>1. CASE n \in DOMAIN s
    <3>0. u[n] = s[n] /\ n \in Nat /\ n <= L
      BY <1>0, <1>s, <2>1
    <3>1. DOMAIN u[n].set \subseteq DOMAIN v
      BY <1>1, <2>1, <3>0 DEF Tells
    <3>2. ASSUME NEW f \in DOMAIN u[n].set,
                 \A m \in DOMAIN u : u[m].of = x /\ m > n => f \notin DOMAIN u[m].set
          PROVE  v[f] = u[n].set[f]
      <4>1. \A m \in DOMAIN s : s[m].of = x /\ m > n => f \notin DOMAIN s[m].set
        BY <1>s, <3>2
      <4>2. c[f] = s[n].set[f]
        BY <1>1, <2>1, <3>0, <3>2, <4>1 DEF Tells
      <4>3. ASSUME NEW m \in DOMAIN t, t[m].of = x PROVE f \notin DOMAIN t[m].set
        <5>1. L + m \in DOMAIN u /\ u[L + m] = t[m] /\ L + m > n
          BY <1>0, <1>t, <3>0
        <5>. QED BY <3>2, <4>3, <5>1
      <4>4. v[f] = c[f]
        BY <3>1, <3>2, <4>3 DEF Keeps
      <4>. QED BY <3>0, <4>2, <4>4
    <3>3. ASSUME \A m \in DOMAIN u : u[m].of = x => m <= n PROVE u[n].after = v
      <4>1. ASSUME NEW m \in DOMAIN t PROVE t[m].of # x
        <5>1. L + m \in DOMAIN u /\ u[L + m] = t[m] /\ ~(L + m <= n)
          BY <1>0, <1>t, <3>0
        <5>. QED BY <3>3, <5>1
      <4>2. v = c
        BY <4>1 DEF Touches
      <4>3. \A m \in DOMAIN s : s[m].of = x => m <= n
        BY <1>s, <3>3
      <4>. QED BY <1>1, <2>1, <3>0, <4>2, <4>3 DEF Tells
    <3>. QED BY <3>1, <3>2, <3>3
  <2>2. CASE n \notin DOMAIN s
    <3>a. n \in 1..(L + K) /\ L \in Nat /\ K \in Nat /\ ~(n \in 1..L)
      BY <1>0, <2>2
    <3>b. n - L \in 1..K /\ n = L + (n - L)
      BY <3>a
    <3>c. n - L \in DOMAIN t
      BY <1>0, <3>b
    <3>d. u[n] = t[n - L]
      BY <1>t, <3>b, <3>c
    <3>0. PICK k \in DOMAIN t : u[n] = t[k] /\ n = L + k
      BY <3>b, <3>c, <3>d
    <3>1. DOMAIN u[n].set \subseteq DOMAIN v
      BY <1>1, <3>0 DEF Tells
    <3>2. \A m \in DOMAIN t : (m > k => L + m > n) /\ (L + m <= n => m <= k)
      BY <1>0, <3>0
    <3>3. ASSUME NEW f \in DOMAIN u[n].set,
                 \A m \in DOMAIN u : u[m].of = x /\ m > n => f \notin DOMAIN u[m].set
          PROVE  v[f] = u[n].set[f]
      <4>1. \A m \in DOMAIN t : t[m].of = x /\ m > k => f \notin DOMAIN t[m].set
        BY <1>t, <3>2, <3>3
      <4>. QED BY <1>1, <3>0, <3>3, <4>1 DEF Tells
    <3>4. ASSUME \A m \in DOMAIN u : u[m].of = x => m <= n PROVE u[n].after = v
      <4>1. \A m \in DOMAIN t : t[m].of = x => m <= k
        BY <1>t, <3>2, <3>4
      <4>. QED BY <1>1, <3>0, <4>1 DEF Tells
    <3>. QED BY <3>1, <3>3, <3>4
  <2>. QED BY <2>1, <2>2
<1>. QED BY <1>1 DEF Tells

LEMMA Untouched ==
    /\ \A s, x, v : ~Touches(s, x) => Tells(s, x, v)
    /\ \A s, x, v : Keeps(s, x, v, v)
BY DEF Touches, Tells, Keeps

LEMMA EmptyTrail == DOMAIN <<>> = {} /\ \A x : ~Touches(<<>>, x)
<1>1. DOMAIN <<>> = {}
  OBVIOUS
<1>. QED BY <1>1, Zenon DEF Touches

LEMMA ViewFacts ==
    ASSUME Typed, NEW j \in Jobs, NEW x \in Jobs \cup Tables
    PROVE  /\ DOMAIN View(j, x) = DOMAIN Current(x)
           /\ ~Wrote(j, x) => View(j, x) = Current(x)
<1>1. CASE x \in Jobs
  <2>1. entity[x] \in Row /\ Entity(j, x) \in Row
    BY <1>1, ViewTypes DEF Typed, StoreTypes
  <2>2. DOMAIN entity[x] = DOMAIN NoRow /\ DOMAIN Entity(j, x) = DOMAIN NoRow
    BY <2>1, RowFacts
  <2>. QED BY <1>1, <2>2 DEF View, Current, Wrote, Entity
<1>2. CASE x \notin Jobs
  BY <1>2 DEF View, Current, Wrote, Table
<1>. QED BY <1>1, <1>2

(* TxTells after a step, by its parts.                                     *)
LEMMA TellsAfter ==
    ASSUME NEW k \in Jobs, \A n \in DOMAIN tx'[k].trail : tx'[k].trail[n].by = k,
           \A x \in Jobs \cup Tables :
              /\ Wrote(k, x)' <=> Touches(tx'[k].trail, x)
              /\ Tells(tx'[k].trail, x, View(k, x)')
              /\ Keeps(tx'[k].trail, x, View(k, x)', Current(x)')
    PROVE  TxTells(k)'
BY DEF TxTells, Touches, Tells, Keeps

LEMMA TellsSame ==
    ASSUME NEW k \in Jobs, TxTells(k), SameStore, tx'[k].entity = tx[k].entity,
           tx'[k].table = tx[k].table, tx'[k].trail = tx[k].trail
    PROVE  TxTells(k)'
<1>1. \A x : View(k, x)' = View(k, x) /\ Current(x)' = Current(x) /\ (Wrote(k, x)' <=> Wrote(k, x))
  BY DEF SameStore, View, Entity, Table, Current, Wrote
<1>2. \A n \in DOMAIN tx'[k].trail : tx'[k].trail[n].by = k
  BY DEF TxTells
<1>3. ASSUME NEW x \in Jobs \cup Tables
      PROVE  /\ Wrote(k, x)' <=> Touches(tx'[k].trail, x)
             /\ Tells(tx'[k].trail, x, View(k, x)')
             /\ Keeps(tx'[k].trail, x, View(k, x)', Current(x)')
  BY <1>1 DEF TxTells
<1>. QED BY <1>2, <1>3, TellsAfter

LEMMA TellsOthers ==
    ASSUME LocksHold, LocksHold', NEW j \in Jobs, RegistryEffect(j), Others(j),
           NEW k \in Jobs \ {j}, TxTells(k), \A x \in Jobs \cup Tables : Wrote(j, x) => ~Wrote(k, x)
    PROVE  TxTells(k)'
<1>0. tx'[k] = tx[k]
  BY DEF Others
<1>1. CASE SameStore
  BY <1>0, <1>1, TellsSame
<1>2. CASE ~SameStore
  <2>1. Commits(j)
    BY <1>2 DEF RegistryEffect, Starts, Reads, RollsBack, EntityStep, IdentStep, TableStep,
                WritesEntity, WritesIdent, WritesTable, WritesCreates, Going
  <2>2. \A n \in DOMAIN tx'[k].trail : tx'[k].trail[n].by = k
    BY <1>0 DEF TxTells
  <2>3. ASSUME NEW x \in Jobs \cup Tables
        PROVE  /\ Wrote(k, x)' <=> Touches(tx'[k].trail, x)
               /\ Tells(tx'[k].trail, x, View(k, x)')
               /\ Keeps(tx'[k].trail, x, View(k, x)', Current(x)')
    <3>0. /\ Wrote(k, x) <=> Touches(tx[k].trail, x)
          /\ Tells(tx[k].trail, x, View(k, x))
          /\ Keeps(tx[k].trail, x, View(k, x), Current(x))
      BY DEF TxTells
    <3>1. Wrote(k, x)' <=> Wrote(k, x)
      BY <1>0 DEF Wrote
    <3>2. CASE Wrote(k, x)
      <4>1. View(k, x)' = View(k, x)
        BY <1>0, <3>2 DEF View, Wrote, Entity, Table
      <4>2. ~Wrote(j, x)
        BY <3>2
      <4>3. Current(x)' = Current(x)
        BY <2>1, <4>2 DEF Commits, Current, Wrote, Entity, Table
      <4>. QED BY <1>0, <3>0, <3>1, <4>1, <4>3
    <3>3. CASE ~Wrote(k, x)
      <4>1. Typed'
        BY DEF LocksHold, RegistryPhases
      <4>2. View(k, x)' = Current(x)'
        BY <1>0, <3>3 DEF Wrote, View, Current, Entity, Table
      <4>. QED BY <1>0, <3>0, <3>1, <3>3, <4>2, Untouched
    <3>. QED BY <3>2, <3>3
  <2>. QED BY <2>2, <2>3, TellsAfter
<1>. QED BY <1>1, <1>2

LEMMA AuthorAppend ==
    ASSUME NEW s \in Seq(Change), NEW d \in Change, NEW j, d.by = j,
           \A n \in DOMAIN s : s[n].by = j
    PROVE  \A n \in DOMAIN Append(s, d) : Append(s, d)[n].by = j
<1>. PICK u, L : u = Append(s, d) /\ L = Len(s)
  OBVIOUS
<1>0. /\ L \in Nat /\ DOMAIN s = 1..L /\ DOMAIN u = 1..(L + 1)
      /\ \A n \in 1..L : u[n] = s[n]
      /\ u[L + 1] = d
  BY AppendAt
<1>1. \A n \in DOMAIN u : n \in DOMAIN s \/ n = L + 1
  BY <1>0
<1>. QED BY <1>0, <1>1

LEMMA TellsEntity ==
    ASSUME Typed, NEW j \in Jobs, TxTells(j), NEW e, NEW set, NEW row, EntityStep(j, e, set, row)
    PROVE  TxTells(j)'
<1>. PICK s, d : s = tx[j].trail /\ d = Event(j, e, set, row)
  OBVIOUS
<1>0. /\ s \in Seq(Change) /\ d \in Change /\ e \in Jobs /\ row \in Row /\ row # NoRow /\ SameStore
      /\ d.by = j /\ d.of = e /\ d.set = set /\ d.after = row
  BY DEF EntityStep, WritesEntity, Going, Typed, Writes, Event
<1>1. /\ tx'[j].trail = Append(s, d) /\ tx'[j].table = tx[j].table
      /\ \A x \in Jobs : tx'[j].entity[x] = IF x = e THEN row ELSE tx[j].entity[x]
  BY DEF EntityStep, WritesEntity, Typed, Writes
<1>2. \A n \in DOMAIN tx'[j].trail : tx'[j].trail[n].by = j
  <2>1. \A n \in DOMAIN s : s[n].by = j
    BY DEF TxTells
  <2>. QED BY <1>0, <1>1, <2>1, AuthorAppend
<1>3. ASSUME NEW x \in Jobs \cup Tables
      PROVE  /\ Wrote(j, x)' <=> Touches(tx'[j].trail, x)
             /\ Tells(tx'[j].trail, x, View(j, x)')
             /\ Keeps(tx'[j].trail, x, View(j, x)', Current(x)')
  <2>0. /\ Wrote(j, x) <=> Touches(s, x)
        /\ Tells(s, x, View(j, x))
        /\ Keeps(s, x, View(j, x), Current(x))
        /\ Touches(Append(s, d), x) <=> (Touches(s, x) \/ d.of = x)
    BY <1>0, TouchesAppend DEF TxTells
  <2>1. Current(x)' = Current(x)
    BY <1>0 DEF SameStore, Current
  <2>2. CASE x = e
    <3>1. Wrote(j, x)' /\ View(j, x)' = row
      BY <1>0, <1>1, <2>2 DEF Wrote, View, Entity
    <3>2. View(j, x) = Entity(j, e) /\ DOMAIN View(j, x) = DOMAIN row
      <4>1. Entity(j, e) \in Row
        BY <1>0, ViewTypes
      <4>. QED BY <1>0, <2>2, <4>1, RowFacts DEF View
    <3>3. /\ DOMAIN set \subseteq DOMAIN row /\ \A f \in DOMAIN set : row[f] = set[f]
          /\ \A f \in DOMAIN row : f \notin DOMAIN set => row[f] = View(j, x)[f]
      BY <3>2 DEF EntityStep
    <3>4. Tells(Append(s, d), x, row)
      BY <1>0, <2>0, <2>2, <3>2, <3>3, TellsAppend
    <3>5. Keeps(Append(s, d), x, row, Current(x))
      BY <1>0, <2>0, <2>2, <3>2, <3>3, KeepsAppend
    <3>. QED BY <1>0, <1>1, <2>0, <2>1, <2>2, <3>1, <3>4, <3>5
  <2>3. CASE x # e
    <3>1. (Wrote(j, x)' <=> Wrote(j, x)) /\ View(j, x)' = View(j, x)
      BY <1>0, <1>1, <2>3 DEF Wrote, View, Entity, Table, SameStore
    <3>2. Tells(Append(s, d), x, View(j, x)) /\ Keeps(Append(s, d), x, View(j, x), Current(x))
      BY <1>0, <2>0, <2>3, TellsAppendOther, KeepsAppendOther
    <3>. QED BY <1>0, <1>1, <2>0, <2>1, <2>3, <3>1, <3>2
  <2>. QED BY <2>2, <2>3
<1>. QED BY <1>2, <1>3, TellsAfter

LEMMA TellsTable ==
    ASSUME Typed, NEW j \in Jobs, TxTells(j), NEW t, NEW val, TableStep(j, t, val)
    PROVE  TxTells(j)'
<1>. PICK s, w, d : s = tx[j].trail /\ w = [value |-> val] /\ d = Event(j, t, w, w)
  OBVIOUS
<1>0. /\ s \in Seq(Change) /\ t \in Tables /\ t \notin Jobs /\ val \in Text /\ val # "" /\ SameStore
      /\ d.by = j /\ d.of = t /\ d.set = w /\ d.after = w
  BY RegistryPlain DEF TableStep, WritesTable, Going, Typed, Writes, Event
<1>d. d \in Change
  BY <1>0 DEF Event, Change, Cell
<1>1. /\ tx'[j].trail = Append(s, d) /\ tx'[j].entity = tx[j].entity
      /\ \A x \in Tables : tx'[j].table[x] = IF x = t THEN val ELSE tx[j].table[x]
  BY DEF TableStep, WritesTable, Typed, Writes
<1>2. \A n \in DOMAIN tx'[j].trail : tx'[j].trail[n].by = j
  <2>1. \A n \in DOMAIN s : s[n].by = j
    BY DEF TxTells
  <2>2. s \in Seq(Change) /\ d \in Change /\ d.by = j /\ tx'[j].trail = Append(s, d)
    BY <1>0, <1>d, <1>1
  <2>3. \A n \in DOMAIN Append(s, d) : Append(s, d)[n].by = j
    BY ONLY <2>1, <2>2, AuthorAppend, SMT
  <2>. QED BY <2>2, <2>3, Zenon
<1>3. ASSUME NEW x \in Jobs \cup Tables
      PROVE  /\ Wrote(j, x)' <=> Touches(tx'[j].trail, x)
             /\ Tells(tx'[j].trail, x, View(j, x)')
             /\ Keeps(tx'[j].trail, x, View(j, x)', Current(x)')
  <2>0. /\ Wrote(j, x) <=> Touches(s, x)
        /\ Tells(s, x, View(j, x))
        /\ Keeps(s, x, View(j, x), Current(x))
        /\ Touches(Append(s, d), x) <=> (Touches(s, x) \/ d.of = x)
    BY <1>0, <1>d, TouchesAppend DEF TxTells
  <2>1. Current(x)' = Current(x)
    BY <1>0 DEF SameStore, Current
  <2>2. CASE x = t
    <3>1. Wrote(j, x)' /\ View(j, x)' = w
      BY <1>0, <1>1, <2>2 DEF Wrote, View, Table
    <3>2. View(j, x) = [value |-> Table(j, t)]
      BY <1>0, <2>2 DEF View
    <3>3. DOMAIN View(j, x) = {"value"} /\ DOMAIN w = {"value"}
      BY <3>2
    <3>4. Tells(Append(s, d), x, w)
      BY <1>0, <1>d, <2>0, <2>2, <3>3, TellsAppend
    <3>5. Keeps(Append(s, d), x, w, Current(x))
      BY <1>0, <1>d, <2>0, <2>2, <3>3, KeepsAppend
    <3>. QED BY <1>0, <1>1, <2>0, <2>1, <2>2, <3>1, <3>4, <3>5
  <2>3. CASE x # t
    <3>1. (Wrote(j, x)' <=> Wrote(j, x)) /\ View(j, x)' = View(j, x)
      BY <1>0, <1>1, <2>3 DEF Wrote, View, Entity, Table, SameStore
    <3>2. Tells(Append(s, d), x, View(j, x)) /\ Keeps(Append(s, d), x, View(j, x), Current(x))
      BY <1>0, <1>d, <2>0, <2>3, TellsAppendOther, KeepsAppendOther
    <3>. QED BY <1>0, <1>1, <2>0, <2>1, <2>3, <3>1, <3>2
  <2>. QED BY <2>2, <2>3
<1>. QED BY <1>2, <1>3, TellsAfter

LEMMA TellsEnded ==
    ASSUME NEW j \in Jobs, Ended(j) PROVE TxTells(j)'
<1>1. /\ tx'[j].trail = <<>> /\ \A e \in Jobs : tx'[j].entity[e] = NoRow
      /\ \A t \in Tables : tx'[j].table[t] = ""
  BY NothingFacts DEF Ended
<1>2. \A n \in DOMAIN tx'[j].trail : tx'[j].trail[n].by = j
  <2>1. DOMAIN tx'[j].trail = {}
    BY <1>1, EmptyTrail, Zenon
  <2>. QED BY <2>1
<1>3. ASSUME NEW x \in Jobs \cup Tables
      PROVE  /\ Wrote(j, x)' <=> Touches(tx'[j].trail, x)
             /\ Tells(tx'[j].trail, x, View(j, x)')
             /\ Keeps(tx'[j].trail, x, View(j, x)', Current(x)')
  <2>1. ~Wrote(j, x)' /\ View(j, x)' = Current(x)'
    BY <1>1 DEF Wrote, View, Current, Entity, Table
  <2>2. ~Touches(tx'[j].trail, x)
    BY <1>1, EmptyTrail, Zenon
  <2>. QED BY <2>1, <2>2, Untouched
<1>. QED BY <1>2, <1>3, TellsAfter

LEMMA TellsOwn ==
    ASSUME Typed, NEW j \in Jobs, TxTells(j), RegistryEffect(j) PROVE TxTells(j)'
<1>1. CASE Starts(j) \/ Reads(j)
  BY <1>1, TellsSame DEF Starts, Reads
<1>2. CASE RollsBack(j) \/ Commits(j)
  BY <1>2, TellsEnded DEF RollsBack, Commits
<1>3. CASE \E e, set, row : EntityStep(j, e, set, row)
  BY <1>3, TellsEntity
<1>4. CASE \E t, val : TableStep(j, t, val)
  BY <1>4, TellsTable
<1>5. CASE \E i : IdentStep(j, i)
  BY <1>5, TellsSame DEF IdentStep, WritesIdent, Going
<1>6. CASE \E C : WritesCreates(j, C)
  BY <1>6, TellsSame DEF WritesCreates, Going
<1>. QED BY <1>1, <1>2, <1>3, <1>4, <1>5, <1>6 DEF RegistryEffect

LEMMA TrailKept ==
    ASSUME LocksHold, NEW j \in Jobs, TxTells(j), RegistryTrail, RegistryEffect(j), Others(j)
    PROVE  RegistryTrail'
<1>0. /\ at[j] # "done" /\ Typed /\ trail \in Seq(Change) /\ tx[j].trail \in Seq(Change)
  BY DEF RegistryEffect, Starts, Reads, RollsBack, Commits, EntityStep, IdentStep, TableStep,
         WritesEntity, WritesIdent, WritesTable, WritesCreates, Going, Alone, LocksHold,
         RegistryPhases, Typed, StoreTypes, Writes
<1>1. ASSUME NEW n \in DOMAIN trail PROVE at'[trail[n].by] = "done"
  <2>1. trail[n] \in Change
    BY <1>0
  <2>2. trail[n].by \in Jobs
    BY <2>1 DEF Change
  <2>. QED BY <1>0, <2>2 DEF RegistryTrail, Others
<1>2. CASE SameStore
  <2>1. trail' = trail /\ \A x : Current(x)' = Current(x)
    BY <1>2 DEF SameStore, Current
  <2>2. \A n \in DOMAIN trail' : at'[trail'[n].by] = "done"
    BY <1>1, <2>1
  <2>3. \A x \in Jobs \cup Tables : Tells(trail', x, Current(x)')
    BY <2>1 DEF RegistryTrail
  <2>. QED BY <2>2, <2>3 DEF RegistryTrail, Tells
<1>3. CASE ~SameStore
  <2>1. Commits(j)
    BY <1>3 DEF RegistryEffect, Starts, Reads, RollsBack, EntityStep, IdentStep, TableStep,
                WritesEntity, WritesIdent, WritesTable, WritesCreates, Going
  <2>2. trail' = trail \o tx[j].trail /\ at'[j] = "done"
    BY <2>1 DEF Commits, Ended
  <2>3. ASSUME NEW n \in DOMAIN trail' PROVE at'[trail'[n].by] = "done"
    <3>1. \/ n \in DOMAIN trail /\ trail'[n] = trail[n]
          \/ \E m \in DOMAIN tx[j].trail : trail'[n] = tx[j].trail[m]
      BY <1>0, <2>2, ConcatAt
    <3>2. \A m \in DOMAIN tx[j].trail : tx[j].trail[m].by = j
      BY DEF TxTells
    <3>. QED BY <1>1, <2>2, <3>1, <3>2
  <2>4. ASSUME NEW x \in Jobs \cup Tables PROVE Tells(trail', x, Current(x)')
    <3>1. Current(x)' = View(j, x)
      BY <2>1 DEF Commits, Current, View
    <3>2. /\ Tells(tx[j].trail, x, View(j, x)) /\ Tells(trail, x, Current(x))
          /\ Keeps(tx[j].trail, x, View(j, x), Current(x))
          /\ Wrote(j, x) <=> Touches(tx[j].trail, x)
      BY DEF TxTells, RegistryTrail
    <3>3. DOMAIN View(j, x) = DOMAIN Current(x) /\ (~Wrote(j, x) => View(j, x) = Current(x))
      BY <1>0, ViewFacts
    <3>4. Tells(trail \o tx[j].trail, x, View(j, x))
      BY <1>0, <3>2, <3>3, TellsConcat
    <3>. QED BY <2>2, <3>1, <3>4
  <2>. QED BY <2>3, <2>4 DEF RegistryTrail, Tells
<1>. QED BY <1>2, <1>3

LEMMA TrailsNext == TrailsInv /\ [RegistryNext]_registryVars => TrailsInv'
<1>. SUFFICES ASSUME TrailsInv, [RegistryNext]_registryVars PROVE TrailsInv'
  OBVIOUS
<1>0. LocksHold /\ LocksHold' /\ Typed
  BY LocksNext DEF TrailsInv, LocksHold, RegistryPhases
<1>1. CASE UNCHANGED registryVars
  <2>1. SameStore /\ tx' = tx /\ at' = at
    BY <1>1 DEF registryVars, dbVars, jobVars, SameStore
  <2>2. ASSUME NEW j \in Jobs PROVE TxTells(j)'
    BY <2>1, TellsSame DEF TrailsInv
  <2>3. RegistryTrail'
    <3>1. trail' = trail /\ \A x : Current(x)' = Current(x)
      BY <2>1 DEF SameStore, Current
    <3>2. \A x \in Jobs \cup Tables : Tells(trail', x, Current(x)')
      BY <3>1 DEF TrailsInv, RegistryTrail
    <3>3. \A n \in DOMAIN trail' : at'[trail'[n].by] = "done"
      BY <2>1, <3>1 DEF TrailsInv, RegistryTrail
    <3>. QED BY <3>2, <3>3 DEF RegistryTrail, Tells
  <2>. QED BY <1>0, <2>2, <2>3 DEF TrailsInv
<1>2. ASSUME NEW j \in Jobs, JobStep(j) \/ Fails(j) PROVE TrailsInv'
  <2>1. RegistryEffect(j) /\ Others(j) /\ TxTells(j) /\ RegistryTrail
    BY <1>0, <1>2, RegistryStep DEF TrailsInv
  <2>2. TxTells(j)' /\ RegistryTrail'
    BY <1>0, <2>1, TellsOwn, TrailKept
  <2>3. ASSUME NEW k \in Jobs \ {j} PROVE TxTells(k)'
    <3>1. NoneOfBoth(tx[j], tx[k])
      BY <1>0 DEF LocksHold, Apart
    <3>2. \A x \in Jobs \cup Tables : Wrote(j, x) => ~Wrote(k, x)
      BY <3>1 DEF Wrote, NoneOfBoth
    <3>. QED BY <1>0, <2>1, <3>2, TellsOthers DEF TrailsInv
  <2>. QED BY <1>0, <2>2, <2>3 DEF TrailsInv
<1>. QED BY <1>1, <1>2 DEF RegistryNext

LEMMA TrailsInit == RegistryInit => TrailsInv
<1>. SUFFICES ASSUME RegistryInit PROVE TrailsInv
  OBVIOUS
<1>1. LocksHold
  BY LocksInit
<1>2. trail = <<>> /\ \A j \in Jobs : tx[j] = Nothing
  BY DEF RegistryInit
<1>3. ASSUME NEW j \in Jobs PROVE TxTells(j)
  <2>1. /\ tx[j].trail = <<>> /\ \A e \in Jobs : tx[j].entity[e] = NoRow
        /\ \A t \in Tables : tx[j].table[t] = ""
    BY <1>2, NothingFacts
  <2>2. ASSUME NEW x \in Jobs \cup Tables PROVE ~Wrote(j, x) /\ View(j, x) = Current(x)
    BY <2>1 DEF Wrote, View, Current, Entity, Table
  <2>3. ASSUME NEW x \in Jobs \cup Tables PROVE ~Touches(tx[j].trail, x)
    BY <2>1, EmptyTrail, Zenon
  <2>4. \A n \in DOMAIN tx[j].trail : tx[j].trail[n].by = j
    <3>1. DOMAIN tx[j].trail = {}
      BY <2>1, EmptyTrail, Zenon
    <3>. QED BY <3>1
  <2>. QED BY <2>2, <2>3, <2>4, Untouched DEF TxTells
<1>4. RegistryTrail
  BY <1>2 DEF RegistryTrail, Tells
<1>. QED BY <1>1, <1>3, <1>4 DEF TrailsInv

(* The committed audit trail tells the rows, for any jobs and any order of *)
(* their statements and commits: no update undoes a field that another one *)
(* set, and the last event of a row ends with the row.                     *)
THEOREM RegistryTrailTellsRows == RegistrySpec => []TrailTellsRows
<1>1. TrailsInv => TrailTellsRows
  <2>1. SUFFICES ASSUME TrailsInv PROVE TrailTellsRows
    OBVIOUS
  <2>2. ASSUME NEW n \in DOMAIN trail
        PROVE  trail[n].of \in Jobs \cup Tables /\ Tells(trail, trail[n].of, Current(trail[n].of))
    <3>1. trail[n] \in Change
      BY <2>1 DEF TrailsInv, LocksHold, RegistryPhases, Typed, StoreTypes
    <3>2. trail[n].of \in Jobs \cup Tables
      BY <3>1 DEF Change
    <3>. QED BY <2>1, <3>2 DEF TrailsInv, RegistryTrail
  <2>. QED BY <2>2 DEF TrailTellsRows, Tells, Changes
<1>. QED BY <1>1, TrailsInit, TrailsNext, PTL DEF RegistrySpec

-----------------------------------------------------------------------------
(* Versions: each was captured from a change, and each change of an entity *)
(* has one of its transaction; b gives the times at which jobs began.      *)
Captured(v, c, b) == c.of = v.entity /\ v.row = c.after /\ v.asof = b[c.by]

VersionsOf(V, s, b) ==
    /\ \A v \in V : \E n \in DOMAIN s : Captured(v, s[n], b)
    /\ \A n \in DOMAIN s : s[n].of \in Jobs =>
          \E v \in V : v.entity = s[n].of /\ v.asof = b[s[n].by]

VersionsInv ==
    /\ \A j \in Jobs : began[j] <= clock /\ VersionsOf(tx[j].versions, tx[j].trail, began)
    /\ VersionsOf(versions, trail, began)

LEMMA VersionsTimes ==
    ASSUME NEW V, NEW s, NEW b, NEW c, VersionsOf(V, s, b),
           \A n \in DOMAIN s : c[s[n].by] = b[s[n].by]
    PROVE  VersionsOf(V, s, c)
BY DEF VersionsOf, Captured

LEMMA VersionsAppend ==
    ASSUME NEW s \in Seq(Change), NEW d \in Change, NEW V, NEW W, NEW b, NEW j, VersionsOf(V, s, b),
           d.by = j, \A n \in DOMAIN s : s[n].by = j, V \subseteq W,
           \A v \in W : v \in V \/ Captured(v, d, b),
           d.of \in Jobs => \E v \in W : v.entity = d.of
    PROVE  VersionsOf(W, Append(s, d), b)
<1>. PICK u, L : u = Append(s, d) /\ L = Len(s)
  OBVIOUS
<1>0. /\ L \in Nat /\ DOMAIN s = 1..L /\ DOMAIN u = 1..(L + 1)
      /\ \A n \in 1..L : u[n] = s[n]
      /\ u[L + 1] = d
  BY AppendAt
<1>1. /\ L + 1 \in DOMAIN u /\ \A n \in DOMAIN s : n \in DOMAIN u /\ u[n] = s[n]
      /\ \A n \in DOMAIN u : n \in DOMAIN s \/ n = L + 1
  BY <1>0
<1>2. ASSUME NEW v \in W PROVE \E n \in DOMAIN u : Captured(v, u[n], b)
  <2>1. CASE v \in V
    BY <1>1, <2>1 DEF VersionsOf
  <2>2. CASE v \notin V
    BY <1>0, <1>1, <2>2
  <2>. QED BY <2>1, <2>2
<1>3. \A v \in W : v.asof = b[j]
  <2>1. ASSUME NEW v \in W PROVE v.asof = b[j]
    <3>1. PICK n \in DOMAIN u : Captured(v, u[n], b)
      BY <1>2
    <3>2. u[n].by = j
      BY <1>0, <1>1
    <3>. QED BY <3>1, <3>2 DEF Captured
  <2>. QED BY <2>1
<1>4. ASSUME NEW n \in DOMAIN u, u[n].of \in Jobs
      PROVE  \E v \in W : v.entity = u[n].of /\ v.asof = b[u[n].by]
  <2>1. CASE n \in DOMAIN s
    BY <1>1, <1>4, <2>1 DEF VersionsOf
  <2>2. CASE n = L + 1
    BY <1>0, <1>3, <1>4, <2>2
  <2>. QED BY <1>1, <2>1, <2>2
<1>. QED BY <1>2, <1>4 DEF VersionsOf

LEMMA VersionsConcat ==
    ASSUME NEW s \in Seq(Change), NEW t \in Seq(Change), NEW V, NEW W, NEW b,
           VersionsOf(V, s, b), VersionsOf(W, t, b)
    PROVE  VersionsOf(V \cup W, s \o t, b)
<1>. PICK u, L, K : u = s \o t /\ L = Len(s) /\ K = Len(t)
  OBVIOUS
<1>0. /\ L \in Nat /\ K \in Nat /\ DOMAIN s = 1..L /\ DOMAIN t = 1..K /\ DOMAIN u = 1..(L + K)
      /\ \A n \in 1..L : u[n] = s[n]
      /\ \A n \in 1..K : u[L + n] = t[n]
      /\ \A n \in 1..(L + K) : n \in 1..L \/ (n - L \in 1..K /\ u[n] = t[n - L])
  BY ConcatAt
<1>1. \A n \in DOMAIN s : n \in DOMAIN u /\ u[n] = s[n]
  BY <1>0
<1>2. \A n \in DOMAIN t : L + n \in DOMAIN u /\ u[L + n] = t[n]
  BY <1>0
<1>3. \A n \in DOMAIN u : (n \in DOMAIN s /\ u[n] = s[n]) \/ \E m \in DOMAIN t : u[n] = t[m]
  BY <1>0
<1>4. ASSUME NEW v \in V \cup W PROVE \E n \in DOMAIN u : Captured(v, u[n], b)
  <2>1. CASE v \in V
    BY <1>1, <2>1 DEF VersionsOf
  <2>2. CASE v \in W
    <3>1. PICK n \in DOMAIN t : Captured(v, t[n], b)
      BY <2>2 DEF VersionsOf
    <3>. QED BY <1>2, <3>1
  <2>. QED BY <2>1, <2>2
<1>5. ASSUME NEW n \in DOMAIN u, u[n].of \in Jobs
      PROVE  \E v \in V \cup W : v.entity = u[n].of /\ v.asof = b[u[n].by]
  <2>1. CASE n \in DOMAIN s /\ u[n] = s[n]
    BY <1>5, <2>1 DEF VersionsOf
  <2>2. CASE \E m \in DOMAIN t : u[n] = t[m]
    BY <1>5, <2>2 DEF VersionsOf
  <2>. QED BY <1>3, <2>1, <2>2
<1>. QED BY <1>4, <1>5 DEF VersionsOf

LEMMA VersionsOwn ==
    ASSUME Typed, NEW j \in Jobs, AtCall(j), TxTells(j), RegistryEffect(j), Others(j),
           VersionsOf(tx[j].versions, tx[j].trail, began)
    PROVE  VersionsOf(tx'[j].versions, tx'[j].trail, began')
<1>0. tx[j].trail \in Seq(Change) /\ \A n \in DOMAIN tx[j].trail : tx[j].trail[n].by = j
  BY DEF Typed, Writes, TxTells
<1>e. VersionsOf({}, <<>>, began')
  BY EmptyTrail, Zenon DEF VersionsOf
<1>1. CASE Starts(j)
  <2>1. tx'[j] = Nothing
    BY <1>1 DEF Starts, AtCall
  <2>2. tx'[j].versions = {} /\ tx'[j].trail = <<>>
    BY <2>1, NothingFacts
  <2>. QED BY <1>e, <2>2, Zenon
<1>2. CASE Reads(j)
  BY <1>2 DEF Reads, Alone
<1>3. CASE RollsBack(j) \/ Commits(j)
  <2>1. tx'[j] = Nothing
    BY <1>3 DEF RollsBack, Commits, Ended
  <2>2. tx'[j].versions = {} /\ tx'[j].trail = <<>>
    BY <2>1, NothingFacts
  <2>. QED BY <1>e, <2>2, Zenon
<1>4. ASSUME NEW e, NEW set, NEW row, EntityStep(j, e, set, row)
      PROVE  VersionsOf(tx'[j].versions, tx'[j].trail, began')
  <2>. PICK s, d, V, W : /\ s = tx[j].trail /\ d = Event(j, e, set, row)
                         /\ V = tx[j].versions /\ W = Capture(j, e, row)
    OBVIOUS
  <2>1. /\ tx'[j].trail = Append(s, d) /\ tx'[j].versions = W /\ began' = began /\ d \in Change
        /\ d.by = j /\ d.of = e /\ d.after = row
    BY <1>4 DEF EntityStep, WritesEntity, Going, Alone, Event
  <2>2. /\ V \subseteq W /\ \A v \in W : v \in V \/ Captured(v, d, began)
        /\ \E v \in W : v.entity = e
    <3>1. CASE \E v \in V : v.entity = e
      BY <3>1 DEF Capture
    <3>2. CASE ~ \E v \in V : v.entity = e
      <4>1. PICK n : n = [entity |-> e, asof |-> began[j], row |-> row]
        OBVIOUS
      <4>2. n.entity = e /\ Captured(n, d, began)
        BY <2>1, <4>1 DEF Captured
      <4>3. W = V \cup {n}
        BY <3>2, <4>1 DEF Capture
      <4>. QED BY <4>2, <4>3
    <3>. QED BY <3>1, <3>2
  <2>3. VersionsOf(V, s, began) /\ s \in Seq(Change) /\ \A n \in DOMAIN s : s[n].by = j
    BY <1>0
  <2>4. VersionsOf(W, Append(s, d), began)
    BY ONLY <2>1, <2>2, <2>3, VersionsAppend, SMT
  <2>. QED BY <2>1, <2>4
<1>5. ASSUME NEW t, NEW val, TableStep(j, t, val)
      PROVE  VersionsOf(tx'[j].versions, tx'[j].trail, began')
  <2>. PICK s, w, d, V : /\ s = tx[j].trail /\ w = [value |-> val] /\ d = Event(j, t, w, w)
                         /\ V = tx[j].versions
    OBVIOUS
  <2>1. /\ tx'[j].trail = Append(s, d) /\ tx'[j].versions = V /\ began' = began
        /\ d.by = j /\ d.of = t /\ t \in Tables /\ val \in Text
    BY <1>5 DEF TableStep, WritesTable, Going, Alone, Event
  <2>2. d \in Change /\ d.of \notin Jobs
    BY <2>1, RegistryPlain DEF Event, Change, Cell
  <2>3. VersionsOf(V, s, began) /\ s \in Seq(Change) /\ \A n \in DOMAIN s : s[n].by = j
    BY <1>0
  <2>4. VersionsOf(V, Append(s, d), began)
    BY ONLY <2>1, <2>2, <2>3, VersionsAppend, SMT
  <2>. QED BY <2>1, <2>4
<1>6. CASE \E i : IdentStep(j, i)
  BY <1>6 DEF IdentStep, WritesIdent, Going, Alone
<1>7. CASE \E C : WritesCreates(j, C)
  BY <1>7 DEF WritesCreates, Going, Alone
<1>. QED BY <1>1, <1>2, <1>3, <1>4, <1>5, <1>6, <1>7 DEF RegistryEffect

(* The times of the jobs that have written do not change.                  *)
LEMMA TimesKept ==
    ASSUME Typed, NEW j \in Jobs, RegistryEffect(j)
    PROVE  /\ \A k \in Jobs : at[k] # "new" => began'[k] = began[k]
           /\ \A k \in Jobs \ {j} : began'[k] = began[k]
<1>1. CASE Starts(j)
  BY <1>1 DEF Starts, Typed
<1>2. CASE ~Starts(j)
  BY <1>2 DEF RegistryEffect, Reads, RollsBack, Commits, EntityStep, IdentStep, TableStep,
              WritesEntity, WritesIdent, WritesTable, WritesCreates, Going, Alone
<1>. QED BY <1>1, <1>2

LEMMA VersionsNext == TrailsInv /\ VersionsInv /\ [RegistryNext]_registryVars => VersionsInv'
<1>. SUFFICES ASSUME TrailsInv, VersionsInv, [RegistryNext]_registryVars PROVE VersionsInv'
  OBVIOUS
<1>0. /\ LocksHold /\ Typed /\ RegistryTrail /\ \A j \in Jobs : TxTells(j) /\ AtCall(j)
      /\ trail \in Seq(Change)
  BY DEF TrailsInv, LocksHold, RegistryPhases, Typed, StoreTypes
<1>a. ASSUME /\ \A j \in Jobs : /\ began'[j] <= clock'
                                /\ VersionsOf(tx'[j].versions, tx'[j].trail, began')
             /\ VersionsOf(versions', trail', began')
      PROVE  VersionsInv'
  BY <1>a DEF VersionsInv, VersionsOf, Captured
<1>1. CASE UNCHANGED registryVars
  <2>1. /\ began' = began /\ clock' = clock /\ tx' = tx /\ versions' = versions /\ trail' = trail
    BY <1>1 DEF registryVars, dbVars, jobVars
  <2>. QED BY <1>a, <2>1 DEF VersionsInv
<1>2. ASSUME NEW j \in Jobs, JobStep(j) \/ Fails(j) PROVE VersionsInv'
  <2>1. RegistryEffect(j) /\ Others(j)
    BY <1>0, <1>2, RegistryStep
  <2>2. ASSUME NEW k \in Jobs PROVE began'[k] <= clock'
    <3>0. began[k] <= clock /\ began[k] \in Nat /\ clock \in Nat /\ began \in [Jobs -> Nat]
      BY <1>0 DEF VersionsInv, Typed
    <3>1. CASE Starts(j)
      <4>1. clock' = clock + 1 /\ began' = [began EXCEPT ![j] = clock + 1]
        BY <3>1 DEF Starts
      <4>2. CASE k = j
        BY <3>0, <4>1, <4>2
      <4>3. CASE k # j
        BY <3>0, <4>1, <4>3
      <4>. QED BY <4>2, <4>3
    <3>2. CASE ~Starts(j)
      <4>1. clock' = clock /\ began' = began
        BY <2>1, <3>2 DEF RegistryEffect, Reads, RollsBack, Commits, EntityStep, IdentStep,
           TableStep, WritesEntity, WritesIdent, WritesTable, WritesCreates, Going, Alone
      <4>. QED BY <3>0, <4>1
    <3>. QED BY <3>1, <3>2
  <2>3. VersionsOf(tx'[j].versions, tx'[j].trail, began')
    BY <1>0, <2>1, VersionsOwn DEF VersionsInv
  <2>4. ASSUME NEW k \in Jobs \ {j} PROVE VersionsOf(tx'[k].versions, tx'[k].trail, began')
    <3>1. tx'[k] = tx[k] /\ began'[k] = began[k]
      BY <1>0, <2>1, TimesKept DEF Others
    <3>2. \A n \in DOMAIN tx[k].trail : tx[k].trail[n].by = k
      BY <1>0 DEF TxTells
    <3>3. VersionsOf(tx[k].versions, tx[k].trail, began)
      BY DEF VersionsInv
    <3>4. VersionsOf(tx[k].versions, tx[k].trail, began')
      BY <3>1, <3>2, <3>3, VersionsTimes
    <3>. QED BY <3>1, <3>4
  <2>5. VersionsOf(versions, trail, began')
    <3>1. ASSUME NEW n \in DOMAIN trail PROVE began'[trail[n].by] = began[trail[n].by]
      <4>1. trail[n] \in Change
        BY <1>0
      <4>2. trail[n].by \in Jobs
        BY <4>1 DEF Change
      <4>3. at[trail[n].by] = "done"
        BY <1>0 DEF RegistryTrail
      <4>. QED BY <1>0, <2>1, <4>2, <4>3, TimesKept
    <3>2. VersionsOf(versions, trail, began)
      BY DEF VersionsInv
    <3>. QED BY <3>1, <3>2, VersionsTimes
  <2>6. VersionsOf(versions', trail', began')
    <3>1. CASE SameStore
      BY <2>5, <3>1 DEF SameStore
    <3>2. CASE ~SameStore
      <4>1. Commits(j)
        BY <2>1, <3>2 DEF RegistryEffect, Starts, Reads, RollsBack, EntityStep, IdentStep,
                  TableStep, WritesEntity, WritesIdent, WritesTable, WritesCreates, Going
      <4>2. /\ versions' = versions \cup tx[j].versions /\ trail' = trail \o tx[j].trail
            /\ began' = began
        BY <4>1 DEF Commits, Alone
      <4>3. VersionsOf(tx[j].versions, tx[j].trail, began) /\ VersionsOf(versions, trail, began)
        BY DEF VersionsInv
      <4>4. tx[j].trail \in Seq(Change)
        BY <1>0 DEF Typed, Writes
      <4>5. VersionsOf(versions \cup tx[j].versions, trail \o tx[j].trail, began)
        BY <1>0, <4>3, <4>4, VersionsConcat
      <4>. QED BY <4>2, <4>5
    <3>. QED BY <3>1, <3>2
  <2>7. ASSUME NEW k \in Jobs
        PROVE  began'[k] <= clock' /\ VersionsOf(tx'[k].versions, tx'[k].trail, began')
    BY <2>2, <2>3, <2>4
  <2>. QED BY <1>a, <2>6, <2>7
<1>. QED BY <1>1, <1>2 DEF RegistryNext

LEMMA VersionsInit == RegistryInit => VersionsInv
<1>. SUFFICES ASSUME RegistryInit PROVE VersionsInv
  OBVIOUS
<1>1. VersionsOf({}, <<>>, began)
  BY EmptyTrail, Zenon DEF VersionsOf
<1>2. /\ versions = {} /\ trail = <<>> /\ \A j \in Jobs : began[j] = 0 /\ clock = 0
      /\ \A j \in Jobs : tx[j].versions = {} /\ tx[j].trail = <<>>
  BY NothingFacts DEF RegistryInit
<1>3. \A j \in Jobs : began[j] <= clock
  BY <1>2
<1>4. VersionsOf(versions, trail, began)
  BY <1>1, <1>2, Zenon
<1>5. ASSUME NEW j \in Jobs PROVE VersionsOf(tx[j].versions, tx[j].trail, began)
  BY <1>1, <1>2, Zenon
<1>. QED BY <1>3, <1>4, <1>5 DEF VersionsInv

LEMMA HistoryTold ==
    ASSUME TrailsInv, VersionsInv, NEW e \in Jobs, NEW n \in Changes(e),
           \A m \in Changes(e) \ {n} : m < n /\ began[trail[m].by] < began[trail[n].by]
    PROVE  {v.row : v \in EntityAt(e, clock)} = {entity[e]}
<1>. PICK b : b = began[trail[n].by]
  OBVIOUS
<1>0. /\ trail \in Seq(Change) /\ began \in [Jobs -> Nat] /\ clock \in Nat
      /\ versions \in SUBSET Version
  BY DEF TrailsInv, LocksHold, RegistryPhases, Typed, StoreTypes
<1>1. n \in DOMAIN trail /\ trail[n].of = e /\ n \in Nat
  BY <1>0 DEF Changes
<1>2. \A m \in DOMAIN trail : trail[m].by \in Jobs /\ m \in Nat
  <2>1. \A m \in DOMAIN trail : trail[m] \in Change /\ m \in Nat
    BY <1>0
  <2>. QED BY <2>1 DEF Change
<1>3. b \in Nat /\ b <= clock
  BY <1>0, <1>1, <1>2 DEF VersionsInv
<1>4. \A m \in DOMAIN trail : trail[m].of = e /\ m # n => m < n /\ began[trail[m].by] < b
  BY DEF Changes
<1>5. trail[n].after = entity[e]
  <2>1. \A m \in DOMAIN trail : trail[m].of = e => m <= n
    BY <1>1, <1>2, <1>4
  <2>2. Tells(trail, e, Current(e))
    BY DEF TrailsInv, RegistryTrail
  <2>. QED BY <1>1, <2>1, <2>2 DEF Tells, Current
<1>6. PICK u \in versions : u.entity = e /\ u.asof = b
  BY <1>1 DEF VersionsInv, VersionsOf
<1>7. ASSUME NEW w \in versions, w.entity = e
      PROVE  w.asof \in Nat /\ w.asof <= b /\ (w.asof = b => w.row = entity[e])
  <2>1. PICK m \in DOMAIN trail : Captured(w, trail[m], began)
    BY DEF VersionsInv, VersionsOf
  <2>2. trail[m].of = e /\ w.row = trail[m].after /\ w.asof = began[trail[m].by]
    BY <1>7, <2>1 DEF Captured
  <2>3. w.asof \in Nat
    BY <1>0, <1>2, <2>2
  <2>4. CASE m = n
    BY <1>3, <1>5, <2>2, <2>3, <2>4
  <2>5. CASE m # n
    <3>1. w.asof < b
      BY <1>4, <2>2, <2>5
    <3>. QED BY <1>3, <2>3, <3>1
  <2>. QED BY <2>4, <2>5
<1>8. u \in EntityAt(e, clock)
  BY <1>3, <1>6, <1>7 DEF EntityAt
<1>9. ASSUME NEW v \in EntityAt(e, clock) PROVE v.row = entity[e]
  <2>1. v \in versions /\ v.entity = e /\ u.asof <= v.asof
    BY <1>3, <1>6, <1>9 DEF EntityAt
  <2>2. v.asof \in Nat /\ v.asof <= b /\ (v.asof = b => v.row = entity[e])
    BY <1>7, <2>1
  <2>. QED BY <1>3, <1>6, <2>1, <2>2
<1>10. u.row = entity[e]
  BY <1>8, <1>9
<1>. QED BY <1>8, <1>9, <1>10

(* The history tells the present, for any jobs and any order of their      *)
(* statements and commits: where the last change of an entity is the only  *)
(* one of the transaction that began last among those that changed it, the *)
(* newest version is the row.                                              *)
THEOREM HistoryTellsPresent == RegistrySpec => []HistoryTellsEntity
<1>1. TrailsInv /\ VersionsInv => HistoryTellsEntity
  BY HistoryTold DEF HistoryTellsEntity
<1>. QED BY <1>1, TrailsInit, TrailsNext, VersionsInit, VersionsNext, PTL DEF RegistrySpec

=============================================================================
