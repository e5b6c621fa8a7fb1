------------------------ MODULE OutboxDrainerProofs ------------------------
(***************************************************************************)
(* Proofs about OutboxDrainer: types, that a published row names an        *)
(* indexed Redis copy of its own event and keeps naming it, that the       *)
(* batch audits add up, and that unindexed copies are counted gaps.        *)
(***************************************************************************)
EXTENDS OutboxDrainer, TLAPS, SequenceTheorems, FiniteSetTheorems

RowTypes ==
    /\ created \in Seq(Events)
    /\ published \in [Events -> Nat] /\ attempts \in [Events -> 0..AlertAfter+1]
    /\ lock \in [Events -> Drainers \cup {None}]

RedisTypes == stream \in Seq(Events) /\ trimmed \in Nat /\ index \subseteq Nat

LocalTypes ==
    /\ pc \in [Drainers -> PCs]
    /\ todo \in [Drainers -> SUBSET Events]
    /\ cur \in [Drainers -> Events \cup {None}]
    /\ low \in [Drainers -> Nat] /\ rid \in [Drainers -> Nat]
    /\ cursor \in [Drainers -> Nat] /\ upper \in [Drainers -> Nat]
    /\ marks \in [Drainers -> [Events -> Nat]]
    /\ bumps \in [Drainers -> SUBSET Events]
    /\ drained \in [Drainers -> Nat]

CountTypes == audited \in Nat /\ faults \in [all : 0..MaxFaults, gaps : Nat]

(* A drainer in the middle of a row has a current row.                     *)
RowSteps == {"xadd", "index", "mark", "recover", "scan", "bump"}
HasRow == \A d \in Drainers : pc[d] \in RowSteps => cur[d] \in Events

Types == RowTypes /\ RedisTypes /\ LocalTypes /\ CountTypes /\ HasRow

LEMMA TypesAreTypeOK == Types => TypeOK
  BY DEF Types, RowTypes, RedisTypes, LocalTypes, CountTypes, TypeOK

-----------------------------------------------------------------------------
LEMMA TailType == ASSUME Types PROVE StreamTail \in Nat
  BY LenProperties DEF Types, RedisTypes, StreamTail

LEMMA FaultType == ASSUME Types, NEW k, Fault(k) PROVE faults' \in [all : 0..MaxFaults, gaps : Nat]
  BY DrainerConstants DEF Types, CountTypes, Fault

LEMMA RedisAcceptsTypes ==
    ASSUME Types, NEW e \in Events, RedisAccepts(e), index' = index PROVE RedisTypes'
<1>1. stream' \in Seq(Events)
  BY AppendProperties DEF RedisAccepts, Types, RedisTypes
<1>2. trimmed' \in Nat
  <2>1. trimmed \in Nat /\ StreamTail \in Nat
    BY TailType DEF Types, RedisTypes
  <2> QED BY <2>1 DEF RedisAccepts
<1> QED BY <1>1, <1>2 DEF Types, RedisTypes

LEMMA EndTransactionTypes ==
    ASSUME NEW d \in Drainers, Types, EndTransaction(d)
    PROVE  LocalTypes' /\ HasRow' /\ lock' \in [Events -> Drainers \cup {None}]
<1>1. LocalTypes'
  BY DEF EndTransaction, Types, LocalTypes, PCs
<1>2. HasRow'
  BY DEF EndTransaction, Types, LocalTypes, HasRow, RowSteps
<1> QED BY <1>1, <1>2 DEF EndTransaction, Types, RowTypes

(* A step to l that changes nothing local but the program counter.         *)
LEMMA StepTypes ==
    ASSUME NEW d \in Drainers, Types, NEW l \in PCs, pc' = [pc EXCEPT ![d] = l],
           UNCHANGED localVars, pc[d] \in RowSteps
    PROVE  LocalTypes' /\ HasRow'
  BY DEF Types, LocalTypes, HasRow, localVars

LEMMA TypesInit == Init => Types
<1> SUFFICES ASSUME Init PROVE Types
  OBVIOUS
<1>1. <<>> \in Seq(Events)
  OBVIOUS
<1>2. RowTypes /\ RedisTypes
  BY <1>1, DrainerConstants DEF Init, RowTypes, RedisTypes
<1>3. LocalTypes /\ HasRow
  BY DEF Init, LocalTypes, HasRow, PCs, RowSteps
<1>4. CountTypes
  BY DrainerConstants DEF Init, CountTypes
<1> QED BY <1>2, <1>3, <1>4 DEF Types

(* The new row takes a place after the first i rows.                       *)
Inserted(e, i) ==
    /\ created' \in Seq(Events) /\ Len(created') = Len(created) + 1
    /\ \A j \in 1..Len(created)+1 :
          created'[j] = IF j <= i THEN created[j] ELSE IF j = i+1 THEN e ELSE created[j-1]

LEMMA CommitInserts ==
    ASSUME NEW e \in Events, Types, CommitPublish(e)
    PROVE  \E i \in 0..Len(created) : Inserted(e, i)
<1>1. PICK i \in 0..Len(created) :
        created' = [j \in 1..Len(created)+1 |->
                      IF j <= i THEN created[j] ELSE IF j = i+1 THEN e ELSE created[j-1]]
  BY DEF CommitPublish
<1>2. created \in Seq(Events) /\ Len(created) \in Nat
  BY LenProperties DEF Types, RowTypes
<1>3. \A j \in 1..Len(created) : created[j] \in Events
  BY <1>2, ElementOfSeq
<1>4. created' \in [1..Len(created)+1 -> Events]
  BY <1>1, <1>2, <1>3
<1>5. created' \in Seq(Events) /\ Len(created') = Len(created) + 1
  BY <1>2, <1>4, SeqDef, LenProperties
<1> QED BY <1>1, <1>5 DEF Inserted

LEMMA TypesCommitPublish ==
    ASSUME NEW e \in Events, Types, CommitPublish(e) PROVE Types'
<1>1. created' \in Seq(Events)
  BY CommitInserts DEF Inserted
<1> QED BY <1>1 DEF CommitPublish, redisVars, localVars, Types, RowTypes, RedisTypes,
                    LocalTypes, CountTypes, HasRow

LEMMA TypesDrainer ==
    ASSUME NEW d \in Drainers, Types, DrainerStep(d) \/ Crash(d) PROVE Types'
<1> USE DEF rowVars, redisVars
<1>1. CASE SelectBatch(d)
  <2>1. PICK B \in SUBSET Events :
          /\ todo' = [todo EXCEPT ![d] = B]
          /\ lock' = [e \in Events |-> IF e \in B THEN d ELSE lock[e]]
    BY <1>1 DEF SelectBatch
  <2>2. RowTypes'
    BY <1>1, <2>1 DEF SelectBatch, Types, RowTypes
  <2>3. LocalTypes' /\ HasRow'
    BY <1>1, <2>1 DEF SelectBatch, Types, LocalTypes, HasRow, PCs, RowSteps
  <2> QED BY <1>1, <2>2, <2>3 DEF SelectBatch, Types, RedisTypes, CountTypes
<1>2. CASE BeginRow(d)
  <2>1. PICK e \in todo[d] : cur' = [cur EXCEPT ![d] = e]
                           /\ todo' = [todo EXCEPT ![d] = @ \ {e}]
    BY <1>2 DEF BeginRow
  <2>2. e \in Events
    BY <2>1 DEF Types, LocalTypes
  <2>3. CaptureStreamLowerBound \in Nat
    BY TailType DEF CaptureStreamLowerBound
  <2>4. low' \in [Drainers -> Nat] /\ faults' \in [all : 0..MaxFaults, gaps : Nat]
    <3>1. CASE Fault("bound") /\ low' = [low EXCEPT ![d] = 0]
      BY <3>1, FaultType DEF Types, LocalTypes
    <3>2. CASE low' = [low EXCEPT ![d] = CaptureStreamLowerBound] /\ UNCHANGED faults
      BY <2>3, <3>2 DEF Types, LocalTypes, CountTypes
    <3> QED BY <1>2, <3>1, <3>2 DEF BeginRow
  <2>5. LocalTypes' /\ HasRow'
    BY <1>2, <2>1, <2>2, <2>4 DEF BeginRow, Types, LocalTypes, HasRow, PCs, RowSteps
  <2> QED BY <1>2, <2>4, <2>5 DEF BeginRow, Types, RowTypes, RedisTypes, CountTypes
<1>3. CASE Xadd(d)
  <2>1. cur[d] \in Events
    BY <1>3 DEF Xadd, Types, HasRow, RowSteps
  <2>2. RedisTypes'
    BY <1>3, <2>1, RedisAcceptsTypes DEF Xadd
  <2>3. LocalTypes' /\ HasRow'
    BY <1>3, TailType DEF Xadd, Types, LocalTypes, HasRow, PCs, RowSteps
  <2> QED BY <1>3, <2>2, <2>3 DEF Xadd, Types, RowTypes, CountTypes
<1>4. CASE XaddFails(d)
  <2>1. cur[d] \in Events /\ pc[d] \in RowSteps
    BY <1>4 DEF XaddFails, Types, HasRow, RowSteps
  <2>2. RedisTypes'
    BY <1>4, <2>1, RedisAcceptsTypes DEF XaddFails, Types, RedisTypes
  <2>3. LocalTypes' /\ HasRow'
    BY <1>4, <2>1, StepTypes DEF XaddFails, PCs
  <2>4. faults' \in [all : 0..MaxFaults, gaps : Nat]
    BY <1>4, FaultType DEF XaddFails, Types, CountTypes
  <2> QED BY <1>4, <2>2, <2>3, <2>4 DEF XaddFails, Types, RowTypes, CountTypes
<1>5. CASE IndexXadd(d)
  <2>1. LocalTypes' /\ HasRow'
    BY <1>5, StepTypes DEF IndexXadd, PCs, RowSteps
  <2>2. RedisTypes'
    BY <1>5 DEF IndexXadd, Types, LocalTypes, RedisTypes
  <2> QED BY <1>5, <2>1, <2>2 DEF IndexXadd, Types, RowTypes, CountTypes
<1>6. CASE IndexXaddFails(d) \/ MarkPublishedFails(d) \/ ReconcileFails(d)
  <2>1. LocalTypes' /\ HasRow'
    BY <1>6, StepTypes
    DEF IndexXaddFails, MarkPublishedFails, ReconcileFails, PCs, RowSteps
  <2>2. faults' \in [all : 0..MaxFaults, gaps : Nat]
    BY <1>6, FaultType DEF IndexXaddFails, MarkPublishedFails, ReconcileFails
  <2> QED BY <1>6, <2>1, <2>2 DEF IndexXaddFails, MarkPublishedFails, ReconcileFails,
                                  Types, RowTypes, RedisTypes, CountTypes
<1>7. CASE MarkPublished(d)
  <2>1. marks' \in [Drainers -> [Events -> Nat]]
    BY <1>7 DEF MarkPublished, Types, LocalTypes
  <2>2. LocalTypes' /\ HasRow'
    BY <1>7, <2>1 DEF MarkPublished, Types, LocalTypes, HasRow, PCs, RowSteps
  <2> QED BY <1>7, <2>2 DEF MarkPublished, Types, RowTypes, RedisTypes, CountTypes
<1>8. CASE ReconcileStart(d)
  <2>1. cursor' \in [Drainers -> Nat] /\ upper' \in [Drainers -> Nat]
    BY <1>8, TailType DEF ReconcileStart, Types, LocalTypes
  <2>2. pc' \in [Drainers -> PCs] /\ HasRow'
    BY <1>8 DEF ReconcileStart, Types, LocalTypes, HasRow, PCs, RowSteps
  <2> QED BY <1>8, <2>1, <2>2 DEF ReconcileStart, Types, RowTypes, RedisTypes,
                                  LocalTypes, CountTypes
<1>9. CASE ReconcilePage(d)
  <2>1. PICK to \in cursor[d]+1 .. upper[d]+1 :
          /\ index' = index \cup {r \in Page(cursor[d], to) : stream[r] = cur[d]}
          /\ cursor' = [cursor EXCEPT ![d] = to]
          /\ pc' = [pc EXCEPT ![d] = IF to > upper[d] THEN "bump" ELSE "scan"]
    BY <1>9 DEF ReconcilePage
  <2>2. cursor[d] \in Nat /\ upper[d] \in Nat /\ to \in Nat
    BY <2>1 DEF Types, LocalTypes
  <2>3. Page(cursor[d], to) \subseteq Nat
    BY <2>2 DEF Page
  <2>4. RedisTypes'
    BY <1>9, <2>1, <2>3 DEF ReconcilePage, Types, RedisTypes
  <2>5. LocalTypes' /\ HasRow'
    BY <1>9, <2>1, <2>2 DEF ReconcilePage, Types, LocalTypes, HasRow, PCs, RowSteps
  <2> QED BY <1>9, <2>4, <2>5 DEF ReconcilePage, Types, RowTypes, CountTypes
<1>10. CASE BumpAttempts(d)
  <2>1. cur[d] \in Events
    BY <1>10 DEF BumpAttempts, Types, HasRow, RowSteps
  <2>2. LocalTypes' /\ HasRow'
    BY <1>10, <2>1 DEF BumpAttempts, Types, LocalTypes, HasRow, PCs, RowSteps
  <2> QED BY <1>10, <2>2 DEF BumpAttempts, Types, RowTypes, RedisTypes, CountTypes
<1>11. CASE CommitBatch(d)
  <2>1. LocalTypes' /\ HasRow' /\ lock' \in [Events -> Drainers \cup {None}]
    BY <1>11, EndTransactionTypes DEF CommitBatch
  <2>2. published' \in [Events -> Nat] /\ RedisTypes'
    <3>1. published' \in [Events -> Nat]
      BY <1>11 DEF CommitBatch, CommittedMarks, Types, RowTypes, LocalTypes
    <3>2. index' = index \cup ({marks[d][e] : e \in Events} \ {0})
      BY <1>11 DEF CommitBatch, CommittedMarks
    <3>3. index \subseteq Nat /\ \A e \in Events : marks[d][e] \in Nat
      BY DEF Types, RedisTypes, LocalTypes
    <3>4. index' \subseteq Nat
      BY <3>2, <3>3
    <3> QED BY <1>11, <3>1, <3>4 DEF CommitBatch, Types, RedisTypes
  <2>3. attempts' \in [Events -> 0..AlertAfter+1]
    BY <1>11, DrainerConstants DEF CommitBatch, Types, RowTypes, MinOf
  <2>4. audited' \in Nat
    BY <1>11 DEF CommitBatch, AuditedCount, Types, CountTypes, LocalTypes
  <2>5. RowTypes'
    BY <1>11, <2>1, <2>2, <2>3 DEF CommitBatch, Types, RowTypes
  <2>6. CountTypes'
    BY <1>11, <2>4 DEF CommitBatch, Types, CountTypes
  <2> QED BY <2>1, <2>2, <2>5, <2>6 DEF Types
<1>12. CASE Crash(d)
  BY <1>12, EndTransactionTypes, FaultType DEF Crash, Types, RowTypes, RedisTypes,
                                               CountTypes
<1> QED BY <1>1, <1>2, <1>3, <1>4, <1>5, <1>6, <1>7, <1>8, <1>9, <1>10, <1>11, <1>12
        DEF DrainerStep

LEMMA TypesStep == Types /\ [Next]_vars => Types'
<1>1. ASSUME Types, UNCHANGED vars PROVE Types'
  BY <1>1 DEF vars, rowVars, redisVars, localVars, Types, RowTypes, RedisTypes,
              LocalTypes, CountTypes, HasRow
<1> QED BY <1>1, TypesCommitPublish, TypesDrainer DEF Next

(* Every reachable state is type-correct, for any events and drainers.     *)
THEOREM TypeCorrect == Spec => []TypeOK
<1>1. Spec => []Types
  BY TypesInit, TypesStep, PTL DEF Spec
<1> QED BY <1>1, TypesAreTypeOK, PTL

-----------------------------------------------------------------------------
(* Why a published row names an indexed copy of itself: the id travels     *)
(* from XADD through the index INSERT to the mark, and the row's lock is   *)
(* held by the marking transaction until the mark is committed.            *)
Copy(e, r) == r \in 1..Len(stream) /\ stream[r] = e

Copies ==
    /\ \A d \in Drainers : pc[d] = "index" => Copy(cur[d], rid[d])
    /\ \A d \in Drainers : pc[d] = "mark" => Copy(cur[d], rid[d]) /\ rid[d] \in index
    /\ \A d \in Drainers, e \in Events :
          marks[d][e] # 0 => Copy(e, marks[d][e]) /\ marks[d][e] \in index
    /\ \A e \in Events :
          published[e] # 0 => Copy(e, published[e]) /\ published[e] \in index

LEMMA CopiesImplyProperty == Copies => PublishedCopyIndexed
  BY DEF Copies, Copy, PublishedCopyIndexed, StreamTail

LEMMA CopiesInit == Init => Copies
  BY DEF Init, Copies

(* Streams and the index only grow, so a copy stays a copy.                *)
LEMMA CopyStays ==
    ASSUME Types, NEW x \in Events, RedisAccepts(x), NEW e, NEW r, Copy(e, r)
    PROVE  Copy(e, r)'
  BY AppendProperties DEF Types, RedisTypes, RedisAccepts, Copy

LEMMA NewCopy ==
    ASSUME Types, NEW x \in Events, RedisAccepts(x)
    PROVE  /\ StreamTail + 1 \in 1..Len(stream')
           /\ stream'[StreamTail + 1] = x
  BY AppendProperties, LenProperties DEF Types, RedisTypes, RedisAccepts, StreamTail

LEMMA CopiesQuiet ==
    ASSUME NEW d \in Drainers, Types, Copies, stream' = stream, index \subseteq index',
           UNCHANGED <<marks, published>>,
           \A x \in Drainers \ {d} : pc'[x] = pc[x] /\ cur'[x] = cur[x] /\ rid'[x] = rid[x],
           pc'[d] \notin {"index", "mark"}
    PROVE  Copies'
  BY DEF Copies, Copy

(* The second index INSERT of a marked row finds its row already there.    *)
LEMMA CommitKeepsIndex ==
    ASSUME NEW d \in Drainers, Copies, CommitBatch(d) PROVE index' = index
  BY DEF Copies, CommitBatch, CommittedMarks

LEMMA CopiesDrainer ==
    ASSUME NEW d \in Drainers, Types, Copies, DrainerStep(d) \/ Crash(d) PROVE Copies'
<1> USE DEF rowVars, redisVars, localVars
<1> DEFINE Others == \A x \in Drainers \ {d} :
                        pc'[x] = pc[x] /\ cur'[x] = cur[x] /\ rid'[x] = rid[x]
<1>1. CASE SelectBatch(d) \/ IndexXaddFails(d) \/ MarkPublishedFails(d)
             \/ ReconcileStart(d) \/ ReconcileFails(d) \/ BumpAttempts(d) \/ BeginRow(d)
  <2>1. Others /\ pc'[d] \notin {"index", "mark"}
    BY <1>1 DEF SelectBatch, IndexXaddFails, MarkPublishedFails, ReconcileStart,
                ReconcileFails, BumpAttempts, BeginRow, Types, LocalTypes
  <2>2. UNCHANGED <<stream, index, marks, published>>
    BY <1>1 DEF SelectBatch, IndexXaddFails, MarkPublishedFails, ReconcileStart,
                ReconcileFails, BumpAttempts, BeginRow
  <2> QED BY <2>1, <2>2, CopiesQuiet
<1>2. CASE ReconcilePage(d)
  <2>1. Others /\ pc'[d] \notin {"index", "mark"} /\ index \subseteq index'
    BY <1>2 DEF ReconcilePage, Types, LocalTypes
  <2> QED BY <1>2, <2>1, CopiesQuiet DEF ReconcilePage
<1>3. ASSUME NEW x \in Events, RedisAccepts(x), UNCHANGED <<index, marks, published>>,
             Others, pc'[d] \notin {"index", "mark"}
      PROVE  Copies'
  BY <1>3, CopyStays DEF Copies
<1>4. CASE Xadd(d)
  <2>1. cur[d] \in Events /\ Others /\ pc'[d] = "index" /\ rid'[d] = StreamTail + 1
        /\ cur' = cur
    BY <1>4 DEF Xadd, Types, HasRow, RowSteps, LocalTypes
  <2>2. RedisAccepts(cur[d]) /\ UNCHANGED <<index, marks, published>>
    BY <1>4 DEF Xadd
  <2>3. Copy(cur[d], rid[d])'
    BY <2>1, <2>2, NewCopy DEF Copy
  <2> QED BY <2>1, <2>2, <2>3, CopyStays DEF Copies
<1>5. CASE XaddFails(d)
  <2>1. cur[d] \in Events /\ Others /\ pc'[d] = "recover"
    BY <1>5 DEF XaddFails, Types, HasRow, RowSteps, LocalTypes
  <2>2. CASE RedisAccepts(cur[d])
    BY <1>3, <1>5, <2>1, <2>2 DEF XaddFails
  <2>3. CASE UNCHANGED stream
    BY <1>5, <2>1, <2>3, CopiesQuiet DEF XaddFails
  <2> QED BY <1>5, <2>2, <2>3 DEF XaddFails
<1>6. CASE IndexXadd(d)
  <2>1. Others /\ pc[d] = "index" /\ pc'[d] = "mark" /\ cur' = cur /\ rid' = rid
        /\ index' = index \cup {rid[d]}
    BY <1>6 DEF IndexXadd, Types, LocalTypes
  <2> QED BY <1>6, <2>1 DEF IndexXadd, Copies, Copy
<1>7. CASE MarkPublished(d)
  <2>1. /\ pc[d] = "mark" /\ pc'[d] = "row"
        /\ \A x \in Drainers \ {d} : pc'[x] = pc[x] /\ cur'[x] = cur[x]
        /\ UNCHANGED <<stream, index, rid, published>>
    BY <1>7 DEF MarkPublished, Types, LocalTypes
  <2>2. \A x \in Drainers, e \in Events :
           marks'[x][e] = IF x = d /\ e = cur[d] THEN rid[d] ELSE marks[x][e]
    BY <1>7 DEF MarkPublished, Types, LocalTypes
  <2> QED BY <2>1, <2>2 DEF Copies, Copy
<1>8. ASSUME EndTransaction(d), UNCHANGED <<stream, index>>,
             \A e \in Events : published'[e] \in {published[e], marks[d][e]}
      PROVE  Copies'
  <2>1. /\ \A x \in Drainers \ {d} :
              pc'[x] = pc[x] /\ cur'[x] = cur[x] /\ rid'[x] = rid[x] /\ marks'[x] = marks[x]
        /\ pc'[d] = "idle" /\ \A e \in Events : marks'[d][e] = 0
    BY <1>8 DEF EndTransaction, Types, LocalTypes
  <2> QED BY <1>8, <2>1 DEF Copies, Copy
<1>9. CASE CommitBatch(d)
  <2>1. \A e \in Events : published'[e] \in {published[e], marks[d][e]}
    BY <1>9 DEF CommitBatch, CommittedMarks
  <2>2. EndTransaction(d) /\ stream' = stream /\ index' = index
    BY <1>9, CommitKeepsIndex DEF CommitBatch
  <2> QED BY <1>8, <2>1, <2>2
<1>10. CASE Crash(d)
  BY <1>8, <1>10 DEF Crash
<1> QED BY <1>1, <1>2, <1>4, <1>5, <1>6, <1>7, <1>9, <1>10 DEF DrainerStep

LEMMA CopiesStep == Types /\ Copies /\ [Next]_vars => Copies'
<1>1. ASSUME Copies, UNCHANGED vars PROVE Copies'
  BY <1>1 DEF vars, rowVars, redisVars, localVars, Copies, Copy
<1>2. ASSUME NEW e \in Events, Copies, CommitPublish(e) PROVE Copies'
  BY <1>2 DEF CommitPublish, redisVars, localVars, Copies, Copy
<1> QED BY <1>1, <1>2, CopiesDrainer DEF Next

(* For any events, drainers and faults, the redis_message_id of a          *)
(* published row is an XADD of that event that event_id_to_redis records.  *)
THEOREM PublishedIsIndexed == Spec => []PublishedCopyIndexed
<1>1. Init => Types /\ Copies
  BY TypesInit, CopiesInit
<1>2. Types /\ Copies /\ [Next]_vars => (Types /\ Copies)'
  BY TypesStep, CopiesStep
<1>3. Types /\ Copies => PublishedCopyIndexed
  BY CopiesImplyProperty
<1> QED BY <1>1, <1>2, <1>3, PTL DEF Spec

-----------------------------------------------------------------------------
(* Why a published row is never published again: everything a transaction  *)
(* works on is locked by it, and a locked row is not published yet.        *)
Locks ==
    /\ \A d \in Drainers : \A e \in todo[d] : lock[e] = d
    /\ \A d \in Drainers : cur[d] \in Events => lock[cur[d]] = d
    /\ \A d \in Drainers, e \in Events : marks[d][e] # 0 => lock[e] = d
    /\ \A e \in Events : lock[e] # None => published[e] = 0

LEMMA LocksInit == Init => Locks
  BY DrainerConstants DEF Init, Locks

LEMMA LocksDrainer ==
    ASSUME NEW d \in Drainers, Types, Locks, DrainerStep(d) \/ Crash(d) PROVE Locks'
<1> USE DEF rowVars, localVars
<1>1. CASE SelectBatch(d)
  <2>1. PICK B \in SUBSET {e \in Events : Claimable(e)} :
          /\ todo' = [todo EXCEPT ![d] = B]
          /\ lock' = [e \in Events |-> IF e \in B THEN d ELSE lock[e]]
    BY <1>1 DEF SelectBatch
  <2>2. \A e \in B : e \in Events /\ lock[e] = None /\ published[e] = 0
    BY <2>1 DEF Claimable
  <2>3. \A x \in Drainers : \A e \in todo'[x] : lock'[e] = x
    BY <2>1, <2>2, DrainerConstants DEF Locks, Types, LocalTypes
  <2>4. \A x \in Drainers, e \in Events : lock[e] = x => lock'[e] = x
    BY <2>1, <2>2, DrainerConstants
  <2>5. \A e \in Events : lock'[e] # None => published[e] = 0
    BY <2>1, <2>2 DEF Locks
  <2> QED BY <1>1, <2>3, <2>4, <2>5 DEF SelectBatch, Locks
<1>2. CASE BeginRow(d)
  <2>1. PICK e \in todo[d] : cur' = [cur EXCEPT ![d] = e]
                           /\ todo' = [todo EXCEPT ![d] = @ \ {e}]
    BY <1>2 DEF BeginRow
  <2>2. lock[e] = d
    BY <2>1 DEF Locks
  <2>3. \A x \in Drainers : todo'[x] \subseteq todo[x]
    BY <2>1 DEF Types, LocalTypes
  <2>4. \A x \in Drainers : cur'[x] \in {cur[x], IF x = d THEN e ELSE cur[x]}
    BY <2>1 DEF Types, LocalTypes
  <2> QED BY <1>2, <2>2, <2>3, <2>4 DEF BeginRow, Locks
<1>3. CASE Xadd(d) \/ XaddFails(d) \/ IndexXadd(d) \/ IndexXaddFails(d)
             \/ MarkPublishedFails(d) \/ ReconcileStart(d) \/ ReconcilePage(d)
             \/ ReconcileFails(d)
  <2>1. UNCHANGED <<todo, cur, marks, lock, published>>
    BY <1>3 DEF Xadd, XaddFails, IndexXadd, IndexXaddFails, MarkPublishedFails,
                ReconcileStart, ReconcilePage, ReconcileFails
  <2> QED BY <2>1 DEF Locks
<1>4. CASE MarkPublished(d)
  <2>1. cur[d] \in Events /\ lock[cur[d]] = d
    BY <1>4 DEF MarkPublished, Types, HasRow, RowSteps, Locks
  <2>2. \A x \in Drainers, e \in Events :
           marks'[x][e] = IF x = d /\ e = cur[d] THEN rid[d] ELSE marks[x][e]
    BY <1>4 DEF MarkPublished, Types, LocalTypes
  <2>3. \A x \in Drainers : cur'[x] = IF x = d THEN None ELSE cur[x]
    BY <1>4 DEF MarkPublished, Types, LocalTypes
  <2>4. UNCHANGED <<todo, lock, published>>
    BY <1>4 DEF MarkPublished
  <2> QED BY <2>1, <2>2, <2>3, <2>4, DrainerConstants DEF Locks
<1>5. CASE BumpAttempts(d)
  <2>1. \A x \in Drainers : cur'[x] = IF x = d THEN None ELSE cur[x]
    BY <1>5 DEF BumpAttempts, Types, LocalTypes
  <2>2. UNCHANGED <<todo, marks, lock, published>>
    BY <1>5 DEF BumpAttempts
  <2> QED BY <2>1, <2>2, DrainerConstants DEF Locks
<1>6. ASSUME EndTransaction(d),
             \A e \in Events : published'[e] = published[e] \/ lock[e] = d
      PROVE  Locks'
  <2>1. /\ todo'[d] = {} /\ cur'[d] = None /\ \A e \in Events : marks'[d][e] = 0
        /\ \A x \in Drainers \ {d} :
              todo'[x] = todo[x] /\ cur'[x] = cur[x] /\ marks'[x] = marks[x]
    BY <1>6 DEF EndTransaction, Types, LocalTypes
  <2>2. \A e \in Events : lock'[e] = IF lock[e] = d THEN None ELSE lock[e]
    BY <1>6 DEF EndTransaction
  <2>3. \A x \in Drainers \ {d} : todo[x] \subseteq Events
    BY DEF Types, LocalTypes
  <2> QED BY <1>6, <2>1, <2>2, <2>3, DrainerConstants DEF Locks
<1>7. CASE CommitBatch(d)
  <2>1. \A e \in Events : published'[e] = published[e] \/ lock[e] = d
    BY <1>7 DEF CommitBatch, CommittedMarks, Locks
  <2> QED BY <1>6, <1>7, <2>1 DEF CommitBatch
<1>8. CASE Crash(d)
  BY <1>6, <1>8 DEF Crash
<1> QED BY <1>1, <1>2, <1>3, <1>4, <1>5, <1>7, <1>8 DEF DrainerStep

LEMMA LocksStep == Types /\ Locks /\ [Next]_vars => Locks'
<1>1. ASSUME Locks, UNCHANGED vars PROVE Locks'
  BY <1>1 DEF vars, rowVars, localVars, Locks
<1>2. ASSUME NEW e \in Events, Locks, CommitPublish(e) PROVE Locks'
  BY <1>2 DEF CommitPublish, localVars, Locks
<1> QED BY <1>1, <1>2, LocksDrainer DEF Next

(* Only a commit writes the published column, and only for rows it locks.  *)
LEMMA PublishedStays ==
    ASSUME Types, Locks, [Next]_vars
    PROVE  \A e \in Events : published[e] # 0 => published'[e] = published[e]
<1>1. ASSUME NEW d \in Drainers, CommitBatch(d)
      PROVE  \A e \in Events : published[e] # 0 => published'[e] = published[e]
  <2>1. \A e \in Events : published[e] # 0 => marks[d][e] = 0
    BY DrainerConstants DEF Locks
  <2> QED BY <1>1, <2>1 DEF CommitBatch, CommittedMarks
<1>2. ASSUME NEW d \in Drainers, DrainerStep(d) \/ Crash(d), ~CommitBatch(d)
      PROVE  published' = published
  BY <1>2 DEF DrainerStep, SelectBatch, BeginRow, Xadd, XaddFails, IndexXadd,
     IndexXaddFails, MarkPublished, MarkPublishedFails, ReconcileStart, ReconcilePage,
     ReconcileFails, BumpAttempts, Crash, rowVars
<1>3. ASSUME NEW e \in Events, CommitPublish(e) PROVE published' = published
  BY <1>3 DEF CommitPublish
<1>4. CASE UNCHANGED vars
  BY <1>4 DEF vars, rowVars
<1> QED BY <1>1, <1>2, <1>3, <1>4 DEF Next

(* For any events, drainers and faults, the row locks keep a published row *)
(* from being published again under another redis_message_id.              *)
THEOREM PublishedOnce == Spec => PublishedIsFinal
<1>1. Init => Types /\ Locks
  BY TypesInit, LocksInit
<1>2. Types /\ Locks /\ [Next]_vars => (Types /\ Locks)'
  BY TypesStep, LocksStep
<1>3. Types /\ Locks /\ [Next]_vars =>
        [\A e \in Events : published[e] # 0 => published'[e] = published[e]]_vars
  BY PublishedStays
<1> QED BY <1>1, <1>2, <1>3, PTL DEF Spec, PublishedIsFinal

-----------------------------------------------------------------------------
(* Why the drainers implement the relay: a locked row is a committed one,  *)
(* and the row in a drainer's hands is locked by it, so it is pending.     *)
LocksOnRows == \A e \in Events : lock[e] # None => e \in Rows

RelayInv == Types /\ Copies /\ Locks /\ LocksOnRows

LEMMA RowsGrow ==
    ASSUME NEW e \in Events, Types, CommitPublish(e) PROVE Rows' = Rows \cup {e}
<1>1. PICK i \in 0..Len(created) : Inserted(e, i)
  BY CommitInserts
<1>2. Len(created) \in Nat
  BY LenProperties DEF Types, RowTypes
<1>3. ASSUME NEW x \in Rows' PROVE x \in Rows \cup {e}
  BY <1>1, <1>2 DEF Rows, Inserted
<1>4. e \in Rows'
  <2>1. i + 1 \in 1..Len(created)+1 /\ ~(i + 1 <= i)
    BY <1>2
  <2> QED BY <1>1, <2>1 DEF Rows, Inserted
<1>5. ASSUME NEW k \in 1..Len(created) PROVE created[k] \in Rows'
  <2>1. CASE k <= i
    BY <1>1, <1>2, <2>1 DEF Rows, Inserted
  <2>2. CASE k > i
    <3>1. k + 1 \in 1..Len(created)+1 /\ ~(k + 1 <= i) /\ k + 1 # i + 1 /\ (k + 1) - 1 = k
      BY <1>2, <2>2
    <3> QED BY <1>1, <3>1 DEF Rows, Inserted
  <2> QED BY <1>2, <2>1, <2>2
<1> QED BY <1>3, <1>4, <1>5 DEF Rows

LEMMA DrainersLeaveRows ==
    ASSUME NEW d \in Drainers, DrainerStep(d) \/ Crash(d) PROVE created' = created
  BY DEF DrainerStep, SelectBatch, BeginRow, Xadd, XaddFails, IndexXadd, IndexXaddFails,
     MarkPublished, MarkPublishedFails, ReconcileStart, ReconcilePage, ReconcileFails,
     BumpAttempts, CommitBatch, Crash, rowVars

LEMMA LocksOnRowsStep == Types /\ LocksOnRows /\ [Next]_vars => LocksOnRows'
<1> SUFFICES ASSUME Types, LocksOnRows, [Next]_vars PROVE LocksOnRows'
  OBVIOUS
<1>1. CASE UNCHANGED vars
  BY <1>1 DEF vars, rowVars, LocksOnRows, Rows
<1>2. ASSUME NEW e \in Events, CommitPublish(e) PROVE LocksOnRows'
  <2>1. lock' = lock
    BY <1>2 DEF CommitPublish
  <2> QED BY <1>2, <2>1, RowsGrow DEF LocksOnRows
<1>3. ASSUME NEW d \in Drainers, DrainerStep(d) \/ Crash(d) PROVE LocksOnRows'
  <2>1. Rows' = Rows
    BY <1>3, DrainersLeaveRows DEF Rows
  <2>2. CASE SelectBatch(d)
    <3>1. PICK B \in SUBSET {e \in Events : Claimable(e)} :
            lock' = [e \in Events |-> IF e \in B THEN d ELSE lock[e]]
      BY <2>2 DEF SelectBatch
    <3> QED BY <2>1, <3>1 DEF LocksOnRows, Claimable
  <2>3. CASE CommitBatch(d) \/ Crash(d)
    BY <2>1, <2>3 DEF CommitBatch, Crash, EndTransaction, LocksOnRows
  <2>4. CASE ~SelectBatch(d) /\ ~CommitBatch(d) /\ ~Crash(d)
    <3>1. lock' = lock
      BY <1>3, <2>4 DEF DrainerStep, BeginRow, Xadd, XaddFails, IndexXadd, IndexXaddFails,
         MarkPublished, MarkPublishedFails, ReconcileStart, ReconcilePage, ReconcileFails,
         BumpAttempts
    <3> QED BY <2>1, <3>1 DEF LocksOnRows
  <2> QED BY <2>2, <2>3, <2>4
<1> QED BY <1>1, <1>2, <1>3 DEF Next

LEMMA RelayInvInvariant == Spec => []RelayInv
<1>1. Init => RelayInv
  <2>1. Init => LocksOnRows
    BY DEF Init, LocksOnRows
  <2> QED BY <2>1, TypesInit, CopiesInit, LocksInit DEF RelayInv
<1>2. RelayInv /\ [Next]_vars => RelayInv'
  BY TypesStep, CopiesStep, LocksStep, LocksOnRowsStep DEF RelayInv
<1> QED BY <1>1, <1>2, PTL DEF Spec

(* The row in a drainer's hands is committed and pending.                  *)
LEMMA CurrentIsPending ==
    ASSUME RelayInv, NEW d \in Drainers, cur[d] \in Events
    PROVE  cur[d] \in Rows /\ published[cur[d]] = 0
  BY DrainerConstants DEF RelayInv, Locks, LocksOnRows

LEMMA RelayStep == RelayInv /\ [Next]_vars => [Relay!Next]_(Relay!relayVars)
<1> SUFFICES ASSUME RelayInv, [Next]_vars PROVE Relay!Next \/ UNCHANGED Relay!relayVars
  OBVIOUS
<1>1. CASE UNCHANGED vars
  BY <1>1 DEF vars, rowVars, redisVars, Rows, Relay!relayVars
<1>2. ASSUME NEW e \in Events, CommitPublish(e) PROVE Relay!Next
  <2>1. Relay!Accept(e)
    BY <1>2, RowsGrow DEF RelayInv, CommitPublish, redisVars, Relay!Accept
  <2> QED BY <2>1 DEF Relay!Next
<1>3. ASSUME NEW d \in Drainers, DrainerStep(d) \/ Crash(d)
      PROVE  Relay!Next \/ UNCHANGED Relay!relayVars
  <2>1. Rows' = Rows
    BY <1>3, DrainersLeaveRows DEF Rows
  <2>2. CASE Xadd(d) \/ XaddFails(d)
    <3>1. cur[d] \in Events
      BY <2>2 DEF RelayInv, Types, HasRow, RowSteps, Xadd, XaddFails
    <3>2. published' = published /\ stream' \in {stream, Append(stream, cur[d])}
      BY <2>2 DEF Xadd, XaddFails, RedisAccepts, rowVars, redisVars
    <3>3. CASE stream' = stream
      BY <2>1, <3>2, <3>3 DEF Relay!relayVars
    <3>4. CASE stream' = Append(stream, cur[d])
      <4>1. Relay!Copy(cur[d])
        BY <2>1, <3>1, <3>2, <3>4, CurrentIsPending DEF Relay!Copy
      <4> QED BY <3>1, <4>1 DEF Relay!Next
    <3> QED BY <3>2, <3>3, <3>4
  <2>3. CASE CommitBatch(d)
    <3> DEFINE S == {e \in Events : marks[d][e] # 0}
    <3>1. stream' = stream /\ published' = [e \in Events |-> IF e \in S THEN marks[d][e] ELSE published[e]]
      BY <2>3 DEF CommitBatch, CommittedMarks, redisVars
    <3>2. \A e \in S : e \in Rows /\ published[e] = 0
      BY DrainerConstants DEF RelayInv, Locks, LocksOnRows
    <3>3. \A e \in S : marks[d][e] \in 1..Len(stream) /\ stream[marks[d][e]] = e
      BY DEF RelayInv, Copies, Copy
    <3>4. \A e \in Events \ S : published[e] \in 0..Len(stream)
      BY LenProperties DEF RelayInv, Copies, Copy, Types, RowTypes, RedisTypes
    <3>5. published' \in [Events -> 0..Len(stream)]
      BY <3>1, <3>3, <3>4
    <3>6. \A e \in S : \E r \in 1..Len(stream) : stream[r] = e /\ published'[e] = r
      BY <3>1, <3>3
    <3>7. \A e \in Events \ S : published'[e] = published[e]
      BY <3>1
    <3>8. Relay!Settle(S)
      BY <2>1, <3>1, <3>2, <3>5, <3>6, <3>7 DEF Relay!Settle
    <3> QED BY <3>8 DEF Relay!Next
  <2>4. CASE ~Xadd(d) /\ ~XaddFails(d) /\ ~CommitBatch(d)
    <3>1. published' = published /\ stream' = stream
      BY <1>3, <2>4 DEF DrainerStep, SelectBatch, BeginRow, IndexXadd, IndexXaddFails,
         MarkPublished, MarkPublishedFails, ReconcileStart, ReconcilePage, ReconcileFails,
         BumpAttempts, Crash, rowVars, redisVars
    <3> QED BY <2>1, <3>1 DEF Relay!relayVars
  <2> QED BY <2>2, <2>3, <2>4
<1> QED BY <1>1, <1>2, <1>3 DEF Next

(* For any events, drainers and faults, the drainers implement the         *)
(* at-least-once relay of OutboxRelay.                                     *)
THEOREM DrainerImplementsRelay == Spec => ImplementsRelay
<1>1. Init => Relay!Init
  BY DEF Init, Rows, Relay!Init
<1>2. RelayInv /\ [Next]_vars => [Relay!Next]_(Relay!relayVars)
  BY RelayStep
<1> QED BY <1>1, <1>2, RelayInvInvariant, PTL DEF Spec, ImplementsRelay, Relay!Spec

-----------------------------------------------------------------------------
(* The batch audits.  A transaction has counted the rows it has marked,    *)
(* each once, because the row in its hands and those it has not begun are  *)
(* not marked; and no row it has marked is published already.              *)
Marked(d) == {e \in Events : marks[d][e] # 0}

Published == {e \in Events : published[e] # 0}

Untouched ==
    \A d \in Drainers :
        /\ \A e \in todo[d] : marks[d][e] = 0
        /\ cur[d] \in Events => marks[d][cur[d]] = 0 /\ cur[d] \notin todo[d]

CountsMarks == \A d \in Drainers : drained[d] = Cardinality(Marked(d))

Audits == Untouched /\ CountsMarks /\ audited = Cardinality(Published)

LEMMA EventsFinite ==
    ASSUME NEW S, S \subseteq Events PROVE IsFiniteSet(S) /\ Cardinality(S) \in Nat
<1>1. IsFiniteSet(Events)
  BY DrainerConstants, Zenon
<1> QED BY <1>1, FS_Subset, FS_CardinalityType

LEMMA AuditsInit == Init => Audits
<1> SUFFICES ASSUME Init PROVE Audits
  OBVIOUS
<1>1. Published = {} /\ \A d \in Drainers : Marked(d) = {}
  BY DEF Init, Published, Marked
<1>2. Untouched
  BY DEF Init, Untouched
<1>3. Cardinality({}) = 0
  BY FS_EmptySet
<1> QED BY <1>1, <1>2, <1>3 DEF Init, Audits, CountsMarks

(* A step that marks nothing and commits nothing.                          *)
LEMMA AuditsQuiet ==
    ASSUME Audits, UNCHANGED <<marks, drained, published, audited>>, Untouched' PROVE Audits'
  BY DEF Audits, CountsMarks, Marked, Published

LEMMA AuditsDrainer ==
    ASSUME NEW d \in Drainers, Types, Copies, Locks, Audits, DrainerStep(d) \/ Crash(d)
    PROVE  Audits'
<1> USE DEF rowVars, localVars
<1>1. CASE SelectBatch(d)
  <2>1. PICK B \in SUBSET {e \in Events : Claimable(e)} : todo' = [todo EXCEPT ![d] = B]
    BY <1>1 DEF SelectBatch
  <2>2. \A e \in B : e \in Events /\ lock[e] # d
    BY <2>1, DrainerConstants DEF Claimable
  <2>3. \A e \in B : marks[d][e] = 0
    BY <2>2 DEF Locks
  <2>4. cur[d] \in Events => cur[d] \notin B
    BY <2>2 DEF Locks
  <2>5. UNCHANGED <<cur, marks, drained, published, audited>>
    BY <1>1 DEF SelectBatch
  <2>6. Untouched'
    BY <2>1, <2>3, <2>4, <2>5 DEF Audits, Untouched, Types, LocalTypes
  <2> QED BY <2>5, <2>6, AuditsQuiet
<1>2. CASE BeginRow(d)
  <2>1. PICK e \in todo[d] : cur' = [cur EXCEPT ![d] = e]
                           /\ todo' = [todo EXCEPT ![d] = @ \ {e}]
    BY <1>2 DEF BeginRow
  <2>2. UNCHANGED <<marks, drained, published, audited>>
    BY <1>2 DEF BeginRow
  <2>3. Untouched'
    BY <2>1, <2>2 DEF Audits, Untouched, Types, LocalTypes
  <2> QED BY <2>2, <2>3, AuditsQuiet
<1>3. CASE Xadd(d) \/ XaddFails(d) \/ IndexXadd(d) \/ IndexXaddFails(d)
             \/ MarkPublishedFails(d) \/ ReconcileStart(d) \/ ReconcilePage(d)
             \/ ReconcileFails(d)
  <2>1. UNCHANGED <<todo, cur, marks, drained, published, audited>>
    BY <1>3 DEF Xadd, XaddFails, IndexXadd, IndexXaddFails, MarkPublishedFails,
                ReconcileStart, ReconcilePage, ReconcileFails
  <2> QED BY <2>1, AuditsQuiet DEF Audits, Untouched
<1>4. CASE BumpAttempts(d)
  <2>1. UNCHANGED <<todo, marks, drained, published, audited>>
        /\ cur' = [cur EXCEPT ![d] = None]
    BY <1>4 DEF BumpAttempts
  <2>2. Untouched'
    BY <2>1, DrainerConstants DEF Audits, Untouched, Types, LocalTypes
  <2> QED BY <2>1, <2>2, AuditsQuiet
<1>5. CASE MarkPublished(d)
  <2>0. cur[d] \in Events /\ rid[d] # 0
    BY <1>5 DEF MarkPublished, Types, HasRow, RowSteps, Copies, Copy
  <2>1. marks[d][cur[d]] = 0 /\ cur[d] \notin todo[d]
    BY <2>0 DEF Audits, Untouched
  <2>2. \A x \in Drainers, e \in Events :
           marks'[x][e] = IF x = d /\ e = cur[d] THEN rid[d] ELSE marks[x][e]
    BY <1>5 DEF MarkPublished, Types, LocalTypes
  <2>3. /\ \A x \in Drainers : cur'[x] = IF x = d THEN None ELSE cur[x]
        /\ \A x \in Drainers : drained'[x] = IF x = d THEN drained[d] + 1 ELSE drained[x]
        /\ UNCHANGED <<todo, published, audited>>
    BY <1>5 DEF MarkPublished, Types, LocalTypes
  <2>4. Untouched'
    <3>1. \A x \in Drainers : todo[x] \subseteq Events
      BY DEF Types, LocalTypes
    <3> QED BY <2>1, <2>2, <2>3, <3>1, DrainerConstants DEF Audits, Untouched
  <2>5. Marked(d)' = Marked(d) \cup {cur[d]} /\ cur[d] \notin Marked(d)
    BY <2>0, <2>1, <2>2 DEF Marked
  <2>6. \A x \in Drainers \ {d} : Marked(x)' = Marked(x)
    BY <2>2 DEF Marked
  <2>7. Cardinality(Marked(d) \cup {cur[d]}) = Cardinality(Marked(d)) + 1
    BY <2>5, EventsFinite, FS_AddElement DEF Marked
  <2>8. CountsMarks'
    BY <2>3, <2>5, <2>6, <2>7 DEF Audits, CountsMarks
  <2> QED BY <2>3, <2>4, <2>8 DEF Audits, Published
<1>6. ASSUME EndTransaction(d) PROVE Untouched' /\ CountsMarks'
  <2>1. /\ todo'[d] = {} /\ cur'[d] = None /\ (\A e \in Events : marks'[d][e] = 0)
        /\ drained'[d] = 0
        /\ \A x \in Drainers \ {d} : /\ todo'[x] = todo[x] /\ cur'[x] = cur[x]
                                     /\ marks'[x] = marks[x] /\ drained'[x] = drained[x]
    BY <1>6 DEF EndTransaction, Types, LocalTypes
  <2>2. Untouched'
    BY <2>1, DrainerConstants DEF Audits, Untouched
  <2>3. Marked(d)' = {} /\ \A x \in Drainers \ {d} : Marked(x)' = Marked(x)
    BY <2>1 DEF Marked
  <2>4. Cardinality({}) = 0
    BY FS_EmptySet
  <2> QED BY <2>1, <2>2, <2>3, <2>4 DEF Audits, CountsMarks
<1>7. CASE Crash(d)
  BY <1>6, <1>7 DEF Crash, Audits, Published
<1>8. CASE CommitBatch(d)
  <2>1. Published' = Published \cup Marked(d)
    BY <1>8 DEF CommitBatch, CommittedMarks, Published, Marked, Types, RowTypes
  <2>2. Published \cap Marked(d) = {}
    BY DrainerConstants DEF Published, Marked, Locks
  <2>3. Cardinality(Published \cup Marked(d)) = Cardinality(Published) + Cardinality(Marked(d))
    <3>1. /\ IsFiniteSet(Published) /\ IsFiniteSet(Marked(d))
          /\ Cardinality(Published) \in Nat /\ Cardinality(Marked(d)) \in Nat
      BY EventsFinite DEF Published, Marked
    <3>2. Cardinality(Published \cup Marked(d))
             = Cardinality(Published) + Cardinality(Marked(d)) - Cardinality(Published \cap Marked(d))
      BY <3>1, FS_Union
    <3>3. Cardinality(Published \cap Marked(d)) = 0
      BY <2>2, FS_EmptySet
    <3> QED BY <3>1, <3>2, <3>3
  <2>4. audited' = audited + drained[d]
    BY <1>8 DEF CommitBatch, AuditedCount
  <2> QED BY <1>6, <1>8, <2>1, <2>3, <2>4 DEF CommitBatch, Audits, CountsMarks
<1> QED BY <1>1, <1>2, <1>3, <1>4, <1>5, <1>7, <1>8 DEF DrainerStep

LEMMA AuditsStep == RelayInv /\ Audits /\ [Next]_vars => Audits'
<1>1. ASSUME Audits, UNCHANGED <<todo, cur, marks, drained, published, audited>> PROVE Audits'
  BY <1>1, AuditsQuiet DEF Audits, Untouched
<1>2. ASSUME NEW e \in Events, Audits, CommitPublish(e) PROVE Audits'
  BY <1>1, <1>2 DEF CommitPublish, localVars
<1>3. ASSUME Audits, UNCHANGED vars PROVE Audits'
  BY <1>1, <1>3 DEF vars, rowVars, localVars
<1> QED BY <1>2, <1>3, AuditsDrainer DEF Next, RelayInv

(* The stream.outbox_drained audits add up to the published rows, for any  *)
(* drainers, crashes and failures: drained_count is written in the         *)
(* transaction of the marks it counts, and no row is marked twice.         *)
THEOREM AuditsAddUp == Spec => []AuditsCountPublished
<1>1. Audits => AuditsCountPublished
  BY DEF Audits, AuditsCountPublished, Published
<1> QED BY <1>1, AuditsInit, AuditsStep, RelayInvInvariant, PTL DEF Spec

-----------------------------------------------------------------------------
(* The unindexed copies.  A set L of copies accounts for the gaps so far:  *)
(* any other live copy that is not indexed is in the hands of the drainer  *)
(* that works on its row, which has no second one.  An old copy in L may   *)
(* come into a window again when the lower bound could not be read, so the *)
(* copies in flight alone do not make an invariant.                        *)
Unindexed == {r \in 1..StreamTail : Live(r) /\ r \notin index}

Flying(d, r) ==
    /\ cur[d] = stream[r]
    /\ \/ pc[d] = "index" /\ rid[d] = r /\ low[d] <= r
       \/ pc[d] = "recover" /\ low[d] <= r
       \/ pc[d] = "scan" /\ cursor[d] <= r /\ r <= upper[d]

Covers(L) ==
    /\ \A r \in Unindexed \ L : \E d \in Drainers : Flying(d, r)
    /\ \A d \in Drainers : \A r, s \in Unindexed \ L : Flying(d, r) /\ Flying(d, s) => r = s

Windows == \A d \in Drainers : low[d] <= StreamTail + 1

GapsCover ==
    /\ Windows
    /\ \E L : IsFiniteSet(L) /\ Cardinality(L) <= faults.gaps /\ Covers(L)

LEMMA GapsInit == Init => GapsCover
<1> SUFFICES ASSUME Init PROVE GapsCover
  OBVIOUS
<1>1. StreamTail = 0
  BY DEF Init, StreamTail
<1>2. Windows
  BY <1>1 DEF Init, Windows
<1>3. Covers({})
  BY <1>1 DEF Covers, Unindexed
<1>4. IsFiniteSet({}) /\ Cardinality({}) <= faults.gaps
  BY FS_EmptySet DEF Init
<1> QED BY <1>2, <1>3, <1>4 DEF GapsCover

LEMMA GapsImplyProperty == Types /\ GapsCover => UnindexedCopiesNeedGaps
<1> SUFFICES ASSUME Types, GapsCover PROVE UnindexedCopiesNeedGaps
  OBVIOUS
<1> DEFINE S == {r \in 1..StreamTail : Live(r) /\ r \notin index /\ ~InFlight(r)}
<1>1. PICK L : IsFiniteSet(L) /\ Cardinality(L) <= faults.gaps /\ Covers(L)
  BY DEF GapsCover
<1>2. S \subseteq L
  <2> SUFFICES ASSUME NEW r \in S, r \notin L PROVE FALSE
    OBVIOUS
  <2>1. r \in Unindexed \ L
    BY DEF Unindexed
  <2>2. \E d \in Drainers : Flying(d, r)
    BY <1>1, <2>1 DEF Covers
  <2> QED BY <2>2 DEF Flying, InFlight
<1> HIDE DEF S
<1>3. IsFiniteSet(S) /\ Cardinality(S) <= Cardinality(L)
  BY <1>1, <1>2, FS_Subset
<1>4. Cardinality(S) \in Nat /\ Cardinality(L) \in Nat /\ faults.gaps \in Nat
  BY <1>1, <1>3, FS_CardinalityType DEF Types, CountTypes
<1>5. Cardinality(S) <= faults.gaps
  BY <1>1, <1>3, <1>4
<1> QED BY <1>5 DEF S, UnindexedCopiesNeedGaps

LEMMA StreamHoldsEvents ==
    ASSUME Types, NEW r \in 1..StreamTail PROVE stream[r] \in Events /\ r \in Nat
  BY ElementOfSeq, TailType DEF Types, RedisTypes, StreamTail

(* The row lock: whoever has a copy of the row of d in flight is d.        *)
LEMMA MineFlies ==
    ASSUME Types, Locks, NEW L, Covers(L), NEW d \in Drainers, NEW r \in Unindexed \ L,
           stream[r] = cur[d]
    PROVE  Flying(d, r)
<1>1. PICK x \in Drainers : Flying(x, r)
  BY DEF Covers
<1>2. cur[x] = cur[d] /\ cur[d] \in Events
  BY <1>1, StreamHoldsEvents DEF Flying, Unindexed
<1>3. x = d
  BY <1>2 DEF Locks
<1> QED BY <1>1, <1>3

Apart(d) ==
    \A x \in Drainers \ {d} :
        /\ pc'[x] = pc[x] /\ cur'[x] = cur[x] /\ low'[x] = low[x] /\ rid'[x] = rid[x]
        /\ cursor'[x] = cursor[x] /\ upper'[x] = upper[x]

(* What a step of d must show: the copies that are left, old or new, of    *)
(* the row it had are in flight at d, and there is at most one.            *)
LEMMA CoversStep ==
    ASSUME Types, Locks, NEW L, Covers(L), NEW d \in Drainers, Apart(d), NEW M, L \subseteq M,
           \A r \in Unindexed' : \/ r \in Unindexed /\ stream'[r] = stream[r]
                                 \/ stream'[r] = cur[d] /\ cur[d] \in Events,
           \A r \in Unindexed' \ M : stream'[r] = cur[d] => Flying(d, r)',
           \A r, s \in Unindexed' \ M : Flying(d, r)' /\ Flying(d, s)' => r = s
    PROVE  Covers(M)'
<1>1. ASSUME NEW r \in Unindexed' \ M PROVE \E x \in Drainers : Flying(x, r)'
  <2>1. CASE stream'[r] = cur[d]
    BY <1>1, <2>1
  <2>2. CASE stream'[r] # cur[d]
    <3>1. r \in Unindexed \ L /\ stream'[r] = stream[r]
      BY <1>1, <2>2
    <3>2. PICK x \in Drainers : Flying(x, r)
      BY <3>1 DEF Covers
    <3>3. x # d
      BY <2>2, <3>1, <3>2 DEF Flying
    <3>4. Flying(x, r)'
      BY <3>1, <3>2, <3>3 DEF Flying, Apart
    <3> QED BY <3>4
  <2> QED BY <2>1, <2>2
<1>2. ASSUME NEW x \in Drainers, x # d, NEW r \in Unindexed' \ M, Flying(x, r)'
      PROVE  r \in Unindexed \ L /\ Flying(x, r)
  <2>1. cur[x] = stream'[r]
    BY <1>2 DEF Flying, Apart
  <2>2. cur[x] = cur[d] /\ cur[d] \in Events => FALSE
    BY <1>2 DEF Locks
  <2>3. r \in Unindexed /\ stream'[r] = stream[r]
    BY <1>2, <2>1, <2>2
  <2> QED BY <1>2, <2>3 DEF Flying, Apart
<1>3. ASSUME NEW x \in Drainers, NEW r \in Unindexed' \ M, NEW s \in Unindexed' \ M,
             Flying(x, r)', Flying(x, s)'
      PROVE  r = s
  <2>1. CASE x = d
    BY <1>3, <2>1
  <2>2. CASE x # d
    BY <1>2, <1>3, <2>2 DEF Covers
  <2> QED BY <2>1, <2>2
<1> QED BY <1>1, <1>3 DEF Covers

(* Redis leaves the stream alone and the index only grows.                 *)
LEMMA UnindexedShrinks ==
    ASSUME UNCHANGED <<stream, trimmed>>, index \subseteq index'
    PROVE  /\ \A r \in Unindexed' : r \in Unindexed /\ stream'[r] = stream[r] /\ r \notin index'
           /\ StreamTail' = StreamTail
  BY DEF Unindexed, Live, StreamTail

LEMMA OldEntry ==
    ASSUME NEW n \in Nat, NEW t \in Nat, NEW u \in Nat, u >= t,
           NEW r \in (u + 1)..(n + 1), r # n + 1
    PROVE  r \in 1..n /\ r \in (t + 1)..n
  OBVIOUS

(* Redis takes an entry: every copy that is not indexed is old or new.     *)
LEMMA UnindexedGrows ==
    ASSUME Types, NEW e \in Events, RedisAccepts(e), index' = index
    PROVE  /\ \A r \in Unindexed' : \/ r \in Unindexed /\ stream'[r] = stream[r]
                                    \/ r = StreamTail + 1 /\ stream'[r] = e
           /\ StreamTail' = StreamTail + 1
<1>1. stream \in Seq(Events) /\ StreamTail \in Nat /\ trimmed \in Nat
  BY TailType DEF Types, RedisTypes
<1>2. /\ StreamTail' = StreamTail + 1 /\ stream'[StreamTail + 1] = e
      /\ \A r \in 1..StreamTail : stream'[r] = stream[r]
  BY <1>1, AppendProperties DEF RedisAccepts, StreamTail
<1>3. trimmed' \in Nat /\ trimmed' >= trimmed
  BY <1>1 DEF RedisAccepts
<1>4. ASSUME NEW r \in Unindexed', r # StreamTail + 1 PROVE r \in Unindexed
  <2>1. r \in 1..(StreamTail + 1) /\ r \in (trimmed' + 1)..(StreamTail + 1) /\ r \notin index
    BY <1>2, <1>4 DEF Unindexed, Live
  <2>2. r \in 1..StreamTail /\ r \in (trimmed + 1)..StreamTail
    BY <1>1, <1>3, <1>4, <2>1, OldEntry
  <2> QED BY <2>1, <2>2 DEF Unindexed, Live
<1>5. \A r \in Unindexed : r \in 1..StreamTail
  BY DEF Unindexed
<1> QED BY <1>2, <1>4, <1>5

Flights == {"index", "recover", "scan"}

(* A step of d between statements that have no copy in their hands.        *)
LEMMA CoversQuiet ==
    ASSUME Types, Locks, NEW L, Covers(L), NEW d \in Drainers, Apart(d),
           UNCHANGED <<stream, trimmed>>, index \subseteq index',
           pc[d] \notin Flights, pc'[d] \notin Flights
    PROVE  Covers(L)'
<1>1. \A r \in Unindexed \ L : stream[r] # cur[d]
  BY MineFlies DEF Flying, Flights
<1>2. \A r : ~Flying(d, r)'
  BY DEF Flying, Flights
<1>3. \A r \in Unindexed' : r \in Unindexed /\ stream'[r] = stream[r]
  BY UnindexedShrinks
<1> QED BY <1>1, <1>2, <1>3, CoversStep

(* XADD: the new entry is the one copy of its row that is not accounted    *)
(* for, whether its answer arrives or not.                                 *)
LEMMA CoversXadd ==
    ASSUME Types, Locks, Windows, NEW L, Covers(L), NEW d \in Drainers, Apart(d),
           cur[d] \in Events, RedisAccepts(cur[d]), index' = index, pc[d] \notin Flights,
           UNCHANGED <<cur, low>>,
           pc'[d] = "recover" \/ (pc'[d] = "index" /\ rid'[d] = StreamTail + 1)
    PROVE  Covers(L)'
<1>1. \A r \in Unindexed \ L : stream[r] # cur[d]
  BY MineFlies DEF Flying, Flights
<1>2. \A r \in Unindexed' : \/ r \in Unindexed /\ stream'[r] = stream[r]
                            \/ r = StreamTail + 1 /\ stream'[r] = cur[d]
  BY UnindexedGrows
<1>3. \A r \in Unindexed' \ L : stream'[r] = cur[d] => r = StreamTail + 1
  BY <1>1, <1>2
<1>4. low[d] <= StreamTail + 1
  BY DEF Windows
<1>5. \A r \in Unindexed' \ L : stream'[r] = cur[d] => Flying(d, r)'
  BY <1>3, <1>4 DEF Flying
<1>6. \A r \in Unindexed' \ L : Flying(d, r)' => r = StreamTail + 1
  BY <1>3 DEF Flying
<1> QED BY <1>2, <1>5, <1>6, CoversStep

(* XADD is refused, or a write fails: what was in flight still is.         *)
LEMMA CoversFail ==
    ASSUME Types, Locks, NEW L, Covers(L), NEW d \in Drainers, Apart(d),
           UNCHANGED <<stream, trimmed, index, cur, low>>,
           pc[d] \notin {"recover", "scan"}, pc'[d] = "recover"
    PROVE  Covers(L)'
<1>1. \A r \in Unindexed \ L : stream[r] = cur[d] => pc[d] = "index" /\ rid[d] = r /\ low[d] <= r
  BY MineFlies DEF Flying
<1>2. \A r \in Unindexed' : r \in Unindexed /\ stream'[r] = stream[r]
  BY UnindexedShrinks
<1>3. \A r \in Unindexed' \ L : stream'[r] = cur[d] => Flying(d, r)'
  BY <1>1, <1>2 DEF Flying
<1>4. \A r \in Unindexed' \ L : Flying(d, r)' => rid[d] = r
  BY <1>1, <1>2 DEF Flying
<1> QED BY <1>2, <1>3, <1>4, CoversStep

LEMMA CoversIndex ==
    ASSUME Types, Locks, NEW L, Covers(L), NEW d \in Drainers, Apart(d),
           UNCHANGED <<stream, trimmed>>, pc[d] = "index", pc'[d] = "mark",
           index' = index \cup {rid[d]}
    PROVE  Covers(L)'
<1>1. \A r \in Unindexed \ L : stream[r] = cur[d] => rid[d] = r
  BY MineFlies DEF Flying
<1>2. \A r \in Unindexed' : r \in Unindexed /\ stream'[r] = stream[r] /\ r \notin index'
  BY UnindexedShrinks
<1>3. \A r \in Unindexed' \ L : stream'[r] # cur[d]
  BY <1>1, <1>2
<1>4. \A r : ~Flying(d, r)'
  BY DEF Flying
<1> QED BY <1>2, <1>3, <1>4, CoversStep

(* The scan begins: the window reaches from the lower bound to the tail.   *)
LEMMA CoversScanStart ==
    ASSUME Types, Locks, NEW L, Covers(L), NEW d \in Drainers, ReconcileStart(d) PROVE Covers(L)'
<1>0. /\ UNCHANGED <<stream, trimmed, index, cur, low, rid>> /\ pc[d] = "recover"
      /\ \/ /\ StreamTail = 0 \/ low[d] > StreamTail
            /\ pc' = [pc EXCEPT ![d] = "bump"] /\ UNCHANGED <<cursor, upper>>
         \/ /\ pc' = [pc EXCEPT ![d] = "scan"] /\ cursor' = [cursor EXCEPT ![d] = low[d]]
            /\ upper' = [upper EXCEPT ![d] = StreamTail]
  BY DEF ReconcileStart, redisVars
<1>1. Apart(d)
  BY <1>0 DEF Apart, Types, LocalTypes
<1>2. \A r \in Unindexed' : r \in Unindexed /\ stream'[r] = stream[r]
  BY <1>0, UnindexedShrinks
<1>3. \A r \in Unindexed : r \in 1..StreamTail
  BY DEF Unindexed
<1>4. \A r \in Unindexed \ L : stream[r] = cur[d] => low[d] <= r
  BY <1>0, MineFlies DEF Flying
<1>5. \A r, s \in Unindexed \ L : stream[r] = cur[d] /\ stream[s] = cur[d] => r = s
  BY <1>0, MineFlies DEF Covers
<1>6. \A r \in Unindexed' \ L : Flying(d, r)' => stream[r] = cur[d]
  BY <1>0 DEF Flying
<1>7. \A r \in Unindexed' \ L : stream'[r] = cur[d] => Flying(d, r)'
  <2> SUFFICES ASSUME NEW r \in Unindexed' \ L, stream'[r] = cur[d] PROVE Flying(d, r)'
    OBVIOUS
  <2>1. r \in 1..StreamTail /\ low[d] <= r /\ low[d] \in Nat /\ StreamTail \in Nat
    BY <1>2, <1>3, <1>4, TailType DEF Types, LocalTypes
  <2>2. ~(StreamTail = 0 \/ low[d] > StreamTail)
    BY <2>1
  <2>3. pc'[d] = "scan" /\ cursor'[d] = low[d] /\ upper'[d] = StreamTail
    BY <1>0, <2>2 DEF Types, LocalTypes
  <2>4. r <= StreamTail
    BY <2>1
  <2> QED BY <1>0, <2>1, <2>3, <2>4 DEF Flying
<1> QED BY <1>1, <1>2, <1>5, <1>6, <1>7, CoversStep

LEMMA CoversPage ==
    ASSUME Types, Locks, NEW L, Covers(L), NEW d \in Drainers, ReconcilePage(d) PROVE Covers(L)'
<1>0. PICK to \in cursor[d]+1 .. upper[d]+1 :
         /\ index' = index \cup {r \in Page(cursor[d], to) : stream[r] = cur[d]}
         /\ cursor' = [cursor EXCEPT ![d] = to]
         /\ pc' = [pc EXCEPT ![d] = IF to > upper[d] THEN "bump" ELSE "scan"]
  BY DEF ReconcilePage
<1>1. UNCHANGED <<stream, trimmed, cur, low, rid, upper>> /\ pc[d] = "scan"
  BY DEF ReconcilePage, redisVars
<1>2. Apart(d) /\ cursor'[d] = to /\ pc'[d] = IF to > upper[d] THEN "bump" ELSE "scan"
  BY <1>0, <1>1 DEF Apart, Types, LocalTypes
<1>3. \A r \in Unindexed' : r \in Unindexed /\ stream'[r] = stream[r] /\ r \notin index'
  BY <1>0, <1>1, UnindexedShrinks
<1>4. \A r \in Unindexed : Live(r) /\ r \in Nat
  BY TailType DEF Unindexed
<1>5. \A r \in Unindexed \ L : stream[r] = cur[d] => cursor[d] <= r /\ r <= upper[d]
  BY <1>1, MineFlies DEF Flying
<1>6. \A r, s \in Unindexed \ L : stream[r] = cur[d] /\ stream[s] = cur[d] => r = s
  BY MineFlies DEF Covers
<1>7. cursor[d] \in Nat /\ upper[d] \in Nat /\ to \in Nat
  BY <1>0 DEF Types, LocalTypes
<1>8. ASSUME NEW r \in Unindexed' \ L, stream'[r] = cur[d] PROVE Flying(d, r)'
  <2>1. cursor[d] <= r /\ r <= upper[d] /\ r \in Nat /\ Live(r) /\ stream[r] = cur[d]
    BY <1>3, <1>4, <1>5, <1>8
  <2>2. r \notin Page(cursor[d], to)
    BY <1>0, <1>3, <1>8, <2>1
  <2>3. ~(r \in cursor[d]..(to - 1))
    BY <2>1, <2>2 DEF Page
  <2>4. to <= r /\ ~(to > upper[d])
    BY <1>7, <2>1, <2>3
  <2> QED BY <1>1, <1>2, <2>1, <2>4 DEF Flying
<1>9. \A r \in Unindexed' \ L : Flying(d, r)' => stream[r] = cur[d]
  BY <1>1 DEF Flying
<1> QED BY <1>2, <1>3, <1>6, <1>8, <1>9, CoversStep

(* A gap: the one copy that d had in flight is accounted for from now on.  *)
LEMMA CoversGap ==
    ASSUME Types, Locks, NEW L, IsFiniteSet(L), Covers(L), NEW d \in Drainers, Apart(d),
           UNCHANGED <<stream, trimmed, index>>, pc'[d] \notin Flights
    PROVE  \E M : IsFiniteSet(M) /\ Cardinality(M) <= Cardinality(L) + 1 /\ Covers(M)'
<1>0. \A r \in Unindexed' : r \in Unindexed /\ stream'[r] = stream[r]
  BY UnindexedShrinks
<1>1. \A r : ~Flying(d, r)'
  BY DEF Flying, Flights
<1>2. Cardinality(L) \in Nat
  BY FS_CardinalityType
<1>3. CASE \E q \in Unindexed \ L : Flying(d, q)
  <2>1. PICK q \in Unindexed \ L : Flying(d, q)
    BY <1>3
  <2> DEFINE M == L \cup {q}
  <2>2. IsFiniteSet(M) /\ Cardinality(M) <= Cardinality(L) + 1
    <3>1. IsFiniteSet(M) /\ Cardinality(M) = Cardinality(L) + 1
      BY FS_AddElement
    <3>2. Cardinality(L) + 1 <= Cardinality(L) + 1
      BY <1>2
    <3> QED BY <3>1, <3>2
  <2>3. \A r \in Unindexed' \ M : stream'[r] # cur[d]
    <3> SUFFICES ASSUME NEW r \in Unindexed' \ M, stream'[r] = cur[d] PROVE FALSE
      OBVIOUS
    <3>1. r \in Unindexed \ L /\ stream[r] = cur[d] /\ r # q
      BY <1>0
    <3>2. Flying(d, r)
      BY <3>1, MineFlies
    <3> QED BY <2>1, <3>1, <3>2 DEF Covers
  <2>4. L \subseteq M
    OBVIOUS
  <2> HIDE DEF M
  <2>5. Covers(M)'
    <3>1. \A r, s \in Unindexed' \ M : Flying(d, r)' /\ Flying(d, s)' => r = s
      BY <1>1
    <3> QED BY <1>0, <2>3, <2>4, <3>1, CoversStep
  <2> QED BY <2>2, <2>5
<1>4. CASE ~\E q \in Unindexed \ L : Flying(d, q)
  <2>1. \A r \in Unindexed' \ L : stream'[r] # cur[d]
    BY <1>0, <1>4, MineFlies
  <2>2. Covers(L)'
    BY <1>0, <1>1, <2>1, CoversStep
  <2>3. Cardinality(L) <= Cardinality(L) + 1
    BY <1>2
  <2> QED BY <2>2, <2>3
<1> QED BY <1>3, <1>4

(* Only a kill and a failed scan are gaps.                                 *)
LEMMA FaultCounts ==
    ASSUME Types, NEW k, Fault(k)
    PROVE  /\ k \in {"crash", "scan"} => faults'.gaps = faults.gaps + 1
           /\ k \notin {"crash", "scan"} => faults'.gaps = faults.gaps
  BY DEF Fault

LEMMA GapsDrainer ==
    ASSUME NEW d \in Drainers, Types, Locks, GapsCover, DrainerStep(d) \/ Crash(d)
    PROVE  GapsCover'
<1> USE DEF redisVars, localVars
<1>0. PICK L : IsFiniteSet(L) /\ Cardinality(L) <= faults.gaps /\ Covers(L)
  BY DEF GapsCover
<1>a. Cardinality(L) \in Nat /\ faults.gaps \in Nat
  BY <1>0, FS_CardinalityType DEF Types, CountTypes
<1>b. Windows /\ StreamTail \in Nat
  BY TailType DEF GapsCover
<1>c. ASSUME faults'.gaps = faults.gaps, Covers(L)', Windows' PROVE GapsCover'
  BY <1>0, <1>c DEF GapsCover
<1>d. ASSUME StreamTail' = StreamTail, low' = low PROVE Windows'
  BY <1>b, <1>d DEF Windows
<1>e. ASSUME stream' = stream PROVE StreamTail' = StreamTail
  BY <1>e DEF StreamTail
<1>1. CASE SelectBatch(d) \/ MarkPublished(d) \/ BumpAttempts(d)
  <2>1. /\ UNCHANGED <<stream, trimmed, index, low, faults>> /\ Apart(d)
        /\ pc[d] \notin Flights /\ pc'[d] \notin Flights
    BY <1>1 DEF SelectBatch, MarkPublished, BumpAttempts, Apart, Flights, Types, LocalTypes
  <2>2. Covers(L)'
    BY <1>0, <2>1, CoversQuiet
  <2> QED BY <1>c, <1>d, <1>e, <2>1, <2>2
<1>2. CASE BeginRow(d)
  <2>1. /\ UNCHANGED <<stream, trimmed, index>> /\ Apart(d)
        /\ pc[d] \notin Flights /\ pc'[d] \notin Flights
    BY <1>2 DEF BeginRow, Apart, Flights, Types, LocalTypes
  <2>2. Covers(L)'
    BY <1>0, <2>1, CoversQuiet
  <2>3. faults'.gaps = faults.gaps
    BY <1>2, FaultCounts DEF BeginRow
  <2>4. Windows'
    <3>1. StreamTail' = StreamTail
      BY <1>e, <2>1
    <3>2. low'[d] \in {0, CaptureStreamLowerBound} /\ \A x \in Drainers \ {d} : low'[x] = low[x]
      BY <1>2 DEF BeginRow, Types, LocalTypes
    <3>3. 0 <= StreamTail + 1 /\ CaptureStreamLowerBound <= StreamTail + 1
      BY <1>b DEF CaptureStreamLowerBound
    <3> QED BY <1>b, <3>1, <3>2, <3>3 DEF Windows
  <2> QED BY <1>c, <2>2, <2>3, <2>4
<1>3. CASE Xadd(d) \/ (XaddFails(d) /\ RedisAccepts(cur[d]))
  <2>1. cur[d] \in Events /\ RedisAccepts(cur[d]) /\ index' = index
    BY <1>3 DEF Xadd, XaddFails, Types, HasRow, RowSteps
  <2>2. UNCHANGED <<cur, low>> /\ pc[d] \notin Flights /\ Apart(d)
    BY <1>3 DEF Xadd, XaddFails, Flights, Apart, Types, LocalTypes
  <2>3. pc'[d] = "recover" \/ (pc'[d] = "index" /\ rid'[d] = StreamTail + 1)
    BY <1>3 DEF Xadd, XaddFails, Types, LocalTypes
  <2>4. Covers(L)'
    BY <1>0, <1>b, <2>1, <2>2, <2>3, CoversXadd
  <2>5. faults'.gaps = faults.gaps
    BY <1>3, FaultCounts DEF Xadd, XaddFails
  <2>6. Windows'
    <3>1. StreamTail' = StreamTail + 1
      BY <2>1, UnindexedGrows
    <3>2. \A x \in Drainers : low[x] \in Nat
      BY DEF Types, LocalTypes
    <3> QED BY <1>b, <2>2, <3>1, <3>2 DEF Windows
  <2> QED BY <1>c, <2>4, <2>5, <2>6
<1>4. CASE \/ XaddFails(d) /\ UNCHANGED <<stream, trimmed>>
           \/ IndexXaddFails(d) \/ MarkPublishedFails(d)
  <2>1. UNCHANGED <<stream, trimmed, index, cur, low>> /\ Apart(d)
    BY <1>4 DEF XaddFails, IndexXaddFails, MarkPublishedFails, Apart, Types, LocalTypes
  <2>2. pc[d] \notin {"recover", "scan"} /\ pc'[d] = "recover"
    BY <1>4 DEF XaddFails, IndexXaddFails, MarkPublishedFails, Types, LocalTypes
  <2>3. Covers(L)'
    BY <1>0, <2>1, <2>2, CoversFail
  <2>4. faults'.gaps = faults.gaps
    BY <1>4, FaultCounts DEF XaddFails, IndexXaddFails, MarkPublishedFails
  <2> QED BY <1>c, <1>d, <1>e, <2>1, <2>3, <2>4
<1>5. CASE IndexXadd(d)
  <2>1. /\ UNCHANGED <<stream, trimmed, low, faults>> /\ Apart(d) /\ pc[d] = "index"
        /\ pc'[d] = "mark" /\ index' = index \cup {rid[d]}
    BY <1>5 DEF IndexXadd, Apart, Types, LocalTypes
  <2>2. Covers(L)'
    BY <1>0, <2>1, CoversIndex
  <2> QED BY <1>c, <1>d, <1>e, <2>1, <2>2
<1>6. CASE ReconcileStart(d) \/ ReconcilePage(d)
  <2>1. UNCHANGED <<stream, low, faults>>
    BY <1>6 DEF ReconcileStart, ReconcilePage
  <2>2. Covers(L)'
    BY <1>0, <1>6, CoversScanStart, CoversPage
  <2> QED BY <1>c, <1>d, <1>e, <2>1, <2>2
<1>7. CASE ReconcileFails(d) \/ Crash(d)
  <2>1. UNCHANGED <<stream, trimmed, index>> /\ Apart(d) /\ pc'[d] \notin Flights
    BY <1>7 DEF ReconcileFails, Crash, EndTransaction, Apart, Flights, Types, LocalTypes
  <2>2. PICK M : IsFiniteSet(M) /\ Cardinality(M) <= Cardinality(L) + 1 /\ Covers(M)'
    BY <1>0, <2>1, CoversGap
  <2>3. faults'.gaps = faults.gaps + 1
    BY <1>7, FaultCounts DEF ReconcileFails, Crash
  <2>4. Cardinality(M) <= faults'.gaps
    <3>1. Cardinality(M) \in Nat
      BY <2>2, FS_CardinalityType
    <3> QED BY <1>0, <1>a, <2>2, <2>3, <3>1
  <2>5. Windows'
    <3>1. \A x \in Drainers : low'[x] = low[x] \/ low'[x] = 0
      BY <1>7 DEF ReconcileFails, Crash, EndTransaction, Types, LocalTypes
    <3>2. 0 <= StreamTail + 1
      BY <1>b
    <3> QED BY <1>b, <1>e, <2>1, <3>1, <3>2 DEF Windows
  <2> QED BY <2>2, <2>4, <2>5 DEF GapsCover
<1>8. CASE CommitBatch(d)
  <2>1. /\ UNCHANGED <<stream, trimmed, faults>> /\ index \subseteq index' /\ Apart(d)
        /\ pc[d] \notin Flights /\ pc'[d] \notin Flights
    BY <1>8 DEF CommitBatch, EndTransaction, Apart, Flights, Types, LocalTypes
  <2>2. Covers(L)'
    BY <1>0, <2>1, CoversQuiet
  <2>3. Windows'
    <3>1. \A x \in Drainers : low'[x] = low[x] \/ low'[x] = 0
      BY <1>8 DEF CommitBatch, EndTransaction, Types, LocalTypes
    <3>2. 0 <= StreamTail + 1
      BY <1>b
    <3> QED BY <1>b, <1>e, <2>1, <3>1, <3>2 DEF Windows
  <2> QED BY <1>c, <2>1, <2>2, <2>3
<1>9. XaddFails(d) => RedisAccepts(cur[d]) \/ UNCHANGED <<stream, trimmed>>
  BY DEF XaddFails
<1> QED BY <1>1, <1>2, <1>3, <1>4, <1>5, <1>6, <1>7, <1>8, <1>9 DEF DrainerStep

LEMMA GapsStep == RelayInv /\ GapsCover /\ [Next]_vars => GapsCover'
<1>1. ASSUME GapsCover, UNCHANGED <<stream, trimmed, index, pc, localVars, faults>>
      PROVE  GapsCover'
  <2>0. UNCHANGED <<stream, trimmed, index, pc, cur, low, rid, cursor, upper, faults>>
    BY <1>1 DEF localVars
  <2>1. StreamTail' = StreamTail /\ Unindexed' = Unindexed
    BY <2>0 DEF StreamTail, Unindexed, Live
  <2>2. ASSUME NEW L, Covers(L) PROVE Covers(L)'
    BY <2>0, <2>1, <2>2 DEF Covers, Flying
  <2>3. Windows'
    BY <1>1, <2>0, <2>1 DEF GapsCover, Windows
  <2> QED BY <1>1, <2>0, <2>2, <2>3 DEF GapsCover
<1>2. ASSUME NEW e \in Events, GapsCover, CommitPublish(e) PROVE GapsCover'
  BY <1>1, <1>2 DEF CommitPublish, redisVars
<1>3. ASSUME GapsCover, UNCHANGED vars PROVE GapsCover'
  BY <1>1, <1>3 DEF vars, redisVars
<1> QED BY <1>2, <1>3, GapsDrainer DEF Next, RelayInv

(* Lost answers, failed index and row writes leave no Redis copy that the  *)
(* redaction lookup cannot find: only a kill and a failed recovery scan    *)
(* do, one copy each, for any number of drainers, any page size and any    *)
(* trimming.  The row lock makes the drainer the only one that adds copies *)
(* of its row, and its window begins before the copy it adds.              *)
THEOREM UnindexedCopiesAreGaps == Spec => []UnindexedCopiesNeedGaps
<1>1. RelayInv /\ GapsCover => UnindexedCopiesNeedGaps
  BY GapsImplyProperty DEF RelayInv
<1> QED BY <1>1, GapsInit, GapsStep, RelayInvInvariant, PTL DEF Spec

-----------------------------------------------------------------------------
(* The extra copies.  A row has an account of one copy while it is         *)
(* published, or a transaction that holds its lock has added its copy      *)
(* without a fault since; the others are paid for by faults.               *)
CopiesOf(e) == {r \in 1..StreamTail : stream[r] = e}

HeldBy(d, e) ==
    \/ marks[d][e] # 0
    \/ cur[d] = e /\ pc[d] \in {"index", "mark"}

Settled(e) == published[e] # 0 \/ \E d \in Drainers : HeldBy(d, e)

Paid(e) ==
    /\ IsFiniteSet(CopiesOf(e))
    /\ Cardinality(CopiesOf(e)) <= faults.all + (IF Settled(e) THEN 1 ELSE 0)

AllPaid == \A e \in Events : Paid(e)

LEMMA CopiesFinite ==
    ASSUME Types, NEW e PROVE IsFiniteSet(CopiesOf(e)) /\ Cardinality(CopiesOf(e)) \in Nat
<1>1. IsFiniteSet(1..StreamTail)
  BY TailType, FS_Interval
<1>2. CopiesOf(e) \subseteq 1..StreamTail
  BY DEF CopiesOf
<1> QED BY <1>1, <1>2, FS_Subset, FS_CardinalityType

LEMMA PaidInit == Init => AllPaid
<1> SUFFICES ASSUME Init, NEW e \in Events PROVE Paid(e)
  BY DEF AllPaid
<1>1. CopiesOf(e) = {}
  BY DEF Init, CopiesOf, StreamTail
<1>2. faults.all = 0
  BY DEF Init
<1> QED BY <1>1, <1>2, FS_EmptySet DEF Paid

(* XADD gives the event one more copy and leaves the others alone.         *)
LEMMA XaddAddsOne ==
    ASSUME Types, NEW x \in Events, RedisAccepts(x), NEW e \in Events
    PROVE  IF e = x THEN Cardinality(CopiesOf(e)') = Cardinality(CopiesOf(e)) + 1
                    ELSE CopiesOf(e)' = CopiesOf(e)
<1>1. /\ StreamTail \in Nat /\ StreamTail' = StreamTail + 1
      /\ stream'[StreamTail + 1] = x
      /\ \A r \in 1..StreamTail : stream'[r] = stream[r]
  <2>1. stream \in Seq(Events) /\ StreamTail \in Nat
    BY TailType DEF Types, RedisTypes
  <2> QED BY <2>1, AppendProperties DEF RedisAccepts, StreamTail
<1>2. \A r \in 1..StreamTail : r # StreamTail + 1
  BY <1>1
<1>3. 1..(StreamTail + 1) = (1..StreamTail) \cup {StreamTail + 1}
  BY <1>1
<1>4. CASE e = x
  <2>1. CopiesOf(e)' = CopiesOf(e) \cup {StreamTail + 1} /\ StreamTail + 1 \notin CopiesOf(e)
    BY <1>1, <1>2, <1>3, <1>4 DEF CopiesOf
  <2> QED BY <1>4, <2>1, CopiesFinite, FS_AddElement
<1>5. CASE e # x
  BY <1>1, <1>2, <1>3, <1>5 DEF CopiesOf
<1> QED BY <1>4, <1>5

(* Every fault pays for one copy of each event.                            *)
LEMMA FaultPays == ASSUME Types, NEW k, Fault(k) PROVE faults'.all = faults.all + 1
  BY DEF Fault

(* No copy is added: the account needs a fault only where it is closed.    *)
LEMMA PaidQuiet ==
    ASSUME Types, AllPaid, stream' = stream, Types',
           \/ faults'.all = faults.all + 1
           \/ faults'.all = faults.all /\ \A e \in Events : Settled(e) => Settled(e)'
    PROVE  AllPaid'
<1> SUFFICES ASSUME NEW e \in Events PROVE Paid(e)'
  BY DEF AllPaid
<1>1. CopiesOf(e)' = CopiesOf(e)
  BY DEF CopiesOf, StreamTail
<1>2. Cardinality(CopiesOf(e)) <= faults.all + (IF Settled(e) THEN 1 ELSE 0)
  BY DEF AllPaid, Paid
<1>3. IsFiniteSet(CopiesOf(e)) /\ Cardinality(CopiesOf(e)) \in Nat
  BY CopiesFinite
<1>4. faults.all \in Nat /\ faults'.all \in Nat
  BY DEF Types, CountTypes
<1>5. Cardinality(CopiesOf(e)) <= faults'.all + (IF Settled(e)' THEN 1 ELSE 0)
  BY <1>2, <1>3, <1>4
<1> QED BY <1>1, <1>3, <1>5 DEF Paid

(* Nothing is taken back from a transaction that is left open.             *)
LEMMA SettledStays ==
    ASSUME published' = published,
           NEW d \in Drainers, NEW e \in Events, Settled(e),
           \A x \in Drainers \ {d} : HeldBy(x, e) => HeldBy(x, e)',
           HeldBy(d, e) => HeldBy(d, e)'
    PROVE  Settled(e)'
  BY DEF Settled

(* The row in the hands of d before its XADD has an open account only.     *)
LEMMA CurrentIsOpen ==
    ASSUME RelayInv, Untouched, NEW d \in Drainers, cur[d] \in Events,
           pc[d] \notin {"index", "mark"}
    PROVE  ~Settled(cur[d])
<1>1. published[cur[d]] = 0
  BY CurrentIsPending
<1>2. ASSUME NEW x \in Drainers, HeldBy(x, cur[d]) PROVE FALSE
  <2>1. x = d
    BY <1>2 DEF HeldBy, RelayInv, Locks
  <2> QED BY <1>2, <2>1 DEF HeldBy, Untouched
<1> QED BY <1>1, <1>2 DEF Settled

LEMMA PaidXadd ==
    ASSUME NEW d \in Drainers, RelayInv, Untouched, AllPaid, Types', cur[d] \in Events,
           RedisAccepts(cur[d]), published' = published, marks' = marks, cur' = cur,
           \A x \in Drainers \ {d} : pc'[x] = pc[x], pc[d] = "xadd",
           \/ pc'[d] = "index" /\ faults'.all = faults.all
           \/ faults'.all = faults.all + 1
    PROVE  AllPaid'
<1> SUFFICES ASSUME NEW e \in Events PROVE Paid(e)'
  BY DEF AllPaid
<1>0. Types
  BY DEF RelayInv
<1>1. Cardinality(CopiesOf(e)) <= faults.all + (IF Settled(e) THEN 1 ELSE 0)
  BY DEF AllPaid, Paid
<1>2. Cardinality(CopiesOf(e)) \in Nat
  BY <1>0, CopiesFinite
<1>3. IsFiniteSet(CopiesOf(e)')
  <2>1. StreamTail' \in Nat
    BY LenProperties DEF Types, RedisTypes, StreamTail
  <2>2. IsFiniteSet(1..StreamTail')
    BY <2>1, FS_Interval
  <2>3. CopiesOf(e)' \subseteq 1..StreamTail'
    BY DEF CopiesOf
  <2> QED BY <2>2, <2>3, FS_Subset
<1>4. faults.all \in Nat /\ faults'.all \in Nat
  BY <1>0 DEF Types, CountTypes
<1>5. CASE e = cur[d]
  <2>1. Cardinality(CopiesOf(e)') = Cardinality(CopiesOf(e)) + 1
    BY <1>0, <1>5, XaddAddsOne
  <2>2. ~Settled(e)
    BY <1>5, CurrentIsOpen
  <2>3. pc'[d] = "index" => Settled(e)'
    BY <1>5 DEF Settled, HeldBy
  <2>4. Cardinality(CopiesOf(e)') <= faults'.all + (IF Settled(e)' THEN 1 ELSE 0)
    BY <1>1, <1>2, <1>4, <2>1, <2>2, <2>3
  <2> QED BY <1>3, <2>4 DEF Paid
<1>6. CASE e # cur[d]
  <2>1. CopiesOf(e)' = CopiesOf(e)
    BY <1>0, <1>6, XaddAddsOne
  <2>2. Settled(e) => Settled(e)'
    BY <1>6 DEF Settled, HeldBy
  <2>3. Cardinality(CopiesOf(e)') <= faults'.all + (IF Settled(e)' THEN 1 ELSE 0)
    BY <1>1, <1>2, <1>4, <2>1, <2>2
  <2> QED BY <1>3, <2>3 DEF Paid
<1> QED BY <1>5, <1>6

LEMMA PaidDrainer ==
    ASSUME NEW d \in Drainers, RelayInv, Untouched, AllPaid, Types', DrainerStep(d) \/ Crash(d)
    PROVE  AllPaid'
<1> USE DEF rowVars, redisVars, localVars
<1>0. Types
  BY DEF RelayInv
<1>1. CASE SelectBatch(d) \/ ReconcileStart(d) \/ ReconcilePage(d) \/ BumpAttempts(d)
             \/ BeginRow(d)
  <2>1. /\ UNCHANGED <<stream, published, marks>> /\ pc[d] \notin {"index", "mark"}
        /\ \A x \in Drainers \ {d} : pc'[x] = pc[x] /\ cur'[x] = cur[x]
    BY <1>0, <1>1 DEF SelectBatch, ReconcileStart, ReconcilePage, BumpAttempts, BeginRow,
                      Types, LocalTypes
  <2>2. \A e \in Events : Settled(e) => Settled(e)'
    BY <2>1 DEF Settled, HeldBy
  <2>3. faults'.all = faults.all \/ faults'.all = faults.all + 1
    BY <1>0, <1>1, FaultPays DEF SelectBatch, ReconcileStart, ReconcilePage, BumpAttempts, BeginRow
  <2> QED BY <1>0, <2>1, <2>2, <2>3, PaidQuiet
<1>2. CASE IndexXadd(d)
  <2>1. /\ UNCHANGED <<stream, published, marks, cur, faults>> /\ pc'[d] = "mark"
        /\ \A x \in Drainers \ {d} : pc'[x] = pc[x]
    BY <1>0, <1>2 DEF IndexXadd, Types, LocalTypes
  <2>2. \A e \in Events : Settled(e) => Settled(e)'
    BY <2>1 DEF Settled, HeldBy
  <2> QED BY <1>0, <2>1, <2>2, PaidQuiet
<1>3. CASE MarkPublished(d)
  <2>1. rid[d] # 0
    BY <1>3 DEF MarkPublished, RelayInv, Copies, Copy
  <2>2. /\ UNCHANGED <<stream, published, faults>>
        /\ \A x \in Drainers \ {d} : pc'[x] = pc[x] /\ cur'[x] = cur[x]
    BY <1>0, <1>3 DEF MarkPublished, Types, LocalTypes
  <2>3. \A x \in Drainers, e \in Events :
           marks'[x][e] = IF x = d /\ e = cur[d] THEN rid[d] ELSE marks[x][e]
    BY <1>0, <1>3 DEF MarkPublished, Types, LocalTypes
  <2>4. \A e \in Events : Settled(e) => Settled(e)'
    BY <2>1, <2>2, <2>3 DEF Settled, HeldBy
  <2> QED BY <1>0, <2>2, <2>4, PaidQuiet
<1>4. CASE CommitBatch(d)
  <2>1. /\ UNCHANGED <<stream, faults>> /\ pc[d] = "row"
        /\ \A x \in Drainers \ {d} :
              pc'[x] = pc[x] /\ cur'[x] = cur[x] /\ marks'[x] = marks[x]
    BY <1>0, <1>4 DEF CommitBatch, EndTransaction, Types, LocalTypes
  <2>2. \A e \in Events : published'[e] = IF marks[d][e] # 0 THEN marks[d][e] ELSE published[e]
    BY <1>4 DEF CommitBatch, CommittedMarks
  <2>3. \A e \in Events : Settled(e) => Settled(e)'
    BY <2>1, <2>2 DEF Settled, HeldBy
  <2> QED BY <1>0, <2>1, <2>3, PaidQuiet
<1>5. CASE IndexXaddFails(d) \/ MarkPublishedFails(d) \/ ReconcileFails(d) \/ Crash(d)
  <2>1. stream' = stream /\ faults'.all = faults.all + 1
    BY <1>0, <1>5, FaultPays DEF IndexXaddFails, MarkPublishedFails, ReconcileFails, Crash
  <2> QED BY <1>0, <2>1, PaidQuiet
<1>6. CASE Xadd(d)
  <2>1. cur[d] \in Events /\ RedisAccepts(cur[d]) /\ pc[d] = "xadd"
    BY <1>0, <1>6 DEF Xadd, Types, HasRow, RowSteps
  <2>2. /\ UNCHANGED <<published, marks, cur, faults>> /\ pc'[d] = "index"
        /\ \A x \in Drainers \ {d} : pc'[x] = pc[x]
    BY <1>0, <1>6 DEF Xadd, Types, LocalTypes
  <2> QED BY <2>1, <2>2, PaidXadd
<1>7. CASE XaddFails(d)
  <2>1. /\ cur[d] \in Events /\ pc[d] = "xadd" /\ UNCHANGED <<published, marks, cur>>
        /\ \A x \in Drainers \ {d} : pc'[x] = pc[x]
    BY <1>0, <1>7 DEF XaddFails, Types, LocalTypes, HasRow, RowSteps
  <2>2. CASE UNCHANGED <<stream, faults>>
    <3>1. \A e \in Events : Settled(e) => Settled(e)'
      BY <2>1 DEF Settled, HeldBy
    <3> QED BY <1>0, <2>2, <3>1, PaidQuiet
  <2>3. CASE Fault("xadd_refused") /\ stream' = stream
    BY <1>0, <2>3, FaultPays, PaidQuiet
  <2>4. CASE Fault("xadd_lost") /\ RedisAccepts(cur[d])
    <3>1. faults'.all = faults.all + 1
      BY <1>0, <2>4, FaultPays
    <3> QED BY <2>1, <2>4, <3>1, PaidXadd
  <2> QED BY <1>7, <2>2, <2>3, <2>4 DEF XaddFails
<1> QED BY <1>1, <1>2, <1>3, <1>4, <1>5, <1>6, <1>7 DEF DrainerStep

LEMMA PaidStep == RelayInv /\ Audits /\ AllPaid /\ Types' /\ [Next]_vars => AllPaid'
<1>1. ASSUME Types, AllPaid, Types', UNCHANGED <<stream, published, marks, cur, pc, faults>>
      PROVE  AllPaid'
  <2>1. \A e \in Events : Settled(e) => Settled(e)'
    BY <1>1 DEF Settled, HeldBy
  <2> QED BY <1>1, <2>1, PaidQuiet
<1>2. ASSUME NEW e \in Events, Types, AllPaid, Types', CommitPublish(e) PROVE AllPaid'
  BY <1>1, <1>2 DEF CommitPublish, redisVars, localVars
<1>3. ASSUME Types, AllPaid, Types', UNCHANGED vars PROVE AllPaid'
  BY <1>1, <1>3 DEF vars, rowVars, redisVars, localVars
<1> QED BY <1>2, <1>3, PaidDrainer DEF Next, RelayInv, Audits

(* For any events, drainers and faults, a fault pays for every copy of an  *)
(* event beyond the first: races for a row, refused rows in the batch and  *)
(* recovery scans add none.                                                *)
THEOREM ExtraCopiesAreFaults == Spec => []ExtraCopiesNeedFaults
<1>1. Types /\ AllPaid => ExtraCopiesNeedFaults
  <2> SUFFICES ASSUME Types, AllPaid, NEW e \in Events
               PROVE  Cardinality(CopiesOf(e)) <= 1 + faults.all
    BY DEF ExtraCopiesNeedFaults, CopiesOf
  <2>1. Cardinality(CopiesOf(e)) \in Nat /\ faults.all \in Nat
    BY CopiesFinite DEF Types, CountTypes
  <2>2. Cardinality(CopiesOf(e)) <= faults.all + (IF Settled(e) THEN 1 ELSE 0)
    BY DEF AllPaid, Paid
  <2> QED BY <2>1, <2>2
<1>2. RelayInv => Types
  BY DEF RelayInv
<1> QED BY <1>1, <1>2, PaidInit, PaidStep, AuditsInit, AuditsStep, RelayInvInvariant, PTL
        DEF Spec

=============================================================================
