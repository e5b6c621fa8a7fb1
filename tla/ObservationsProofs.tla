------------------------ MODULE ObservationsProofs ------------------------
(***************************************************************************)
(* Proofs about Observations: types, that an identifying series can be     *)
(* erased, that a committed batch is whole and honest, and what the series *)
(* events and the observations say about the catalog row.                  *)
(***************************************************************************)
EXTENDS Observations, TLAPS, FiniteSetTheorems, SequenceTheorems, WellFoundedInduction

(* A nonempty set of natural numbers has a smallest element.               *)
LEMMA SmallestElement ==
    ASSUME NEW T, T \subseteq Nat, T # {}
    PROVE  \E x \in T : \A y \in T : x <= y
<1> DEFINE R == OpToRel(<, Nat)
<1>1. IsWellFoundedOn(R, Nat)
  BY NatLessThanWellFounded
<1>2. PICK x \in T : \A y \in T : ~ (<<y, x>> \in R)
  <2> HIDE DEF R
  <2> QED BY <1>1, WFMin
<1>3. \A y \in T : <<y, x>> \in R <=> y < x
  BY DEF OpToRel
<1>4. \A y \in T : ~ (y < x)
  BY ONLY <1>2, <1>3
<1> QED BY <1>4

-----------------------------------------------------------------------------
(* Types.                                                                  *)
LEMMA WorkType ==
    ASSUME work \in Works, NEW j \in Jobs
    PROVE  /\ work[j].kind \in {"upsert", "write"} /\ work[j].def \in Definition
           /\ work[j].subjects \subseteq Texts
           /\ work[j].batch \in Seq([key : Keys, payload : Texts])
           /\ work[j].kind = "upsert" => work[j].def # NoSeries
<1>1. work[j] \in Work /\ (work[j].kind = "upsert" => work[j].def.fixed # "")
  BY ObservationConstants
<1>2. work[j].kind \in {"upsert", "write"}
  BY <1>1 DEF Work
<1>3. work[j].def \in Definition
  BY <1>1 DEF Work
<1>4. work[j].subjects \subseteq Texts
  BY <1>1 DEF Work
<1>5. work[j].batch \in Seq([key : Keys, payload : Texts])
  BY <1>1 DEF Work
<1>6. NoSeries.fixed = ""
  BY DEF NoSeries
<1> QED BY <1>1, <1>2, <1>3, <1>4, <1>5, <1>6

LEMMA EntryType ==
    ASSUME work \in Works, NEW j \in Jobs, NEW i \in DOMAIN Entries(j)
    PROVE  Entries(j)[i].key \in Keys /\ i \in Nat
<1>1. Entries(j) \in Seq([key : Keys, payload : Texts])
  BY WorkType DEF Entries
<1>2. DOMAIN Entries(j) = 1..Len(Entries(j)) /\ Len(Entries(j)) \in Nat
  BY <1>1, LenProperties
<1>3. Entries(j)[i] \in [key : Keys, payload : Texts]
  BY <1>1, ElementOfSeq, <1>2
<1> QED BY <1>2, <1>3

LEMMA ChunkType ==
    ASSUME work \in Works, NEW j \in Jobs PROVE ChunkKeys(j) \subseteq Keys
  BY EntryType DEF ChunkKeys, Chunk, Firsts

LEMMA Bounds == MaxFaults \in Nat /\ ChunkSize \in Nat /\ ChunkSize > 0
<1>1. ChunkSize \in Nat \ {0}
  BY ObservationConstants, Zenon
<1>2. MaxFaults \in Nat
  BY ObservationConstants, Zenon
<1> QED BY <1>1, <1>2

LEMMA NoSeriesType == NoSeries \in Definition
  BY ObservationConstants DEF NoSeries, Definition

LEMMA TypesInit == Init => TypeOK
<1> SUFFICES ASSUME Init PROVE TypeOK
  OBVIOUS
<1>1. pc \in [Jobs -> Labels] /\ next \in [Jobs -> Nat] /\ faults \in 0..MaxFaults
  BY Bounds DEF Init, Labels
<1>2. seen \in [Jobs -> Definition] /\ draft \in [Jobs -> Definition] /\ catalog \in Definition
  BY NoSeriesType DEF Init
<1>3. \A k \in Keys : obs[k] = NoObs
  BY DEF Init
<1> QED BY <1>1, <1>2, <1>3 DEF Init, TypeOK

LEMMA EndTypes ==
    ASSUME TypeOK, NEW j \in Jobs, EndTransaction(j)
    PROVE  /\ pc' \in [Jobs -> Labels] /\ seen' \in [Jobs -> Definition]
           /\ draft' \in [Jobs -> Definition] /\ fresh' \in [Jobs -> SUBSET Keys]
           /\ same' \in [Jobs -> SUBSET Keys] /\ next' \in [Jobs -> Nat]
  BY NoSeriesType DEF TypeOK, EndTransaction, Goto, Labels

LEMMA UpsertTypes ==
    ASSUME TypeOK, NEW j \in Jobs,
           \/ UpsertRefused(j) \/ LookUp(j) \/ UpsertSeriesFresh(j) \/ Refetch(j)
           \/ ReconcileExisting(j) \/ CountObservations(j) \/ UpsertSeriesFieldChange(j)
    PROVE  TypeOK'
<1>0. work \in Works
  BY DEF TypeOK
<1> USE DEF TypeOK, Goto, Labels, dbVars, jobVars, Began
<1>1. CASE UpsertRefused(j) BY <1>1 DEF UpsertRefused
<1>2. CASE LookUp(j) BY <1>2 DEF LookUp
<1>3. CASE UpsertSeriesFresh(j) BY <1>3, <1>0, WorkType DEF UpsertSeriesFresh
<1>4. CASE Refetch(j) BY <1>4 DEF Refetch
<1>5. CASE ReconcileExisting(j) BY <1>5 DEF ReconcileExisting
<1>6. CASE CountObservations(j) BY <1>6 DEF CountObservations
<1>7. CASE UpsertSeriesFieldChange(j)
  BY <1>7, <1>0, WorkType DEF UpsertSeriesFieldChange, Update
<1> QED BY <1>1, <1>2, <1>3, <1>4, <1>5, <1>6, <1>7

LEMMA WriteTypes ==
    ASSUME TypeOK, NEW j \in Jobs,
           WriteRefused(j) \/ WriteBegins(j) \/ TakeLock(j) \/ WriteChunk(j)
    PROVE  TypeOK'
<1>0. ChunkKeys(j) \subseteq Keys /\ ChunkSize \in Nat
  BY ChunkType, Bounds DEF TypeOK
<1> USE DEF TypeOK, Goto, Labels, dbVars, jobVars, Began
<1>1. CASE WriteRefused(j) BY <1>1 DEF WriteRefused
<1>2. CASE WriteBegins(j) BY <1>2 DEF WriteBegins
<1>3. CASE TakeLock(j) BY <1>3 DEF TakeLock
<1>4. CASE WriteChunk(j) BY <1>4, <1>0 DEF WriteChunk
<1> QED BY <1>1, <1>2, <1>3, <1>4

LEMMA EndingTypes ==
    ASSUME TypeOK, NEW j \in Jobs, Commit(j) \/ Fails(j) PROVE TypeOK'
<1>1. CASE Fails(j)
  <2>1. faults' \in 0..MaxFaults
    BY <1>1, Bounds DEF Fails, TypeOK
  <2> QED BY <1>1, <2>1, EndTypes DEF Fails, dbVars, TypeOK
<1>2. CASE Commit(j)
  <2>1. CASE work[j].kind = "upsert"
    <3>1. catalog' \in Definition /\ subjects' \subseteq Texts /\ obs' = obs
      BY <1>2, <2>1, WorkType DEF Commit, CommitSeries, TypeOK
    <3> QED BY <1>2, <3>1, EndTypes DEF Commit, TypeOK
  <2>2. CASE work[j].kind # "upsert"
    <3>0. CommitBatch(j)
      BY <1>2, <2>2 DEF Commit
    <3>1. \A k \in Keys : obs'[k] = NoObs \/ obs'[k].by \in Jobs
      <4> SUFFICES ASSUME NEW k \in Keys PROVE obs'[k] = NoObs \/ obs'[k].by \in Jobs
        OBVIOUS
      <4>1. CASE k \in fresh[j]
        BY <3>0, <4>1 DEF CommitBatch
      <4>2. CASE k \notin fresh[j]
        <5>1. obs'[k] = obs[k]
          BY <3>0, <4>2 DEF CommitBatch
        <5> QED BY <5>1 DEF TypeOK
      <4> QED BY <4>1, <4>2
    <3> QED BY <1>2, <3>0, <3>1, EndTypes DEF Commit, CommitBatch, TypeOK
  <2> QED BY <2>1, <2>2
<1> QED BY <1>1, <1>2

LEMMA TypesNext == TypeOK /\ [Next]_vars => TypeOK'
<1>1. ASSUME TypeOK, NEW j \in Jobs, JobStep(j) PROVE TypeOK'
  BY <1>1, UpsertTypes, WriteTypes, EndingTypes DEF JobStep
<1>2. ASSUME TypeOK, UNCHANGED vars PROVE TypeOK'
  BY <1>2 DEF TypeOK, vars, dbVars, jobVars
<1> QED BY <1>1, <1>2, EndingTypes DEF Next

(* The variables of Observations keep their types: a job is always at one  *)
(* of the statements of upsert_series or write, and what it has inserted   *)
(* are keys of the hypertable.                                             *)
THEOREM TypeCorrect == Spec => []TypeOK
<1> QED BY TypesInit, TypesNext, PTL DEF Spec

-----------------------------------------------------------------------------
(* Which calls are where, and what they hold there.                        *)
UpsertLabels == {"insert", "refetch", "reconcile", "count", "update"}

IsWrite(j) == work[j].kind = "write"

Inside(j) == IsWrite(j) /\ pc[j] \in {"chunk", "returned"}

UpsertPhases ==
    \A j \in Jobs :
        /\ pc[j] \in UpsertLabels => ~IsWrite(j)
        /\ ~IsWrite(j) /\ pc[j] \notin {"new", "done"} => ~RefusesUpsert(work[j])
        /\ draft[j] # NoSeries =>
              ~IsWrite(j) /\ pc[j] = "returned" /\ draft[j] = work[j].def

WritePhases ==
    \A j \in Jobs :
        /\ pc[j] \in {"lock", "chunk"} => IsWrite(j)
        /\ IsWrite(j) /\ pc[j] \notin {"new", "done"} => ~Contradicts(work[j].batch)
        /\ pc[j] \in {"new", "lock"} => next[j] = 1
        /\ ~Inside(j) => fresh[j] = {} /\ same[j] = {}

OneWriter == \A j, k \in Jobs : Inside(j) /\ Inside(k) => j = k

Phases == TypeOK /\ UpsertPhases /\ WritePhases /\ OneWriter

LEMMA PhasesInit == Init => Phases
<1> SUFFICES ASSUME Init PROVE Phases
  OBVIOUS
<1>1. TypeOK
  BY TypesInit
<1>2. UpsertPhases
  BY DEF Init, UpsertPhases, UpsertLabels
<1>3. WritePhases /\ OneWriter
  BY DEF Init, WritePhases, OneWriter, Inside
<1> QED BY <1>1, <1>2, <1>3 DEF Phases

LEMMA EndPhases ==
    ASSUME Phases, NEW j \in Jobs, EndTransaction(j), work' = work
    PROVE  UpsertPhases' /\ WritePhases' /\ OneWriter'
<1> USE DEF Phases, TypeOK, EndTransaction, Goto
<1>1. UpsertPhases'
  BY DEF UpsertPhases, UpsertLabels, IsWrite, RefusesUpsert
<1>2. WritePhases'
  BY DEF WritePhases, Inside, IsWrite, Contradicts
<1>3. OneWriter'
  BY DEF OneWriter, Inside, IsWrite
<1> QED BY <1>1, <1>2, <1>3

LEMMA UpsertStepPhases ==
    ASSUME Phases, NEW j \in Jobs,
           \/ UpsertRefused(j) \/ LookUp(j) \/ UpsertSeriesFresh(j) \/ Refetch(j)
           \/ ReconcileExisting(j) \/ CountObservations(j) \/ UpsertSeriesFieldChange(j)
    PROVE  UpsertPhases' /\ WritePhases' /\ OneWriter'
<1>0. /\ work' = work /\ ~IsWrite(j) /\ UNCHANGED <<fresh, same, next>>
      /\ pc[j] # "done" /\ (pc[j] = "new" => pc'[j] = "done" \/ ~RefusesUpsert(work[j]))
      /\ \E l \in UpsertLabels \cup {"returned", "done"} : pc' = [pc EXCEPT ![j] = l]
      /\ \/ draft' = draft
         \/ draft' = [draft EXCEPT ![j] = work[j].def] /\ pc'[j] = "returned"
  <2> USE DEF Phases, TypeOK, UpsertPhases, UpsertLabels, Goto, jobVars, IsWrite
  <2>1. CASE UpsertRefused(j) BY <2>1 DEF UpsertRefused
  <2>2. CASE LookUp(j) BY <2>2 DEF LookUp
  <2>3. CASE UpsertSeriesFresh(j) BY <2>3 DEF UpsertSeriesFresh
  <2>4. CASE Refetch(j) BY <2>4 DEF Refetch
  <2>5. CASE ReconcileExisting(j) BY <2>5 DEF ReconcileExisting
  <2>6. CASE CountObservations(j) BY <2>6 DEF CountObservations
  <2>7. CASE UpsertSeriesFieldChange(j) BY <2>7 DEF UpsertSeriesFieldChange, Update
  <2> QED BY <2>1, <2>2, <2>3, <2>4, <2>5, <2>6, <2>7
<1> USE <1>0 DEF Phases, TypeOK
<1>1. UpsertPhases'
  <2> SUFFICES ASSUME NEW k \in Jobs
               PROVE  /\ pc'[k] \in UpsertLabels => ~IsWrite(k)'
                      /\ ~IsWrite(k)' /\ pc'[k] \notin {"new", "done"}
                            => ~RefusesUpsert(work[k])'
                      /\ draft'[k] # NoSeries => /\ ~IsWrite(k)' /\ pc'[k] = "returned"
                                                /\ draft'[k] = work'[k].def
    BY DEF UpsertPhases
  <2>1. CASE k = j
    <3>1. ~RefusesUpsert(work[j]) \/ pc'[j] = "done"
      BY DEF UpsertPhases
    <3>2. draft'[j] # NoSeries => pc'[j] = "returned" /\ draft'[j] = work[j].def
      <4>1. CASE draft' = draft
        <5>1. draft[j] = NoSeries \/ pc[j] = "returned"
          BY DEF UpsertPhases
        <5>2. pc[j] # "returned"
          BY DEF UpsertRefused, LookUp, UpsertSeriesFresh, Refetch, ReconcileExisting,
                 CountObservations, UpsertSeriesFieldChange
        <5> QED BY <4>1, <5>1, <5>2
      <4>2. CASE draft' # draft
        BY <4>2
      <4> QED BY <4>1, <4>2
    <3> QED BY <2>1, <3>1, <3>2 DEF IsWrite, RefusesUpsert
  <2>2. CASE k # j
    <3>1. pc'[k] = pc[k] /\ draft'[k] = draft[k]
      BY <2>2
    <3> QED BY <3>1 DEF UpsertPhases, IsWrite, RefusesUpsert
  <2> QED BY <2>1, <2>2
<1>2. WritePhases'
  BY DEF WritePhases, Inside, IsWrite, Contradicts, UpsertLabels
<1>3. OneWriter'
  BY DEF OneWriter, Inside, IsWrite
<1> QED BY <1>1, <1>2, <1>3

LEMMA WriteStepPhases ==
    ASSUME Phases, NEW j \in Jobs,
           WriteRefused(j) \/ WriteBegins(j) \/ TakeLock(j) \/ WriteChunk(j)
    PROVE  UpsertPhases' /\ WritePhases' /\ OneWriter'
<1>0. /\ work' = work /\ IsWrite(j) /\ draft' = draft /\ pc[j] \notin {"done", "returned"}
      /\ \E l \in {"lock", "chunk", "returned", "done"} : pc' = [pc EXCEPT ![j] = l]
  <2> USE DEF Phases, TypeOK, WritePhases, Goto, jobVars, IsWrite
  <2>1. CASE WriteRefused(j) BY <2>1 DEF WriteRefused
  <2>2. CASE WriteBegins(j) BY <2>2 DEF WriteBegins
  <2>3. CASE TakeLock(j) BY <2>3 DEF TakeLock
  <2>4. CASE WriteChunk(j) BY <2>4 DEF WriteChunk
  <2> QED BY <2>1, <2>2, <2>3, <2>4
<1>1. UpsertPhases'
  BY <1>0 DEF Phases, TypeOK, UpsertPhases, UpsertLabels, IsWrite, RefusesUpsert
<1>2. WritePhases' /\ OneWriter'
  <2> USE <1>0 DEF Phases, TypeOK, WritePhases, OneWriter, Inside, IsWrite, Contradicts, Goto, jobVars
  <2>1. CASE WriteRefused(j) BY <2>1 DEF WriteRefused
  <2>2. CASE WriteBegins(j)
    <3>1. ~Contradicts(work[j].batch) /\ pc[j] = "new" /\ pc' = [pc EXCEPT ![j] = "lock"]
      BY <2>2 DEF WriteBegins, RefusesWrite
    <3>2. UNCHANGED <<fresh, same, next>>
      BY <2>2 DEF WriteBegins
    <3> QED BY <3>1, <3>2
  <2>3. CASE TakeLock(j) BY <2>3 DEF TakeLock
  <2>4. CASE WriteChunk(j)
    <3>1. /\ \A k \in Jobs \ {j} :
                pc'[k] = pc[k] /\ fresh'[k] = fresh[k] /\ same'[k] = same[k] /\ next'[k] = next[k]
          /\ pc[j] = "chunk" /\ pc'[j] \in {"chunk", "returned", "done"}
          /\ pc'[j] = "done" => fresh'[j] = {} /\ same'[j] = {}
      BY <2>4 DEF WriteChunk
    <3> QED BY <3>1
  <2> QED BY <2>1, <2>2, <2>3, <2>4
<1> QED BY <1>1, <1>2

LEMMA PhasesNext == Phases /\ [Next]_vars => Phases'
<1> SUFFICES ASSUME Phases, [Next]_vars PROVE Phases'
  OBVIOUS
<1>0. TypeOK'
  BY TypesNext DEF Phases
<1>1. ASSUME NEW j \in Jobs, JobStep(j) \/ Fails(j)
      PROVE  UpsertPhases' /\ WritePhases' /\ OneWriter'
  <2>1. CASE Commit(j) \/ Fails(j)
    BY <2>1, EndPhases DEF Commit, Fails
  <2> QED BY <1>1, <2>1, UpsertStepPhases, WriteStepPhases DEF JobStep
<1>2. CASE UNCHANGED vars
  <2>1. UNCHANGED <<work, pc, draft, fresh, same, next>>
    BY <1>2 DEF vars, jobVars
  <2>2. UpsertPhases'
    BY <2>1 DEF Phases, UpsertPhases, IsWrite, RefusesUpsert
  <2>3. WritePhases'
    BY <2>1 DEF Phases, WritePhases, Inside, IsWrite, Contradicts
  <2>4. OneWriter'
    BY <2>1 DEF Phases, OneWriter, Inside, IsWrite
  <2> QED BY <1>0, <2>2, <2>3, <2>4 DEF Phases
<1> QED BY <1>0, <1>1, <1>2 DEF Next, Phases

-----------------------------------------------------------------------------
(* Only a commit changes the catalog row and the subjects.                 *)
LEMMA ErasableNext ==
    ASSUME Phases, IdentifyingIsErasable, [Next]_vars PROVE IdentifyingIsErasable'
<1>1. ASSUME NEW j \in Jobs, Commit(j) PROVE IdentifyingIsErasable'
  <2>1. CASE work[j].kind = "upsert"
    <3>1. ~RefusesUpsert(work[j])
      BY <1>1, <2>1 DEF Phases, UpsertPhases, IsWrite, Commit
    <3>2. catalog' = catalog \/ catalog' = work[j].def
      BY <1>1, <2>1 DEF Phases, UpsertPhases, Commit, CommitSeries
    <3>3. subjects' = subjects \cup work[j].subjects
      BY <1>1, <2>1 DEF Commit, CommitSeries
    <3> QED BY <3>1, <3>2, <3>3 DEF IdentifyingIsErasable, RefusesUpsert
  <2>2. CASE work[j].kind # "upsert"
    BY <1>1, <2>2 DEF Commit, CommitBatch, IdentifyingIsErasable
  <2> QED BY <2>1, <2>2
<1>2. ASSUME NEW j \in Jobs, JobStep(j) \/ Fails(j), ~Commit(j) PROVE UNCHANGED dbVars
  BY <1>2 DEF JobStep, Fails, UpsertRefused, LookUp, UpsertSeriesFresh, Refetch,
              ReconcileExisting, CountObservations, UpsertSeriesFieldChange,
              WriteRefused, WriteBegins, TakeLock, WriteChunk
<1>3. CASE UNCHANGED dbVars
  BY <1>3 DEF dbVars, IdentifyingIsErasable
<1> QED BY <1>1, <1>2, <1>3 DEF Next, vars

(* An identifying series always has a subject and no PII outside it: every *)
(* path of upsert_series writes only a definition that passed the checks   *)
(* before any I/O, and its subjects are committed with it.                 *)
THEOREM IdentifyingSeriesCanBeErased == Spec => []IdentifyingIsErasable
<1>0. NoSeries.pii = "none"
  BY DEF NoSeries
<1>1. Init => IdentifyingIsErasable
  BY <1>0 DEF Init, IdentifyingIsErasable
<1> QED BY <1>1, PhasesInit, PhasesNext, ErasableNext, PTL DEF Spec

-----------------------------------------------------------------------------
(* The chunks of a batch: how the keys written so far grow to all of them. *)
AllKeys(j) == {Entries(j)[i].key : i \in DOMAIN Entries(j)}

DoneKeys(j) == {Entries(j)[i].key : i \in {h \in Firsts(j) : Rank(j, h) < next[j]}}

LEMMA FirstsFinite ==
    ASSUME work \in Works, NEW j \in Jobs
    PROVE  IsFiniteSet(Firsts(j)) /\ Firsts(j) \subseteq DOMAIN Entries(j)
<1>1. Entries(j) \in Seq([key : Keys, payload : Texts])
  BY WorkType DEF Entries
<1>2. DOMAIN Entries(j) = 1..Len(Entries(j)) /\ Len(Entries(j)) \in Nat
  BY <1>1, LenProperties
<1>3. IsFiniteSet(DOMAIN Entries(j))
  BY <1>2, FS_Interval
<1>4. Firsts(j) \subseteq DOMAIN Entries(j)
  BY DEF Firsts
<1> QED BY <1>3, <1>4, FS_Subset

LEMMA RankBounds ==
    ASSUME work \in Works, NEW j \in Jobs, NEW i \in Firsts(j)
    PROVE  /\ Rank(j, i) \in Nat /\ 1 <= Rank(j, i)
           /\ Cardinality(Firsts(j)) \in Nat /\ Rank(j, i) <= Cardinality(Firsts(j))
<1> DEFINE S == {h \in Firsts(j) : h <= i}
<1>1. IsFiniteSet(Firsts(j)) /\ S \subseteq Firsts(j)
  BY FirstsFinite
<1>2. IsFiniteSet(S) /\ Cardinality(S) <= Cardinality(Firsts(j))
  BY <1>1, FS_Subset
<1>3. Cardinality(S) \in Nat /\ Cardinality(Firsts(j)) \in Nat
  BY <1>1, <1>2, FS_CardinalityType
<1>4. i \in Nat
  BY FirstsFinite, EntryType
<1>5. i \in S
  BY <1>4
<1>6. Cardinality(S) # 0
  BY <1>2, <1>5, FS_EmptySet
<1>7. Rank(j, i) = Cardinality(S)
  BY DEF Rank
<1> HIDE DEF S
<1> QED BY <1>2, <1>3, <1>6, <1>7

(* Every key of the batch has a first entry.                               *)
LEMMA FirstExists ==
    ASSUME work \in Works, NEW j \in Jobs, NEW i \in DOMAIN Entries(j)
    PROVE  \E h \in Firsts(j) : Entries(j)[h].key = Entries(j)[i].key
<1> DEFINE T == {h \in DOMAIN Entries(j) : Entries(j)[h].key = Entries(j)[i].key}
<1>1. T \subseteq Nat /\ T # {}
  BY EntryType
<1>2. PICK h \in T : \A g \in T : h <= g
  <2> HIDE DEF T
  <2> QED BY <1>1, SmallestElement
<1>3. h \in DOMAIN Entries(j) /\ Entries(j)[h].key = Entries(j)[i].key
  OBVIOUS
<1>4. Entries(j) \in Seq([key : Keys, payload : Texts])
  BY WorkType DEF Entries
<1>5. DOMAIN Entries(j) = 1..Len(Entries(j)) /\ Len(Entries(j)) \in Nat
  BY <1>4, LenProperties
<1>6. \A g \in 1..(h - 1) : g \in DOMAIN Entries(j) /\ ~(h <= g)
  BY <1>3, <1>5
<1>7. \A g \in 1..(h - 1) : Entries(j)[g].key # Entries(j)[h].key
  BY <1>2, <1>3, <1>6
<1> QED BY <1>3, <1>7 DEF Firsts

LEMMA AllKeysOfFirsts ==
    ASSUME work \in Works, NEW j \in Jobs
    PROVE  AllKeys(j) = {Entries(j)[i].key : i \in Firsts(j)}
  BY FirstExists, FirstsFinite DEF AllKeys

LEMMA BatchStays ==
    ASSUME work' = work, NEW j \in Jobs
    PROVE  /\ Entries(j)' = Entries(j) /\ Firsts(j)' = Firsts(j) /\ AllKeys(j)' = AllKeys(j)
           /\ \A i : Rank(j, i)' = Rank(j, i)
           /\ \A k : PayloadOf(j, k)' = PayloadOf(j, k)
  BY DEF Entries, Firsts, AllKeys, Rank, PayloadOf

LEMMA DoneStays ==
    ASSUME work' = work, NEW j \in Jobs, next'[j] = next[j]
    PROVE  DoneKeys(j)' = DoneKeys(j)
  BY BatchStays DEF DoneKeys

LEMMA DoneGrows ==
    ASSUME TypeOK, NEW j \in Jobs, work' = work, next'[j] = next[j] + ChunkSize
    PROVE  DoneKeys(j)' = DoneKeys(j) \cup ChunkKeys(j)
<1>1. work \in Works /\ next[j] \in Nat
  BY DEF TypeOK
<1>2. \A i \in Firsts(j) :
          Rank(j, i) < next[j] + ChunkSize
            <=> Rank(j, i) < next[j] \/ Rank(j, i) \in next[j]..(next[j] + ChunkSize - 1)
  BY <1>1, RankBounds, Bounds
<1>3. DoneKeys(j)' = {Entries(j)[i].key : i \in {h \in Firsts(j) : Rank(j, h) < next[j] + ChunkSize}}
  BY BatchStays DEF DoneKeys
<1> QED BY <1>2, <1>3 DEF DoneKeys, ChunkKeys, Chunk

LEMMA DoneAtStart ==
    ASSUME TypeOK, NEW j \in Jobs, next[j] = 1 PROVE DoneKeys(j) = {}
<1>1. \A i \in Firsts(j) : ~(Rank(j, i) < 1)
  BY RankBounds DEF TypeOK
<1> QED BY <1>1 DEF DoneKeys

LEMMA DoneAtEnd ==
    ASSUME TypeOK, NEW j \in Jobs, work' = work, next'[j] \in Nat,
           next'[j] > Cardinality(Firsts(j))
    PROVE  DoneKeys(j)' = AllKeys(j)'
<1>1. \A i \in Firsts(j) : Rank(j, i) < next'[j]
  BY RankBounds DEF TypeOK
<1>2. DoneKeys(j)' = {Entries(j)[i].key : i \in {h \in Firsts(j) : Rank(j, h) < next'[j]}}
  BY BatchStays DEF DoneKeys
<1> QED BY <1>1, <1>2, BatchStays, AllKeysOfFirsts DEF TypeOK

(* Entries that do not contradict each other have the payload of their key. *)
LEMMA PayloadOfEntry ==
    ASSUME NEW j \in Jobs, ~Contradicts(work[j].batch), NEW i \in DOMAIN Entries(j)
    PROVE  PayloadOf(j, Entries(j)[i].key) = Entries(j)[i].payload
<1> DEFINE c == CHOOSE h \in DOMAIN Entries(j) : Entries(j)[h].key = Entries(j)[i].key
<1>1. c \in DOMAIN Entries(j) /\ Entries(j)[c].key = Entries(j)[i].key
  OBVIOUS
<1>2. \A a, b \in DOMAIN Entries(j) :
         Entries(j)[a].key = Entries(j)[b].key => Entries(j)[a].payload = Entries(j)[b].payload
  BY DEF Contradicts, Entries
<1>3. PayloadOf(j, Entries(j)[i].key) = Entries(j)[c].payload
  BY DEF PayloadOf
<1> HIDE DEF c
<1> QED BY <1>1, <1>2, <1>3

-----------------------------------------------------------------------------
(* What a writer inside its transaction knows, and what is committed.      *)
WriterHolds(j) ==
    Inside(j) =>
        /\ fresh[j] \cap Written = {} /\ same[j] \subseteq Written
        /\ \A k \in same[j] : Matches(j, k)
        /\ fresh[j] \cup same[j] = DoneKeys(j)
        /\ pc[j] = "returned" => DoneKeys(j) = AllKeys(j)

Committed ==
    /\ \A b \in batches :
          b.by \in Jobs /\ pc[b.by] = "done" /\ AllKeys(b.by) \subseteq Written
    /\ \A k \in Written : pc[obs[k].by] = "done"

BatchInv == (\A j \in Jobs : WriterHolds(j)) /\ Committed /\ BatchesAreHonest

LEMMA BatchInit == Init => BatchInv
  BY DEF Init, BatchInv, WriterHolds, Inside, Committed, BatchesAreHonest, Written

(* A step of j that neither commits a batch nor lets j stay inside keeps   *)
(* everything; so does any step for the jobs other than j.                 *)
LEMMA OthersHold ==
    ASSUME Phases, BatchInv, NEW j \in Jobs, NEW k \in Jobs, k # j,
           UNCHANGED <<work, obs>>, pc'[k] = pc[k], fresh'[k] = fresh[k],
           same'[k] = same[k], next'[k] = next[k]
    PROVE  WriterHolds(k)'
<1>1. Written' = Written
  BY DEF Written
<1>2. DoneKeys(k)' = DoneKeys(k) /\ AllKeys(k)' = AllKeys(k)
  BY DoneStays, BatchStays
<1>3. \A l : Matches(k, l)' = Matches(k, l)
  BY BatchStays DEF Matches
<1> QED BY <1>1, <1>2, <1>3 DEF BatchInv, WriterHolds, Inside, IsWrite

LEMMA CommittedStays ==
    ASSUME Phases, BatchInv, UNCHANGED <<work, obs, batches>>,
           \A k \in Jobs : pc[k] = "done" => pc'[k] = "done"
    PROVE  Committed' /\ BatchesAreHonest'
<1>1. Written' = Written /\ Written \subseteq Keys
  BY DEF Written
<1>2. \A k \in Written : obs[k].by \in Jobs
  BY DEF Written, Phases, TypeOK
<1>3. Committed'
  BY <1>1, <1>2, BatchStays DEF BatchInv, Committed
<1>4. BatchesAreHonest'
  BY <1>1 DEF BatchInv, BatchesAreHonest
<1> QED BY <1>3, <1>4

LEMMA UpsertKeepsBatches ==
    ASSUME Phases, BatchInv, NEW j \in Jobs, ~IsWrite(j), UNCHANGED <<work, obs, batches>>,
           pc[j] # "done", \E l \in Labels : pc' = [pc EXCEPT ![j] = l],
           \A k \in Jobs \ {j} : fresh'[k] = fresh[k] /\ same'[k] = same[k] /\ next'[k] = next[k]
    PROVE  BatchInv'
<1>1. \A k \in Jobs \ {j} : pc'[k] = pc[k]
  BY DEF Phases, TypeOK
<1>2. Committed' /\ BatchesAreHonest'
  BY <1>1, CommittedStays
<1>3. WriterHolds(j)'
  BY DEF WriterHolds, Inside, IsWrite
<1>4. \A k \in Jobs : WriterHolds(k)'
  BY <1>1, <1>3, OthersHold
<1> QED BY <1>2, <1>4 DEF BatchInv

LEMMA OutsideKeepsBatches ==
    ASSUME Phases, BatchInv, NEW j \in Jobs, UNCHANGED <<work, obs, batches>>,
           pc[j] # "done", \E l \in {"lock", "done"} : pc' = [pc EXCEPT ![j] = l],
           \A k \in Jobs \ {j} : fresh'[k] = fresh[k] /\ same'[k] = same[k] /\ next'[k] = next[k]
    PROVE  BatchInv'
<1>1. (\A k \in Jobs \ {j} : pc'[k] = pc[k]) /\ pc'[j] \in {"lock", "done"}
  BY DEF Phases, TypeOK
<1>2. Committed' /\ BatchesAreHonest'
  BY <1>1, CommittedStays
<1>3. WriterHolds(j)'
  BY <1>1 DEF WriterHolds, Inside
<1>4. \A k \in Jobs : WriterHolds(k)'
  BY <1>1, <1>3, OthersHold
<1> QED BY <1>2, <1>4 DEF BatchInv

LEMMA LockKeepsBatches ==
    ASSUME Phases, BatchInv, NEW j \in Jobs, TakeLock(j) PROVE BatchInv'
<1>1. /\ UNCHANGED <<work, obs, batches, fresh, same, next>> /\ pc[j] = "lock"
      /\ pc' = [pc EXCEPT ![j] = "chunk"]
  BY DEF TakeLock, Goto, dbVars, jobVars
<1>2. (\A k \in Jobs \ {j} : pc'[k] = pc[k]) /\ pc'[j] = "chunk"
  BY <1>1 DEF Phases, TypeOK
<1>3. Committed' /\ BatchesAreHonest'
  BY <1>1, <1>2, CommittedStays
<1>4. fresh[j] = {} /\ same[j] = {} /\ next[j] = 1
  BY <1>1 DEF Phases, WritePhases, Inside
<1>5. DoneKeys(j)' = {}
  BY <1>1, <1>4, DoneAtStart, DoneStays DEF Phases
<1>6. WriterHolds(j)'
  BY <1>1, <1>2, <1>4, <1>5 DEF WriterHolds
<1>7. \A k \in Jobs : WriterHolds(k)'
  BY <1>1, <1>2, <1>6, OthersHold
<1> QED BY <1>3, <1>7 DEF BatchInv

LEMMA ChunkKeepsBatches ==
    ASSUME Phases, BatchInv, NEW j \in Jobs, WriteChunk(j) PROVE BatchInv'
<1>0. pc[j] = "chunk" /\ UNCHANGED <<work, obs, batches>>
  BY DEF WriteChunk, dbVars
<1>1. \A k \in Jobs \ {j} : /\ pc'[k] = pc[k] /\ fresh'[k] = fresh[k]
                            /\ same'[k] = same[k] /\ next'[k] = next[k]
  BY DEF WriteChunk, Goto, Phases, TypeOK
<1>2. Committed' /\ BatchesAreHonest'
  BY <1>0, <1>1, CommittedStays
<1>3. WriterHolds(j)'
  <2>1. CASE \A k \in ChunkKeys(j) \cap Written : Matches(j, k)
    <3>1. /\ fresh'[j] = fresh[j] \cup (ChunkKeys(j) \ Written)
          /\ same'[j] = same[j] \cup (ChunkKeys(j) \cap Written)
          /\ next'[j] = next[j] + ChunkSize
          /\ pc'[j] = "returned" => next'[j] > Cardinality(Firsts(j))
      BY <2>1 DEF WriteChunk, Goto, Phases, TypeOK
    <3>2. Inside(j)
      BY <1>0 DEF Phases, WritePhases, Inside
    <3>3. Written' = Written
      BY <1>0 DEF Written
    <3>4. DoneKeys(j)' = DoneKeys(j) \cup ChunkKeys(j)
      BY <1>0, <3>1, DoneGrows DEF Phases
    <3>5. \A l : Matches(j, l)' = Matches(j, l)
      BY <1>0, BatchStays DEF Matches
    <3>6. pc'[j] = "returned" => DoneKeys(j)' = AllKeys(j)'
      <4>1. next'[j] \in Nat
        BY <3>1, Bounds DEF Phases, TypeOK
      <4> QED BY <1>0, <3>1, <4>1, DoneAtEnd DEF Phases
    <3>7. WriterHolds(j)
      BY DEF BatchInv
    <3> QED BY <2>1, <3>1, <3>2, <3>3, <3>4, <3>5, <3>6, <3>7 DEF WriterHolds
  <2>2. CASE ~\A k \in ChunkKeys(j) \cap Written : Matches(j, k)
    <3>1. pc'[j] = "done"
      BY <2>2 DEF WriteChunk, Goto, Phases, TypeOK
    <3> QED BY <3>1 DEF WriterHolds, Inside
  <2> QED BY <2>1, <2>2
<1>4. \A k \in Jobs : WriterHolds(k)'
  BY <1>0, <1>1, <1>3, OthersHold
<1> QED BY <1>2, <1>4 DEF BatchInv

(* The commit of a batch: fresh keys hold its payloads, the others did.    *)
LEMMA CommitKeepsBatches ==
    ASSUME Phases, BatchInv, NEW j \in Jobs, Commit(j), IsWrite(j) PROVE BatchInv'
<1>1. /\ pc[j] = "returned" /\ work' = work /\ batches' = batches \cup {Batch(j)}
      /\ CommitBatch(j) /\ pc' = [pc EXCEPT ![j] = "done"]
  BY DEF Commit, CommitBatch, EndTransaction, Goto, IsWrite
<1>2. (\A k \in Jobs \ {j} : pc'[k] = pc[k]) /\ pc'[j] = "done"
  BY <1>1 DEF Phases, TypeOK
<1>3. /\ fresh[j] \cap Written = {} /\ same[j] \subseteq Written
      /\ \A k \in same[j] : Matches(j, k)
      /\ fresh[j] \cup same[j] = AllKeys(j)
  BY <1>1 DEF BatchInv, WriterHolds, Inside
<1>4. ~Contradicts(work[j].batch)
  BY <1>1 DEF Phases, WritePhases
<1>5. ASSUME NEW k \in Keys
      PROVE  /\ k \in fresh[j] => /\ obs'[k].payload = PayloadOf(j, k) /\ obs'[k].by = j
                                  /\ obs'[k] # NoObs
             /\ k \notin fresh[j] => obs'[k] = obs[k]
  <2>1. CASE k \in fresh[j]
    <3>1. obs'[k] = [payload |-> PayloadOf(j, k), by |-> j, under |-> seen[j].fixed]
      BY <1>1, <2>1 DEF CommitBatch
    <3>2. NoObs.by = "" /\ j # ""
      BY ObservationConstants DEF NoObs
    <3>3. obs'[k].payload = PayloadOf(j, k) /\ obs'[k].by = j
      BY <3>1
    <3>4. obs'[k] # NoObs
      BY <3>2, <3>3
    <3> QED BY <2>1, <3>3, <3>4
  <2>2. CASE k \notin fresh[j]
    BY <1>1, <2>2 DEF CommitBatch
  <2> QED BY <2>1, <2>2
<1>6. Written' = Written \cup fresh[j]
  <2>1. fresh[j] \subseteq Keys
    BY DEF Phases, TypeOK
  <2> QED BY <1>5, <2>1 DEF Written
<1>7. \A k \in Written : k \in Keys /\ obs'[k] = obs[k] /\ obs[k].by \in Jobs
  BY <1>3, <1>5 DEF Written, Phases, TypeOK
<1>8. \A k \in Jobs : WriterHolds(k)'
  <2> SUFFICES ASSUME NEW k \in Jobs PROVE ~Inside(k)'
    BY DEF WriterHolds
  <2>1. k # j => ~Inside(k)
    BY <1>1 DEF Phases, OneWriter, Inside
  <2> QED BY <1>1, <1>2, <2>1 DEF Inside, IsWrite
<1>9. Committed'
  <2>1. ASSUME NEW b \in batches'
        PROVE  b.by \in Jobs /\ pc'[b.by] = "done" /\ AllKeys(b.by)' \subseteq Written'
    <3>1. CASE b \in batches
      BY <3>1, <1>1, <1>2, <1>6, BatchStays DEF BatchInv, Committed
    <3>2. CASE b = Batch(j)
      <4>1. b.by = j
        BY <3>2 DEF Batch
      <4> QED BY <4>1, <1>1, <1>2, <1>3, <1>6, BatchStays
    <3> QED BY <1>1, <3>1, <3>2
  <2>2. ASSUME NEW k \in Written' PROVE pc'[obs'[k].by] = "done"
    <3>1. CASE k \in Written
      BY <3>1, <1>2, <1>7 DEF BatchInv, Committed
    <3>2. CASE k \in fresh[j]
      <4>1. k \in Keys
        BY <3>2 DEF Phases, TypeOK
      <4> QED BY <3>2, <4>1, <1>2, <1>5
    <3> QED BY <1>6, <3>1, <3>2
  <2> QED BY <2>1, <2>2 DEF Committed
<1>10. ASSUME NEW b \in batches'
       PROVE  /\ b.inserted \cup b.unchanged = AllKeys(b.by)
              /\ \A i \in DOMAIN Entries(b.by) :
                    /\ obs'[Entries(b.by)[i].key].payload = Entries(b.by)[i].payload
                    /\ Entries(b.by)[i].key \in b.inserted
                          <=> obs'[Entries(b.by)[i].key].by = b.by
  <2>1. CASE b \in batches
    <3>1. AllKeys(b.by) \subseteq Written
      BY <2>1 DEF BatchInv, Committed
    <3>2. /\ b.inserted \cup b.unchanged = AllKeys(b.by)
          /\ \A i \in DOMAIN Entries(b.by) :
                /\ obs[Entries(b.by)[i].key].payload = Entries(b.by)[i].payload
                /\ Entries(b.by)[i].key \in b.inserted
                      <=> obs[Entries(b.by)[i].key].by = b.by
      BY <2>1 DEF BatchInv, BatchesAreHonest, AllKeys, Entries
    <3>3. \A i \in DOMAIN Entries(b.by) : Entries(b.by)[i].key \in Written
      BY <3>1 DEF AllKeys
    <3> QED BY <3>2, <3>3, <1>7
  <2>2. CASE b = Batch(j)
    <3>1. b.by = j /\ b.inserted = fresh[j] /\ b.unchanged = same[j]
      BY <2>2 DEF Batch
    <3>2. ASSUME NEW i \in DOMAIN Entries(j)
          PROVE  /\ obs'[Entries(j)[i].key].payload = Entries(j)[i].payload
                 /\ Entries(j)[i].key \in fresh[j] <=> obs'[Entries(j)[i].key].by = j
      <4> DEFINE k == Entries(j)[i].key
      <4>1. PayloadOf(j, k) = Entries(j)[i].payload
        BY <1>4, PayloadOfEntry
      <4>2. k \in Keys /\ k \in AllKeys(j)
        BY EntryType DEF Phases, TypeOK, AllKeys
      <4> HIDE DEF k
      <4>3. CASE k \in fresh[j]
        BY <4>1, <4>2, <4>3, <1>5 DEF k
      <4>4. CASE k \notin fresh[j]
        <5>1. k \in same[j] /\ k \in Written /\ obs'[k] = obs[k]
          BY <4>2, <4>4, <1>3, <1>5
        <5>2. pc[obs[k].by] = "done"
          BY <5>1 DEF BatchInv, Committed
        <5>3. obs[k].by # j
          BY <1>1, <5>2
        <5>4. obs[k].payload = PayloadOf(j, k)
          BY <5>1, <1>3 DEF Matches
        <5> QED BY <4>1, <4>4, <5>1, <5>3, <5>4 DEF k
      <4> QED BY <4>3, <4>4
    <3> QED BY <3>1, <3>2, <1>3
  <2> QED BY <1>1, <2>1, <2>2
<1>11. ASSUME NEW k \in Written' PROVE \E b \in batches' : k \in b.inserted
  <2>1. CASE k \in Written
    BY <2>1, <1>1 DEF BatchInv, BatchesAreHonest
  <2>2. CASE k \in fresh[j]
    <3> DEFINE b == Batch(j)
    <3>1. k \in b.inserted
      BY <2>2 DEF Batch
    <3>2. b \in batches'
      BY <1>1
    <3> HIDE DEF b
    <3> QED BY <3>1, <3>2
  <2> QED BY <1>6, <2>1, <2>2
<1>12. BatchesAreHonest'
  BY <1>1, <1>10, <1>11 DEF BatchesAreHonest, AllKeys, Entries
<1> QED BY <1>8, <1>9, <1>12 DEF BatchInv

LEMMA BatchNext == Phases /\ BatchInv /\ [Next]_vars => BatchInv'
<1> SUFFICES ASSUME Phases, BatchInv, [Next]_vars PROVE BatchInv'
  OBVIOUS
<1> USE DEF Goto, dbVars, jobVars
<1>1. ASSUME NEW j \in Jobs,
             \/ UpsertRefused(j) \/ LookUp(j) \/ UpsertSeriesFresh(j) \/ Refetch(j)
             \/ ReconcileExisting(j) \/ CountObservations(j) \/ UpsertSeriesFieldChange(j)
      PROVE  BatchInv'
  <2>1. /\ ~IsWrite(j) /\ pc[j] # "done" /\ UNCHANGED <<work, obs, batches, fresh, same, next>>
        /\ \E l \in Labels : pc' = [pc EXCEPT ![j] = l]
    BY <1>1 DEF UpsertRefused, LookUp, UpsertSeriesFresh, Refetch, ReconcileExisting,
                CountObservations, UpsertSeriesFieldChange, Labels, IsWrite, Phases,
                UpsertPhases, UpsertLabels
  <2> QED BY <2>1, UpsertKeepsBatches
<1>2. ASSUME NEW j \in Jobs, WriteRefused(j) \/ WriteBegins(j) PROVE BatchInv'
  BY <1>2, OutsideKeepsBatches DEF WriteRefused, WriteBegins
<1>3. ASSUME NEW j \in Jobs, Fails(j) \/ (Commit(j) /\ ~IsWrite(j)) PROVE BatchInv'
  <2>1. EndTransaction(j) /\ pc[j] # "done" /\ UNCHANGED <<work, obs, batches>>
    BY <1>3, WorkType DEF Fails, Commit, CommitSeries, IsWrite, Phases, TypeOK
  <2>2. /\ pc' = [pc EXCEPT ![j] = "done"]
        /\ \A k \in Jobs \ {j} : fresh'[k] = fresh[k] /\ same'[k] = same[k] /\ next'[k] = next[k]
    BY <2>1 DEF EndTransaction, Phases, TypeOK
  <2> QED BY <2>1, <2>2, OutsideKeepsBatches
<1>4. CASE UNCHANGED vars
  <2>1. UNCHANGED <<work, obs, batches, pc, fresh, same, next>>
    BY <1>4 DEF vars
  <2>2. Committed' /\ BatchesAreHonest'
    BY <2>1, CommittedStays
  <2>3. ASSUME NEW k \in Jobs PROVE WriterHolds(k)'
    <3>1. DoneKeys(k)' = DoneKeys(k) /\ AllKeys(k)' = AllKeys(k)
      BY <2>1, DoneStays, BatchStays
    <3>2. \A l : Matches(k, l)' = Matches(k, l)
      BY <2>1, BatchStays DEF Matches
    <3> QED BY <2>1, <3>1, <3>2 DEF BatchInv, WriterHolds, Inside, IsWrite, Written
  <2> QED BY <2>2, <2>3 DEF BatchInv
<1> QED BY <1>1, <1>2, <1>3, <1>4, LockKeepsBatches, ChunkKeepsBatches, CommitKeepsBatches
        DEF Next, JobStep

(* A committed write_batch is whole and tells the truth, for any number of *)
(* writers and any chunk size: the advisory lock keeps other writers out   *)
(* between the look at a key and the commit, the chunks cover the batch,   *)
(* and a key found unchanged holds the payload of the call.                *)
THEOREM CommittedBatchesAreHonest == Spec => []BatchesAreHonest
<1>1. BatchInv => BatchesAreHonest
  BY DEF BatchInv
<1> QED BY <1>1, PhasesInit, PhasesNext, BatchInit, BatchNext, PTL DEF Spec


-----------------------------------------------------------------------------
(* Who may write the row: one upsert at a time, and one that found no row  *)
(* inserts only while there is none.                                       *)
Writing == {"reconcile", "count", "update"}

DraftInv ==
    /\ \A j \in Jobs : pc[j] = "refetch" => catalog # NoSeries
    /\ \A j \in Jobs : pc[j] \in Writing => seen[j] # NoSeries
    /\ \A j, k \in Jobs : draft[j] # NoSeries /\ draft[k] # NoSeries => j = k
    /\ \A j \in Jobs : draft[j] # NoSeries /\ seen[j] = NoSeries => catalog = NoSeries

LEMMA DraftInit == Init => DraftInv
  BY DEF Init, DraftInv, Writing

LEMMA UpsertKeepsDrafts ==
    ASSUME Phases, DraftInv, NEW j \in Jobs,
           \/ UpsertRefused(j) \/ LookUp(j) \/ UpsertSeriesFresh(j) \/ Refetch(j)
           \/ ReconcileExisting(j) \/ CountObservations(j) \/ UpsertSeriesFieldChange(j)
    PROVE  DraftInv'
<1>0. draft[j] = NoSeries /\ catalog' = catalog
  <2>1. pc[j] # "returned" /\ catalog' = catalog
    BY DEF UpsertRefused, LookUp, UpsertSeriesFresh, Refetch, ReconcileExisting,
           CountObservations, UpsertSeriesFieldChange, dbVars
  <2> QED BY <2>1 DEF Phases, UpsertPhases
<1>1. /\ \A k \in Jobs \ {j} : pc'[k] = pc[k] /\ seen'[k] = seen[k] /\ draft'[k] = draft[k]
      /\ pc'[j] = "refetch" => catalog # NoSeries
      /\ pc'[j] \in Writing => seen'[j] # NoSeries
      /\ \/ draft'[j] = NoSeries
         \/ RowIsFree(j) /\ (seen'[j] = NoSeries => catalog = NoSeries)
  <2> USE <1>0 DEF Phases, TypeOK, DraftInv, Writing, Goto, jobVars
  <2>1. CASE UpsertRefused(j) BY <2>1 DEF UpsertRefused
  <2>2. CASE LookUp(j) BY <2>2 DEF LookUp
  <2>3. CASE UpsertSeriesFresh(j) BY <2>3 DEF UpsertSeriesFresh
  <2>4. CASE Refetch(j) BY <2>4 DEF Refetch
  <2>5. CASE ReconcileExisting(j) BY <2>5 DEF ReconcileExisting
  <2>6. CASE CountObservations(j) BY <2>6 DEF CountObservations
  <2>7. CASE UpsertSeriesFieldChange(j) BY <2>7 DEF UpsertSeriesFieldChange, Update
  <2> QED BY <2>1, <2>2, <2>3, <2>4, <2>5, <2>6, <2>7
<1> QED BY <1>0, <1>1 DEF DraftInv, RowIsFree

LEMMA OthersKeepDrafts ==
    ASSUME Phases, DraftInv, NEW j \in Jobs,
           \/ WriteRefused(j) \/ WriteBegins(j) \/ TakeLock(j) \/ WriteChunk(j)
           \/ Commit(j) \/ Fails(j)
    PROVE  DraftInv'
<1>1. CASE WriteRefused(j) \/ WriteBegins(j) \/ TakeLock(j) \/ WriteChunk(j)
  <2>1. /\ UNCHANGED <<catalog, draft>> /\ (draft[j] = NoSeries \/ seen' = seen)
        /\ \A k \in Jobs \ {j} : pc'[k] = pc[k] /\ seen'[k] = seen[k]
        /\ pc'[j] # "refetch" /\ pc'[j] \notin Writing
    BY <1>1 DEF WriteRefused, WriteBegins, TakeLock, WriteChunk, dbVars, jobVars, Goto,
                Writing, Phases, TypeOK, UpsertPhases
  <2> QED BY <2>1 DEF DraftInv
<1>2. CASE Commit(j) \/ Fails(j)
  <2>1. /\ \A k \in Jobs \ {j} : pc'[k] = pc[k] /\ draft'[k] = draft[k]
        /\ pc'[j] = "done" /\ draft'[j] = NoSeries /\ seen' = seen
    BY <1>2 DEF Commit, Fails, EndTransaction, Goto, Phases, TypeOK
  <2>2. catalog' = catalog \/ (draft[j] # NoSeries /\ catalog' = draft[j])
    BY <1>2 DEF Commit, Fails, CommitSeries, CommitBatch, dbVars
  <2> QED BY <2>1, <2>2 DEF DraftInv, Writing
<1> QED BY <1>1, <1>2

LEMMA DraftNext == Phases /\ DraftInv /\ [Next]_vars => DraftInv'
<1>1. ASSUME Phases, DraftInv, NEW j \in Jobs, JobStep(j) PROVE DraftInv'
  BY <1>1, UpsertKeepsDrafts, OthersKeepDrafts DEF JobStep
<1>2. ASSUME DraftInv, UNCHANGED vars PROVE DraftInv'
  BY <1>2 DEF DraftInv, vars, dbVars, jobVars
<1> QED BY <1>1, <1>2, OthersKeepDrafts DEF Next

-----------------------------------------------------------------------------
(* The series events and the catalog row.  A job whose transaction runs    *)
(* has read the row as it is, or a job that had not ended when it began    *)
(* has changed the row since; and what it read is what an event left,      *)
(* after which came only events of jobs that had not ended when it began.  *)
Payloads == {<<>>} \cup {UpsertPayload(d) : d \in Definition}
                   \cup {UpdatePayload(d) : d \in Definition}

Changes == [by : Jobs, before : Payloads, after : Payloads]

LEMMA ChangeType ==
    ASSUME Phases, NEW j \in Jobs PROVE Change(j) \in Changes /\ Change(j).by = j
<1>1. work[j].def \in Definition /\ seen[j] \in Definition
  BY WorkType DEF Phases, TypeOK
<1> HIDE DEF Definition
<1>2. /\ UpsertPayload(work[j].def) \in Payloads /\ UpdatePayload(work[j].def) \in Payloads
      /\ UpdatePayload(seen[j]) \in Payloads /\ <<>> \in Payloads
  BY <1>1 DEF Payloads
<1> QED BY <1>2 DEF Change, Changes

LEMMA AgreeSymmetric ==
    ASSUME NEW p, NEW q, Agree(p, q) PROVE Agree(q, p)
  BY DEF Agree

LEMMA PayloadsAgree ==
    ASSUME NEW d
    PROVE  /\ Agree(UpdatePayload(d), UpdatePayload(d))
           /\ Agree(UpsertPayload(d), UpdatePayload(d))
           /\ DOMAIN UpdatePayload(d) # {}
<1>1. /\ DOMAIN UpdatePayload(d) = {"fixed", "other", "extra", "pii"}
      /\ DOMAIN UpsertPayload(d) = {"fixed", "other", "pii"}
  BY DEF UpdatePayload, UpsertPayload
<1>2. \A f \in {"fixed", "other", "pii"} : UpsertPayload(d)[f] = UpdatePayload(d)[f]
  BY DEF UpdatePayload, UpsertPayload
<1> QED BY <1>1, <1>2 DEF Agree

AuthorsEnded == \A i \in 1..Len(trail) : pc[trail[i].by] = "done"

EarlierEnded == \A j, k \in Jobs : k \in earlier[j] => pc[k] = "done"

Running(j) == pc[j] \notin {"new", "done"}

Knows(j) ==
    Running(j) => \/ seen[j] = catalog
                  \/ \E i \in 1..Len(trail) : trail[i].by \notin earlier[j]

\* What j read is what event h left, and only jobs it overlaps came after.
ReadFrom(j, h) ==
    /\ Agree(UpdatePayload(seen[j]), trail[h].after)
    /\ \A g \in (h + 1)..Len(trail) : trail[g].by \notin earlier[j]

Grounded(j) ==
    Running(j) /\ seen[j] # NoSeries => \E h \in 1..Len(trail) : ReadFrom(j, h)

TrailInv ==
    /\ trail \in Seq(Changes) /\ AuthorsEnded /\ EarlierEnded
    /\ \A j \in Jobs : Knows(j) /\ Grounded(j)
    /\ TrailTellsCatalog

LEMMA TrailInit == Init => TrailInv
<1> SUFFICES ASSUME Init PROVE TrailInv
  OBVIOUS
<1>1. trail = <<>> /\ trail \in Seq(Changes) /\ Len(trail) = 0
  BY DEF Init
<1>2. catalog = NoSeries /\ (\A j \in Jobs : pc[j] = "new" /\ earlier[j] = {})
  BY DEF Init
<1>3. TrailTellsCatalog
  BY <1>1, <1>2 DEF TrailTellsCatalog
<1> QED BY <1>1, <1>2, <1>3
        DEF TrailInv, AuthorsEnded, EarlierEnded, Knows, Grounded, Running

LEMMA AuthorsAreJobs ==
    ASSUME trail \in Seq(Changes), NEW i \in 1..Len(trail) PROVE trail[i].by \in Jobs
<1>1. trail[i] \in Changes
  BY ElementOfSeq
<1> QED BY <1>1 DEF Changes

(* An event of an ended job still continues the one it continued.          *)
LEMMA ContinuesStays ==
    ASSUME trail \in Seq(Changes), NEW j \in Jobs,
           \A k \in Jobs \ {j} : earlier'[k] = earlier[k],
           \A i \in 1..Len(trail) : trail'[i] = trail[i] /\ trail[i].by # j,
           NEW i \in 2..Len(trail), NEW h \in 1..(i - 1), Continues(i, h)
    PROVE  Continues(i, h)'
<1>0. Len(trail) \in Nat
  BY LenProperties
<1>1. i \in 1..Len(trail) /\ h \in 1..Len(trail)
  BY <1>0
<1>2. trail'[i] = trail[i] /\ trail'[h] = trail[h]
  BY <1>1
<1>3. ASSUME NEW g \in (h + 1)..(i - 1)
      PROVE  trail'[g].by \notin earlier'[trail'[i].by] /\ trail'[i].by \notin earlier'[trail'[g].by]
  <2>1. g \in 1..Len(trail)
    BY <1>0
  <2>2. trail'[g] = trail[g]
    BY <2>1
  <2>3. /\ trail[g].by \in Jobs /\ trail[g].by # j
        /\ trail[i].by \in Jobs /\ trail[i].by # j
    BY <1>1, <2>1, AuthorsAreJobs
  <2>4. trail[g].by \notin earlier[trail[i].by] /\ trail[i].by \notin earlier[trail[g].by]
    BY DEF Continues, Overlap
  <2> QED BY <1>2, <2>2, <2>3, <2>4
<1>4. DOMAIN trail'[i].before # {} /\ Agree(trail'[i].before, trail'[h].after)
  BY <1>2 DEF Continues
<1> QED BY <1>3, <1>4, Zenon DEF Continues, Overlap, Agree

(* A step of j that leaves the row and the trail alone.                    *)
LEMMA TrailStays ==
    ASSUME Phases, TrailInv, NEW j \in Jobs, UNCHANGED <<catalog, trail>>,
           NEW l \in Labels \ {"new"}, pc' = [pc EXCEPT ![j] = l], pc[j] # "done",
           \/ pc[j] # "new" /\ earlier' = earlier
           \/ pc[j] = "new" /\ Began(j) /\ (l = "done" \/ seen'[j] = catalog),
           seen' = seen \/ seen' = [seen EXCEPT ![j] = catalog]
    PROVE  TrailInv'
<1>0. /\ \A k \in Jobs \ {j} : pc'[k] = pc[k] /\ earlier'[k] = earlier[k] /\ seen'[k] = seen[k]
      /\ pc'[j] = l
      /\ earlier'[j] = earlier[j] \/ earlier'[j] = {k \in Jobs : pc[k] = "done"}
  BY DEF Phases, TypeOK, Began
<1>1. \A i \in 1..Len(trail) : trail[i].by \in Jobs /\ trail[i].by # j
  BY AuthorsAreJobs DEF TrailInv, AuthorsEnded
<1>2. AuthorsEnded'
  BY <1>0, <1>1 DEF TrailInv, AuthorsEnded
<1>3. EarlierEnded'
  BY <1>0 DEF TrailInv, EarlierEnded
<1>4. ASSUME NEW k \in Jobs PROVE Knows(k)' /\ Grounded(k)'
  <2>0. Knows(k) /\ Grounded(k)
    BY DEF TrailInv
  <2>1. CASE k # j \/ (pc[j] # "new" /\ earlier' = earlier /\ seen' = seen)
    <3>1. pc'[k] = pc[k] \/ Running(k)
      BY <1>0, <2>1 DEF Running
    <3>2. seen'[k] = seen[k] /\ earlier'[k] = earlier[k]
      BY <1>0, <2>1
    <3>3. Running(k)' => Running(k)
      BY <3>1 DEF Running
    <3>4. Knows(k)'
      BY <2>0, <3>2, <3>3 DEF Knows
    <3>5. Grounded(k)'
      BY <2>0, <3>2, <3>3 DEF Grounded, ReadFrom
    <3> QED BY <3>4, <3>5
  <2>2. CASE k = j /\ seen'[j] = catalog
    <3>1. Knows(k)'
      BY <2>2 DEF Knows
    <3>2. CASE catalog = NoSeries
      BY <2>2, <3>1, <3>2 DEF Grounded
    <3>3. CASE catalog # NoSeries
      <4>1. trail # <<>> /\ Agree(trail[Len(trail)].after, UpdatePayload(catalog))
        BY <3>3 DEF TrailInv, TrailTellsCatalog
      <4>2. Len(trail) \in Nat /\ Len(trail) # 0
        BY <4>1, LenProperties, EmptySeq DEF TrailInv
      <4>3. Agree(UpdatePayload(seen'[j]), trail'[Len(trail)].after)
        BY <2>2, <4>1, AgreeSymmetric
      <4>4. Len(trail) \in 1..Len(trail') /\ (Len(trail) + 1)..Len(trail') = {}
        BY <4>2
      <4>5. ReadFrom(j, Len(trail))'
        BY <4>3, <4>4 DEF ReadFrom
      <4> QED BY <2>2, <3>1, <4>4, <4>5 DEF Grounded
    <3> QED BY <3>2, <3>3
  <2>3. CASE k = j /\ l = "done"
    BY <1>0, <2>3 DEF Knows, Grounded, Running
  <2>4. seen' = [seen EXCEPT ![j] = catalog] => seen'[j] = catalog
    BY DEF Phases, TypeOK
  <2> QED BY <2>1, <2>2, <2>3, <2>4
<1>5. TrailTellsCatalog'
  <2>1. ASSUME NEW i \in 2..Len(trail) PROVE \E h \in 1..(i - 1) : Continues(i, h)'
    <3>1. PICK h \in 1..(i - 1) : Continues(i, h)
      BY DEF TrailInv, TrailTellsCatalog
    <3>2. Continues(i, h)'
      BY <1>0, <1>1, <3>1, ContinuesStays DEF TrailInv
    <3> QED BY <3>2
  <2> QED BY <2>1 DEF TrailInv, TrailTellsCatalog
<1> QED BY <1>2, <1>3, <1>4, <1>5 DEF TrailInv

(* The commit of a changed row: whoever else is running began before j     *)
(* ended, and what j read of the row was left by an event after which came *)
(* only events of jobs that had not ended when j began, nor j when they    *)
(* began.                                                                  *)
LEMMA ChangeKeepsTrail ==
    ASSUME Phases, DraftInv, TrailInv, NEW j \in Jobs, pc[j] = "returned",
           pc' = [pc EXCEPT ![j] = "done"], draft[j] # NoSeries,
           catalog' = draft[j], trail' = Append(trail, Change(j)),
           UNCHANGED <<seen, earlier>>
    PROVE  TrailInv'
<1> DEFINE n == Len(trail)
           c == Change(j)
<1>1. n \in Nat /\ trail \in Seq(Changes)
  BY LenProperties DEF TrailInv
<1>2. c \in Changes /\ c.by = j
  BY ChangeType
<1>2a. draft[j] = work[j].def
  BY DEF Phases, UpsertPhases
<1>2b. Agree(c.after, UpdatePayload(draft[j]))
  <2>1. c.after = UpsertPayload(draft[j]) \/ c.after = UpdatePayload(draft[j])
    BY <1>2a DEF Change
  <2> QED BY <2>1, PayloadsAgree
<1>2c. seen[j] # NoSeries => c.before = UpdatePayload(seen[j])
  BY DEF Change
<1> HIDE DEF c
<1>3. /\ trail' \in Seq(Changes) /\ Len(trail') = n + 1 /\ trail'[n + 1] = c
      /\ \A i \in 1..n : trail'[i] = trail[i]
  <2>1. trail' = Append(trail, c)
    BY DEF c
  <2> QED BY <1>1, <1>2, <2>1, AppendProperties
<1> HIDE DEF n
<1>4. (\A k \in Jobs \ {j} : pc'[k] = pc[k]) /\ pc'[j] = "done"
  BY DEF Phases, TypeOK
<1>5. \A i \in 1..n : trail[i].by \in Jobs /\ pc[trail[i].by] = "done"
  BY AuthorsAreJobs DEF TrailInv, AuthorsEnded, n
<1>6. \A k \in Jobs : j \notin earlier[k]
  BY DEF TrailInv, EarlierEnded
<1>7. AuthorsEnded'
  <2> SUFFICES ASSUME NEW i \in 1..(n + 1) PROVE pc'[trail'[i].by] = "done"
    BY <1>3 DEF AuthorsEnded
  <2>1. i \in 1..n \/ i = n + 1
    BY <1>1
  <2> QED BY <2>1, <1>2, <1>3, <1>4, <1>5
<1>8. EarlierEnded'
  BY <1>4 DEF TrailInv, EarlierEnded
<1>9. ASSUME NEW k \in Jobs PROVE Knows(k)' /\ Grounded(k)'
  <2>1. n + 1 \in 1..Len(trail') /\ trail'[n + 1].by \notin earlier'[k]
    BY <1>1, <1>2, <1>3, <1>6
  <2>2. Knows(k)'
    BY <2>1 DEF Knows
  <2>3. ASSUME Running(k)', seen'[k] # NoSeries
        PROVE  \E h \in 1..Len(trail') : ReadFrom(k, h)'
    <3>1. Running(k)
      BY <1>4, <2>3 DEF Running
    <3>2. PICK h \in 1..n : ReadFrom(k, h)
      BY <2>3, <3>1 DEF TrailInv, Grounded, n
    <3>3. h \in 1..Len(trail') /\ Agree(UpdatePayload(seen'[k]), trail'[h].after)
      BY <1>1, <1>3, <3>2 DEF ReadFrom
    <3>4. ASSUME NEW g \in (h + 1)..(n + 1) PROVE trail'[g].by \notin earlier'[k]
      <4>1. g = n + 1 \/ (g \in (h + 1)..n /\ g \in 1..n)
        BY <1>1
      <4> QED BY <1>3, <2>1, <3>2, <4>1 DEF ReadFrom, n
    <3>5. ReadFrom(k, h)'
      BY <1>3, <3>3, <3>4 DEF ReadFrom
    <3> QED BY <3>3, <3>5
  <2> QED BY <2>2, <2>3 DEF Grounded
<1>10. TrailTellsCatalog'
  <2>1. trail' # <<>> /\ catalog' # NoSeries
    BY <1>1, <1>3
  <2>2. Agree(trail'[Len(trail')].after, UpdatePayload(catalog'))
    BY <1>2b, <1>3
  <2>3. ASSUME NEW i \in 2..(n + 1) PROVE \E h \in 1..(i - 1) : Continues(i, h)'
    <3>1. CASE i \in 2..n
      <4>1. PICK h \in 1..(i - 1) : Continues(i, h)
        BY <3>1 DEF TrailInv, TrailTellsCatalog, n
      <4>2. \A m \in 1..Len(trail) : trail'[m] = trail[m] /\ trail[m].by # j
        BY <1>3, <1>5 DEF n
      <4>3. Continues(i, h)'
        BY <1>1, <3>1, <4>1, <4>2, ContinuesStays DEF n
      <4> QED BY <4>3
    <3>2. CASE i = n + 1
      <4>1. catalog # NoSeries
        <5>1. n # 0
          BY <3>2
        <5> QED BY <1>1, <5>1 DEF TrailInv, TrailTellsCatalog, n
      <4>2. seen[j] # NoSeries
        BY <4>1 DEF DraftInv
      <4>3. PICK h \in 1..n : ReadFrom(j, h)
        BY <4>2 DEF TrailInv, Grounded, Running, n
      <4>4. trail'[i] = c /\ trail'[h] = trail[h] /\ h \in 1..(i - 1)
        BY <1>1, <1>3, <3>2
      <4>5. DOMAIN trail'[i].before # {} /\ Agree(trail'[i].before, trail'[h].after)
        BY <1>2c, <4>2, <4>3, <4>4, PayloadsAgree DEF ReadFrom
      <4>6. ASSUME NEW g \in (h + 1)..(i - 1)
            PROVE  /\ trail'[g].by \notin earlier'[trail'[i].by]
                   /\ trail'[i].by \notin earlier'[trail'[g].by]
        <5>1. g \in 1..n /\ g \in (h + 1)..Len(trail)
          BY <1>1, <3>2 DEF n
        <5>2. trail[g].by \notin earlier[j]
          BY <4>3, <5>1 DEF ReadFrom
        <5> QED BY <1>2, <1>3, <1>5, <1>6, <4>4, <5>1, <5>2
      <4>7. Continues(i, h)'
        BY <4>5, <4>6, Zenon DEF Continues, Overlap, Agree
      <4> QED BY <4>4, <4>7
    <3>3. i \in 2..n \/ i = n + 1
      BY <1>1
    <3> QED BY <3>1, <3>2, <3>3
  <2> QED BY <1>3, <2>1, <2>2, <2>3 DEF TrailTellsCatalog
<1> QED BY <1>3, <1>7, <1>8, <1>9, <1>10 DEF TrailInv

(* What the steps that leave the row and the trail alone have in common.   *)
Keeps(j) ==
    /\ UNCHANGED <<catalog, trail>>
    /\ \E l \in Labels \ {"new"} :
          /\ pc' = [pc EXCEPT ![j] = l]
          /\ \/ pc[j] # "new" /\ earlier' = earlier
             \/ pc[j] = "new" /\ Began(j) /\ (l = "done" \/ seen'[j] = catalog)
    /\ pc[j] # "done"
    /\ seen' = seen \/ seen' = [seen EXCEPT ![j] = catalog]

LEMMA StepKeeps ==
    ASSUME Phases, NEW j \in Jobs, JobStep(j) \/ Fails(j), ~Commit(j)
    PROVE  Keeps(j)
<1> USE DEF Phases, TypeOK, Keeps, Goto, dbVars, jobVars, Labels
<1>1. CASE UpsertRefused(j) BY <1>1 DEF UpsertRefused
<1>2. CASE LookUp(j)
  <2>1. seen' = [seen EXCEPT ![j] = catalog] /\ seen'[j] = catalog
    BY <1>2 DEF LookUp
  <2>2. \E l \in Labels \ {"new"} : pc' = [pc EXCEPT ![j] = l]
    <3>1. \/ pc' = [pc EXCEPT ![j] = "insert"]
          \/ pc' = [pc EXCEPT ![j] = "reconcile"]
      BY ONLY <1>2 DEF LookUp, Goto
    <3> QED BY ONLY <3>1 DEF Labels
  <2>3. pc[j] = "new" /\ Began(j) /\ UNCHANGED <<catalog, trail>>
    BY <1>2 DEF LookUp
  <2> QED BY <2>1, <2>2, <2>3
<1>3. CASE UpsertSeriesFresh(j) BY <1>3 DEF UpsertSeriesFresh
<1>4. CASE Refetch(j) BY <1>4 DEF Refetch
<1>5. CASE ReconcileExisting(j) BY <1>5 DEF ReconcileExisting
<1>6. CASE CountObservations(j) BY <1>6 DEF CountObservations
<1>7. CASE UpsertSeriesFieldChange(j) BY <1>7 DEF UpsertSeriesFieldChange
<1>8. CASE WriteRefused(j) BY <1>8 DEF WriteRefused
<1>9. CASE WriteBegins(j) BY <1>9 DEF WriteBegins
<1>10. CASE TakeLock(j) BY <1>10 DEF TakeLock
<1>11. CASE WriteChunk(j) BY <1>11 DEF WriteChunk
<1>12. CASE Fails(j) BY <1>12 DEF Fails, EndTransaction
<1> QED BY <1>1, <1>2, <1>3, <1>4, <1>5, <1>6, <1>7, <1>8, <1>9, <1>10, <1>11, <1>12
        DEF JobStep

(* A commit writes a batch, adds subjects only, or changes the row.        *)
LEMMA CommitKeeps ==
    ASSUME Phases, NEW j \in Jobs, Commit(j), IsWrite(j) \/ draft[j] = NoSeries
    PROVE  Keeps(j)
<1>1. pc[j] = "returned" /\ pc' = [pc EXCEPT ![j] = "done"] /\ UNCHANGED <<seen, earlier>>
  BY DEF Commit, EndTransaction, Goto
<1>2. UNCHANGED <<catalog, trail>>
  BY DEF Commit, CommitSeries, CommitBatch, IsWrite
<1> QED BY <1>1, <1>2 DEF Keeps, Labels

LEMMA TrailNext == Phases /\ DraftInv /\ TrailInv /\ [Next]_vars => TrailInv'
<1> SUFFICES ASSUME Phases, DraftInv, TrailInv, [Next]_vars PROVE TrailInv'
  OBVIOUS
<1>1. ASSUME NEW j \in Jobs, Keeps(j) PROVE TrailInv'
  BY <1>1, TrailStays DEF Keeps
<1>2. ASSUME NEW j \in Jobs, Commit(j), ~IsWrite(j), draft[j] # NoSeries PROVE TrailInv'
  <2>1. work[j].kind = "upsert"
    BY <1>2, WorkType DEF IsWrite, Phases, TypeOK
  <2>2. /\ pc[j] = "returned" /\ pc' = [pc EXCEPT ![j] = "done"]
        /\ catalog' = draft[j] /\ trail' = Append(trail, Change(j))
        /\ UNCHANGED <<seen, earlier>>
    BY <1>2, <2>1 DEF Commit, CommitSeries, EndTransaction, Goto
  <2> QED BY <1>2, <2>2, ChangeKeepsTrail
<1>3. CASE UNCHANGED vars
  <2>1. UNCHANGED <<catalog, trail, pc, seen, earlier>>
    BY <1>3 DEF vars, dbVars, jobVars
  <2>2. TrailTellsCatalog'
    BY <2>1 DEF TrailInv, TrailTellsCatalog, Continues, Overlap, Agree
  <2>3. ASSUME NEW k \in Jobs PROVE Knows(k)' /\ Grounded(k)'
    BY <2>1 DEF TrailInv, Knows, Grounded, ReadFrom, Running
  <2> QED BY <2>1, <2>2, <2>3 DEF TrailInv, AuthorsEnded, EarlierEnded
<1>4. ASSUME NEW j \in Jobs, JobStep(j) \/ Fails(j) PROVE TrailInv'
  BY <1>1, <1>2, <1>4, StepKeeps, CommitKeeps
<1> QED BY <1>3, <1>4 DEF Next

(* The series events tell the catalog row, also where upserts overlap: the *)
(* last one ends with it in every field it tells; every one but the first  *)
(* is an update and begins with what an earlier one left, after which came *)
(* only events of upserts it overlapped.  upsert_series reads the row once *)
(* and without a lock, so what comes between cannot be excluded; the       *)
(* UPDATE sets every column, so the last event is the row.                 *)
THEOREM EventsTellCatalog == Spec => []TrailTellsCatalog
<1>1. TrailInv => TrailTellsCatalog
  BY DEF TrailInv
<1> QED BY <1>1, PhasesInit, PhasesNext, DraftInit, DraftNext, TrailInit, TrailNext,
           PTL DEF Spec

-----------------------------------------------------------------------------
(* The fixed fields.  A running job that began after an observation was    *)
(* committed has read the fields it was written under, unless an upsert    *)
(* overlapped that write; and an upsert that will change them saw a series *)
(* that no job had written to before it began.                             *)
Contested(k) == \E i \in 1..Len(trail) : Overlap(trail[i].by, obs[k].by)

RowStands ==
    /\ Written # {} => catalog # NoSeries
    /\ \A j \in Jobs : IsWrite(j) /\ Running(j) => catalog # NoSeries

ReadThem(j) ==
    Running(j) => \A k \in Written : obs[k].by \in earlier[j] =>
                      seen[j].fixed = obs[k].under \/ Contested(k)

MayChange(j) ==
    pc[j] = "update" \/ draft[j] # NoSeries =>
        \/ seen[j].fixed = work[j].def.fixed
        \/ \A k \in Written : obs[k].by \notin earlier[j]

FixedInv ==
    /\ RowStands /\ (\A j \in Jobs : ReadThem(j)) /\ (\A j \in Jobs : MayChange(j))
    /\ \A k \in Written : catalog.fixed = obs[k].under \/ Contested(k)

LEMMA FixedInit == Init => FixedInv
<1> SUFFICES ASSUME Init PROVE FixedInv
  OBVIOUS
<1>1. Written = {} /\ \A j \in Jobs : pc[j] = "new" /\ draft[j] = NoSeries
  BY DEF Init, Written
<1> QED BY <1>1 DEF FixedInv, RowStands, ReadThem, MayChange, Running

LEMMA FixedIsIt == TrailInv /\ FixedInv => FixedFieldsStay
<1> SUFFICES ASSUME TrailInv, FixedInv PROVE FixedFieldsStay
  OBVIOUS
<1>1. DOMAIN trail = 1..Len(trail)
  BY LenProperties DEF TrailInv
<1> QED BY <1>1 DEF FixedInv, FixedFieldsStay, Contested

(* Who wrote an observation, and who changed the row, has ended.           *)
LEMMA WritersEnded ==
    ASSUME Phases, BatchInv, NEW k \in Written
    PROVE  obs[k].by \in Jobs /\ pc[obs[k].by] = "done" /\ k \in Keys
<1>1. k \in Keys /\ obs[k] # NoObs
  BY DEF Written
<1> QED BY <1>1 DEF Phases, TypeOK, BatchInv, Committed

LEMMA ContestedStays ==
    ASSUME Phases, BatchInv, TrailInv, NEW j \in Jobs, pc[j] # "done",
           \A k \in Jobs \ {j} : earlier'[k] = earlier[k],
           NEW k \in Written, obs'[k] = obs[k], Contested(k),
           Len(trail) \in Nat, Len(trail') \in Nat, Len(trail) <= Len(trail'),
           \A i \in 1..Len(trail) : trail'[i] = trail[i]
    PROVE  Contested(k)'
<1>1. PICK i \in 1..Len(trail) : Overlap(trail[i].by, obs[k].by)
  BY DEF Contested
<1>2. /\ trail[i].by \in Jobs /\ trail[i].by # j
      /\ obs[k].by \in Jobs /\ obs[k].by # j
  BY AuthorsAreJobs, WritersEnded DEF TrailInv, AuthorsEnded
<1>3. earlier'[trail[i].by] = earlier[trail[i].by] /\ earlier'[obs[k].by] = earlier[obs[k].by]
  BY <1>2
<1>4. i \in 1..Len(trail')
  OBVIOUS
<1>5. trail'[i].by \notin earlier'[obs'[k].by] /\ obs'[k].by \notin earlier'[trail'[i].by]
  BY <1>1, <1>3 DEF Overlap
<1> QED BY <1>4, <1>5, Zenon DEF Contested, Overlap

(* A step that leaves the row and the observations alone.                  *)
LEMMA FixedStays ==
    ASSUME Phases, BatchInv, TrailInv, FixedInv, NEW j \in Jobs, Keeps(j),
           UNCHANGED <<work, obs>>, \A k \in Jobs \ {j} : draft'[k] = draft[k],
           MayChange(j)', IsWrite(j) /\ Running(j)' => catalog # NoSeries
    PROVE  FixedInv'
<1>0. UNCHANGED <<catalog, trail>> /\ pc[j] # "done"
  BY DEF Keeps
<1>1. /\ \A k \in Jobs \ {j} : pc'[k] = pc[k] /\ earlier'[k] = earlier[k] /\ seen'[k] = seen[k]
      /\ \/ pc'[j] = "done" \/ seen'[j] = catalog
         \/ pc[j] # "new" /\ seen'[j] = seen[j] /\ earlier'[j] = earlier[j]
  <2>1. PICK l \in Labels : /\ pc' = [pc EXCEPT ![j] = l]
                            /\ \/ pc[j] # "new" /\ earlier' = earlier
                               \/ pc[j] = "new" /\ Began(j) /\ (l = "done" \/ seen'[j] = catalog)
    BY DEF Keeps
  <2>2. \A k \in Jobs \ {j} : pc'[k] = pc[k] /\ earlier'[k] = earlier[k]
    BY <2>1 DEF Began, Phases, TypeOK
  <2>3. \A k \in Jobs \ {j} : seen'[k] = seen[k]
    BY DEF Keeps, Phases, TypeOK
  <2>4. seen'[j] = seen[j] \/ seen'[j] = catalog
    BY DEF Keeps, Phases, TypeOK
  <2>5. pc'[j] = l
    BY <2>1 DEF Phases, TypeOK
  <2> QED BY <2>1, <2>2, <2>3, <2>4, <2>5
<1>2. Written' = Written
  BY DEF Written
<1>3. Len(trail) \in Nat
  BY LenProperties DEF TrailInv
<1>4. \A k \in Written : Contested(k) => Contested(k)'
  BY <1>0, <1>1, <1>3, ContestedStays
<1>5. RowStands'
  BY <1>0, <1>1, <1>2 DEF FixedInv, RowStands, IsWrite, Running
<1>6. ASSUME NEW m \in Jobs PROVE ReadThem(m)'
  <2>1. CASE m # j \/ (pc[j] # "new" /\ seen'[j] = seen[j] /\ earlier'[j] = earlier[j])
    <3>1. seen'[m] = seen[m] /\ earlier'[m] = earlier[m] /\ (Running(m)' => Running(m))
      BY <1>0, <1>1, <2>1 DEF Running
    <3>2. ReadThem(m)
      BY DEF FixedInv
    <3> QED BY <1>2, <1>4, <3>1, <3>2 DEF ReadThem
  <2>2. CASE m = j /\ pc'[j] = "done"
    BY <2>2 DEF ReadThem, Running
  <2>3. CASE m = j /\ seen'[j] = catalog
    BY <1>2, <1>4, <2>3 DEF ReadThem, FixedInv
  <2> QED BY <1>1, <2>1, <2>2, <2>3
<1>7. ASSUME NEW m \in Jobs PROVE MayChange(m)'
  <2>1. CASE m # j
    <3>1. MayChange(m)
      BY DEF FixedInv
    <3> QED BY <1>1, <1>2, <2>1, <3>1 DEF MayChange
  <2> QED BY <2>1
<1>8. \A k \in Written' : catalog'.fixed = obs'[k].under \/ Contested(k)'
  BY <1>0, <1>2, <1>4 DEF FixedInv
<1> QED BY <1>5, <1>6, <1>7, <1>8 DEF FixedInv

(* Which upserts may write the row: one that found no row found no         *)
(* observation either, and one that saw other fixed fields counted none.   *)
LEMMA UpsertMayChange ==
    ASSUME Phases, FixedInv, NEW j \in Jobs,
           \/ UpsertRefused(j) \/ LookUp(j) \/ UpsertSeriesFresh(j) \/ Refetch(j)
           \/ ReconcileExisting(j) \/ CountObservations(j) \/ UpsertSeriesFieldChange(j)
    PROVE  MayChange(j)'
<1>0. pc[j] # "returned" /\ draft[j] = NoSeries
  <2>1. pc[j] # "returned"
    BY DEF UpsertRefused, LookUp, UpsertSeriesFresh, Refetch, ReconcileExisting,
           CountObservations, UpsertSeriesFieldChange
  <2> QED BY <2>1 DEF Phases, UpsertPhases
<1>1. UNCHANGED <<work, obs>> /\ Written' = Written
  BY DEF UpsertRefused, LookUp, UpsertSeriesFresh, Refetch, ReconcileExisting,
         CountObservations, UpsertSeriesFieldChange, dbVars, Written
<1> USE DEF Phases, TypeOK, Goto, jobVars
<1>2. CASE UpsertRefused(j) \/ LookUp(j) \/ Refetch(j)
  <2>1. pc'[j] # "update" /\ draft' = draft
    BY <1>2 DEF UpsertRefused, LookUp, Refetch
  <2> QED BY <1>0, <2>1 DEF MayChange
<1>3. CASE UpsertSeriesFresh(j)
  <2>1. CASE catalog = NoSeries
    <3>1. Written = {}
      BY <2>1 DEF FixedInv, RowStands
    <3> QED BY <1>1, <3>1 DEF MayChange
  <2>2. CASE catalog # NoSeries
    BY <1>0, <1>3, <2>2 DEF UpsertSeriesFresh, MayChange
  <2> QED BY <2>1, <2>2
<1>4. CASE ReconcileExisting(j)
  <2>1. draft' = draft /\ seen' = seen
    BY <1>4 DEF ReconcileExisting
  <2>2. pc'[j] = "update" => seen[j].fixed = work[j].def.fixed
    BY <1>4 DEF ReconcileExisting
  <2> QED BY <1>0, <1>1, <2>1, <2>2 DEF MayChange
<1>5. CASE CountObservations(j)
  <2>1. draft' = draft /\ (pc'[j] = "update" => Written = {})
    BY <1>5 DEF CountObservations
  <2> QED BY <1>0, <1>1, <2>1 DEF MayChange
<1>6. CASE UpsertSeriesFieldChange(j)
  <2>1. MayChange(j) /\ pc[j] = "update" /\ UNCHANGED <<seen, earlier>>
    BY <1>6 DEF UpsertSeriesFieldChange, FixedInv
  <2> QED BY <1>1, <2>1 DEF MayChange
<1> QED BY <1>2, <1>3, <1>4, <1>5, <1>6

(* The commit of a batch: j read the row as it is, or overlapped the       *)
(* upsert that changed it; no running job began after j ended.             *)
LEMMA BatchKeepsFixed ==
    ASSUME Phases, BatchInv, TrailInv, FixedInv, NEW j \in Jobs, Commit(j), IsWrite(j)
    PROVE  FixedInv'
<1>0. /\ pc[j] = "returned" /\ pc' = [pc EXCEPT ![j] = "done"] /\ CommitBatch(j)
      /\ draft' = [draft EXCEPT ![j] = NoSeries]
      /\ UNCHANGED <<work, seen, earlier, catalog, trail>>
  BY DEF Commit, CommitBatch, EndTransaction, Goto, IsWrite
<1>1. /\ \A k \in Jobs \ {j} : pc'[k] = pc[k] /\ draft'[k] = draft[k]
      /\ pc'[j] = "done" /\ draft'[j] = NoSeries
  BY <1>0 DEF Phases, TypeOK
<1>2. ASSUME NEW k \in Written'
      PROVE  \/ k \in Written /\ obs'[k] = obs[k]
             \/ obs'[k].by = j /\ obs'[k].under = seen[j].fixed
  <2>1. k \in Keys /\ obs'[k] # NoObs
    BY DEF Written
  <2>2. CASE k \in fresh[j]
    <3>1. obs'[k] = [payload |-> PayloadOf(j, k), by |-> j, under |-> seen[j].fixed]
      BY <1>0, <2>1, <2>2 DEF CommitBatch
    <3> QED BY <3>1
  <2>3. CASE k \notin fresh[j]
    <3>1. obs'[k] = obs[k]
      BY <1>0, <2>1, <2>3 DEF CommitBatch
    <3> QED BY <2>1, <3>1 DEF Written
  <2> QED BY <2>2, <2>3
<1>3. Len(trail) \in Nat
  BY LenProperties DEF TrailInv
<1>4. \A k \in Written : Contested(k) /\ obs'[k] = obs[k] => Contested(k)'
  BY <1>0, <1>3, ContestedStays
<1>5. \A m \in Jobs : j \notin earlier[m]
  BY <1>0 DEF TrailInv, EarlierEnded
<1>6. RowStands'
  <2>1. catalog # NoSeries
    BY <1>0 DEF FixedInv, RowStands, Running
  <2> QED BY <1>0, <2>1 DEF RowStands
<1>7. ASSUME NEW m \in Jobs PROVE ReadThem(m)'
  <2> SUFFICES ASSUME Running(m)', NEW k \in Written', obs'[k].by \in earlier'[m]
               PROVE  seen'[m].fixed = obs'[k].under \/ Contested(k)'
    BY DEF ReadThem
  <2>1. k \in Written /\ obs'[k] = obs[k]
    BY <1>0, <1>2, <1>5
  <2>2. Running(m) /\ ReadThem(m)
    BY <1>0, <1>1 DEF Running, FixedInv
  <2> QED BY <1>0, <1>4, <2>1, <2>2 DEF ReadThem
<1>8. ASSUME NEW m \in Jobs PROVE MayChange(m)'
  <2>1. CASE m = j
    BY <1>1, <2>1 DEF MayChange
  <2>2. CASE m # j
    <3>1. MayChange(m)
      BY DEF FixedInv
    <3>2. (\A k \in Written : obs[k].by \notin earlier[m])
             => \A k \in Written' : obs'[k].by \notin earlier'[m]
      BY <1>0, <1>2, <1>5
    <3> QED BY <1>0, <1>1, <2>2, <3>1, <3>2 DEF MayChange
  <2> QED BY <2>1, <2>2
<1>9. ASSUME NEW k \in Written' PROVE catalog'.fixed = obs'[k].under \/ Contested(k)'
  <2>1. CASE k \in Written /\ obs'[k] = obs[k]
    BY <1>0, <1>4, <2>1 DEF FixedInv
  <2>2. CASE obs'[k].by = j /\ obs'[k].under = seen[j].fixed
    <3>1. CASE seen[j] = catalog
      BY <1>0, <2>2, <3>1
    <3>2. CASE seen[j] # catalog
      <4>1. PICK i \in 1..Len(trail) : trail[i].by \notin earlier[j]
        BY <1>0, <3>2 DEF TrailInv, Knows, Running
      <4>2. trail[i].by \in Jobs
        BY AuthorsAreJobs DEF TrailInv
      <4>3. /\ i \in 1..Len(trail') /\ trail'[i].by \notin earlier'[obs'[k].by]
            /\ obs'[k].by \notin earlier'[trail'[i].by]
        BY <1>0, <1>5, <2>2, <4>1, <4>2
      <4> QED BY <4>3, Zenon DEF Contested, Overlap
    <3> QED BY <3>1, <3>2
  <2> QED BY <1>2, <2>1, <2>2
<1> QED BY <1>6, <1>7, <1>8, <1>9 DEF FixedInv

(* The commit of a changed row: an observation of a job that had not ended *)
(* when j began overlaps j; j read the fields of the others and kept them. *)
LEMMA ChangeKeepsFixed ==
    ASSUME Phases, BatchInv, TrailInv, FixedInv, NEW j \in Jobs, pc[j] = "returned",
           pc' = [pc EXCEPT ![j] = "done"], draft[j] # NoSeries,
           draft' = [draft EXCEPT ![j] = NoSeries],
           catalog' = draft[j], trail' = Append(trail, Change(j)),
           UNCHANGED <<work, obs, seen, earlier>>
    PROVE  FixedInv'
<1>0. /\ \A k \in Jobs \ {j} : pc'[k] = pc[k] /\ draft'[k] = draft[k]
      /\ pc'[j] = "done" /\ draft'[j] = NoSeries
  BY DEF Phases, TypeOK
<1>1. /\ Len(trail) \in Nat /\ Len(trail') = Len(trail) + 1
      /\ (\A i \in 1..Len(trail) : trail'[i] = trail[i]) /\ trail'[Len(trail) + 1].by = j
  <2>1. Change(j) \in Changes /\ Change(j).by = j
    BY ChangeType
  <2>2. trail \in Seq(Changes) /\ Len(trail) \in Nat
    BY LenProperties DEF TrailInv
  <2> QED BY <2>1, <2>2, AppendProperties
<1>2. Written' = Written
  BY DEF Written
<1>3. \A k \in Written : Contested(k) => Contested(k)'
  BY <1>1, ContestedStays
<1>4. \A m \in Jobs : j \notin earlier[m]
  BY DEF TrailInv, EarlierEnded
<1>5. RowStands'
  BY DEF RowStands
<1>6. ASSUME NEW m \in Jobs PROVE ReadThem(m)'
  <2>1. ReadThem(m) /\ (Running(m)' => Running(m))
    BY <1>0 DEF FixedInv, Running
  <2> QED BY <1>2, <1>3, <2>1 DEF ReadThem
<1>7. ASSUME NEW m \in Jobs PROVE MayChange(m)'
  <2>1. MayChange(m)
    BY DEF FixedInv
  <2> QED BY <1>0, <1>2, <2>1 DEF MayChange
<1>8. ASSUME NEW k \in Written' PROVE catalog'.fixed = obs'[k].under \/ Contested(k)'
  <2>0. k \in Written /\ obs[k].by \in Jobs
    BY <1>2, WritersEnded
  <2>1. CASE obs[k].by \notin earlier[j]
    <3>1. /\ Len(trail) + 1 \in 1..Len(trail')
          /\ trail'[Len(trail) + 1].by \notin earlier'[obs'[k].by]
          /\ obs'[k].by \notin earlier'[trail'[Len(trail) + 1].by]
      BY <1>1, <1>4, <2>0, <2>1
    <3> QED BY <3>1, Zenon DEF Contested, Overlap
  <2>2. CASE obs[k].by \in earlier[j]
    <3>1. seen[j].fixed = obs[k].under \/ Contested(k)
      BY <2>0, <2>2 DEF FixedInv, ReadThem, Running
    <3>2. seen[j].fixed = work[j].def.fixed
      BY <2>0, <2>2 DEF FixedInv, MayChange
    <3>3. draft[j] = work[j].def
      BY DEF Phases, UpsertPhases
    <3> QED BY <1>3, <2>0, <3>1, <3>2, <3>3
  <2> QED BY <2>1, <2>2
<1> QED BY <1>5, <1>6, <1>7, <1>8 DEF FixedInv

LEMMA FixedNext == Phases /\ BatchInv /\ TrailInv /\ FixedInv /\ [Next]_vars => FixedInv'
<1> SUFFICES ASSUME Phases, BatchInv, TrailInv, FixedInv, [Next]_vars PROVE FixedInv'
  OBVIOUS
<1>1. ASSUME NEW j \in Jobs,
             \/ UpsertRefused(j) \/ LookUp(j) \/ UpsertSeriesFresh(j) \/ Refetch(j)
             \/ ReconcileExisting(j) \/ CountObservations(j) \/ UpsertSeriesFieldChange(j)
      PROVE  FixedInv'
  <2>1. UNCHANGED <<work, obs>> /\ ~IsWrite(j) /\ pc[j] # "returned"
    BY <1>1 DEF UpsertRefused, LookUp, UpsertSeriesFresh, Refetch, ReconcileExisting,
                CountObservations, UpsertSeriesFieldChange, dbVars, IsWrite, Phases,
                UpsertPhases, UpsertLabels
  <2>2. \A k \in Jobs \ {j} : draft'[k] = draft[k]
    BY <1>1 DEF UpsertRefused, LookUp, UpsertSeriesFresh, Refetch, ReconcileExisting,
                CountObservations, UpsertSeriesFieldChange, jobVars, Phases, TypeOK
  <2>3. Keeps(j)
    BY <1>1, <2>1, StepKeeps DEF JobStep, Commit
  <2> QED BY <1>1, <2>1, <2>2, <2>3, UpsertMayChange, FixedStays
<1>2. ASSUME NEW j \in Jobs, WriteRefused(j) \/ WriteBegins(j) \/ TakeLock(j) \/ WriteChunk(j)
      PROVE  FixedInv'
  <2>1. UNCHANGED <<work, obs, draft>> /\ pc[j] # "returned" /\ pc'[j] # "update"
    BY <1>2 DEF WriteRefused, WriteBegins, TakeLock, WriteChunk, dbVars, jobVars, Goto,
                Phases, TypeOK
  <2>2. MayChange(j)'
    BY <2>1 DEF Phases, UpsertPhases, MayChange
  <2>3. IsWrite(j) /\ Running(j)' => catalog # NoSeries
    BY <1>2 DEF WriteRefused, WriteBegins, TakeLock, WriteChunk, Running, FixedInv, RowStands,
                Goto, Phases, TypeOK
  <2>4. Keeps(j)
    BY <1>2, <2>1, StepKeeps DEF JobStep, Commit
  <2> QED BY <2>1, <2>2, <2>3, <2>4, FixedStays
<1>3. ASSUME NEW j \in Jobs, Fails(j) \/ (Commit(j) /\ ~IsWrite(j) /\ draft[j] = NoSeries)
      PROVE  FixedInv'
  <2>1. EndTransaction(j) /\ UNCHANGED <<work, obs>>
    BY <1>3, WorkType DEF Fails, Commit, CommitSeries, IsWrite, Phases, TypeOK, dbVars
  <2>2. Keeps(j)
    <3>1. Fails(j) => ~Commit(j)
      BY DEF Fails, Commit, Phases, TypeOK
    <3> QED BY <1>3, <3>1, StepKeeps, CommitKeeps
  <2>3. pc'[j] = "done" /\ draft'[j] = NoSeries /\ \A k \in Jobs \ {j} : draft'[k] = draft[k]
    BY <2>1 DEF EndTransaction, Goto, Phases, TypeOK
  <2>4. MayChange(j)' /\ ~Running(j)'
    BY <2>3 DEF MayChange, Running
  <2> QED BY <2>1, <2>2, <2>3, <2>4, FixedStays
<1>4. ASSUME NEW j \in Jobs, Commit(j), ~IsWrite(j), draft[j] # NoSeries PROVE FixedInv'
  <2>1. work[j].kind = "upsert"
    BY <1>4, WorkType DEF IsWrite, Phases, TypeOK
  <2>2. /\ pc[j] = "returned" /\ pc' = [pc EXCEPT ![j] = "done"]
        /\ draft' = [draft EXCEPT ![j] = NoSeries]
        /\ catalog' = draft[j] /\ trail' = Append(trail, Change(j))
        /\ UNCHANGED <<work, obs, seen, earlier>>
    BY <1>4, <2>1 DEF Commit, CommitSeries, EndTransaction, Goto
  <2> QED BY <1>4, <2>2, ChangeKeepsFixed
<1>5. CASE UNCHANGED vars
  <2>1. UNCHANGED <<work, catalog, obs, trail, pc, seen, draft, earlier>>
    BY <1>5 DEF vars, dbVars, jobVars
  <2>2. Written' = Written
    BY <2>1 DEF Written
  <2>3. ASSUME NEW k PROVE Contested(k)' = Contested(k)
    BY <2>1 DEF Contested, Overlap
  <2>4. RowStands'
    BY <2>1, <2>2 DEF FixedInv, RowStands, IsWrite, Running
  <2>5. ASSUME NEW m \in Jobs PROVE ReadThem(m)' /\ MayChange(m)'
    BY <2>1, <2>2, <2>3 DEF FixedInv, ReadThem, MayChange, Running
  <2> QED BY <2>1, <2>2, <2>3, <2>4, <2>5 DEF FixedInv
<1>6. ASSUME NEW j \in Jobs, JobStep(j) \/ Fails(j) PROVE FixedInv'
  BY <1>1, <1>2, <1>3, <1>4, <1>6, BatchKeepsFixed DEF JobStep
<1> QED BY <1>5, <1>6 DEF Next

(* source_id, frequency and unit are immutable once observations exist: a  *)
(* series still has those under which an observation was written unless an *)
(* upsert ran at the same time as that write.  The count of observations   *)
(* in upsert_series is not repeated when the row is written, so the        *)
(* exception is needed; it is the only one, for any number of commands.    *)
THEOREM FixedFieldsAreImmutable == Spec => []FixedFieldsStay
<1> QED BY FixedIsIt, PhasesInit, PhasesNext, BatchInit, BatchNext, DraftInit, DraftNext,
           TrailInit, TrailNext, FixedInit, FixedNext, PTL DEF Spec

-----------------------------------------------------------------------------
(* Replays.                                                                *)
LEMMA LargestElement ==
    ASSUME NEW B \in Nat, NEW T, T \subseteq 0..B, T # {}
    PROVE  \E x \in T : \A y \in T : y <= x
<1> DEFINE U == {B - x : x \in T}
<1>1. U \subseteq Nat /\ U # {}
  <2>1. \A x \in T : x \in 0..B
    OBVIOUS
  <2>2. \A x \in 0..B : B - x \in Nat
    OBVIOUS
  <2>3. \A u \in U : u \in Nat
    BY <2>1, <2>2, Zenon
  <2>4. PICK x : x \in T
    OBVIOUS
  <2>5. B - x \in U
    BY <2>4, Zenon
  <2> HIDE DEF U
  <2> QED BY <2>3, <2>5
<1>2. PICK u \in U : \A v \in U : u <= v
  <2> HIDE DEF U
  <2> QED BY <1>1, SmallestElement
<1>3. PICK x \in T : u = B - x
  BY <1>2
<1>4. ASSUME NEW y \in T PROVE y <= x
  <2>1. B - y \in U
    OBVIOUS
  <2>2. B - x <= B - y
    BY <1>2, <1>3, <2>1
  <2>3. x \in Int /\ y \in Int
    OBVIOUS
  <2> QED BY ONLY <2>2, <2>3, B \in Nat, SMT
<1> QED BY <1>3, <1>4

(* Of the keys known at pit there is a greatest as_of at the greatest ts.  *)
LEMMA GreatestKey ==
    ASSUME NEW W \in SUBSET Keys, NEW pit \in Nat, NEW k \in W, k[2] <= pit
    PROVE  \E l \in W :
              /\ l[2] <= pit /\ k[1] <= l[1]
              /\ \A m \in W : m[2] <= pit => m[1] <= l[1]
              /\ \A m \in W : m[1] = l[1] /\ m[2] <= pit => m[2] <= l[2]
<1>1. MaxTime \in Nat
  BY ObservationConstants, Zenon
<1> DEFINE V == {m \in W : m[2] <= pit}
           T == {m[1] : m \in V}
<1>2. T \subseteq 0..MaxTime /\ T # {}
  BY <1>1 DEF Keys
<1>3. PICK t \in T : \A y \in T : y <= t
  <2> HIDE DEF T
  <2> QED BY <1>1, <1>2, LargestElement
<1> DEFINE U == {m[2] : m \in {n \in V : n[1] = t}}
<1>4. U \subseteq 0..MaxTime /\ U # {}
  BY <1>1, <1>3 DEF Keys
<1>5. PICK a \in U : \A y \in U : y <= a
  <2> HIDE DEF U
  <2> QED BY <1>1, <1>4, LargestElement
<1>6. PICK l \in V : l[1] = t /\ l[2] = a
  BY <1>5
<1>7. l \in W /\ l[2] <= pit
  BY <1>6
<1>8. \A m \in W : m[2] <= pit => m[1] <= l[1]
  BY <1>3, <1>6
<1>9. \A m \in W : m[1] = l[1] /\ m[2] <= pit => m[2] <= l[2]
  BY <1>5, <1>6
<1>10. k[1] <= l[1]
  BY <1>8
<1> QED BY <1>7, <1>8, <1>9, <1>10

(* No step takes an observation away.                                      *)
LEMMA WrittenGrows ==
    ASSUME TypeOK, [Next]_vars PROVE Written \subseteq Written'
<1>1. ASSUME NEW j \in Jobs, CommitBatch(j), NEW k \in Written PROVE k \in Written'
  <2>1. k \in Keys /\ obs[k] # NoObs
    BY DEF Written
  <2>2. CASE k \in fresh[j]
    <3>1. obs'[k].by = j
      BY <1>1, <2>1, <2>2 DEF CommitBatch
    <3>2. NoObs.by = ""
      BY DEF NoObs
    <3>3. j # ""
      BY ObservationConstants, Zenon
    <3> QED BY <2>1, <3>1, <3>2, <3>3 DEF Written
  <2>3. CASE k \notin fresh[j]
    BY <1>1, <2>1, <2>3 DEF CommitBatch, Written
  <2> QED BY <2>2, <2>3
<1>2. CASE obs' = obs
  BY <1>2 DEF Written
<1>3. obs' = obs \/ \E j \in Jobs : CommitBatch(j)
  BY DEF Next, vars, JobStep, UpsertRefused, LookUp, UpsertSeriesFresh, Refetch,
         ReconcileExisting, CountObservations, UpsertSeriesFieldChange, WriteRefused,
         WriteBegins, TakeLock, WriteChunk, Commit, CommitSeries, Fails, dbVars
<1> QED BY <1>1, <1>2, <1>3

(* What was known at pit is all that a replay at pit depends on.           *)
LEMMA SameReplay ==
    ASSUME NEW pit \in 1..MaxTime, Written \subseteq Written',
           \A k \in Written' \ Written : ~(k[2] <= pit)
    PROVE  Collapse(pit)' = Collapse(pit)
<1>1. \A k : k \in Written' /\ k[2] <= pit <=> k \in Written /\ k[2] <= pit
  OBVIOUS
<1>2. \A k : k \in Collapse(pit)' <=> k \in Collapse(pit)
  BY <1>1, Zenon DEF Collapse
<1> QED BY <1>2

LEMMA ReplayStep ==
    ASSUME TypeOK, [Next]_vars, NEW pit \in 1..MaxTime
    PROVE  /\ \/ \E k \in Written' \ Written : k[2] <= pit
              \/ \A start, limit \in 1..MaxTime :
                    RangeOf(start, MaxTime + 1, pit, limit)'
                      = RangeOf(start, MaxTime + 1, pit, limit)
           /\ \A k \in Latest(pit) : \E l \in Latest(pit)' : l[1] >= k[1]
<1>1. Written \subseteq Written'
  BY WrittenGrows
<1>2. ASSUME \A k \in Written' \ Written : ~(k[2] <= pit)
      PROVE  \A start, limit \in 1..MaxTime :
                RangeOf(start, MaxTime + 1, pit, limit)'
                  = RangeOf(start, MaxTime + 1, pit, limit)
  <2>1. Collapse(pit)' = Collapse(pit)
    BY <1>1, <1>2, SameReplay
  <2>2. ASSUME NEW start, NEW limit
        PROVE  RangeOf(start, MaxTime + 1, pit, limit)'
                 = RangeOf(start, MaxTime + 1, pit, limit)
    BY <2>1, Zenon DEF RangeOf
  <2> QED BY <2>2
<1>3. ASSUME NEW k \in Latest(pit) PROVE \E l \in Latest(pit)' : l[1] >= k[1]
  <2>1. k \in Written' /\ k[2] <= pit /\ Written' \in SUBSET Keys
    BY <1>1, <1>3 DEF Latest, Collapse, Written
  <2>0. MaxTime \in Nat
    BY ObservationConstants, Zenon
  <2>2. pit \in Nat
    BY <2>0
  <2>3. PICK l \in Written' :
              /\ l[2] <= pit /\ k[1] <= l[1]
              /\ \A m \in Written' : m[2] <= pit => m[1] <= l[1]
              /\ \A m \in Written' : m[1] = l[1] /\ m[2] <= pit => m[2] <= l[2]
    BY <2>1, <2>2, GreatestKey
  <2>4. l \in Collapse(pit)'
    BY <2>3 DEF Collapse
  <2>5. \A m \in Collapse(pit)' : m[1] <= l[1]
    BY <2>3 DEF Collapse
  <2>6. l[1] >= k[1]
    BY <2>3, <2>1, <1>3 DEF Keys
  <2> QED BY <2>4, <2>5, <2>6 DEF Latest
<1> QED BY <1>2, <1>3

(* For any commands: a replay at a point in time changes only when an      *)
(* observation known at that time is committed, and `latest` never moves   *)
(* to an older ts.                                                         *)
THEOREM ReplaysStay == Spec => ReplayIsStable
<1>1. TypeOK /\ [Next]_vars =>
        [\A pit \in 1..MaxTime :
           /\ \/ \E k \in Written' \ Written : k[2] <= pit
              \/ \A start, limit \in 1..MaxTime :
                    RangeOf(start, MaxTime + 1, pit, limit)'
                      = RangeOf(start, MaxTime + 1, pit, limit)
           /\ \A k \in Latest(pit) : \E l \in Latest(pit)' : l[1] >= k[1]]_vars
  BY ReplayStep
<1> QED BY <1>1, TypeCorrect, PTL DEF Spec, ReplayIsStable

=============================================================================
