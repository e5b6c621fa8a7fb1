-------------------------- MODULE IngestionProofs ---------------------------
(***************************************************************************)
(* Proofs about Ingestion: types, what a run's status says about its data, *)
(* the counters of closed runs, and that the audit trail tells the cursor. *)
(***************************************************************************)
EXTENDS Ingestion, TLAPS

PCs == {"new", "body", "set", "commit", "succeeded", "failed", "done"}
Conns == {"open", "aborted", "closed"}
Statuses == {"none", "running", "succeeded", "failed"}

ClosedTypes == /\ status \in [Runs -> Statuses]
               /\ final \in [Runs -> [rows : Nat, incs : Nat, metas : Nat]]
DbTypes == cursor \in Cursors /\ trail \in Seq(Entries) /\ saved \subseteq Runs
PcTypes == pc \in [Runs -> PCs]
RunTypes == /\ conn \in [Runs -> Conns] /\ rows \in [Runs -> Nat]
            /\ metas \in [Runs -> Nat] /\ incs \in [Runs -> Nat]
SessTypes == /\ mine \in [Runs -> Cursors] /\ notes \in [Runs -> Seq(Entries)]
             /\ seen \in [Runs -> Cursors]
             /\ want \in [Runs -> [to : Cursors, found : Cursors]]
FaultTypes == lost \subseteq Runs /\ faults \in Nat

Types == ClosedTypes /\ DbTypes /\ PcTypes /\ RunTypes /\ SessTypes /\ FaultTypes

LEMMA TypesAreTypeOK == Types <=> TypeOK
  BY DEF Types, TypeOK, ClosedTypes, DbTypes, PcTypes, RunTypes, SessTypes,
         FaultTypes, PCs, Conns, Statuses

-----------------------------------------------------------------------------
LEMMA GotoTypes ==
    ASSUME Types, NEW r \in Runs, NEW l \in PCs, Goto(r, l) PROVE PcTypes'
  BY DEF Types, PcTypes, Goto

LEMMA FaultsTypes ==
    ASSUME Types, NEW r \in Runs, Fault(r) \/ StatementFault \/ NoFault PROVE FaultTypes'
  BY DEF Types, FaultTypes, Fault, StatementFault, NoFault

LEMMA NoSetType == NoSet \in [to : Cursors, found : Cursors]
  BY IngestionConstants DEF NoSet, Cursors

LEMMA DiscardTypes ==
    ASSUME Types, NEW r \in Runs, Discard(r) PROVE SessTypes'
  BY IngestionConstants DEF Types, SessTypes, Discard, NoSet, Cursors

LEMMA ReleaseTypes ==
    ASSUME Types, NEW r \in Runs, Release(r) PROVE RunTypes'
  BY DEF Types, RunTypes, Release, Conns

LEMMA SeesType == ASSUME Types, NEW r \in Runs PROVE Sees(r) \in Cursors
  BY DEF Types, DbTypes, SessTypes, Sees

LEMMA NoteTypes ==
    ASSUME Types, NEW r \in Runs, NEW op \in Ops, NEW b \in Cursors,
           NEW a \in Cursors, Note(r, op, b, a)
    PROVE  notes' \in [Runs -> Seq(Entries)]
  <1>1. Entry(r, op, b, a) \in Entries
    BY DEF Entry, Entries
  <1>2. notes[r] \in Seq(Entries)
    BY DEF Types, SessTypes
  <1>3. Append(notes[r], Entry(r, op, b, a)) \in Seq(Entries)
    BY <1>1, <1>2
  <1> QED BY <1>3 DEF Types, SessTypes, Note

LEMMA DurableTypes ==
    ASSUME Types, NEW r \in Runs, Durable(r) PROVE DbTypes' /\ SessTypes'
  <1>1. trail \in Seq(Entries) /\ notes[r] \in Seq(Entries)
    BY DEF Types, DbTypes, SessTypes
  <1>2. trail \o notes[r] \in Seq(Entries)
    BY <1>1
  <1> QED BY <1>2, SeesType, DiscardTypes DEF Durable, Types, DbTypes

-----------------------------------------------------------------------------
(* Every variable keeps to its set.                                        *)
LEMMA TypesInit == Init => Types
  BY IngestionConstants DEF Init, Types, ClosedTypes, DbTypes, PcTypes, RunTypes,
     SessTypes, FaultTypes, PCs, Conns, Statuses, Cursors, Nothing, NoSet

LEMMA TypesStep == Types /\ [Next]_vars => Types'
  <1> SUFFICES ASSUME Types, [Next]_vars PROVE Types'
    OBVIOUS
  <1>s. CASE UNCHANGED vars
    BY <1>s DEF Types, vars, closed, dbVars, runVars, sessVars, ClosedTypes, DbTypes,
       PcTypes, RunTypes, SessTypes, FaultTypes
  <1>n. CASE Next
    <2> PICK r \in Runs : WayOut(r) \/ Work(r) \/ Trouble(r)
      BY <1>n DEF Next
    <2> USE DEF closed, dbVars, runVars, sessVars
    <2>1. CASE Open(r) \/ OpenLost(r) \/ OpenRefused(r)
      <3>1. ClosedTypes' /\ RunTypes'
        BY <2>1 DEF Open, OpenLost, OpenRefused, Types, ClosedTypes, RunTypes, Statuses,
           Conns
      <3>2. PcTypes' /\ FaultTypes'
        BY <2>1, GotoTypes, FaultsTypes DEF Open, OpenLost, OpenRefused, PCs
      <3> QED BY <2>1, <3>1, <3>2 DEF Open, OpenLost, OpenRefused, Types, DbTypes,
                 SessTypes
    <2>2. CASE IncrementRows(r) \/ IncrementRowsFails(r) \/ SetMetadata(r)
      <3>1. RunTypes'
        BY <2>2 DEF IncrementRows, IncrementRowsFails, SetMetadata, Types, RunTypes,
           Conns
      <3>2. PcTypes' /\ FaultTypes'
        BY <2>2, GotoTypes, FaultsTypes DEF IncrementRows, IncrementRowsFails,
           SetMetadata, PCs, Types, PcTypes
      <3>3. SessTypes'
        BY <2>2, DiscardTypes DEF IncrementRows, IncrementRowsFails, SetMetadata, Types,
           SessTypes
      <3> QED BY <2>2, <3>1, <3>2, <3>3 DEF IncrementRows, IncrementRowsFails,
                 SetMetadata, Types, ClosedTypes, DbTypes
    <2>3. CASE Get(r)
      BY <2>3, SeesType, FaultsTypes DEF Get, Types, ClosedTypes, DbTypes, PcTypes,
         RunTypes, SessTypes
    <2>4. ASSUME NEW v \in 1..MaxCursor, Advance(r, v) PROVE Types'
      <3>1. v \in Cursors /\ seen[r] \in Cursors /\ "advance" \in Ops
        BY IngestionConstants DEF Cursors, Types, SessTypes, Ops
      <3>2. SessTypes'
        BY <2>4, <3>1, NoteTypes DEF Advance, Types, SessTypes
      <3> QED BY <2>4, <3>2, FaultsTypes DEF Advance, Types, ClosedTypes, DbTypes,
                 PcTypes, RunTypes
    <2>5. ASSUME NEW v \in Repairs, SetHit(r, v) \/ SetRead(r, v) PROVE Types'
      <3>1. v \in Cursors /\ "idempotent_hit" \in Ops
        BY IngestionConstants DEF Cursors, Ops
      <3>2. CASE SetHit(r, v)
        BY <3>2, <3>1, NoteTypes, FaultsTypes DEF SetHit, Types, SessTypes, ClosedTypes,
           DbTypes, PcTypes, RunTypes
      <3>3. CASE SetRead(r, v)
        <4>1. [to |-> v, found |-> Sees(r)] \in [to : Cursors, found : Cursors]
          BY <3>1, SeesType
        <4>2. SessTypes'
          BY <3>3, <4>1 DEF SetRead, Types, SessTypes
        <4> QED BY <3>3, <4>2, GotoTypes, FaultsTypes DEF SetRead, PCs, Types,
                   ClosedTypes, DbTypes, RunTypes
      <3> QED BY <2>5, <3>2, <3>3
    <2>6. CASE SetWrite(r)
      <3>1. want[r].to \in Cursors /\ want[r].found \in Cursors
        BY DEF Types, SessTypes
      <3>2. (IF want[r].found = 0 THEN "set" ELSE "force_set") \in Ops
        BY DEF Ops
      <3>3. notes' \in [Runs -> Seq(Entries)]
        BY <2>6, <3>1, <3>2, NoteTypes DEF SetWrite
      <3>4. SessTypes'
        BY <2>6, <3>1, <3>3, NoSetType DEF SetWrite, Types, SessTypes
      <3>5. PcTypes' /\ FaultTypes'
        BY <2>6, GotoTypes, FaultsTypes DEF SetWrite, PCs
      <3> QED BY <2>6, <3>4, <3>5 DEF SetWrite, Types, ClosedTypes, DbTypes, RunTypes
    <2>7. CASE BodyRaises(r) \/ BodyReturns(r)
      BY <2>7, GotoTypes, FaultsTypes, DiscardTypes DEF BodyRaises, BodyReturns, PCs,
         Types, ClosedTypes, DbTypes, RunTypes, SessTypes
    <2>8. CASE CommitSession(r) \/ CommitFails(r)
      <3>1. DbTypes' /\ SessTypes'
        BY <2>8, DurableTypes, DiscardTypes DEF CommitSession, CommitFails, Types,
           DbTypes
      <3>2. PcTypes' /\ FaultTypes'
        BY <2>8, GotoTypes, FaultsTypes DEF CommitSession, CommitFails, PCs
      <3> QED BY <2>8, <3>1, <3>2 DEF CommitSession, CommitFails, Types, ClosedTypes,
                 RunTypes
    <2>9. CASE Close(r)
      <3>1. ClosedTypes'
        BY <2>9 DEF Close, Types, ClosedTypes, RunTypes, Statuses
      <3> QED BY <2>9, <3>1, ReleaseTypes, GotoTypes, FaultsTypes DEF Close, PCs,
                 Types, DbTypes, SessTypes
    <2>10. CASE CloseFails(r) \/ Crash(r)
      BY <2>10, ReleaseTypes, GotoTypes, FaultsTypes, DiscardTypes DEF CloseFails, Crash,
         PCs, Types, ClosedTypes, DbTypes, SessTypes
    <2> QED BY <2>1, <2>2, <2>3, <2>4, <2>5, <2>6, <2>7, <2>8, <2>9, <2>10
            DEF WayOut, Work, Trouble
  <1> QED BY <1>s, <1>n

(* TypeOK, the type invariant of the ingestion jobs, holds for any number of runs.  *)
THEOREM TypeCorrect == Spec => []TypeOK
  <1>1. Init => Types BY TypesInit
  <1>2. Types /\ [Next]_vars => Types' BY TypesStep
  <1>3. Types <=> TypeOK BY TypesAreTypeOK
  <1> QED BY <1>1, <1>2, <1>3, PTL DEF Spec

-----------------------------------------------------------------------------
(* rows and the audits of increment_rows move together as long as the      *)
(* connection can still commit; a run that is not open has neither.        *)
CounterInv ==
    \A r \in Runs :
        /\ final[r].rows = final[r].incs
        /\ status[r] \in {"none", "running"} => final[r] = Nothing
        /\ conn[r] = "open" => rows[r] = incs[r]
        /\ pc[r] = "new" => rows[r] = incs[r] /\ status[r] = "none"

LEMMA CounterInit == Init => CounterInv
  BY DEF Init, CounterInv, Nothing

LEMMA CounterStep == Types /\ CounterInv /\ [Next]_vars => CounterInv'
  <1> SUFFICES ASSUME Types, CounterInv, [Next]_vars PROVE CounterInv'
    OBVIOUS
  <1> USE DEF closed, dbVars, runVars, sessVars
  <1>s. CASE UNCHANGED vars
    BY <1>s DEF CounterInv, vars
  <1>n. CASE Next
    <2> PICK r \in Runs : WayOut(r) \/ Work(r) \/ Trouble(r)
      BY <1>n DEF Next
    <2> USE DEF CounterInv, Types, ClosedTypes, RunTypes, PcTypes, Goto
    <2>1. CASE Open(r) \/ OpenLost(r) \/ OpenRefused(r)
      BY <2>1 DEF Open, OpenLost, OpenRefused
    <2>2. CASE IncrementRows(r)
      BY <2>2 DEF IncrementRows
    <2>3. CASE IncrementRowsFails(r)
      BY <2>3 DEF IncrementRowsFails
    <2>4. CASE SetMetadata(r) \/ Get(r) \/ SetWrite(r) \/ BodyRaises(r) \/ BodyReturns(r)
      BY <2>4 DEF SetMetadata, Get, SetWrite, BodyRaises, BodyReturns
    <2>5. ASSUME NEW v, Advance(r, v) \/ SetHit(r, v) \/ SetRead(r, v) PROVE CounterInv'
      BY <2>5 DEF Advance, SetHit, SetRead
    <2>6. CASE CommitSession(r) \/ CommitFails(r)
      BY <2>6 DEF CommitSession, CommitFails
    <2>7. CASE Close(r)
      BY <2>7 DEF Close, Release
    <2>8. CASE CloseFails(r) \/ Crash(r)
      BY <2>8 DEF CloseFails, Crash, Release
    <2> QED BY <2>1, <2>2, <2>3, <2>4, <2>5, <2>6, <2>7, <2>8
            DEF WayOut, Work, Trouble
  <1> QED BY <1>s, <1>n

(* CountersMatchAudits: rows_written of every closed run is the number of  *)
(* its increment_rows audits (run.py:29-30), whatever fails on the way.    *)
THEOREM ClosedCountersAreAudited == Spec => []CountersMatchAudits
  <1>1. Init => Types /\ CounterInv BY TypesInit, CounterInit
  <1>2. (Types /\ CounterInv) /\ [Next]_vars => (Types /\ CounterInv)'
    BY TypesStep, CounterStep
  <1>3. CounterInv => CountersMatchAudits BY DEF CounterInv, CountersMatchAudits
  <1> QED BY <1>1, <1>2, <1>3, PTL DEF Spec

-----------------------------------------------------------------------------
(* A session commits at most once, while its job is at "commit"; a job     *)
(* that closes as failed, or cannot close because the transaction of its   *)
(* connection is aborted, has not committed unless something was lost.     *)
OutcomeInv ==
    \A r \in Runs :
        /\ pc[r] = "succeeded" => r \in saved
        /\ pc[r] \in {"new", "body", "set", "commit"} => r \notin saved
        /\ pc[r] = "failed" /\ r \notin lost => r \notin saved
        /\ pc[r] = "new" => status[r] = "none"
        /\ status[r] \in {"succeeded", "failed"} => pc[r] = "done"
        /\ status[r] = "succeeded" => r \in saved
        /\ status[r] = "failed" /\ r \notin lost => r \notin saved
        /\ conn[r] = "aborted" => pc[r] = "failed"
        /\ pc[r] = "done" /\ status[r] = "running" /\ r \notin lost => r \notin saved

\* A session's audits name its own run, and only committed sessions have any.
OwnNotes == \A r \in Runs : \A i \in 1..Len(notes[r]) : notes[r][i].run = r
OwnTrail == \A i \in 1..Len(trail) : trail[i].run \in saved

LEMMA OutcomeInit == Init => OutcomeInv /\ OwnNotes /\ OwnTrail
  BY DEF Init, OutcomeInv, OwnNotes, OwnTrail

LEMMA OutcomeStep == Types /\ OutcomeInv /\ [Next]_vars => OutcomeInv'
  <1> SUFFICES ASSUME Types, OutcomeInv, [Next]_vars PROVE OutcomeInv'
    OBVIOUS
  <1> USE DEF closed, dbVars, runVars, sessVars
  <1>s. CASE UNCHANGED vars
    BY <1>s DEF OutcomeInv, vars
  <1>n. CASE Next
    <2> PICK r \in Runs : WayOut(r) \/ Work(r) \/ Trouble(r)
      BY <1>n DEF Next
    <2> USE DEF OutcomeInv, Types, ClosedTypes, PcTypes, RunTypes, Release, Goto, Fault,
                StatementFault, NoFault
    <2>1. CASE Open(r) \/ OpenLost(r) \/ OpenRefused(r)
      BY <2>1 DEF Open, OpenLost, OpenRefused
    <2>2. CASE IncrementRows(r) \/ IncrementRowsFails(r) \/ SetMetadata(r) \/ Get(r)
      BY <2>2 DEF IncrementRows, IncrementRowsFails, SetMetadata, Get
    <2>3. CASE SetWrite(r) \/ BodyRaises(r) \/ BodyReturns(r)
      BY <2>3 DEF SetWrite, BodyRaises, BodyReturns
    <2>4. ASSUME NEW v, Advance(r, v) \/ SetHit(r, v) \/ SetRead(r, v) PROVE OutcomeInv'
      BY <2>4 DEF Advance, SetHit, SetRead
    <2>5. CASE CommitSession(r)
      BY <2>5 DEF CommitSession, Durable
    <2>6. CASE CommitFails(r)
      BY <2>6 DEF CommitFails, Durable
    <2>7. CASE Close(r)
      BY <2>7 DEF Close
    <2>8. CASE CloseFails(r) \/ Crash(r)
      BY <2>8 DEF CloseFails, Crash
    <2> QED BY <2>1, <2>2, <2>3, <2>4, <2>5, <2>6, <2>7, <2>8
            DEF WayOut, Work, Trouble
  <1> QED BY <1>s, <1>n

LEMMA OwnNotesStep == Types /\ OwnNotes /\ [Next]_vars => OwnNotes'
  <1> SUFFICES ASSUME Types, OwnNotes, [Next]_vars PROVE OwnNotes'
    OBVIOUS
  <1> USE DEF closed, dbVars, runVars, sessVars
  <1>a. ASSUME NEW r \in Runs, Discard(r) PROVE OwnNotes'
    BY <1>a DEF Discard, OwnNotes, Types, SessTypes
  <1>b. ASSUME NEW r \in Runs, NEW op, NEW b, NEW a, Note(r, op, b, a) PROVE OwnNotes'
    <2>1. notes[r] \in Seq(Entries)
      BY DEF Types, SessTypes
    <2>2. notes'[r] = Append(notes[r], Entry(r, op, b, a))
      BY <1>b DEF Note, Types, SessTypes
    <2>3. \A q \in Runs \ {r} : notes'[q] = notes[q]
      BY <1>b DEF Note, Types, SessTypes
    <2>4. Entry(r, op, b, a).run = r
      BY DEF Entry
    <2>5. \A i \in 1..Len(notes'[r]) : notes'[r][i].run = r
      BY <2>1, <2>2, <2>4 DEF OwnNotes
    <2> QED BY <2>3, <2>5 DEF OwnNotes
  <1>s. CASE UNCHANGED notes
    BY <1>s DEF OwnNotes
  <1>n. CASE Next
    <2> PICK r \in Runs : WayOut(r) \/ Work(r) \/ Trouble(r)
      BY <1>n DEF Next
    <2>1. CASE Open(r) \/ OpenLost(r) \/ OpenRefused(r) \/ IncrementRows(r)
               \/ SetMetadata(r) \/ Get(r) \/ BodyReturns(r) \/ Close(r) \/ CloseFails(r)
      BY <2>1, <1>s DEF Open, OpenLost, OpenRefused, IncrementRows, SetMetadata, Get,
         BodyReturns, Close, CloseFails
    <2>2. CASE IncrementRowsFails(r) \/ BodyRaises(r) \/ Crash(r) \/ CommitSession(r)
               \/ CommitFails(r)
      BY <2>2, <1>a DEF IncrementRowsFails, BodyRaises, Crash, CommitSession, CommitFails,
         Durable
    <2>3. ASSUME NEW v, Advance(r, v) PROVE OwnNotes'
      BY <2>3, <1>b DEF Advance
    <2>4. ASSUME NEW v, SetHit(r, v) \/ SetRead(r, v) PROVE OwnNotes'
      BY <2>4, <1>b, <1>s DEF SetHit, SetRead
    <2>5. CASE SetWrite(r)
      BY <2>5, <1>b DEF SetWrite
    <2> QED BY <2>1, <2>2, <2>3, <2>4, <2>5 DEF WayOut, Work, Trouble
  <1> QED BY <1>s, <1>n DEF vars

LEMMA OwnTrailStep == Types /\ OwnNotes /\ OwnTrail /\ [Next]_vars => OwnTrail'
  <1> SUFFICES ASSUME Types, OwnNotes, OwnTrail, [Next]_vars PROVE OwnTrail'
    OBVIOUS
  <1> USE DEF closed, dbVars, runVars, sessVars
  <1>a. ASSUME NEW r \in Runs, Durable(r) PROVE OwnTrail'
    <2>1. trail \in Seq(Entries) /\ notes[r] \in Seq(Entries)
      BY DEF Types, DbTypes, SessTypes
    <2>2. trail' = trail \o notes[r] /\ saved' = saved \cup {r}
      BY <1>a DEF Durable
    <2> SUFFICES ASSUME NEW i \in 1..Len(trail') PROVE trail'[i].run \in saved'
      BY DEF OwnTrail
    <2>3. CASE i <= Len(trail)
      <3>1. trail'[i] = trail[i] /\ i \in 1..Len(trail)
        BY <2>1, <2>2, <2>3
      <3> QED BY <3>1, <2>2 DEF OwnTrail
    <2>4. CASE ~(i <= Len(trail))
      <3>1. i - Len(trail) \in 1..Len(notes[r]) /\ trail'[i] = notes[r][i - Len(trail)]
        BY <2>1, <2>2, <2>4
      <3> QED BY <3>1, <2>2 DEF OwnNotes
    <2> QED BY <2>3, <2>4
  <1>s. CASE UNCHANGED <<trail, saved>>
    BY <1>s DEF OwnTrail
  <1>n. CASE Next
    <2> PICK r \in Runs : WayOut(r) \/ Work(r) \/ Trouble(r)
      BY <1>n DEF Next
    <2>1. CASE CommitSession(r) \/ CommitFails(r)
      BY <2>1, <1>a, <1>s DEF CommitSession, CommitFails
    <2>2. CASE WayOut(r) /\ ~CommitSession(r)
      BY <2>2, <1>s DEF WayOut, SetWrite, BodyReturns, Close, CloseFails
    <2>3. CASE Work(r)
      BY <2>3, <1>s DEF Work, Open, OpenRefused, IncrementRows, SetMetadata, Get, Advance,
         SetHit, SetRead, BodyRaises
    <2>4. CASE Trouble(r) /\ ~CommitFails(r)
      BY <2>4, <1>s DEF Trouble, OpenLost, IncrementRowsFails, Crash
    <2> QED BY <2>1, <2>2, <2>3, <2>4
  <1> QED BY <1>s, <1>n DEF vars

(* StatusMatchesData: a 'succeeded' run has committed its session, and one *)
(* that is 'failed' or left 'running' left neither data nor watermark      *)
(* audits, unless its process or a connection was lost (run.py:213-219     *)
(* around session.py:20-28).                                               *)
THEOREM StatusIsTruthful == Spec => []StatusMatchesData
  <1> DEFINE Inv == Types /\ OutcomeInv /\ OwnNotes /\ OwnTrail
  <1>1. Init => Inv BY TypesInit, OutcomeInit
  <1>2. Inv /\ [Next]_vars => Inv'
    BY TypesStep, OutcomeStep, OwnNotesStep, OwnTrailStep
  <1>3. Inv => StatusMatchesData
    BY DEF OutcomeInv, OwnTrail, StatusMatchesData, LeftNothing
  <1> QED BY <1>1, <1>2, <1>3, PTL DEF Spec


-----------------------------------------------------------------------------
(* The audit trail as a history of the cursor.  Moved: the last move among *)
(* the first i audits of s was to v.  Still: there was none.               *)
Hit(e) == e.op = "idempotent_hit"

Moved(s, i, v) ==
    \E j \in 1..i : ~Hit(s[j]) /\ s[j].after = v /\ \A k \in j+1..i : Hit(s[k])

Still(s, i) == \A j \in 1..i : Hit(s[j])

\* The cursor was v after the first i audits of the trail.
At(s, i, v) == Moved(s, i, v) \/ (Still(s, i) /\ v = 0)

Was(v) == \E j \in 0..Len(trail) : At(trail, j, v)

LEMMA Appending ==
    ASSUME NEW s \in Seq(Entries), NEW e, NEW t, t = Append(s, e)
    PROVE  /\ \A i \in 0..Len(s) : \A v : Moved(t, i, v) <=> Moved(s, i, v)
           /\ \A i \in 0..Len(s) : Still(t, i) <=> Still(s, i)
           /\ ~Hit(e) => Moved(t, Len(s) + 1, e.after)
           /\ Hit(e) => \A v : Moved(s, Len(s), v) => Moved(t, Len(s) + 1, v)
           /\ Hit(e) /\ Still(s, Len(s)) => Still(t, Len(s) + 1)
<1>1. Len(s) \in Nat /\ Len(t) = Len(s) + 1
  OBVIOUS
<1>2. /\ \A i \in 1..Len(s) : t[i] = s[i]
      /\ t[Len(s) + 1] = e
  OBVIOUS
<1>3. \A i \in 0..Len(s) : \A v : Moved(t, i, v) <=> Moved(s, i, v)
  <2> SUFFICES ASSUME NEW i \in 0..Len(s), NEW v PROVE Moved(t, i, v) <=> Moved(s, i, v)
    OBVIOUS
  <2>1. \A j \in 1..i : t[j] = s[j] /\ \A k \in j+1..i : t[k] = s[k]
    BY <1>1, <1>2
  <2> QED BY <2>1 DEF Moved
<1>4. \A i \in 0..Len(s) : Still(t, i) <=> Still(s, i)
  BY <1>1, <1>2 DEF Still
<1>5. ~Hit(e) => Moved(t, Len(s) + 1, e.after)
  BY <1>1, <1>2 DEF Moved
<1>6. ASSUME Hit(e), NEW v, Moved(s, Len(s), v) PROVE Moved(t, Len(s) + 1, v)
  <2>1. PICK j \in 1..Len(s) : ~Hit(s[j]) /\ s[j].after = v /\ \A k \in j+1..Len(s) : Hit(s[k])
    BY <1>6 DEF Moved
  <2>2. \A k \in j+1..Len(s)+1 : Hit(t[k])
    <3> TAKE k \in j+1..Len(s)+1
    <3>1. k = Len(s) + 1 \/ k \in j+1..Len(s)
      BY <1>1
    <3> QED BY <1>1, <1>2, <1>6, <2>1, <3>1
  <2>3. j \in 1..Len(s)+1 /\ t[j] = s[j]
    BY <1>1, <1>2
  <2> QED BY <2>1, <2>2, <2>3 DEF Moved
<1>7. ASSUME Hit(e), Still(s, Len(s)) PROVE Still(t, Len(s) + 1)
  <2> SUFFICES ASSUME NEW j \in 1..Len(s)+1 PROVE Hit(t[j])
    BY DEF Still
  <2>1. j = Len(s) + 1 \/ j \in 1..Len(s)
    BY <1>1
  <2> QED BY <1>2, <1>7, <2>1 DEF Still
<1> QED BY <1>3, <1>4, <1>5, <1>6, <1>7

LEMMA Joining ==
    ASSUME NEW s \in Seq(Entries), NEW u \in Seq(Entries), NEW t, t = s \o u
    PROVE  /\ \A i \in 0..Len(s) : \A v : At(t, i, v) <=> At(s, i, v)
           /\ \A k \in 0..Len(u) : \A v : Moved(u, k, v) => At(t, Len(s) + k, v)
           /\ \A k \in 0..Len(u) : \A v : Still(u, k) /\ At(s, Len(s), v) => At(t, Len(s) + k, v)
<1>1. Len(s) \in Nat /\ Len(u) \in Nat /\ Len(t) = Len(s) + Len(u)
  OBVIOUS
<1>2. /\ \A i \in 1..Len(s) : t[i] = s[i]
      /\ \A i \in 1..Len(u) : t[Len(s) + i] = u[i]
  OBVIOUS
<1>3. \A i \in 0..Len(s) : \A v : At(t, i, v) <=> At(s, i, v)
  <2> SUFFICES ASSUME NEW i \in 0..Len(s), NEW v PROVE At(t, i, v) <=> At(s, i, v)
    OBVIOUS
  <2>1. \A j \in 1..i : t[j] = s[j] /\ \A k \in j+1..i : t[k] = s[k]
    BY <1>1, <1>2
  <2> QED BY <2>1 DEF At, Moved, Still
<1>4. ASSUME NEW k \in 0..Len(u), NEW v, Moved(u, k, v) PROVE At(t, Len(s) + k, v)
  <2>1. PICK j \in 1..k : ~Hit(u[j]) /\ u[j].after = v /\ \A m \in j+1..k : Hit(u[m])
    BY <1>4 DEF Moved
  <2> DEFINE n == Len(s) + j
  <2>2. n \in 1..Len(s)+k /\ t[n] = u[j]
    BY <1>1, <1>2
  <2>3. \A m \in n+1..Len(s)+k : Hit(t[m])
    <3> TAKE m \in n+1..Len(s)+k
    <3>1. m - Len(s) \in j+1..k /\ m - Len(s) \in 1..Len(u) /\ m = Len(s) + (m - Len(s))
      BY <1>1
    <3>2. t[m] = u[m - Len(s)]
      BY <1>2, <3>1
    <3> QED BY <2>1, <3>1, <3>2
  <2> HIDE DEF n
  <2> QED BY <2>1, <2>2, <2>3 DEF At, Moved
<1>5. ASSUME NEW k \in 0..Len(u), NEW v, Still(u, k), At(s, Len(s), v)
      PROVE  At(t, Len(s) + k, v)
  <2>1. \A m \in Len(s)+1..Len(s)+k : Hit(t[m])
    <3> TAKE m \in Len(s)+1..Len(s)+k
    <3>1. m - Len(s) \in 1..k /\ m - Len(s) \in 1..Len(u) /\ m = Len(s) + (m - Len(s))
      BY <1>1
    <3>2. t[m] = u[m - Len(s)]
      BY <1>2, <3>1
    <3> QED BY <1>5, <3>1, <3>2 DEF Still
  <2>2. CASE Moved(s, Len(s), v)
    <3>1. PICK j \in 1..Len(s) : ~Hit(s[j]) /\ s[j].after = v /\ \A m \in j+1..Len(s) : Hit(s[m])
      BY <2>2 DEF Moved
    <3>2. \A m \in j+1..Len(s)+k : Hit(t[m])
      <4> TAKE m \in j+1..Len(s)+k
      <4>1. m \in j+1..Len(s) \/ m \in Len(s)+1..Len(s)+k
        BY <1>1
      <4> QED BY <1>1, <1>2, <2>1, <3>1, <4>1
    <3>3. j \in 1..Len(s)+k /\ t[j] = s[j]
      BY <1>1, <1>2
    <3> QED BY <3>1, <3>2, <3>3 DEF At, Moved
  <2>3. CASE Still(s, Len(s)) /\ v = 0
    <3>1. \A m \in 1..Len(s)+k : Hit(t[m])
      <4> TAKE m \in 1..Len(s)+k
      <4>1. m \in 1..Len(s) \/ m \in Len(s)+1..Len(s)+k
        BY <1>1
      <4> QED BY <1>2, <2>1, <2>3, <4>1 DEF Still
    <3> QED BY <2>3, <3>1 DEF At, Still
  <2> QED BY <1>5, <2>2, <2>3 DEF At
<1> QED BY <1>3, <1>4, <1>5

LEMMA CursorAfterIs ==
    ASSUME NEW i \in Nat, NEW v, At(trail, i, v) PROVE CursorAfter(i) = v
<1>1. Moves(i) = {j \in 1..i : ~Hit(trail[j])}
  BY DEF Moves, Hit
<1>2. CASE Still(trail, i) /\ v = 0
  BY <1>1, <1>2 DEF CursorAfter, Still
<1>3. CASE Moved(trail, i, v)
  <2>1. PICK j \in 1..i : ~Hit(trail[j]) /\ trail[j].after = v /\ \A k \in j+1..i : Hit(trail[k])
    BY <1>3 DEF Moved
  <2>2. j \in Moves(i) /\ \A k \in Moves(i) : k <= j
    BY <1>1, <2>1
  <2>3. \A m \in Moves(i) : (\A k \in Moves(i) : k <= m) => m = j
    BY <1>1, <2>2
  <2>4. (CHOOSE m \in Moves(i) : \A k \in Moves(i) : k <= m) = j
    BY <2>2, <2>3
  <2> QED BY <2>1, <2>2, <2>4 DEF CursorAfter
<1> QED BY <1>2, <1>3 DEF At

-----------------------------------------------------------------------------
(* What the uncommitted audits of a session tell, on top of the trail: its *)
(* advances replaced its own last move or the committed cursor, which the  *)
(* row lock keeps as it is; its set() calls found a cursor of some time.   *)
Known(r, i, v) == (\E j \in 0..i : Moved(notes[r], j, v)) \/ Was(v)

NotesTell(r) ==
    /\ mine[r] = 0 => Still(notes[r], Len(notes[r]))
    /\ mine[r] # 0 => Moved(notes[r], Len(notes[r]), mine[r])
    /\ \A i \in 1..Len(notes[r]) :
          IF notes[r][i].op = "advance"
          THEN \/ Moved(notes[r], i - 1, notes[r][i].before)
               \/ Still(notes[r], i - 1) /\ notes[r][i].before = cursor
          ELSE Known(r, i - 1, notes[r][i].before)

SetTells(r) == pc[r] = "set" => want[r].to # 0 /\ Known(r, Len(notes[r]), want[r].found)

OneWriter == \A r, q \in Runs : mine[r] # 0 /\ mine[q] # 0 => r = q

TrailTells ==
    /\ At(trail, Len(trail), cursor)
    /\ \A i \in 1..Len(trail) :
         IF trail[i].op = "advance"
         THEN At(trail, i - 1, trail[i].before)
         ELSE \E j \in 0..(i - 1) : At(trail, j, trail[i].before)

TrailInv ==
    /\ OneWriter /\ TrailTells
    /\ \A r \in Runs : NotesTell(r) /\ SetTells(r)

LEMMA SessionTypes ==
    ASSUME Types
    PROVE  /\ trail \in Seq(Entries) /\ mine \in [Runs -> Cursors]
           /\ notes \in [Runs -> Seq(Entries)] /\ pc \in [Runs -> PCs]
           /\ want \in [Runs -> [to : Cursors, found : Cursors]]
           /\ seen \in [Runs -> Cursors]
           /\ \A r \in Runs : Len(notes[r]) \in Nat
  BY DEF Types, DbTypes, SessTypes, PcTypes

(* A run whose session did not move stays told, as long as the cursor      *)
(* stays or the run does not hold the lock, and the trail grows.           *)
LEMMA OthersTell ==
    ASSUME Types, TrailInv, NEW q \in Runs, mine'[q] = mine[q], notes'[q] = notes[q],
           want'[q] = want[q], pc'[q] = "set" => pc[q] = "set",
           cursor' = cursor \/ mine[q] = 0, \A v : Was(v) => Was(v)'
    PROVE  NotesTell(q)' /\ SetTells(q)'
<1>0. NotesTell(q) /\ SetTells(q) /\ Len(notes[q]) \in Nat
  BY SessionTypes DEF TrailInv
<1>1. \A i, v : Known(q, i, v) => Known(q, i, v)'
  BY DEF Known
<1>2. SetTells(q)'
  BY <1>0, <1>1 DEF SetTells
<1>3. \A i \in 1..Len(notes[q]) :
          IF notes[q][i].op = "advance"
          THEN \/ Moved(notes[q], i - 1, notes[q][i].before)
               \/ Still(notes[q], i - 1) /\ notes[q][i].before = cursor'
          ELSE Known(q, i - 1, notes[q][i].before)'
  <2> TAKE i \in 1..Len(notes[q])
  <2>1. CASE notes[q][i].op = "advance"
    <3>1. ~Hit(notes[q][i])
      BY <2>1 DEF Hit
    <3>2. mine[q] # 0
      BY <1>0, <3>1 DEF NotesTell, Still
    <3> QED BY <1>0, <2>1, <3>2 DEF NotesTell
  <2>2. CASE notes[q][i].op # "advance"
    BY <1>0, <1>1, <2>2 DEF NotesTell
  <2> QED BY <2>1, <2>2
<1> QED BY <1>0, <1>2, <1>3 DEF NotesTell

LEMMA WasKept == ASSUME trail' = trail PROVE \A v : Was(v) => Was(v)'
  BY DEF Was

(* Steps that leave the watermark and the sessions alone.                  *)
LEMMA TrailQuiet ==
    ASSUME Types, TrailInv, UNCHANGED <<cursor, trail, mine, notes, want>>,
           \A q \in Runs : pc'[q] = "set" => pc[q] = "set"
    PROVE  TrailInv'
<1>1. \A q \in Runs : NotesTell(q)' /\ SetTells(q)'
  BY OthersTell, WasKept
<1> QED BY <1>1 DEF TrailInv, OneWriter, TrailTells

(* A session that is rolled back tells nothing.                            *)
LEMMA TrailDiscard ==
    ASSUME Types, TrailInv, NEW r \in Runs, Discard(r), UNCHANGED <<cursor, trail>>,
           pc'[r] # "set", \A q \in Runs \ {r} : pc'[q] = pc[q]
    PROVE  TrailInv'
<1>1. /\ mine'[r] = 0 /\ notes'[r] = <<>>
      /\ \A q \in Runs \ {r} : mine'[q] = mine[q] /\ notes'[q] = notes[q] /\ want'[q] = want[q]
  BY SessionTypes DEF Discard
<1>2. \A q \in Runs \ {r} : NotesTell(q)' /\ SetTells(q)'
  BY <1>1, OthersTell, WasKept
<1>3. NotesTell(r)' /\ SetTells(r)'
  BY <1>1 DEF NotesTell, SetTells, Still
<1>4. OneWriter'
  BY <1>1 DEF TrailInv, OneWriter
<1> QED BY <1>2, <1>3, <1>4 DEF TrailInv, TrailTells

(* What a session sees is known.                                           *)
LEMMA SeenIsKnown ==
    ASSUME Types, TrailInv, NEW r \in Runs
    PROVE  /\ Known(r, Len(notes[r]), Sees(r))
           /\ \/ Moved(notes[r], Len(notes[r]), Sees(r))
              \/ Still(notes[r], Len(notes[r])) /\ Sees(r) = cursor
<1>1. Len(notes[r]) \in Nat /\ Len(trail) \in Nat
  BY SessionTypes
<1>2. Was(cursor)
  BY <1>1 DEF TrailInv, TrailTells, Was
<1> QED BY <1>1, <1>2 DEF TrailInv, NotesTell, Sees, Known

(* One more audit in a session.                                            *)
LEMMA TrailNote ==
    ASSUME Types, TrailInv, NEW r \in Runs, NEW op, NEW b, NEW a, Note(r, op, b, a),
           UNCHANGED <<cursor, trail>>, \A q \in Runs \ {r} : pc'[q] = pc[q], pc'[r] # "set",
           \A q \in Runs \ {r} : mine'[q] = mine[q] /\ want'[q] = want[q],
           IF op = "idempotent_hit" THEN mine'[r] = mine[r]
           ELSE mine'[r] = a /\ a # 0 /\ \A q \in Runs \ {r} : mine[q] = 0,
           IF op = "advance" THEN b = Sees(r) ELSE Known(r, Len(notes[r]), b)
    PROVE  TrailInv'
<1> DEFINE s == notes[r]
           n == Len(notes[r])
           e == Entry(r, op, b, a)
           t == Append(s, e)
<1>0. s \in Seq(Entries) /\ n \in Nat /\ NotesTell(r)
  BY SessionTypes DEF TrailInv
<1>1. notes'[r] = t /\ \A q \in Runs \ {r} : notes'[q] = notes[q]
  BY SessionTypes DEF Note
<1>2. e.op = op /\ e.before = b /\ e.after = a
  BY DEF Entry
<1> HIDE DEF e
<1>3. /\ \A i \in 0..n : \A v : Moved(t, i, v) <=> Moved(s, i, v)
      /\ \A i \in 0..n : Still(t, i) <=> Still(s, i)
      /\ ~Hit(e) => Moved(t, n + 1, e.after)
      /\ Hit(e) => \A v : Moved(s, n, v) => Moved(t, n + 1, v)
      /\ Hit(e) /\ Still(s, n) => Still(t, n + 1)
  <2> HIDE DEF s
  <2>1. n = Len(s)
    BY DEF s
  <2> QED BY <1>0, <2>1, Appending, Zenon
<1>4. Len(t) = n + 1 /\ t[n + 1] = e /\ \A i \in 1..n : t[i] = s[i]
  BY <1>0
<1>5. Hit(e) <=> op = "idempotent_hit"
  BY <1>2 DEF Hit
<1> DEFINE K(i, v) == (\E j \in 0..i : Moved(t, j, v)) \/ Was(v)
<1> HIDE DEF t
<1>6. \A i \in 0..n : \A v : Known(r, i, v) => K(i, v)
  <2> SUFFICES ASSUME NEW i \in 0..n, NEW v, Known(r, i, v) PROVE K(i, v)
    OBVIOUS
  <2>1. ASSUME NEW j \in 0..i, Moved(s, j, v) PROVE K(i, v)
    <3>1. j \in 0..n
      BY <1>0
    <3>2. Moved(t, j, v)
      BY <1>3, <2>1, <3>1
    <3> QED BY <3>2
  <2> QED BY <2>1 DEF Known
<1>7. /\ mine'[r] = 0 => Still(t, n + 1)
      /\ mine'[r] # 0 => Moved(t, n + 1, mine'[r])
  BY <1>0, <1>2, <1>3, <1>5 DEF NotesTell
<1>8. ASSUME NEW i \in 1..(n + 1)
      PROVE  IF t[i].op = "advance"
             THEN Moved(t, i - 1, t[i].before) \/ (Still(t, i - 1) /\ t[i].before = cursor)
             ELSE K(i - 1, t[i].before)
  <2> HIDE DEF K
  <2>1. CASE i = n + 1
    <3>1. i - 1 = n /\ t[i] = e
      BY <1>0, <1>4, <2>1
    <3>2. CASE op = "advance"
      <4>1. Moved(s, n, b) \/ (Still(s, n) /\ b = cursor)
        BY <3>2, SeenIsKnown
      <4>2. Moved(t, n, b) \/ (Still(t, n) /\ b = cursor)
        BY <1>0, <1>3, <4>1
      <4> QED BY <1>2, <3>1, <3>2, <4>2
    <3>3. CASE op # "advance"
      <4>1. K(n, b)
        BY <1>0, <1>6, <3>3
      <4> QED BY <1>2, <3>1, <3>3, <4>1
    <3> QED BY <3>2, <3>3
  <2>2. CASE i # n + 1
    <3>1. i \in 1..n /\ i - 1 \in 0..n /\ t[i] = s[i]
      BY <1>0, <1>4, <2>2
    <3>2. IF s[i].op = "advance"
          THEN Moved(s, i - 1, s[i].before) \/ (Still(s, i - 1) /\ s[i].before = cursor)
          ELSE Known(r, i - 1, s[i].before)
      BY <1>0, <3>1 DEF NotesTell
    <3>3. CASE s[i].op = "advance"
      BY <1>3, <3>1, <3>2, <3>3
    <3>4. CASE s[i].op # "advance"
      BY <1>6, <3>1, <3>2, <3>4
    <3> QED BY <3>3, <3>4
  <2> QED BY <2>1, <2>2
<1>9. NotesTell(r)' /\ SetTells(r)'
  <2>1. \A i, v : K(i, v) <=> (\E j \in 0..i : Moved(notes'[r], j, v))
                              \/ (\E j \in 0..Len(trail') : At(trail', j, v))
    BY <1>1 DEF Was
  <2> HIDE DEF K
  <2>2. NotesTell(r)'
    BY <1>1, <1>4, <1>7, <1>8, <2>1 DEF NotesTell, Known, Was
  <2> QED BY <2>2 DEF SetTells
<1>10. \A q \in Runs \ {r} : NotesTell(q)' /\ SetTells(q)'
  BY <1>1, OthersTell, WasKept
<1>11. OneWriter'
  BY DEF TrailInv, OneWriter
<1> QED BY <1>9, <1>10, <1>11 DEF TrailInv, TrailTells

(* A session commits: its audits join the trail, which goes on telling.    *)
LEMMA TrailDurable ==
    ASSUME Types, TrailInv, NEW r \in Runs, Durable(r),
           pc'[r] # "set", \A q \in Runs \ {r} : pc'[q] = pc[q]
    PROVE  TrailInv'
<1> DEFINE s == trail
           u == notes[r]
           t == trail \o notes[r]
           n == Len(trail)
<1>0. s \in Seq(Entries) /\ u \in Seq(Entries) /\ n \in Nat /\ Len(u) \in Nat
  BY SessionTypes
<1>1. /\ trail' = t /\ cursor' = Sees(r)
      /\ mine'[r] = 0 /\ notes'[r] = <<>>
      /\ \A q \in Runs \ {r} : mine'[q] = mine[q] /\ notes'[q] = notes[q] /\ want'[q] = want[q]
  BY SessionTypes DEF Durable, Discard
<1>2. /\ Len(t) = n + Len(u) /\ \A i \in 1..n : t[i] = s[i]
      /\ \A k \in 1..Len(u) : t[n + k] = u[k]
  BY <1>0
<1>3. /\ \A i \in 0..n : \A v : At(t, i, v) <=> At(s, i, v)
      /\ \A k \in 0..Len(u) : \A v : Moved(u, k, v) => At(t, n + k, v)
      /\ \A k \in 0..Len(u) : \A v : Still(u, k) /\ At(s, n, v) => At(t, n + k, v)
  BY <1>0, Joining
<1>4. At(s, n, cursor) /\ NotesTell(r)
  BY DEF TrailInv, TrailTells
<1> HIDE DEF t
<1>5. \A v : Was(v) => \E j \in 0..n : At(t, j, v)
  BY <1>3 DEF Was
<1>6. At(t, Len(t), cursor')
  <2>1. Len(u) \in 0..Len(u)
    BY <1>0
  <2> QED BY <1>1, <1>2, <1>3, <1>4, <2>1, SeenIsKnown
<1>7. ASSUME NEW i \in 1..Len(t)
      PROVE  IF t[i].op = "advance" THEN At(t, i - 1, t[i].before)
             ELSE \E j \in 0..(i - 1) : At(t, j, t[i].before)
  <2>1. CASE i <= n
    <3>1. i \in 1..n /\ t[i] = s[i] /\ i - 1 \in 0..n /\ \A j \in 0..(i - 1) : j \in 0..n
      BY <1>0, <1>2, <2>1
    <3>2. IF s[i].op = "advance" THEN At(s, i - 1, s[i].before)
          ELSE \E j \in 0..(i - 1) : At(s, j, s[i].before)
      BY <3>1 DEF TrailInv, TrailTells
    <3> QED BY <1>3, <3>1, <3>2
  <2>2. CASE ~(i <= n)
    <3> DEFINE k == i - n
    <3>1. k \in 1..Len(u) /\ i = n + k /\ k - 1 \in 0..Len(u) /\ i - 1 = n + (k - 1)
      BY <1>0, <1>2, <2>2
    <3>2. t[i] = u[k]
      BY <1>2, <3>1
    <3> HIDE DEF k
    <3>3. CASE u[k].op = "advance"
      <4>1. \/ Moved(u, k - 1, u[k].before)
            \/ Still(u, k - 1) /\ u[k].before = cursor
        BY <1>4, <3>1, <3>3 DEF NotesTell
      <4>2. At(t, n + (k - 1), u[k].before)
        BY <1>3, <1>4, <3>1, <4>1
      <4> QED BY <3>1, <3>2, <3>3, <4>2
    <3>4. CASE u[k].op # "advance"
      <4>1. Known(r, k - 1, u[k].before)
        BY <1>4, <3>1, <3>4 DEF NotesTell
      <4>2. CASE Was(u[k].before)
        <5>1. PICK j \in 0..n : At(t, j, u[k].before)
          BY <1>5, <4>2
        <5>2. j \in 0..(i - 1)
          BY <1>0, <3>1
        <5> QED BY <3>2, <3>4, <5>1, <5>2
      <4>3. CASE \E j \in 0..(k - 1) : Moved(u, j, u[k].before)
        <5>1. PICK j \in 0..(k - 1) : Moved(u, j, u[k].before)
          BY <4>3
        <5>2. j \in 0..Len(u) /\ n + j \in 0..(i - 1)
          BY <1>0, <3>1
        <5>3. At(t, n + j, u[k].before)
          BY <1>3, <5>1, <5>2
        <5> QED BY <3>2, <3>4, <5>2, <5>3
      <4> QED BY <4>1, <4>2, <4>3 DEF Known
    <3> QED BY <3>3, <3>4
  <2> QED BY <2>1, <2>2
<1>8. TrailTells'
  BY <1>1, <1>6, <1>7 DEF TrailTells
<1>9. \A v : Was(v) => Was(v)'
  <2> SUFFICES ASSUME NEW v, Was(v) PROVE Was(v)'
    OBVIOUS
  <2>1. PICK j \in 0..n : At(t, j, v)
    BY <1>5
  <2>2. j \in 0..Len(t)
    BY <1>0, <1>2
  <2> QED BY <1>1, <2>1, <2>2 DEF Was
<1>10. \A q \in Runs \ {r} : cursor' = cursor \/ mine[q] = 0
  BY <1>1 DEF Sees, TrailInv, OneWriter
<1>11. \A q \in Runs \ {r} : NotesTell(q)' /\ SetTells(q)'
  BY <1>1, <1>9, <1>10, OthersTell
<1>12. NotesTell(r)' /\ SetTells(r)'
  BY <1>1 DEF NotesTell, SetTells, Still
<1>13. OneWriter'
  BY <1>1 DEF TrailInv, OneWriter
<1> QED BY <1>8, <1>11, <1>12, <1>13 DEF TrailInv

LEMMA TrailInit == Init => TrailInv
  BY DEF Init, TrailInv, OneWriter, TrailTells, NotesTell, SetTells, At, Still

LEMMA TrailStep == Types /\ TrailInv /\ [Next]_vars => TrailInv'
<1> SUFFICES ASSUME Types, TrailInv, [Next]_vars PROVE TrailInv'
  OBVIOUS
<1> USE DEF dbVars, sessVars
<1>s. CASE UNCHANGED vars
  BY <1>s, TrailQuiet DEF vars
<1>n. CASE Next
  <2> PICK r \in Runs : WayOut(r) \/ Work(r) \/ Trouble(r)
    BY <1>n DEF Next
  <2>0. pc \in [Runs -> PCs]
    BY SessionTypes
  <2>1. CASE Open(r) \/ OpenLost(r) \/ OpenRefused(r) \/ IncrementRows(r)
             \/ SetMetadata(r) \/ Get(r) \/ BodyReturns(r) \/ Close(r) \/ CloseFails(r)
    <3>1. /\ UNCHANGED <<cursor, trail, mine, notes, want>>
          /\ \A q \in Runs : pc'[q] = "set" => pc[q] = "set"
      BY <2>0, <2>1 DEF Open, OpenLost, OpenRefused, IncrementRows, SetMetadata, Get,
         BodyReturns, Close, CloseFails, Goto
    <3> QED BY <3>1, TrailQuiet
  <2>2. CASE IncrementRowsFails(r) \/ BodyRaises(r) \/ Crash(r)
    <3>1. /\ Discard(r) /\ UNCHANGED <<cursor, trail>>
          /\ pc'[r] # "set" /\ \A q \in Runs \ {r} : pc'[q] = pc[q]
      BY <2>0, <2>2 DEF IncrementRowsFails, BodyRaises, Crash, Goto
    <3> QED BY <3>1, TrailDiscard
  <2>3. CASE CommitSession(r) \/ CommitFails(r)
    <3>1. pc'[r] # "set" /\ \A q \in Runs \ {r} : pc'[q] = pc[q]
      BY <2>0, <2>3 DEF CommitSession, CommitFails, Goto
    <3>2. Durable(r) \/ (Discard(r) /\ UNCHANGED <<cursor, trail>>)
      BY <2>3 DEF CommitSession, CommitFails
    <3> QED BY <3>1, <3>2, TrailDurable, TrailDiscard
  <2>4. ASSUME NEW v \in 1..MaxCursor, Advance(r, v) PROVE TrailInv'
    <3>1. /\ UNCHANGED <<cursor, trail, pc, want>> /\ pc'[r] # "set"
          /\ mine'[r] = v /\ \A q \in Runs \ {r} : mine'[q] = mine[q] /\ mine[q] = 0
          /\ Note(r, "advance", seen[r], v) /\ seen[r] = Sees(r) /\ v # 0
      BY <2>4, SessionTypes DEF Advance, Locked
    <3> QED BY <3>1, TrailNote
  <2>5. ASSUME NEW v \in Repairs, SetHit(r, v) PROVE TrailInv'
    <3>1. /\ UNCHANGED <<cursor, trail, pc, want, mine>> /\ pc'[r] # "set"
          /\ Note(r, "idempotent_hit", v, v) /\ v = Sees(r)
      BY <2>5 DEF SetHit
    <3>2. Known(r, Len(notes[r]), v)
      BY <3>1, SeenIsKnown
    <3> QED BY <3>1, <3>2, TrailNote
  <2>6. ASSUME NEW v \in Repairs, SetRead(r, v) PROVE TrailInv'
    <3>1. /\ UNCHANGED <<cursor, trail, mine, notes>>
          /\ want'[r].to = v /\ want'[r].found = Sees(r) /\ v # 0
          /\ \A q \in Runs \ {r} : want'[q] = want[q] /\ pc'[q] = pc[q]
      BY <2>6, SessionTypes, IngestionConstants DEF SetRead, Goto
    <3>2. \A q \in Runs \ {r} : NotesTell(q)' /\ SetTells(q)'
      BY <3>1, OthersTell, WasKept
    <3>3. NotesTell(r)'
      BY <3>1 DEF TrailInv, NotesTell, Known, Was
    <3>4. SetTells(r)'
      BY <3>1, SeenIsKnown DEF SetTells, Known, Was
    <3> QED BY <3>1, <3>2, <3>3, <3>4 DEF TrailInv, OneWriter, TrailTells
  <2>7. CASE SetWrite(r)
    <3> DEFINE op == IF want[r].found = 0 THEN "set" ELSE "force_set"
    <3>1. /\ UNCHANGED <<cursor, trail>> /\ pc[r] = "set" /\ pc'[r] # "set"
          /\ mine'[r] = want[r].to
          /\ \A q \in Runs \ {r} : mine'[q] = mine[q] /\ mine[q] = 0 /\ want'[q] = want[q]
                                   /\ pc'[q] = pc[q]
          /\ Note(r, op, want[r].found, want[r].to)
      BY <2>7, SessionTypes DEF SetWrite, Locked, Goto
    <3>2. want[r].to # 0 /\ Known(r, Len(notes[r]), want[r].found)
      BY <3>1 DEF TrailInv, SetTells
    <3>3. op # "idempotent_hit" /\ op # "advance"
      OBVIOUS
    <3> HIDE DEF op
    <3> QED BY <3>1, <3>2, <3>3, TrailNote
  <2> QED BY <2>1, <2>2, <2>3, <2>4, <2>5, <2>6, <2>7 DEF WayOut, Work, Trouble
<1> QED BY <1>s, <1>n

(* TrailTellsCursor: however the jobs interleave and whatever fails, the   *)
(* last move of the audit trail is the cursor, an advance replaced the     *)
(* cursor it names, and a set() named a cursor of some earlier time.       *)
THEOREM AuditTrailTellsCursor == Spec => []TrailTellsCursor
<1>1. Types /\ TrailInv => TrailTellsCursor
  <2> SUFFICES ASSUME Types, TrailInv PROVE TrailTellsCursor
    OBVIOUS
  <2>0. Len(trail) \in Nat
    BY SessionTypes
  <2>1. cursor = CursorAfter(Len(trail))
    BY <2>0, CursorAfterIs DEF TrailInv, TrailTells
  <2>2. ASSUME NEW i \in 1..Len(trail)
        PROVE  IF trail[i].op = "advance"
               THEN trail[i].before = CursorAfter(i - 1)
               ELSE \E j \in 0..(i - 1) : trail[i].before = CursorAfter(j)
    <3>1. CASE trail[i].op = "advance"
      <4>1. i - 1 \in Nat /\ At(trail, i - 1, trail[i].before)
        BY <2>0, <3>1 DEF TrailInv, TrailTells
      <4> QED BY <3>1, <4>1, CursorAfterIs
    <3>2. CASE trail[i].op # "advance"
      <4>1. PICK j \in 0..(i - 1) : At(trail, j, trail[i].before)
        BY <3>2 DEF TrailInv, TrailTells
      <4> QED BY <3>2, <4>1, CursorAfterIs
    <3> QED BY <3>1, <3>2
  <2> QED BY <2>1, <2>2 DEF TrailTellsCursor
<1>2. Init => Types /\ TrailInv
  BY TypesInit, TrailInit
<1>3. (Types /\ TrailInv) /\ [Next]_vars => (Types /\ TrailInv)'
  BY TypesStep, TrailStep
<1> QED BY <1>1, <1>2, <1>3, PTL DEF Spec
=============================================================================
