---------------------------- MODULE Observations ----------------------------
(***************************************************************************)
(* One time series: its catalog row, its subjects and its observations     *)
(* (timeseries/writer.py, timeseries/reader.py), written by the commands   *)
(* of cli/ts.py, each with one upsert_series or one write in a transaction *)
(* of its own.                                                             *)
(*                                                                         *)
(* A definition is cut down to what the code tells apart:                  *)
(*   fixed   source_id, frequency, unit: immutable once observations exist *)
(*   other   metric, restatement_basis, metadata: told by every event      *)
(*   extra   currency_code, accounting_standard, consolidation,            *)
(*           period_type, description: told by series.update only          *)
(*   entity  entity_id: compared and stored, told by no event              *)
(*   pii     pii_class                                                     *)
(*   clean   no text and no metadata matches a PII pattern                 *)
(* An observation is a payload (standing for its hash) at a key            *)
(* <<ts, as_of>>.  Statements read committed rows.  An UPDATE of the       *)
(* catalog row and the foreign key of an observation do not block one      *)
(* another.                                                                *)
(***************************************************************************)
EXTENDS Naturals, Sequences, FiniteSets

CONSTANTS
    Texts,       \* values of fields, subjects, payloads; "" for none
    Jobs,        \* runs of `series upsert` and `observation write`
    Works,       \* what they may be asked: functions of Jobs
    MaxTime,     \* bound: ts and as_of are 1..MaxTime
    ChunkSize,   \* chunk_size
    MaxFaults    \* bound: failed statements, kills

Keys == (1..MaxTime) \X (1..MaxTime)

Definition == [fixed : Texts, other : Texts, extra : Texts, entity : Texts,
               pii : {"none", "identifying"}, clean : BOOLEAN]

Work == [kind : {"upsert", "write"}, def : Definition, subjects : SUBSET Texts,
         batch : Seq([key : Keys, payload : Texts]), valid : BOOLEAN]

ASSUME ObservationConstants ==
    /\ "" \in Texts /\ "" \notin Jobs
    /\ \A w \in Works : \A j \in Jobs :
          w[j] \in Work /\ (w[j].kind = "upsert" => w[j].def.fixed # "")
    /\ MaxTime \in Nat /\ ChunkSize \in Nat \ {0} /\ MaxFaults \in Nat

VARIABLES
    work,      \* job -> its arguments
    catalog,   \* the committed row of ts.series_catalog, or NoSeries
    subjects,  \* the committed rows of ts.series_subject
    obs,       \* key -> the committed row of ts.observation, or NoObs
    trail,     \* committed series.upsert and series.update events
    batches,   \* committed observation.write_batch events with their keys
    pc,        \* job -> the statement it is at
    seen,      \* job -> the catalog row as it read it
    draft,     \* job -> its uncommitted catalog row, or NoSeries
    fresh,     \* job -> the keys it has inserted, uncommitted
    same,      \* job -> the keys it has found unchanged
    next,      \* job -> the first entry of its batch not yet written
    earlier,   \* job -> the jobs that had ended when it began
    faults

dbVars  == <<catalog, subjects, obs, trail, batches>>
jobVars == <<seen, draft, fresh, same, next>>
vars    == <<work, dbVars, pc, jobVars, earlier, faults>>

-----------------------------------------------------------------------------
NoSeries == [fixed |-> "", other |-> "", extra |-> "", entity |-> "",
             pii |-> "none", clean |-> TRUE]

NoObs == [payload |-> "", by |-> "", under |-> ""]

Written == {k \in Keys : obs[k] # NoObs}

Goto(j, l) == pc' = [pc EXCEPT ![j] = l]

Init ==
    /\ work \in Works
    /\ catalog = NoSeries /\ subjects = {} /\ obs = [k \in Keys |-> NoObs]
    /\ trail = <<>> /\ batches = {}
    /\ pc = [j \in Jobs |-> "new"] /\ seen = [j \in Jobs |-> NoSeries]
    /\ draft = [j \in Jobs |-> NoSeries] /\ fresh = [j \in Jobs |-> {}]
    /\ same = [j \in Jobs |-> {}] /\ next = [j \in Jobs |-> 1]
    /\ earlier = [j \in Jobs |-> {}] /\ faults = 0

Began(j) == earlier' = [earlier EXCEPT ![j] = {k \in Jobs : pc[k] = "done"}]

-----------------------------------------------------------------------------
(* upsert_series                                                           *)

\* Faulty variant: an identifying series needs no subject.
RefusesUpsertLax(w) == ~w.valid \/ (w.def.pii = "identifying" /\ ~w.def.clean)

(* Raised before any I/O: no actor in strict mode, numeric metadata keys;  *)
(* for an identifying series PII in clear text or metadata, or no subject. *)
RefusesUpsert(w) ==
    \/ ~w.valid
    \/ w.def.pii = "identifying" /\ (~w.def.clean \/ w.subjects = {})

UpsertRefused(j) ==
    /\ pc[j] = "new" /\ work[j].kind = "upsert" /\ RefusesUpsert(work[j])
    /\ Goto(j, "done") /\ Began(j)
    /\ UNCHANGED <<work, dbVars, jobVars, faults>>

LookUp(j) ==
    /\ pc[j] = "new" /\ work[j].kind = "upsert" /\ ~RefusesUpsert(work[j])
    /\ seen' = [seen EXCEPT ![j] = catalog] /\ Began(j)
    /\ Goto(j, IF catalog = NoSeries THEN "insert" ELSE "reconcile")
    /\ UNCHANGED <<work, dbVars, draft, fresh, same, next, faults>>

\* Another transaction holds the row, which it inserted or updated.
RowIsFree(j) == \A k \in Jobs \ {j} : draft[k] = NoSeries

(* INSERT ... ON CONFLICT (series_code) DO NOTHING waits for another       *)
(* insert; the loser reads the row again.                                  *)
UpsertSeriesFresh(j) ==
    /\ pc[j] = "insert" /\ RowIsFree(j)
    /\ IF catalog = NoSeries
       THEN draft' = [draft EXCEPT ![j] = work[j].def] /\ Goto(j, "returned")
       ELSE draft' = draft /\ Goto(j, "refetch")
    /\ UNCHANGED <<work, dbVars, seen, fresh, same, next, earlier, faults>>

Refetch(j) ==
    /\ pc[j] = "refetch"
    /\ seen' = [seen EXCEPT ![j] = catalog] /\ Goto(j, "reconcile")
    /\ UNCHANGED <<work, dbVars, draft, fresh, same, next, earlier, faults>>

(* Every field matches: subjects are added, nothing else changes.          *)
ReconcileExisting(j) ==
    /\ pc[j] = "reconcile"
    /\ Goto(j, CASE seen[j] = work[j].def -> "returned"
                 [] seen[j].fixed # work[j].def.fixed -> "count"
                 [] OTHER -> "update")
    /\ UNCHANGED <<work, dbVars, jobVars, earlier, faults>>

\* Faulty variant: the count is not looked at.
CountNothing(j) ==
    /\ pc[j] = "count"
    /\ Goto(j, "update")
    /\ UNCHANGED <<work, dbVars, jobVars, earlier, faults>>

(* SeriesCodeConflict once observations exist.                             *)
CountObservations(j) ==
    /\ pc[j] = "count"
    /\ Goto(j, IF Written = {} THEN "update" ELSE "done")
    /\ UNCHANGED <<work, dbVars, jobVars, earlier, faults>>

\* Faulty variant: only the fields that differ from the row as it was read.
UpdateOfChanged(j) ==
    [f \in DOMAIN catalog |->
        IF work[j].def[f] = seen[j][f] THEN catalog[f] ELSE work[j].def[f]]

(* The UPDATE sets every column to the caller's value.                     *)
Update(j) == work[j].def

UpsertSeriesFieldChange(j) ==
    /\ pc[j] = "update" /\ RowIsFree(j)
    /\ draft' = [draft EXCEPT ![j] = Update(j)] /\ Goto(j, "returned")
    /\ UNCHANGED <<work, dbVars, seen, fresh, same, next, earlier, faults>>

-----------------------------------------------------------------------------
(* write                                                                   *)
Entries(j) == work[j].batch

(* Two entries with one key and different payloads.                        *)
Contradicts(batch) ==
    \E a, b \in DOMAIN batch :
        batch[a].key = batch[b].key /\ batch[a].payload # batch[b].payload

(* Phase 0: a naive time, both or neither value, a numeric metadata key,   *)
(* a contradiction.                                                        *)
RefusesWrite(w) == ~w.valid \/ Contradicts(w.batch)

WriteRefused(j) ==
    /\ pc[j] = "new" /\ work[j].kind = "write"
    /\ RefusesWrite(work[j]) \/ Entries(j) = <<>> \/ catalog = NoSeries
    /\ Goto(j, "done") /\ Began(j)
    /\ UNCHANGED <<work, dbVars, jobVars, faults>>

(* The series is looked up before the run and the session are opened.      *)
WriteBegins(j) ==
    /\ pc[j] = "new" /\ work[j].kind = "write"
    /\ ~RefusesWrite(work[j]) /\ Entries(j) # <<>> /\ catalog # NoSeries
    /\ seen' = [seen EXCEPT ![j] = catalog] /\ Began(j)
    /\ Goto(j, "lock")
    /\ UNCHANGED <<work, dbVars, draft, fresh, same, next, faults>>

\* Faulty variant: writers of a series are not serialised.
TakeLockNever(j) ==
    /\ pc[j] = "lock"
    /\ Goto(j, "chunk")
    /\ UNCHANGED <<work, dbVars, jobVars, earlier, faults>>

(* Phase 1: pg_advisory_xact_lock of the series.                           *)
TakeLock(j) ==
    /\ pc[j] = "lock"
    /\ \A k \in Jobs \ {j} :
          ~(work[k].kind = "write" /\ pc[k] \in {"chunk", "returned"})
    /\ Goto(j, "chunk")
    /\ UNCHANGED <<work, dbVars, jobVars, earlier, faults>>

(* Phase 0b: `deduped', an identical duplicate dropped.                    *)
Firsts(j) ==
    {i \in DOMAIN Entries(j) : \A h \in 1..(i - 1) : Entries(j)[h].key # Entries(j)[i].key}

Rank(j, i) == Cardinality({h \in Firsts(j) : h <= i})

(* Phase 2: deduped[next .. next + ChunkSize - 1], in one INSERT ... ON    *)
(* CONFLICT DO NOTHING.                                                    *)
Chunk(j) == {i \in Firsts(j) : Rank(j, i) \in next[j]..(next[j] + ChunkSize - 1)}

ChunkKeys(j) == {Entries(j)[i].key : i \in Chunk(j)}

PayloadOf(j, k) ==
    Entries(j)[CHOOSE i \in DOMAIN Entries(j) : Entries(j)[i].key = k].payload

\* Faulty variant: the stored payload is not compared.
MatchesBlindly(j, k) == TRUE

(* The read back of payload_hash.                                          *)
Matches(j, k) == obs[k].payload = PayloadOf(j, k)

WriteChunk(j) ==
    LET mine == ChunkKeys(j) IN
    /\ pc[j] = "chunk" /\ Chunk(j) # {}
    /\ \A k \in Jobs \ {j} : mine \cap fresh[k] = {}
    /\ IF \A k \in mine \cap Written : Matches(j, k)
       THEN /\ fresh' = [fresh EXCEPT ![j] = @ \cup (mine \ Written)]
            /\ same' = [same EXCEPT ![j] = @ \cup (mine \cap Written)]
            /\ next' = [next EXCEPT ![j] = @ + ChunkSize]
            /\ Goto(j, IF next[j] + ChunkSize > Cardinality(Firsts(j))
                       THEN "returned" ELSE "chunk")
            /\ UNCHANGED <<seen, draft>>
       ELSE /\ fresh' = [fresh EXCEPT ![j] = {}]
            /\ same' = [same EXCEPT ![j] = {}]
            /\ Goto(j, "done") /\ UNCHANGED <<seen, draft, next>>
    /\ UNCHANGED <<work, dbVars, earlier, faults>>

-----------------------------------------------------------------------------
(* session_scope commits: the rows and their audit together.               *)
UpsertPayload(d) == [fixed |-> d.fixed, other |-> d.other, pii |-> d.pii]

UpdatePayload(d) ==
    [fixed |-> d.fixed, other |-> d.other, extra |-> d.extra, pii |-> d.pii]

(* series.upsert has before = None; series.update tells the row as it was  *)
(* read and the values of the call.                                        *)
Change(j) ==
    IF seen[j] = NoSeries
    THEN [by |-> j, before |-> <<>>, after |-> UpsertPayload(work[j].def)]
    ELSE [by |-> j, before |-> UpdatePayload(seen[j]),
          after |-> UpdatePayload(work[j].def)]

CommitSeries(j) ==
    /\ catalog' = (IF draft[j] = NoSeries THEN catalog ELSE draft[j])
    /\ subjects' = subjects \cup work[j].subjects
    /\ trail' = (IF draft[j] = NoSeries THEN trail ELSE Append(trail, Change(j)))
    /\ UNCHANGED <<obs, batches>>

(* _emit_write_batch_audit: one event, one key row for each key.           *)
Batch(j) == [by |-> j, inserted |-> fresh[j], unchanged |-> same[j]]

CommitBatch(j) ==
    /\ obs' = [k \in Keys |->
          IF k \in fresh[j]
          THEN [payload |-> PayloadOf(j, k), by |-> j, under |-> seen[j].fixed]
          ELSE obs[k]]
    /\ batches' = batches \cup {Batch(j)}
    /\ UNCHANGED <<catalog, subjects, trail>>

EndTransaction(j) ==
    /\ Goto(j, "done")
    /\ draft' = [draft EXCEPT ![j] = NoSeries]
    /\ fresh' = [fresh EXCEPT ![j] = {}] /\ same' = [same EXCEPT ![j] = {}]
    /\ UNCHANGED <<seen, next>>

Commit(j) ==
    /\ pc[j] = "returned"
    /\ IF work[j].kind = "upsert" THEN CommitSeries(j) ELSE CommitBatch(j)
    /\ EndTransaction(j)
    /\ UNCHANGED <<work, earlier, faults>>

\* A statement fails, the commit fails, the process dies: rolled back.
Fails(j) ==
    /\ pc[j] \notin {"new", "done"}
    /\ faults < MaxFaults /\ faults' = faults + 1
    /\ EndTransaction(j)
    /\ UNCHANGED <<work, dbVars, earlier>>

JobStep(j) ==
    \/ UpsertRefused(j) \/ LookUp(j) \/ UpsertSeriesFresh(j) \/ Refetch(j)
    \/ ReconcileExisting(j) \/ CountObservations(j)
    \/ UpsertSeriesFieldChange(j) \/ WriteRefused(j) \/ WriteBegins(j)
    \/ TakeLock(j) \/ WriteChunk(j) \/ Commit(j)

Next == \E j \in Jobs : JobStep(j) \/ Fails(j)

Spec == Init /\ [][Next]_vars

FairSpec == Spec /\ \A j \in Jobs : WF_vars(JobStep(j))

-----------------------------------------------------------------------------
(* The reader.                                                             *)

\* Faulty variant: restatements are collapsed first and filtered afterwards.
CollapseFirst(pit) ==
    {k \in Written : k[2] <= pit /\
        \A l \in Written : l[1] = k[1] => l[2] <= k[2]}

(* DISTINCT ON (series_id, ts) ... as_of <= pit ORDER BY ts, as_of DESC.   *)
Collapse(pit) ==
    {k \in Written : k[2] <= pit /\
        \A l \in Written : l[1] = k[1] /\ l[2] <= pit => l[2] <= k[2]}

(* latest: of these the one with the greatest ts.                          *)
Latest(pit) == {k \in Collapse(pit) : \A l \in Collapse(pit) : l[1] <= k[1]}

(* range: half-open, the limit counts the rows that are left.              *)
RangeOf(start, end, pit, limit) ==
    LET in == {k \in Collapse(pit) : k[1] >= start /\ k[1] < end}
    IN  {k \in in : Cardinality({l \in in : l[1] < k[1]}) < limit}

-----------------------------------------------------------------------------
Labels == {"new", "insert", "refetch", "reconcile", "count", "update", "lock",
           "chunk", "returned", "done"}

TypeOK ==
    /\ work \in Works /\ catalog \in Definition /\ subjects \subseteq Texts
    /\ \A k \in Keys : obs[k] = NoObs \/ obs[k].by \in Jobs
    /\ pc \in [Jobs -> Labels] /\ seen \in [Jobs -> Definition]
    /\ draft \in [Jobs -> Definition] /\ fresh \in [Jobs -> SUBSET Keys]
    /\ same \in [Jobs -> SUBSET Keys] /\ next \in [Jobs -> Nat]
    /\ earlier \in [Jobs -> SUBSET Jobs] /\ faults \in 0..MaxFaults

Overlap(j, k) == j \notin earlier[k] /\ k \notin earlier[j]

(* A committed batch is whole and tells the truth: every key of the call   *)
(* holds exactly the payload the call gave, it is recorded as inserted     *)
(* when this call put it there and as unchanged when another one did, and  *)
(* no observation is without the batch that inserted it.                   *)
BatchesAreHonest ==
    /\ \A b \in batches :
        /\ b.inserted \cup b.unchanged =
              {work[b.by].batch[i].key : i \in DOMAIN work[b.by].batch}
        /\ \A i \in DOMAIN work[b.by].batch :
              LET e == work[b.by].batch[i] IN
              /\ obs[e.key].payload = e.payload
              /\ e.key \in b.inserted <=> obs[e.key].by = b.by
    /\ \A k \in Written : \E b \in batches : k \in b.inserted

(* source_id, frequency and unit are immutable once observations exist: a  *)
(* series still has those under which an observation was written, unless   *)
(* an upsert ran at the same time as that write.                           *)
FixedFieldsStay ==
    \A k \in Written :
        \/ catalog.fixed = obs[k].under
        \/ \E i \in DOMAIN trail : Overlap(trail[i].by, obs[k].by)

\* Two payloads tell the same of every field that both of them tell.
Agree(p, q) == \A f \in DOMAIN p \cap DOMAIN q : p[f] = q[f]

\* Event i begins with what event h left, and what came between overlaps i.
Continues(i, h) ==
    /\ DOMAIN trail[i].before # {}
    /\ Agree(trail[i].before, trail[h].after)
    /\ \A g \in (h + 1)..(i - 1) : Overlap(trail[g].by, trail[i].by)

(* The series events tell the catalog row, overlapping upserts or not: the *)
(* last one ends with it in every field it tells; every one but the first  *)
(* is an update, and begins with what an earlier one left, after which     *)
(* came only events of upserts that ran at the same time.                  *)
TrailTellsCatalog ==
    /\ (trail = <<>>) = (catalog = NoSeries)
    /\ trail # <<>> => Agree(trail[Len(trail)].after, UpdatePayload(catalog))
    /\ \A i \in 2..Len(trail) : \E h \in 1..(i - 1) : Continues(i, h)

(* An identifying series always has a subject by which it can be found for *)
(* erasure and no PII outside it, whichever path of upsert_series made it  *)
(* so.                                                                     *)
IdentifyingIsErasable ==
    catalog.pii = "identifying" => subjects # {} /\ catalog.clean

(* A replay at a point in time changes only when an observation known at   *)
(* that time is added: a later restatement neither replaces nor hides what *)
(* was known before, and never moves `latest` to an older ts.              *)
ReplayIsStable ==
    [][\A pit \in 1..MaxTime :
         /\ \/ \E k \in Written' \ Written : k[2] <= pit
            \/ \A start, limit \in 1..MaxTime :
                  RangeOf(start, MaxTime + 1, pit, limit)'
                    = RangeOf(start, MaxTime + 1, pit, limit)
         /\ \A k \in Latest(pit) : \E l \in Latest(pit)' : l[1] >= k[1]]_vars

(* Every command ends: chunks of two batches never wait for one another.   *)
JobsEnd == \A j \in Jobs : pc[j] # "new" ~> pc[j] = "done"

=============================================================================
