--------------------------- MODULE DocumentStore ----------------------------
(***************************************************************************)
(* The document store (documents/client.py, documents/object_storage.py)   *)
(* and its commands (cli/doc.py).  put_filing writes to two places that    *)
(* share no transaction: blobs into an object store, rows into Postgres.   *)
(* A call of put_filing runs in a session_scope of its own, and caller     *)
(* fields of the chain (previous_filing_id) are left to their default.     *)
(*                                                                         *)
(* A call is named by the filing_id it draws; its blobs are the pairs      *)
(* <<filing, part>>.  One source.  Statements read committed rows; row     *)
(* locks (FOR UPDATE, and FOR KEY SHARE for the foreign key) and the       *)
(* advisory lock of a source reference last until the transaction ends.    *)
(***************************************************************************)
EXTENDS Naturals, Sequences, Functions, FiniteSets

CONSTANTS
    Puts,       \* calls of put_filing, and the filing_ids they draw
    NoFiling,   \* None
    Requests,   \* what the calls may be given: functions of Puts
    Releases,   \* runs of `aslan doc release`
    MaxTexts,   \* bound: calls of attach_extracted_text
    MaxFaults   \* bound: failed statements and blob calls, kills

Parts == {"primary", "xbrl", "attachment"}

Request == [ref : STRING, sha : STRING, parts : SUBSET Parts, valid : BOOLEAN]

ASSUME DocumentConstants ==
    /\ NoFiling \notin Puts
    /\ \A q \in Requests : q \in [Puts -> Request]
                            /\ \A p \in Puts : "primary" \in q[p].parts
    /\ MaxTexts \in Nat /\ MaxFaults \in Nat

VARIABLES
    req,      \* put -> its arguments
    bucket,   \* the blobs of the object store
    rows,     \* filing -> its committed doc.filing row, or NoRow
    bodies,   \* filings with a doc.filing_body row
    audits,   \* committed audit events of filings and bodies
    pc,       \* put -> the statement it is at
    keys,     \* put -> _uploaded_keys
    prior,    \* put -> the latest revision of its reference, as read
    pre,      \* put -> the row with its bytes, as read and locked
    hit,      \* put -> actual_filing_id of the uncommitted upsert
    draft,    \* put -> the row as the uncommitted upsert left it
    op,       \* put -> the uncommitted audit event
    rel,      \* release -> the command: where it is, its filing, --keep-row
    leaky,    \* puts that died, failed to delete or were never released
    texts, faults

store    == <<bucket, rows, bodies, audits>>
putVars  == <<pc, keys, prior, pre, hit, draft, op>>
envVars  == <<req, rel, texts>>
vars     == <<store, putVars, envVars, leaky, faults>>

-----------------------------------------------------------------------------
NoRow == [rev |-> 0, prev |-> NoFiling, aka |-> <<>>]

Idle == [at |-> "new", filing |-> NoFiling, keep |-> FALSE]

Blobs(f, parts) == {f} \X parts

Exists(f) == rows[f] # NoRow

Ref(f) == req[f].ref

Revisions(ref) == {f \in Puts : Exists(f) /\ Ref(f) = ref}

Newest(F) == CHOOSE f \in F : \A g \in F : rows[g].rev <= rows[f].rev

(* _find_canonical_by_ref: the highest revision, aliases left aside.       *)
FindCanonicalByRef(ref) ==
    IF Revisions(ref) = {} THEN NoFiling ELSE Newest(Revisions(ref))

(* find_by_source_ref: the same, or else a row republished under ref.      *)
Republished(ref) == {f \in Puts : Exists(f) /\ ref \in Range(rows[f].aka)}

FindBySourceRef(ref) ==
    IF Revisions(ref) # {} THEN {FindCanonicalByRef(ref)} ELSE Republished(ref)

SameBytes(p) == {f \in Puts : Exists(f) /\ req[f].sha = req[p].sha}

(* The row locks of f: pre is held FOR UPDATE, an updated row FOR NO KEY   *)
(* UPDATE, the row a new row refers to FOR KEY SHARE.                      *)
FreeForShare(p, f) == \A q \in Puts \ {p} : pre[q] # f

FreeForNoKeyUpdate(p, f) == \A q \in Puts \ {p} : f \notin {pre[q], hit[q]}

FreeForUpdate(p, f) ==
    /\ FreeForNoKeyUpdate(p, f)
    /\ \A q \in Puts \ {p} : hit[q] = q => draft[q].prev # f

\* Faulty variant: a session-level lock, which the rollback does not free.
HoldsRefForever(p) == pc[p] \notin {"new", "lock"}

HoldsRef(p) == pc[p] \notin {"new", "lock", "done"}

-----------------------------------------------------------------------------
Goto(p, l) == pc' = [pc EXCEPT ![p] = l]

Fault == faults < MaxFaults /\ faults' = faults + 1

Leak(p) == leaky' = leaky \cup {p}

NoFault == UNCHANGED <<leaky, faults>>

Init ==
    /\ req \in Requests
    /\ bucket = {} /\ rows = [p \in Puts |-> NoRow]
    /\ bodies = {} /\ audits = {}
    /\ pc = [p \in Puts |-> "new"] /\ keys = [p \in Puts |-> {}]
    /\ prior = [p \in Puts |-> NoFiling] /\ pre = [p \in Puts |-> NoFiling]
    /\ hit = [p \in Puts |-> NoFiling]
    /\ draft = [p \in Puts |-> NoRow] /\ op = [p \in Puts |-> "none"]
    /\ rel = [r \in Releases |-> Idle]
    /\ leaky = {} /\ texts = 0 /\ faults = 0

(* The transaction is over: its locks are free, its changes gone or kept.  *)
EndTransaction(p) ==
    /\ Goto(p, "done") /\ keys' = [keys EXCEPT ![p] = {}]
    /\ prior' = [prior EXCEPT ![p] = NoFiling]
    /\ pre' = [pre EXCEPT ![p] = NoFiling]
    /\ hit' = [hit EXCEPT ![p] = NoFiling]
    /\ draft' = [draft EXCEPT ![p] = NoRow]
    /\ op' = [op EXCEPT ![p] = "none"]

-----------------------------------------------------------------------------
(* No actor in strict mode, inconsistent xbrl arguments, attachments that  *)
(* share sequence and name or content: raised before any I/O.              *)
Refuse(p) ==
    /\ pc[p] = "new" /\ ~req[p].valid
    /\ Goto(p, "done")
    /\ UNCHANGED <<store, keys, prior, pre, hit, draft, op, envVars>> /\ NoFault

\* A key is tracked before its blob is put.
Put(p, part) ==
    /\ keys' = [keys EXCEPT ![p] = @ \cup {<<p, part>>}]
    /\ bucket' = bucket \cup {<<p, part>>}

\* put_object raises or is cancelled, its bytes stored or not.
PutFails(p, part) ==
    /\ keys' = [keys EXCEPT ![p] = @ \cup {<<p, part>>}]
    /\ bucket' \in {bucket, bucket \cup {<<p, part>>}}

UploadPrimary(p) ==
    /\ pc[p] = "new" /\ req[p].valid
    /\ Put(p, "primary") /\ Goto(p, "lock")
    /\ UNCHANGED <<rows, bodies, audits, prior, pre, hit, draft, op, envVars>> /\ NoFault

UploadPrimaryFails(p) ==
    /\ pc[p] = "new" /\ req[p].valid /\ Fault
    /\ PutFails(p, "primary") /\ Goto(p, "raised")
    /\ UNCHANGED <<rows, bodies, audits, prior, pre, hit, draft, op, envVars, leaky>>

\* Faulty variant: no pg_advisory_xact_lock.
TakeLockNever(p) ==
    /\ pc[p] = "lock"
    /\ Goto(p, "prior")
    /\ UNCHANGED <<store, keys, prior, pre, hit, draft, op, envVars>> /\ NoFault

(* pg_advisory_xact_lock on source and reference.                          *)
TakeLock(p) ==
    /\ pc[p] = "lock"
    /\ \A q \in Puts \ {p} : HoldsRef(q) => Ref(q) # Ref(p)
    /\ Goto(p, "prior")
    /\ UNCHANGED <<store, keys, prior, pre, hit, draft, op, envVars>> /\ NoFault

FindPrior(p) ==
    /\ pc[p] = "prior"
    /\ prior' = [prior EXCEPT ![p] = FindCanonicalByRef(Ref(p))]
    /\ Goto(p, IF "xbrl" \in req[p].parts THEN "xbrl" ELSE "pre")
    /\ UNCHANGED <<store, keys, pre, hit, draft, op, envVars>> /\ NoFault

UploadXbrl(p) ==
    /\ pc[p] = "xbrl"
    /\ Put(p, "xbrl") /\ Goto(p, "pre")
    /\ UNCHANGED <<rows, bodies, audits, prior, pre, hit, draft, op, envVars>> /\ NoFault

UploadXbrlFails(p) ==
    /\ pc[p] = "xbrl" /\ Fault
    /\ PutFails(p, "xbrl") /\ Goto(p, "raised")
    /\ UNCHANGED <<rows, bodies, audits, prior, pre, hit, draft, op, envVars, leaky>>

(* SELECT ... FOR UPDATE of the committed row with these bytes.            *)
CapturePre(p) ==
    /\ pc[p] = "pre"
    /\ IF SameBytes(p) = {} THEN pre' = pre
       ELSE \E f \in SameBytes(p) :
                FreeForUpdate(p, f) /\ pre' = [pre EXCEPT ![p] = f]
    /\ Goto(p, "upsert")
    /\ UNCHANGED <<store, keys, prior, hit, draft, op, envVars>> /\ NoFault

(* ON CONFLICT (source_id, primary_sha256): the upsert waits for a row     *)
(* that is not committed, then DO UPDATE meets the committed one.          *)
NoPendingTwin(p) ==
    \A q \in Puts \ {p} :
        hit[q] = q => req[q].sha # req[p].sha

Previous(p) == IF prior[p] # NoFiling /\ req[prior[p]].sha # req[p].sha
               THEN prior[p] ELSE NoFiling

NewRow(p) == [rev |-> IF Revisions(Ref(p)) = {} THEN 1
                      ELSE rows[Newest(Revisions(Ref(p)))].rev + 1,
              prev |-> Previous(p), aka |-> <<>>]

\* Faulty variant: an alias that is already there is appended again.
WithAliasAgain(f, p) ==
    IF Ref(f) = Ref(p) THEN rows[f]
    ELSE [rows[f] EXCEPT !.aka = Append(@, Ref(p))]

(* The CASE of DO UPDATE: a rerun and a known alias leave the row alone.   *)
WithAlias(f, p) ==
    IF Ref(f) = Ref(p) \/ Ref(p) \in Range(rows[f].aka) THEN rows[f]
    ELSE [rows[f] EXCEPT !.aka = Append(@, Ref(p))]

UpsertExisting(p) ==
    /\ pc[p] = "upsert" /\ NoPendingTwin(p)
    /\ \E f \in SameBytes(p) :
          /\ FreeForNoKeyUpdate(p, f)
          /\ hit' = [hit EXCEPT ![p] = f]
          /\ draft' = [draft EXCEPT ![p] = WithAlias(f, p)]
    /\ Goto(p, "clean")
    /\ UNCHANGED <<store, keys, prior, pre, op, envVars>> /\ NoFault

(* The row is inserted: its foreign key waits for, then needs, the row it  *)
(* refers to.                                                              *)
UpsertNew(p) ==
    /\ pc[p] = "upsert" /\ NoPendingTwin(p) /\ SameBytes(p) = {}
    /\ Previous(p) = NoFiling \/ FreeForShare(p, Previous(p))
    /\ IF Previous(p) = NoFiling \/ Exists(Previous(p))
       THEN /\ hit' = [hit EXCEPT ![p] = p]
            /\ draft' = [draft EXCEPT ![p] = NewRow(p)]
            /\ Goto(p, IF "attachment" \in req[p].parts THEN "attach" ELSE "record")
       ELSE UNCHANGED <<hit, draft>> /\ Goto(p, "raised")
    /\ UNCHANGED <<store, keys, prior, pre, op, envVars>> /\ NoFault

(* The bytes are there already: the blobs just uploaded go, whether or     *)
(* not a delete fails, and leave the manifest.                             *)
CleanDuplicate(p) ==
    /\ pc[p] = "clean"
    /\ bucket' = bucket \ keys[p] /\ keys' = [keys EXCEPT ![p] = {}]
    /\ Goto(p, "record")
    /\ UNCHANGED <<rows, bodies, audits, prior, pre, hit, draft, op, envVars>> /\ NoFault

CleanDuplicateFails(p) ==
    /\ pc[p] = "clean" /\ Fault /\ Leak(p)
    /\ \E left \in SUBSET keys[p] : bucket' = bucket \ (keys[p] \ left)
    /\ keys' = [keys EXCEPT ![p] = {}]
    /\ Goto(p, "record")
    /\ UNCHANGED <<rows, bodies, audits, prior, pre, hit, draft, op, envVars>>

(* _persist_attachments, only for a row of this call.                      *)
PersistAttachments(p) ==
    /\ pc[p] = "attach"
    /\ Put(p, "attachment") /\ Goto(p, "record")
    /\ UNCHANGED <<rows, bodies, audits, prior, pre, hit, draft, op, envVars>> /\ NoFault

PersistAttachmentsFails(p) ==
    /\ pc[p] = "attach" /\ Fault
    /\ PutFails(p, "attachment") /\ Goto(p, "raised")
    /\ UNCHANGED <<rows, bodies, audits, prior, pre, hit, draft, op, envVars, leaky>>

Operation(p) ==
    IF hit[p] = p THEN "put"
    ELSE IF Ref(pre[p]) = Ref(p) THEN "dedup_hit"
    ELSE IF Ref(p) \in Range(rows[pre[p]].aka) THEN "idempotent_hit"
    ELSE "alias_added"

\* What `assert pre is not None` stands for.
PreIsKnown(p) == hit[p] # p => pre[p] # NoFiling

(* The audit event, or the AssertionError.                                 *)
Record(p) ==
    /\ pc[p] = "record"
    /\ IF PreIsKnown(p)
       THEN op' = [op EXCEPT ![p] = Operation(p)] /\ Goto(p, "returned")
       ELSE op' = op /\ Goto(p, "raised")
    /\ UNCHANGED <<store, keys, prior, pre, hit, draft, envVars>> /\ NoFault

\* A statement fails or the task is cancelled.
StatementFails(p) ==
    /\ pc[p] \in {"lock", "prior", "pre", "upsert", "record"} /\ Fault
    /\ Goto(p, "raised")
    /\ UNCHANGED <<store, keys, prior, pre, hit, draft, op, envVars, leaky>>

\* Faulty variant: `except Exception` forgets the blobs.
RaisedUncleaned(p) ==
    /\ pc[p] = "raised"
    /\ EndTransaction(p)
    /\ UNCHANGED <<store, envVars>> /\ NoFault

(* except BaseException: every tracked key is deleted, then session_scope  *)
(* rolls back.                                                             *)
Raised(p) ==
    /\ pc[p] = "raised"
    /\ bucket' = bucket \ keys[p]
    /\ EndTransaction(p)
    /\ UNCHANGED <<rows, bodies, audits, envVars>> /\ NoFault

RaisedUndeleted(p) ==
    /\ pc[p] = "raised" /\ Fault /\ Leak(p)
    /\ \E left \in SUBSET keys[p] : bucket' = bucket \ (keys[p] \ left)
    /\ EndTransaction(p)
    /\ UNCHANGED <<rows, bodies, audits, envVars>>

-----------------------------------------------------------------------------
(* The caller's side: commit, or release() and roll back.                  *)
Applied(p) ==
    /\ rows' = [rows EXCEPT ![hit[p]] = draft[p]]
    /\ audits' = audits \cup {[op |-> op[p], by |-> p, filing |-> hit[p]]}

Commit(p) ==
    /\ pc[p] = "returned"
    /\ Applied(p) /\ EndTransaction(p)
    /\ UNCHANGED <<bucket, bodies, envVars>> /\ NoFault

\* The answer is lost, or the commit: `aslan doc put` releases nothing.
CommitFails(p) ==
    /\ pc[p] = "returned" /\ Fault
    /\ \/ Applied(p) /\ leaky' = leaky
       \/ UNCHANGED <<rows, audits>> /\ Leak(p)
    /\ EndTransaction(p)
    /\ UNCHANGED <<bucket, bodies, envVars>>

\* Faulty variant: the key of the row is deleted, not the manifest.
ReleaseResultOfRow(p) ==
    /\ pc[p] = "returned"
    /\ bucket' = bucket \ Blobs(hit[p], Parts)
    /\ EndTransaction(p)
    /\ UNCHANGED <<rows, bodies, audits, envVars>> /\ NoFault

(* release(result): the audit goes with the rollback, the manifest's       *)
(* blobs are deleted one by one.                                           *)
ReleaseResult(p) ==
    /\ pc[p] = "returned"
    /\ bucket' = bucket \ keys[p]
    /\ EndTransaction(p)
    /\ UNCHANGED <<rows, bodies, audits, envVars>> /\ NoFault

ReleaseResultFails(p) ==
    /\ pc[p] = "returned" /\ Fault /\ Leak(p)
    /\ \E left \in SUBSET keys[p] : bucket' = bucket \ (keys[p] \ left)
    /\ EndTransaction(p)
    /\ UNCHANGED <<rows, bodies, audits, envVars>>

\* The process dies: Postgres rolls back, the object store does not.
Crash(p) ==
    /\ pc[p] \notin {"new", "done"} /\ Fault /\ Leak(p)
    /\ EndTransaction(p)
    /\ UNCHANGED <<store, envVars>>

(* attach_extracted_text, in a transaction of its own.                     *)
AttachExtractedText(f) ==
    /\ texts < MaxTexts /\ Exists(f)
    /\ FreeForShare(NoFiling, f)
    /\ bodies' = bodies \cup {f} /\ texts' = texts + 1
    /\ audits' = audits \cup
          {[op |-> IF f \in bodies THEN "body_update" ELSE "body_create",
            by |-> f, filing |-> f]}
    /\ UNCHANGED <<bucket, rows, putVars, req, rel>> /\ NoFault

-----------------------------------------------------------------------------
(* `aslan doc release`: the keys and the later revisions are read, the     *)
(* blobs are deleted, then the row.                                        *)
At(r, l) == rel' = [rel EXCEPT ![r].at = l]

Downstream(f) == {g \in Puts : Exists(g) /\ rows[g].prev = f}

ReleaseReads(r) ==
    /\ rel[r].at = "new"
    /\ \E f \in Puts, keep \in BOOLEAN :
          /\ Exists(f)
          /\ rel' = [rel EXCEPT ![r] =
                [at |-> IF keep \/ Downstream(f) = {} THEN "blobs" ELSE "done",
                 filing |-> f, keep |-> keep]]
    /\ UNCHANGED <<store, putVars, req, texts>> /\ NoFault

ReleaseBlobs(r) ==
    /\ rel[r].at = "blobs"
    /\ bucket' = bucket \ Blobs(rel[r].filing, req[rel[r].filing].parts)
    /\ At(r, IF rel[r].keep THEN "done" ELSE "row")
    /\ UNCHANGED <<rows, bodies, audits, putVars, req, texts>> /\ NoFault

\* A delete fails: the row stays for another try.
ReleaseBlobsFails(r) ==
    /\ rel[r].at = "blobs" /\ Fault
    /\ \E left \in SUBSET Blobs(rel[r].filing, req[rel[r].filing].parts) :
          /\ left # {}
          /\ bucket' = bucket \
                (Blobs(rel[r].filing, req[rel[r].filing].parts) \ left)
    /\ At(r, "done")
    /\ UNCHANGED <<rows, bodies, audits, putVars, req, texts, leaky>>

(* DELETE waits for the row; the foreign key of a later revision makes it  *)
(* fail; the body goes with the row.                                       *)
ReleaseRow(r) ==
    LET f == rel[r].filing IN
    /\ rel[r].at = "row" /\ FreeForUpdate(NoFiling, f)
    /\ IF Downstream(f) = {}
       THEN rows' = [rows EXCEPT ![f] = NoRow] /\ bodies' = bodies \ {f}
       ELSE UNCHANGED <<rows, bodies>>
    /\ At(r, "done")
    /\ UNCHANGED <<bucket, audits, putVars, req, texts>> /\ NoFault

ReleaseCrash(r) ==
    /\ rel[r].at \in {"blobs", "row"} /\ Fault
    /\ At(r, "done")
    /\ UNCHANGED <<store, putVars, req, texts, leaky>>

-----------------------------------------------------------------------------
PutStep(p) ==
    \/ Refuse(p) \/ UploadPrimary(p) \/ TakeLock(p) \/ FindPrior(p)
    \/ UploadXbrl(p) \/ CapturePre(p) \/ UpsertExisting(p) \/ UpsertNew(p)
    \/ CleanDuplicate(p) \/ PersistAttachments(p) \/ Record(p) \/ Raised(p)
    \/ Commit(p) \/ ReleaseResult(p)

PutFault(p) ==
    \/ UploadPrimaryFails(p) \/ UploadXbrlFails(p) \/ CleanDuplicateFails(p)
    \/ PersistAttachmentsFails(p) \/ StatementFails(p) \/ RaisedUndeleted(p)
    \/ CommitFails(p) \/ ReleaseResultFails(p) \/ Crash(p)

ReleaseStep(r) ==
    \/ ReleaseReads(r) \/ ReleaseBlobs(r) \/ ReleaseBlobsFails(r)
    \/ ReleaseRow(r) \/ ReleaseCrash(r)

Next ==
    \/ \E p \in Puts : PutStep(p) \/ PutFault(p) \/ AttachExtractedText(p)
    \/ \E r \in Releases : ReleaseStep(r)

Spec == Init /\ [][Next]_vars

FairSpec == Spec /\ \A p \in Puts : WF_vars(PutStep(p))

-----------------------------------------------------------------------------
Row == [rev : Nat, prev : Puts \cup {NoFiling}, aka : Seq(STRING)]

Labels == {"new", "lock", "prior", "xbrl", "pre", "upsert", "clean", "attach",
           "record", "returned", "raised", "done"}

Operations == {"none", "put", "dedup_hit", "idempotent_hit", "alias_added"}

TypeOK ==
    /\ req \in Requests /\ bucket \subseteq Puts \X Parts
    /\ rows \in [Puts -> Row] /\ bodies \subseteq Puts
    /\ pc \in [Puts -> Labels] /\ keys \in [Puts -> SUBSET (Puts \X Parts)]
    /\ prior \in [Puts -> Puts \cup {NoFiling}]
    /\ pre \in [Puts -> Puts \cup {NoFiling}]
    /\ hit \in [Puts -> Puts \cup {NoFiling}]
    /\ draft \in [Puts -> Row] /\ op \in [Puts -> Operations]
    /\ rel \in [Releases -> [at : {"new", "blobs", "row", "done"},
                             filing : Puts \cup {NoFiling}, keep : BOOLEAN]]
    /\ leaky \subseteq Puts /\ texts \in Nat /\ faults \in Nat

Released(f) == \E r \in Releases : rel[r].filing = f

(* Every blob a committed filing names is in the object store, unless an   *)
(* operator released that filing: neither the cleanup of another call, nor *)
(* release(result), nor a dedup hit deletes a blob that a row needs.       *)
RowsHaveBlobs ==
    \A f \in Puts : Exists(f) /\ ~Released(f) =>
        Blobs(f, req[f].parts) \subseteq bucket

(* Concurrent writers of a reference do not fork its chain of amendments:  *)
(* revisions are distinct, a row follows the revision before it, and only  *)
(* after a release of that reference may a later revision follow nothing.  *)
ChainIsLinear ==
    \A f, g \in Puts : Exists(f) /\ Exists(g) =>
        /\ f # g /\ Ref(f) = Ref(g) => rows[f].rev # rows[g].rev
        /\ rows[g].prev = f => /\ Ref(f) = Ref(g)
                               /\ rows[g].rev = rows[f].rev + 1
        /\ rows[g].rev > 1 /\ rows[g].prev = NoFiling =>
              \E h \in Puts : Released(h) /\ Ref(h) = Ref(g)

(* A blob that no filing names and no running call tracks was left by a    *)
(* call that died, could not delete it, or was rolled back by a caller     *)
(* that did not release it.  An exception alone never leaves one behind.   *)
OrphansAreLeaks ==
    \A k \in bucket :
        Exists(k[1]) \/ k \in keys[k[1]] \/ k[1] \in leaky

(* The audit trail tells the rows: a filing was put once, by its own call, *)
(* and its aliases are, one by one, the calls audited as alias additions,  *)
(* so a call audited as a hit has changed nothing.  Whatever the audit     *)
(* says, the call's bytes are those of the filing, and its reference finds *)
(* a filing for as long as nobody releases one.                            *)
AuditsTellRows ==
    /\ \A f \in Puts : Exists(f) =>
        /\ {a.by : a \in {b \in audits : b.op = "put" /\ b.filing = f}} = {f}
        /\ Len(rows[f].aka) = Cardinality(
              {a \in audits : a.op = "alias_added" /\ a.filing = f})
    /\ \A a \in audits : ~Released(a.filing) =>
        /\ req[a.filing].sha = req[a.by].sha
        /\ (\A f \in Puts : ~Released(f)) => FindBySourceRef(Ref(a.by)) # {}

(* A call that has uploaded ends: the advisory lock, the row locks and the *)
(* wait for a row that is not committed never close a circle.              *)
PutsEnd == \A p \in Puts : pc[p] # "new" ~> pc[p] = "done"

=============================================================================
