------------------------ MODULE DocumentStoreProofs ------------------------
(***************************************************************************)
(* Proofs about DocumentStore: types, that a committed filing keeps its    *)
(* blobs, that only a failed cleanup leaves a blob behind, that chains of  *)
(* amendments do not fork, and that the audit trail tells the rows.        *)
(***************************************************************************)
EXTENDS DocumentStore, TLAPS, FiniteSetTheorems, SequenceTheorems, WellFoundedInduction

-----------------------------------------------------------------------------
(* Types.                                                                  *)
LEMMA RequestType ==
    ASSUME req \in Requests, NEW p \in Puts
    PROVE  /\ req \in [Puts -> Request] /\ Ref(p) \in STRING
           /\ req[p].parts \subseteq Parts /\ "primary" \in req[p].parts
<1>1. req \in [Puts -> Request] /\ "primary" \in req[p].parts
  BY DocumentConstants
<1> QED BY <1>1 DEF Request, Ref

LEMMA NoRowType == NoRow \in Row
<1>1. <<>> \in Seq(STRING)
  OBVIOUS
<1> QED BY <1>1 DEF NoRow, Row

LEMMA AliasType ==
    ASSUME TypeOK, NEW p \in Puts, NEW f \in Puts PROVE WithAlias(f, p) \in Row
<1>1. rows[f] \in Row /\ Ref(p) \in STRING
  BY RequestType DEF TypeOK
<1>2. rows[f].aka \in Seq(STRING)
  BY <1>1 DEF Row
<1>3. Append(rows[f].aka, Ref(p)) \in Seq(STRING)
  BY <1>1, <1>2, AppendProperties
<1> QED BY <1>1, <1>3 DEF WithAlias, Row

LEMMA PreviousType ==
    ASSUME TypeOK, NEW p \in Puts PROVE Previous(p) \in Puts \cup {NoFiling}
  BY DEF TypeOK, Previous

(* Revision numbers are bounded, so a chain that has rows has a newest one. *)
Bounded == \E n \in Nat : \A f \in Puts : rows[f].rev <= n

Types == TypeOK /\ Bounded

LEMMA SmallestElement ==
    ASSUME NEW T, T \subseteq Nat, T # {}
    PROVE  \E x \in T : \A y \in T : x <= y
<1> DEFINE R == OpToRel(<, Nat)
<1>1. IsWellFoundedOn(R, Nat)
  BY NatLessThanWellFounded
<1>2. PICK x \in T : \A y \in T : ~ (<<y, x>> \in R)
  <2> HIDE DEF R
  <2> QED BY <1>1, WFMin
<1>3. \A y \in T : <<y, x>> \in R <=> y < x
  BY DEF OpToRel
<1>4. \A y \in T : ~ (y < x)
  BY ONLY <1>2, <1>3
<1> QED BY <1>4

LEMMA NewestExists ==
    ASSUME Types, NEW F, F \subseteq Puts, F # {}
    PROVE  Newest(F) \in F /\ \A g \in F : rows[g].rev <= rows[Newest(F)].rev
<1>1. PICK n \in Nat : \A f \in Puts : rows[f].rev <= n
  BY DEF Types, Bounded
<1>2. \A f \in Puts : rows[f].rev \in Nat
  BY DEF Types, TypeOK, Row
<1> DEFINE T == {n - rows[f].rev : f \in F}
<1>3. T \subseteq Nat /\ T # {}
  BY <1>1, <1>2
<1>4. PICK x \in T : \A y \in T : x <= y
  <2> HIDE DEF T
  <2> QED BY <1>3, SmallestElement
<1>5. PICK f \in F : x = n - rows[f].rev
  OBVIOUS
<1>6. \A g \in F : n - rows[f].rev <= n - rows[g].rev
  BY <1>4, <1>5
<1>7. \A g \in F : rows[g].rev <= rows[f].rev
  BY <1>2, <1>6
<1> QED BY <1>7 DEF Newest

LEMMA CanonicalType ==
    ASSUME Types, NEW ref PROVE FindCanonicalByRef(ref) \in Puts \cup {NoFiling}
<1>1. Revisions(ref) \subseteq Puts
  BY DEF Revisions
<1> QED BY <1>1, NewestExists DEF FindCanonicalByRef

LEMMA NewRowType ==
    ASSUME Types, NEW p \in Puts
    PROVE  NewRow(p) \in Row /\ NewRow(p).rev >= 1 /\ NewRow(p).prev = Previous(p)
           /\ NewRow(p).aka = <<>>
<1>1. Revisions(Ref(p)) \subseteq Puts
  BY DEF Revisions
<1>2. Previous(p) \in Puts \cup {NoFiling}
  BY PreviousType DEF Types
<1>3. <<>> \in Seq(STRING)
  OBVIOUS
<1> DEFINE v == IF Revisions(Ref(p)) = {} THEN 1
                ELSE rows[Newest(Revisions(Ref(p)))].rev + 1
<1>4. v \in Nat /\ v >= 1
  <2>1. CASE Revisions(Ref(p)) = {}
    BY <2>1
  <2>2. CASE Revisions(Ref(p)) # {}
    <3>1. Newest(Revisions(Ref(p))) \in Puts
      BY <2>2, <1>1, NewestExists
    <3>2. rows[Newest(Revisions(Ref(p)))].rev \in Nat
      BY <3>1 DEF Types, TypeOK, Row
    <3> QED BY <2>2, <3>2
  <2> QED BY <2>1, <2>2
<1>5. NewRow(p) = [rev |-> v, prev |-> Previous(p), aka |-> <<>>]
  BY DEF NewRow
<1> HIDE DEF v
<1> QED BY <1>2, <1>3, <1>4, <1>5 DEF Row

LEMMA TypesInit == Init => Types
<1> SUFFICES ASSUME Init PROVE Types
  OBVIOUS
<1>1. rows \in [Puts -> Row] /\ draft \in [Puts -> Row]
  BY NoRowType DEF Init
<1>2. pc \in [Puts -> Labels] /\ op \in [Puts -> Operations]
  BY DEF Init, Labels, Operations
<1>3. rel \in [Releases -> [at : {"new", "blobs", "row", "done"},
                            filing : Puts \cup {NoFiling}, keep : BOOLEAN]]
  BY DEF Init, Idle
<1>4. TypeOK
  BY <1>1, <1>2, <1>3 DEF Init, TypeOK
<1>5. \A f \in Puts : rows[f].rev <= 0
  BY DEF Init, NoRow
<1> QED BY <1>4, <1>5 DEF Types, Bounded

(* What a call of put_filing can do to the locals of the calls.            *)
LocalTypes ==
    /\ pc \in [Puts -> Labels] /\ keys \in [Puts -> SUBSET (Puts \X Parts)]
    /\ prior \in [Puts -> Puts \cup {NoFiling}]
    /\ pre \in [Puts -> Puts \cup {NoFiling}]
    /\ hit \in [Puts -> Puts \cup {NoFiling}]
    /\ draft \in [Puts -> Row] /\ op \in [Puts -> Operations]

LEMMA EndTypes ==
    ASSUME Types, NEW p \in Puts, EndTransaction(p) PROVE LocalTypes'
  BY NoRowType DEF Types, TypeOK, LocalTypes, EndTransaction, Goto, Labels, Operations

LEMMA UploadTypes ==
    ASSUME Types, NEW p \in Puts, NEW part \in Parts,
           keys' = [keys EXCEPT ![p] = @ \cup {<<p, part>>}],
           bucket' \in {bucket, bucket \cup {<<p, part>>}},
           NEW l \in Labels, Goto(p, l), UNCHANGED <<prior, pre, hit, draft, op>>
    PROVE  LocalTypes' /\ bucket' \subseteq Puts \X Parts
<1>1. <<p, part>> \in Puts \X Parts
  OBVIOUS
<1> QED BY <1>1 DEF Types, TypeOK, LocalTypes, Goto

LEMMA PutLocalTypes ==
    ASSUME Types, NEW p \in Puts, PutStep(p) \/ PutFault(p)
    PROVE  LocalTypes' /\ bucket' \subseteq Puts \X Parts
<1>0. LocalTypes /\ bucket \subseteq Puts \X Parts /\ req \in Requests
  BY DEF Types, TypeOK, LocalTypes
<1>1. \A l \in Labels : Goto(p, l) => pc' \in [Puts -> Labels]
  BY <1>0 DEF Goto, LocalTypes
<1>a. "primary" \in Parts /\ "xbrl" \in Parts /\ "attachment" \in Parts
  BY DEF Parts
<1>b. \A part : Put(p, part) \/ PutFails(p, part) =>
         /\ keys' = [keys EXCEPT ![p] = @ \cup {<<p, part>>}]
         /\ bucket' \in {bucket, bucket \cup {<<p, part>>}}
  BY DEF Put, PutFails
<1>2. CASE \/ UploadPrimary(p) \/ UploadPrimaryFails(p) \/ UploadXbrl(p) \/ UploadXbrlFails(p)
           \/ PersistAttachments(p) \/ PersistAttachmentsFails(p)
  BY <1>2, <1>a, <1>b, UploadTypes DEF UploadPrimary, UploadPrimaryFails, UploadXbrl,
       UploadXbrlFails, PersistAttachments, PersistAttachmentsFails, Labels
<1>3. CASE Refuse(p) \/ TakeLock(p) \/ StatementFails(p)
  BY <1>0, <1>1, <1>3 DEF Refuse, TakeLock, StatementFails, LocalTypes, store, Labels
<1>4. CASE FindPrior(p)
  BY <1>0, <1>1, <1>4, CanonicalType DEF FindPrior, LocalTypes, store, Labels
<1>5. CASE CapturePre(p)
  BY <1>0, <1>1, <1>5 DEF CapturePre, LocalTypes, store, Labels, SameBytes
<1>6. CASE UpsertExisting(p)
  BY <1>0, <1>1, <1>6, AliasType DEF UpsertExisting, LocalTypes, store, Labels, SameBytes, Types
<1>7. CASE UpsertNew(p)
  BY <1>0, <1>1, <1>7, NewRowType DEF UpsertNew, LocalTypes, store, Labels
<1>8. CASE CleanDuplicate(p) \/ CleanDuplicateFails(p)
  BY <1>0, <1>1, <1>8 DEF CleanDuplicate, CleanDuplicateFails, LocalTypes, Labels
<1>9. CASE Record(p)
  <2>1. Operation(p) \in Operations
    BY DEF Operation, Operations
  <2> QED BY <1>0, <1>1, <1>9, <2>1 DEF Record, LocalTypes, store, Labels
<1>10. CASE \/ Raised(p) \/ RaisedUndeleted(p) \/ Commit(p) \/ CommitFails(p)
            \/ ReleaseResult(p) \/ ReleaseResultFails(p) \/ Crash(p)
  BY <1>0, <1>10, EndTypes DEF Raised, RaisedUndeleted, Commit, CommitFails,
       ReleaseResult, ReleaseResultFails, Crash, store
<1> QED BY <1>2, <1>3, <1>4, <1>5, <1>6, <1>7, <1>8, <1>9, <1>10 DEF PutStep, PutFault

(* What a step of p leaves alone: the other calls, the releases, and the   *)
(* rows and audits unless it commits.                                      *)
OthersStay(p) ==
    \A q \in Puts \ {p} :
        /\ pc'[q] = pc[q] /\ keys'[q] = keys[q] /\ prior'[q] = prior[q]
        /\ pre'[q] = pre[q] /\ hit'[q] = hit[q] /\ draft'[q] = draft[q] /\ op'[q] = op[q]

Applies(p) == pc[p] = "returned" /\ Applied(p) /\ EndTransaction(p) /\ bucket' = bucket

LEMMA PutFrame ==
    ASSUME Types, NEW p \in Puts, PutStep(p) \/ PutFault(p)
    PROVE  /\ UNCHANGED <<req, rel, texts, bodies>>
           /\ leaky \subseteq leaky' /\ leaky' \subseteq Puts /\ faults' \in Nat
           /\ UNCHANGED <<rows, audits>> \/ Applies(p)
<1> USE DEF envVars, store, Types, TypeOK, NoFault, Fault, Leak, Applies
<1>1. CASE PutStep(p)
  BY <1>1 DEF PutStep, Refuse, UploadPrimary, TakeLock, FindPrior, UploadXbrl, CapturePre,
       UpsertExisting, UpsertNew, CleanDuplicate, PersistAttachments, Record, Raised, Commit,
       ReleaseResult
<1>2. CASE PutFault(p)
  BY <1>2 DEF PutFault, UploadPrimaryFails, UploadXbrlFails, CleanDuplicateFails,
       PersistAttachmentsFails, StatementFails, RaisedUndeleted, CommitFails,
       ReleaseResultFails, Crash
<1> QED BY <1>1, <1>2

LEMMA PutOthers ==
    ASSUME Types, NEW p \in Puts, PutStep(p) \/ PutFault(p) PROVE OthersStay(p)
<1> USE DEF store, Types, TypeOK, OthersStay, Goto
<1>0. EndTransaction(p) => OthersStay(p)
  BY DEF EndTransaction
<1>1. CASE PutStep(p)
  BY <1>0, <1>1 DEF PutStep, Refuse, UploadPrimary, TakeLock, FindPrior, UploadXbrl, CapturePre,
       UpsertExisting, UpsertNew, CleanDuplicate, PersistAttachments, Record, Raised, Commit,
       ReleaseResult, Put
<1>2. CASE PutFault(p)
  BY <1>0, <1>2 DEF PutFault, UploadPrimaryFails, UploadXbrlFails, CleanDuplicateFails,
       PersistAttachmentsFails, StatementFails, RaisedUndeleted, CommitFails,
       ReleaseResultFails, Crash, PutFails
<1> QED BY <1>1, <1>2

(* The commands of the operator leave the calls alone.                     *)
LEMMA ReleaseFrame ==
    ASSUME Types, NEW r \in Releases, ReleaseStep(r)
    PROVE  /\ UNCHANGED <<req, texts, putVars, leaky, audits>> /\ faults' \in Nat
           /\ bucket' \subseteq bucket
           /\ rel' \in [Releases -> [at : {"new", "blobs", "row", "done"},
                                     filing : Puts \cup {NoFiling}, keep : BOOLEAN]]
           /\ UNCHANGED <<rows, bodies>> \/ ReleaseRow(r)
<1> USE DEF envVars, store, Types, TypeOK, NoFault, Fault, At
<1>1. CASE ReleaseReads(r)
  BY <1>1 DEF ReleaseReads
<1>2. CASE ReleaseBlobs(r)
  BY <1>2 DEF ReleaseBlobs
<1>3. CASE ReleaseBlobsFails(r)
  BY <1>3 DEF ReleaseBlobsFails
<1>4. CASE ReleaseRow(r)
  BY <1>4 DEF ReleaseRow
<1>5. CASE ReleaseCrash(r)
  BY <1>5 DEF ReleaseCrash
<1> QED BY <1>1, <1>2, <1>3, <1>4, <1>5 DEF ReleaseStep

LEMMA TypesNext == Types /\ [Next]_vars => Types'
<1> SUFFICES ASSUME Types, [Next]_vars PROVE Types'
  OBVIOUS
<1>0. PICK n \in Nat : \A f \in Puts : rows[f].rev <= n
  BY DEF Types, Bounded
<1>1. ASSUME NEW p \in Puts, PutStep(p) \/ PutFault(p) PROVE Types'
  <2>1. LocalTypes' /\ bucket' \subseteq Puts \X Parts
    BY <1>1, PutLocalTypes
  <2>2. CASE UNCHANGED <<rows, audits>>
    BY <1>0, <1>1, <2>1, <2>2, PutFrame DEF LocalTypes, Types, TypeOK, Bounded
  <2>3. CASE Applies(p)
    <3>1. rows' = [rows EXCEPT ![hit[p]] = draft[p]] /\ draft[p] \in Row
      BY <2>3 DEF Applies, Applied, Types, TypeOK
    <3>2. rows' \in [Puts -> Row]
      BY <3>1 DEF Types, TypeOK
    <3>3. draft[p].rev \in Nat /\ \A f \in Puts : rows[f].rev \in Nat
      BY <3>1 DEF Row, Types, TypeOK
    <3>4. \A f \in Puts : rows'[f].rev <= n + draft[p].rev
      BY <1>0, <3>1, <3>3 DEF Types, TypeOK
    <3>5. Bounded'
      BY <3>3, <3>4 DEF Bounded
    <3> QED BY <1>1, <2>1, <3>2, <3>5, PutFrame DEF LocalTypes, Types, TypeOK
  <2> QED BY <1>1, <2>2, <2>3, PutFrame
<1>2. ASSUME NEW f \in Puts, AttachExtractedText(f) PROVE Types'
  BY <1>0, <1>2 DEF AttachExtractedText, Types, TypeOK, Bounded, putVars, NoFault
<1>3. ASSUME NEW r \in Releases, ReleaseStep(r) PROVE Types'
  <2>1. CASE UNCHANGED <<rows, bodies>>
    BY <1>0, <1>3, <2>1, ReleaseFrame DEF Types, TypeOK, Bounded, putVars
  <2>2. CASE ReleaseRow(r)
    <3>1. rows' = rows \/ rows' = [rows EXCEPT ![rel[r].filing] = NoRow]
      BY <2>2 DEF ReleaseRow
    <3>2. rows' \in [Puts -> Row] /\ bodies' \subseteq Puts
      BY <2>2, <3>1, NoRowType DEF ReleaseRow, Types, TypeOK
    <3>3. \A f \in Puts : rows'[f].rev <= n
      BY <1>0, <3>1 DEF NoRow, Types, TypeOK
    <3>4. Bounded'
      BY <3>3 DEF Bounded
    <3> QED BY <1>3, <3>2, <3>4, ReleaseFrame DEF Types, TypeOK, putVars
  <2> QED BY <1>3, <2>1, <2>2, ReleaseFrame
<1>4. CASE UNCHANGED vars
  BY <1>4 DEF vars, store, putVars, envVars, Types, TypeOK, Bounded
<1> QED BY <1>1, <1>2, <1>3, <1>4 DEF Next

(* The variables of DocumentStore keep their types: a call is at one of    *)
(* the statements of put_filing, tracks keys of blobs, and the row it is   *)
(* about to write has a revision number.                                   *)
THEOREM TypeCorrect == Spec => []TypeOK
<1>1. Types => TypeOK
  BY DEF Types
<1> QED BY <1>1, TypesInit, TypesNext, PTL DEF Spec

-----------------------------------------------------------------------------
(* Where a call is, and what it holds there.                               *)
Phase(p) ==
    /\ pc[p] \in {"new", "done"} => keys[p] = {} /\ pre[p] = NoFiling
    /\ hit[p] # NoFiling => pc[p] \in {"clean", "attach", "record", "returned", "raised"}
    /\ hit[p] # NoFiling => draft[p].rev >= 1
    /\ pc[p] \in {"clean", "attach", "record", "returned"} => hit[p] \in Puts
    /\ pc[p] = "clean" => hit[p] # p
    /\ pc[p] = "attach" => hit[p] = p /\ "attachment" \in req[p].parts
    /\ pc[p] \in {"record", "returned"} /\ hit[p] # p => keys[p] = {}
    /\ pc[p] = "xbrl" => "xbrl" \in req[p].parts
    /\ keys[p] \subseteq Blobs(p, req[p].parts)

(* Only an ended call has a row; what an upsert hit is there; a release    *)
(* names a filing that was there.                                          *)
RowPhases ==
    /\ \A f \in Puts : Exists(f) => pc[f] = "done" /\ rows[f].rev >= 1
    /\ \A p \in Puts : hit[p] \in Puts \ {p} => Exists(hit[p])
    /\ \A r \in Releases :
          /\ rel[r].at = "new" => rel[r].filing = NoFiling
          /\ rel[r].at # "new" => rel[r].filing \in Puts /\ pc[rel[r].filing] = "done"

Phases == Types /\ (\A p \in Puts : Phase(p)) /\ RowPhases

LEMMA PhasesInit == Init => Phases
<1> SUFFICES ASSUME Init PROVE Phases
  OBVIOUS
<1>1. Types
  BY TypesInit
<1>2. \A p \in Puts : Phase(p)
  BY DEF Init, Phase
<1>3. RowPhases
  BY DocumentConstants DEF Init, RowPhases, Exists, Idle
<1> QED BY <1>1, <1>2, <1>3 DEF Phases

LEMMA EndPhase ==
    ASSUME Phases, NEW p \in Puts, EndTransaction(p) PROVE Phase(p)'
  BY DEF Phases, Types, TypeOK, EndTransaction, Goto, Phase

LEMMA UploadPhase ==
    ASSUME Phases, NEW p \in Puts, NEW part \in req[p].parts, req' = req,
           keys' = [keys EXCEPT ![p] = @ \cup {<<p, part>>}],
           NEW l \in {"lock", "pre", "record", "raised"}, Goto(p, l),
           UNCHANGED <<prior, pre, hit, draft, op>>,
           l = "record" => hit[p] = p, l \in {"lock", "pre"} => hit[p] = NoFiling
    PROVE  Phase(p)'
<1>1. pc'[p] = l /\ keys'[p] = keys[p] \cup {<<p, part>>}
  BY DEF Phases, Types, TypeOK, Goto
<1>2. <<p, part>> \in Blobs(p, req[p].parts)
  BY DEF Blobs
<1>3. hit[p] # NoFiling => pc'[p] \in {"record", "raised"}
  BY <1>1 DEF Phases, Phase
<1>4. keys'[p] \subseteq Blobs(p, req'[p].parts)
  BY <1>1, <1>2 DEF Phases, Phase
<1> QED BY <1>1, <1>3, <1>4 DEF Phases, Phase

LEMMA PutPhase ==
    ASSUME Phases, NEW p \in Puts, PutStep(p) \/ PutFault(p) PROVE Phase(p)'
<1>0. Phase(p) /\ req' = req /\ req \in Requests /\ pc \in [Puts -> Labels] /\ Types
  BY PutFrame DEF Phases, Types, TypeOK
<1>1. "primary" \in req[p].parts
  BY <1>0, RequestType
<1>b. \A part : Put(p, part) \/ PutFails(p, part) =>
         keys' = [keys EXCEPT ![p] = @ \cup {<<p, part>>}]
  BY DEF Put, PutFails
<1>2. CASE UploadPrimary(p) \/ UploadPrimaryFails(p)
  <2>1. hit[p] = NoFiling
    BY <1>0, <1>2 DEF UploadPrimary, UploadPrimaryFails, Phase
  <2> QED BY <1>0, <1>1, <1>b, <1>2, <2>1, UploadPhase DEF UploadPrimary, UploadPrimaryFails
<1>3. CASE UploadXbrl(p) \/ UploadXbrlFails(p)
  <2>1. hit[p] = NoFiling /\ "xbrl" \in req[p].parts
    BY <1>0, <1>3 DEF UploadXbrl, UploadXbrlFails, Phase
  <2> QED BY <1>0, <1>b, <1>3, <2>1, UploadPhase DEF UploadXbrl, UploadXbrlFails
<1>4. CASE PersistAttachments(p) \/ PersistAttachmentsFails(p)
  <2>1. hit[p] = p /\ "attachment" \in req[p].parts
    BY <1>0, <1>4 DEF PersistAttachments, PersistAttachmentsFails, Phase
  <2> QED BY <1>0, <1>b, <1>4, <2>1, UploadPhase DEF PersistAttachments, PersistAttachmentsFails
<1> USE <1>0 DEF Goto, store, TypeOK, Types
<1>5. CASE Refuse(p) \/ TakeLock(p) \/ StatementFails(p)
  BY <1>5 DEF Refuse, TakeLock, StatementFails, Phase
<1>6. CASE FindPrior(p)
  BY <1>6 DEF FindPrior, Phase
<1>7. CASE CapturePre(p)
  BY <1>7 DEF CapturePre, Phase
<1>8. CASE UpsertExisting(p)
  <2>1. PICK f \in SameBytes(p) : /\ hit' = [hit EXCEPT ![p] = f]
                                  /\ draft' = [draft EXCEPT ![p] = WithAlias(f, p)]
    BY <1>8 DEF UpsertExisting
  <2>2. f \in Puts /\ Exists(f)
    BY <2>1 DEF SameBytes
  <2>3. f # p
    BY <1>8, <2>2 DEF UpsertExisting, Phases, RowPhases
  <2>4. WithAlias(f, p).rev >= 1
    BY <2>2 DEF WithAlias, Phases, RowPhases, Row
  <2>5. hit'[p] = f /\ draft'[p] = WithAlias(f, p) /\ pc'[p] = "clean"
    BY <1>8, <2>1 DEF UpsertExisting
  <2>6. keys'[p] = keys[p]
    BY <1>8 DEF UpsertExisting
  <2> QED BY <2>2, <2>3, <2>4, <2>5, <2>6 DEF Phase
<1>9. CASE UpsertNew(p)
  <2>1. CASE hit' = [hit EXCEPT ![p] = p] /\ draft' = [draft EXCEPT ![p] = NewRow(p)]
             /\ Goto(p, IF "attachment" \in req[p].parts THEN "attach" ELSE "record")
    <3>1. draft'[p].rev >= 1 /\ hit'[p] = p /\ keys'[p] = keys[p]
      BY <1>9, <2>1, NewRowType DEF UpsertNew
    <3>2. pc'[p] = (IF "attachment" \in req[p].parts THEN "attach" ELSE "record")
      BY <2>1
    <3> QED BY <3>1, <3>2 DEF Phase
  <2>2. CASE UNCHANGED <<hit, draft>> /\ Goto(p, "raised")
    BY <1>9, <2>2 DEF UpsertNew, Phase
  <2> QED BY <1>9, <2>1, <2>2 DEF UpsertNew
<1>10. CASE CleanDuplicate(p) \/ CleanDuplicateFails(p)
  BY <1>10 DEF CleanDuplicate, CleanDuplicateFails, Phase
<1>11. CASE Record(p)
  BY <1>11 DEF Record, Phase
<1>12. CASE \/ Raised(p) \/ RaisedUndeleted(p) \/ Commit(p) \/ CommitFails(p)
            \/ ReleaseResult(p) \/ ReleaseResultFails(p) \/ Crash(p)
  BY <1>12, EndPhase DEF Raised, RaisedUndeleted, Commit, CommitFails,
       ReleaseResult, ReleaseResultFails, Crash
<1> QED BY <1>2, <1>3, <1>4, <1>5, <1>6, <1>7, <1>8, <1>9, <1>10, <1>11, <1>12
        DEF PutStep, PutFault

(* The row of an upsert is there, or its own and about to be.              *)
LEMMA NoRowRev == NoRow.rev = 0
  BY DEF NoRow

LEMMA AppliedExists ==
    ASSUME Phases, NEW p \in Puts, Applies(p)
    PROVE  /\ hit[p] \in Puts /\ rows'[hit[p]] = draft[p] /\ draft[p].rev >= 1
           /\ draft[p] # NoRow /\ pc'[p] = "done"
           /\ \A f \in Puts \ {hit[p]} : rows'[f] = rows[f]
           /\ \A f \in Puts : Exists(f)' <=> Exists(f) \/ f = hit[p]
<1>1. hit[p] \in Puts /\ draft[p].rev >= 1
  <2>1. Phase(p) /\ pc[p] = "returned"
    BY DEF Phases, Applies
  <2> QED BY <2>1, DocumentConstants DEF Phase
<1>2. rows'[hit[p]] = draft[p] /\ \A f \in Puts \ {hit[p]} : rows'[f] = rows[f]
  BY <1>1 DEF Applies, Applied, Phases, Types, TypeOK
<1>3. draft[p] # NoRow
  BY <1>1, NoRowRev
<1>4. pc'[p] = "done"
  BY DEF Applies, EndTransaction, Goto, Phases, Types, TypeOK
<1> QED BY <1>1, <1>2, <1>3, <1>4 DEF Exists

LEMMA PutNotDone ==
    ASSUME NEW p \in Puts, PutStep(p) \/ PutFault(p) PROVE pc[p] # "done"
  BY DEF PutStep, Refuse, UploadPrimary, TakeLock, FindPrior, UploadXbrl, CapturePre,
       UpsertExisting, UpsertNew, CleanDuplicate, PersistAttachments, Record, Raised, Commit,
       ReleaseResult, PutFault, UploadPrimaryFails, UploadXbrlFails, CleanDuplicateFails,
       PersistAttachmentsFails, StatementFails, RaisedUndeleted, CommitFails,
       ReleaseResultFails, Crash

(* How the upsert of p comes about.                                        *)
LEMMA HitChanges ==
    ASSUME Types, NEW p \in Puts, PutStep(p) \/ PutFault(p)
    PROVE  \/ hit'[p] = hit[p] /\ draft'[p] = draft[p]
           \/ hit'[p] = NoFiling /\ EndTransaction(p)
           \/ UpsertExisting(p) /\ rows' = rows
           \/ UpsertNew(p) /\ rows' = rows /\ hit'[p] = p
<1> USE DEF store, Types, TypeOK, Goto
<1>1. CASE PutStep(p)
  BY <1>1 DEF PutStep, Refuse, UploadPrimary, TakeLock, FindPrior, UploadXbrl, CapturePre,
       UpsertExisting, UpsertNew, CleanDuplicate, PersistAttachments, Record, Raised, Commit,
       ReleaseResult, EndTransaction
<1>2. CASE PutFault(p)
  BY <1>2 DEF PutFault, UploadPrimaryFails, UploadXbrlFails, CleanDuplicateFails,
       PersistAttachmentsFails, StatementFails, RaisedUndeleted, CommitFails,
       ReleaseResultFails, Crash, EndTransaction
<1> QED BY <1>1, <1>2

LEMMA PutRowPhases ==
    ASSUME Phases, NEW p \in Puts, PutStep(p) \/ PutFault(p) PROVE RowPhases'
<1>0. /\ OthersStay(p) /\ pc[p] # "done" /\ rel' = rel /\ Types
      /\ UNCHANGED <<rows, audits>> \/ Applies(p)
  BY PutOthers, PutNotDone, PutFrame DEF Phases
<1>1. \A f \in Puts : Exists(f) => Exists(f)'
  BY <1>0, AppliedExists DEF Exists
<1>2. \A f \in Puts : pc[f] = "done" => f # p /\ pc'[f] = "done"
  BY <1>0 DEF OthersStay
<1>3. ASSUME NEW f \in Puts, Exists(f)' PROVE pc'[f] = "done" /\ rows'[f].rev >= 1
  <2>1. CASE UNCHANGED rows
    BY <1>2, <1>3, <2>1 DEF Phases, RowPhases, Exists
  <2>2. CASE Applies(p)
    <3>1. CASE f # hit[p]
      BY <1>2, <1>3, <2>2, <3>1, AppliedExists DEF Phases, RowPhases
    <3>2. CASE f = hit[p]
      <4>1. f # p => Exists(f)
        BY <3>2 DEF Phases, RowPhases
      <4>2. pc'[f] = "done"
        BY <1>2, <2>2, <4>1, AppliedExists DEF Phases, RowPhases
      <4> QED BY <2>2, <3>2, <4>2, AppliedExists
    <3> QED BY <3>1, <3>2
  <2> QED BY <1>0, <2>1, <2>2
<1>4. ASSUME NEW q \in Puts, hit'[q] \in Puts \ {q} PROVE Exists(hit[q])'
  <2>1. CASE hit'[q] = hit[q]
    BY <1>1, <1>4, <2>1 DEF Phases, RowPhases, Exists
  <2>2. CASE hit'[q] # hit[q]
    <3>1. q = p
      BY <1>0, <2>2 DEF OthersStay
    <3>2. UpsertExisting(p) /\ rows' = rows
      BY <1>0, <1>4, <2>2, <3>1, HitChanges, DocumentConstants
    <3>3. PICK f \in SameBytes(p) : hit' = [hit EXCEPT ![p] = f]
      BY <3>2 DEF UpsertExisting
    <3>4. hit'[p] = f /\ Exists(f)
      BY <3>3 DEF SameBytes, Phases, Types, TypeOK
    <3> QED BY <3>1, <3>2, <3>4 DEF Exists
  <2> QED BY <2>1, <2>2
<1>5. \A r \in Releases :
          /\ rel'[r].at = "new" => rel'[r].filing = NoFiling
          /\ rel'[r].at # "new" => rel'[r].filing \in Puts /\ pc'[rel'[r].filing] = "done"
  BY <1>0, <1>2 DEF Phases, RowPhases
<1> QED BY <1>3, <1>4, <1>5 DEF RowPhases

(* The row that a release deletes is free: no call has it in hand.         *)
LEMMA ReleasedRow ==
    ASSUME Phases, NEW r \in Releases, ReleaseRow(r), rows' # rows
    PROVE  /\ rel[r].filing \in Puts /\ rows' = [rows EXCEPT ![rel[r].filing] = NoRow]
           /\ Downstream(rel[r].filing) = {}
           /\ \A q \in Puts : rel[r].filing \notin {pre[q], hit[q]}
           /\ \A q \in Puts : hit[q] = q => draft[q].prev # rel[r].filing
           /\ rel[r].at = "row" /\ rel' = [rel EXCEPT ![r].at = "done"]
           /\ \A f \in Puts : Exists(f)' <=> Exists(f) /\ f # rel[r].filing
           /\ \A f \in Puts : Exists(f)' => rows'[f] = rows[f]
<1>1. rel[r].at = "row" /\ rel' = [rel EXCEPT ![r].at = "done"]
  BY DEF ReleaseRow, At
<1>2. rel[r].filing \in Puts
  BY <1>1 DEF Phases, RowPhases
<1>3. rows' = [rows EXCEPT ![rel[r].filing] = NoRow] /\ Downstream(rel[r].filing) = {}
  BY DEF ReleaseRow
<1>4. /\ \A q \in Puts : rel[r].filing \notin {pre[q], hit[q]}
      /\ \A q \in Puts : hit[q] = q => draft[q].prev # rel[r].filing
  BY DocumentConstants DEF ReleaseRow, FreeForUpdate, FreeForNoKeyUpdate
<1>5. \A f \in Puts : rows'[f] = IF f = rel[r].filing THEN NoRow ELSE rows[f]
  BY <1>3 DEF Phases, Types, TypeOK
<1>6. /\ \A f \in Puts : Exists(f)' <=> Exists(f) /\ f # rel[r].filing
      /\ \A f \in Puts : Exists(f)' => rows'[f] = rows[f]
  BY <1>5 DEF Exists
<1> QED BY <1>1, <1>2, <1>3, <1>4, <1>6

LEMMA ReleaseRowPhases ==
    ASSUME Phases, NEW r \in Releases, ReleaseStep(r) PROVE RowPhases'
<1>0. UNCHANGED <<pc, hit>> /\ Types
  BY ReleaseFrame DEF putVars, Phases
<1>1. CASE rows' = rows
  <2>1. \A f \in Puts : Exists(f)' = Exists(f)
    BY <1>1 DEF Exists
  <2>2. \A s \in Releases :
          /\ rel'[s].at = "new" => rel'[s].filing = NoFiling
          /\ rel'[s].at # "new" => rel'[s].filing \in Puts /\ pc'[rel'[s].filing] = "done"
    <3> USE <1>0 DEF Phases, RowPhases, Types, TypeOK, At
    <3>1. CASE ReleaseReads(r)
      <4>1. PICK f \in Puts, keep \in BOOLEAN :
              Exists(f) /\ rel' = [rel EXCEPT ![r] =
                [at |-> IF keep \/ Downstream(f) = {} THEN "blobs" ELSE "done",
                 filing |-> f, keep |-> keep]]
        BY <3>1 DEF ReleaseReads
      <4>2. rel'[r].at # "new" /\ rel'[r].filing = f
        BY <4>1
      <4>3. \A s \in Releases \ {r} : rel'[s] = rel[s]
        BY <4>1
      <4> QED BY <4>1, <4>2, <4>3
    <3>2. CASE ~ReleaseReads(r)
      <4>1. \E l \in {"row", "done"} : rel[r].at # "new" /\ At(r, l)
        BY <3>2 DEF ReleaseStep, ReleaseBlobs, ReleaseBlobsFails, ReleaseRow, ReleaseCrash
      <4> QED BY <4>1
    <3> QED BY <3>1, <3>2
  <2> QED BY <1>0, <1>1, <2>1, <2>2 DEF Phases, RowPhases
<1>2. CASE rows' # rows
  <2>1. ReleaseRow(r)
    BY <1>2, ReleaseFrame DEF Phases
  <2>2. \A s \in Releases : rel'[s].filing = rel[s].filing
                            /\ (rel'[s].at = "new" <=> rel[s].at = "new")
    BY <1>2, <2>1, ReleasedRow DEF Phases, Types, TypeOK
  <2> QED BY <1>0, <1>2, <2>1, <2>2, ReleasedRow DEF Phases, RowPhases
<1> QED BY <1>1, <1>2

LEMMA PhasesNext == Phases /\ [Next]_vars => Phases'
<1> SUFFICES ASSUME Phases, [Next]_vars PROVE Phases'
  OBVIOUS
<1>0. Types'
  BY TypesNext DEF Phases
<1>1. ASSUME NEW p \in Puts, PutStep(p) \/ PutFault(p) PROVE Phases'
  <2>1. OthersStay(p) /\ req' = req
    BY <1>1, PutOthers, PutFrame DEF Phases
  <2>2. ASSUME NEW q \in Puts, q # p PROVE Phase(q)'
    BY <2>1, <2>2 DEF Phases, Phase, OthersStay, Blobs
  <2> QED BY <1>0, <1>1, <2>2, PutPhase, PutRowPhases DEF Phases
<1>2. ASSUME UNCHANGED <<req, putVars>> PROVE \A p \in Puts : Phase(p)'
  BY <1>2 DEF putVars, Phases, Phase, Blobs
<1>3. ASSUME NEW r \in Releases, ReleaseStep(r) PROVE Phases'
  BY <1>0, <1>2, <1>3, ReleaseFrame, ReleaseRowPhases DEF Phases
<1>4. ASSUME UNCHANGED <<req, putVars, rows, rel>> PROVE Phases'
  BY <1>0, <1>2, <1>4 DEF Phases, RowPhases, Exists, putVars
<1>5. ASSUME NEW f \in Puts, AttachExtractedText(f) PROVE Phases'
  BY <1>4, <1>5 DEF AttachExtractedText
<1>6. CASE UNCHANGED vars
  BY <1>4, <1>6 DEF vars, store, envVars
<1> QED BY <1>1, <1>3, <1>5, <1>6 DEF Next

-----------------------------------------------------------------------------
(* Blobs: what a call has uploaded by each statement, and that nobody else *)
(* touches it.                                                             *)
Uploaded(p) ==
    /\ pc[p] \in {"lock", "prior", "xbrl"} => <<p, "primary">> \in bucket
    /\ pc[p] \in {"pre", "upsert", "attach"} =>
          Blobs(p, req[p].parts \ {"attachment"}) \subseteq bucket
    /\ pc[p] \in {"record", "returned"} /\ hit[p] = p =>
          Blobs(p, req[p].parts) \subseteq bucket

(* A blob is one of the parts its call was given, and a release that is    *)
(* about to delete the row has deleted the blobs.                          *)
Stored == \A k \in bucket : k \in Blobs(k[1], req[k[1]].parts)

ReleasedGone ==
    \A r \in Releases : rel[r].at = "row" => \A k \in bucket : k[1] # rel[r].filing

BlobsKept ==
    /\ Phases /\ (\A p \in Puts : Uploaded(p)) /\ Stored /\ ReleasedGone
    /\ RowsHaveBlobs /\ OrphansAreLeaks

LEMMA BlobsInit == Init => BlobsKept
<1> SUFFICES ASSUME Init PROVE BlobsKept
  OBVIOUS
<1>1. (\A p \in Puts : Uploaded(p)) /\ Stored /\ OrphansAreLeaks
  BY DEF Init, Uploaded, Stored, OrphansAreLeaks
<1>2. ReleasedGone /\ RowsHaveBlobs
  BY DEF Init, ReleasedGone, RowsHaveBlobs, Exists
<1> QED BY <1>1, <1>2, PhasesInit DEF BlobsKept

(* A step of p adds a blob that it tracks, deletes blobs that it tracked,  *)
(* leaves the bucket and its keys alone, or ends.                          *)
Adds(p) ==
    \E part \in req[p].parts :
        /\ keys' = [keys EXCEPT ![p] = @ \cup {<<p, part>>}]
        /\ bucket' \in {bucket, bucket \cup {<<p, part>>}}

Deletes(p) ==
    /\ keys'[p] = {} /\ bucket' \subseteq bucket /\ bucket \ keys[p] \subseteq bucket'
    /\ bucket' = bucket \ keys[p] \/ p \in leaky'

LEMMA PutBucket ==
    ASSUME Phases, NEW p \in Puts, PutStep(p) \/ PutFault(p)
    PROVE  \/ Adds(p) /\ UNCHANGED <<rows, hit>>
           \/ Deletes(p) /\ rows' = rows
           \/ UNCHANGED <<bucket, keys, rows>>
           \/ bucket' = bucket /\ keys'[p] = {} /\ ((p \in leaky' /\ rows' = rows) \/ Applies(p))
<1>0. Phase(p) /\ req \in Requests /\ keys \in [Puts -> SUBSET (Puts \X Parts)]
  BY DEF Phases, Types, TypeOK
<1>1. "primary" \in req[p].parts
  BY <1>0, RequestType
<1>2. CASE UploadPrimary(p) \/ UploadPrimaryFails(p)
  BY <1>1, <1>2 DEF UploadPrimary, UploadPrimaryFails, Put, PutFails, Adds
<1>3. CASE UploadXbrl(p) \/ UploadXbrlFails(p)
  <2>1. "xbrl" \in req[p].parts
    BY <1>0, <1>3 DEF UploadXbrl, UploadXbrlFails, Phase
  <2> QED BY <1>3, <2>1 DEF UploadXbrl, UploadXbrlFails, Put, PutFails, Adds
<1>4. CASE PersistAttachments(p) \/ PersistAttachmentsFails(p)
  <2>1. "attachment" \in req[p].parts
    BY <1>0, <1>4 DEF PersistAttachments, PersistAttachmentsFails, Phase
  <2> QED BY <1>4, <2>1 DEF PersistAttachments, PersistAttachmentsFails, Put, PutFails, Adds
<1>5. CASE \/ Refuse(p) \/ TakeLock(p) \/ FindPrior(p) \/ CapturePre(p) \/ UpsertExisting(p)
           \/ UpsertNew(p) \/ Record(p) \/ StatementFails(p)
  BY <1>5 DEF Refuse, TakeLock, FindPrior, CapturePre, UpsertExisting, UpsertNew, Record,
       StatementFails, store
<1>6. CASE \/ CleanDuplicate(p) \/ CleanDuplicateFails(p) \/ Raised(p) \/ RaisedUndeleted(p)
           \/ ReleaseResult(p) \/ ReleaseResultFails(p)
  BY <1>0, <1>6 DEF CleanDuplicate, CleanDuplicateFails, Raised, RaisedUndeleted, ReleaseResult,
       ReleaseResultFails, EndTransaction, Leak, Deletes
<1>7. CASE Commit(p) \/ CommitFails(p) \/ Crash(p)
  BY <1>0, <1>7 DEF Commit, CommitFails, Crash, Applies, EndTransaction, Leak, store
<1> QED BY <1>2, <1>3, <1>4, <1>5, <1>6, <1>7 DEF PutStep, PutFault

(* Only blobs of p come and go in a step of p.                             *)
LEMMA PutBlobs ==
    ASSUME BlobsKept, NEW p \in Puts, PutStep(p) \/ PutFault(p), NEW k, k[1] # p
    PROVE  k \in bucket' <=> k \in bucket
<1>1. \A part : <<p, part>>[1] = p
  OBVIOUS
<1>2. \A j \in keys[p] : j[1] = p
  BY DEF BlobsKept, Phases, Phase, Blobs
<1> QED BY <1>1, <1>2, PutBucket DEF Adds, Deletes, BlobsKept

LEMMA PutUploaded ==
    ASSUME BlobsKept, NEW p \in Puts, PutStep(p) \/ PutFault(p) PROVE Uploaded(p)'
<1>0. /\ Phase(p) /\ Uploaded(p) /\ req' = req /\ Types /\ pc \in [Puts -> Labels]
      /\ hit \in [Puts -> Puts \cup {NoFiling}]
  BY PutFrame DEF BlobsKept, Phases, Types, TypeOK
<1>1. "primary" \in req[p].parts /\ req[p].parts \subseteq Parts
  BY <1>0, RequestType DEF Types, TypeOK
<1> USE <1>0 DEF Goto, Blobs, Put, store
<1>2. CASE UploadPrimary(p)
  BY <1>2 DEF UploadPrimary, Uploaded
<1>3. CASE FindPrior(p)
  BY <1>1, <1>3 DEF FindPrior, Uploaded, Parts
<1>4. CASE UploadXbrl(p)
  BY <1>1, <1>4 DEF UploadXbrl, Uploaded, Parts
<1>5. CASE UpsertNew(p)
  BY <1>1, <1>5 DEF UpsertNew, Uploaded
<1>6. CASE PersistAttachments(p)
  BY <1>1, <1>6 DEF PersistAttachments, Uploaded, Parts
<1>7. CASE CleanDuplicate(p) \/ CleanDuplicateFails(p)
  BY <1>7 DEF CleanDuplicate, CleanDuplicateFails, Uploaded, Phase
<1>8. CASE Refuse(p) \/ TakeLock(p) \/ CapturePre(p) \/ UpsertExisting(p) \/ Record(p)
  BY <1>8 DEF Refuse, TakeLock, CapturePre, UpsertExisting, Record, Uploaded
<1>9. CASE ~(\/ UploadPrimary(p) \/ FindPrior(p) \/ UploadXbrl(p) \/ UpsertNew(p)
             \/ PersistAttachments(p) \/ CleanDuplicate(p) \/ CleanDuplicateFails(p)
             \/ Refuse(p) \/ TakeLock(p) \/ CapturePre(p) \/ UpsertExisting(p) \/ Record(p))
  <2>1. Goto(p, "raised") \/ Goto(p, "done")
    BY <1>9 DEF PutStep, PutFault, UploadPrimaryFails, UploadXbrlFails, PersistAttachmentsFails,
         StatementFails, RaisedUndeleted, CommitFails, ReleaseResultFails, Crash, Raised, Commit,
         ReleaseResult, EndTransaction
  <2>2. pc'[p] \in {"raised", "done"}
    BY <2>1
  <2> QED BY <2>2 DEF Uploaded
<1> QED BY <1>2, <1>3, <1>4, <1>5, <1>6, <1>7, <1>8, <1>9

LEMMA PutBlobsNext ==
    ASSUME BlobsKept, NEW p \in Puts, PutStep(p) \/ PutFault(p) PROVE BlobsKept'
<1>0. /\ Phases /\ Types /\ OthersStay(p) /\ UNCHANGED <<req, rel>> /\ leaky \subseteq leaky'
      /\ pc[p] # "done" /\ (UNCHANGED rows \/ Applies(p))
  BY PutFrame, PutOthers, PutNotDone DEF BlobsKept, Phases
<1>1. Phases'
  BY PhasesNext DEF Next, BlobsKept
<1>2. \A k : k[1] # p => (k \in bucket' <=> k \in bucket)
  BY PutBlobs
<1>3. ASSUME NEW q \in Puts, q # p PROVE Uploaded(q)'
  <2>1. /\ pc'[q] = pc[q] /\ hit'[q] = hit[q] /\ req'[q] = req[q]
        /\ Uploaded(q)
    BY <1>0, <1>3 DEF OthersStay, BlobsKept
  <2>2. \A parts : Blobs(q, parts) \subseteq bucket => Blobs(q, parts) \subseteq bucket'
    BY <1>2, <1>3 DEF Blobs
  <2>3. <<q, "primary">> \in bucket => <<q, "primary">> \in bucket'
    BY <1>2, <1>3
  <2> QED BY <2>1, <2>2, <2>3 DEF Uploaded
<1>4. Stored'
  <2> SUFFICES ASSUME NEW k \in bucket' PROVE k \in Blobs(k[1], req[k[1]].parts)
    BY <1>0 DEF Stored, Blobs
  <2>1. CASE k \in bucket
    BY <2>1 DEF BlobsKept, Stored
  <2>2. CASE k \notin bucket
    <3>1. Adds(p)
      BY <2>2, <1>0, PutBucket DEF Deletes
    <3>2. PICK part \in req[p].parts : k = <<p, part>>
      BY <2>2, <3>1 DEF Adds
    <3> QED BY <3>2 DEF Blobs
  <2> QED BY <2>1, <2>2
<1>5. ReleasedGone'
  <2> SUFFICES ASSUME NEW r \in Releases, rel[r].at = "row", NEW k \in bucket'
               PROVE  k[1] # rel[r].filing
    BY <1>0 DEF ReleasedGone
  <2>1. rel[r].filing # p
    BY <1>0 DEF Phases, RowPhases
  <2> QED BY <2>1, <1>2 DEF BlobsKept, ReleasedGone
<1>6. RowsHaveBlobs'
  <2> SUFFICES ASSUME NEW f \in Puts, Exists(f)', ~Released(f)'
               PROVE  Blobs(f, req[f].parts) \subseteq bucket'
    BY <1>0 DEF RowsHaveBlobs, Blobs
  <2>1. ~Released(f)
    BY <1>0 DEF Released
  <2>2. CASE f = p
    <3>1. ~Exists(p)
      BY <1>0 DEF Phases, RowPhases
    <3>2. Applies(p) /\ hit[p] = p
      BY <1>0, <2>2, <3>1, AppliedExists DEF Exists
    <3>3. bucket' = bucket /\ pc[p] = "returned"
      BY <3>2 DEF Applies
    <3> QED BY <2>2, <3>2, <3>3 DEF BlobsKept, Uploaded
  <2>3. CASE f # p
    <3>1. Exists(f)
      <4>1. Applies(p) /\ f = hit[p] => Exists(f)
        BY <2>3 DEF BlobsKept, Phases, RowPhases
      <4> QED BY <1>0, <4>1, AppliedExists DEF Exists
    <3>2. Blobs(f, req[f].parts) \subseteq bucket
      BY <2>1, <3>1 DEF BlobsKept, RowsHaveBlobs
    <3> QED BY <1>2, <2>3, <3>2 DEF Blobs
  <2> QED BY <2>2, <2>3
<1>7. OrphansAreLeaks'
  <2> SUFFICES ASSUME NEW k \in bucket'
               PROVE  Exists(k[1])' \/ k \in keys'[k[1]] \/ k[1] \in leaky'
    BY DEF OrphansAreLeaks
  <2>1. k[1] \in Puts
    BY <1>1 DEF Phases, Types, TypeOK
  <2>2. CASE k[1] # p
    <3>1. k \in bucket /\ keys'[k[1]] = keys[k[1]]
      BY <1>0, <1>2, <2>1, <2>2 DEF OthersStay
    <3>2. Exists(k[1]) => Exists(k[1])'
      BY <1>0, <2>1, AppliedExists DEF Exists
    <3> QED BY <1>0, <3>1, <3>2 DEF BlobsKept, OrphansAreLeaks
  <2>3. CASE k[1] = p
    <3>1. ~Exists(p)
      BY <1>0 DEF Phases, RowPhases
    <3>2. k \in bucket => k \in keys[p] \/ p \in leaky'
      BY <1>0, <2>3, <3>1 DEF BlobsKept, OrphansAreLeaks
    <3>3. CASE Adds(p)
      <4>1. PICK part \in req[p].parts :
              /\ keys' = [keys EXCEPT ![p] = @ \cup {<<p, part>>}]
              /\ bucket' \in {bucket, bucket \cup {<<p, part>>}}
        BY <3>3 DEF Adds
      <4>2. keys'[p] = keys[p] \cup {<<p, part>>}
        BY <1>0, <4>1 DEF Types, TypeOK
      <4> QED BY <2>3, <3>2, <4>1, <4>2
    <3>4. CASE Deletes(p)
      BY <2>3, <3>2, <3>4 DEF Deletes
    <3>5. CASE UNCHANGED <<bucket, keys>>
      BY <2>3, <3>2, <3>5
    <3>6. CASE bucket' = bucket /\ p \in leaky'
      BY <2>3, <3>6
    <3>7. CASE Applies(p)
      <4>1. bucket' = bucket /\ pc[p] = "returned" /\ Phase(p)
        BY <1>0, <3>7 DEF Applies, Phases
      <4>2. hit[p] # p => keys[p] = {}
        BY <4>1 DEF Phase
      <4>3. hit[p] = p => Exists(p)'
        BY <1>0, <3>7, AppliedExists
      <4> QED BY <2>3, <3>2, <4>1, <4>2, <4>3
    <3> QED BY <1>0, <3>3, <3>4, <3>5, <3>6, <3>7, PutBucket
  <2> QED BY <2>2, <2>3
<1> QED BY <1>1, <1>3, <1>4, <1>5, <1>6, <1>7, PutUploaded DEF BlobsKept

(* A release deletes blobs of the filing it names, whose call has ended.   *)
LEMMA ReleaseBucket ==
    ASSUME Phases, NEW r \in Releases, ReleaseStep(r)
    PROVE  /\ bucket' \subseteq bucket
           /\ \A f \in Puts : Released(f) => Released(f)'
           /\ \A k \in bucket \ bucket' : Released(k[1]) /\ pc[k[1]] = "done"
<1>0. rel \in [Releases -> [at : {"new", "blobs", "row", "done"},
                             filing : Puts \cup {NoFiling}, keep : BOOLEAN]]
      /\ bucket \subseteq Puts \X Parts
  BY DEF Phases, Types, TypeOK
<1>1. CASE ReleaseReads(r)
  <2>1. PICK f \in Puts : rel'[r].filing = f /\ \A s \in Releases \ {r} : rel'[s] = rel[s]
    BY <1>0, <1>1 DEF ReleaseReads
  <2>2. rel[r].filing \notin Puts
    BY <1>1, DocumentConstants DEF ReleaseReads, Phases, RowPhases
  <2>3. bucket' = bucket
    BY <1>1 DEF ReleaseReads, store
  <2> QED BY <2>1, <2>2, <2>3 DEF Released
<1>2. CASE ~ReleaseReads(r)
  <2>1. PICK l \in {"row", "done"} : rel[r].at # "new" /\ At(r, l)
    BY <1>2 DEF ReleaseStep, ReleaseBlobs, ReleaseBlobsFails, ReleaseRow, ReleaseCrash
  <2>2. \A s \in Releases : rel'[s].filing = rel[s].filing
    BY <1>0, <2>1 DEF At
  <2>3. rel[r].filing \in Puts /\ pc[rel[r].filing] = "done"
    BY <2>1 DEF Phases, RowPhases
  <2>4. \A k \in bucket \ bucket' : k[1] = rel[r].filing
    BY <1>2 DEF ReleaseStep, ReleaseBlobs, ReleaseBlobsFails, ReleaseRow, ReleaseCrash, store, Blobs
  <2>5. bucket' \subseteq bucket
    BY ReleaseFrame DEF Phases
  <2> QED BY <2>2, <2>3, <2>4, <2>5 DEF Released
<1> QED BY <1>1, <1>2

LEMMA ReleaseBlobsNext ==
    ASSUME BlobsKept, NEW r \in Releases, ReleaseStep(r) PROVE BlobsKept'
<1>0. /\ Phases /\ Types /\ UNCHANGED <<req, putVars, leaky>> /\ bucket' \subseteq bucket
      /\ UNCHANGED rows \/ ReleaseRow(r)
  BY ReleaseFrame DEF BlobsKept, Phases
<1>1. Phases'
  BY PhasesNext DEF Next, BlobsKept
<1>2. /\ \A f \in Puts : Released(f) => Released(f)'
      /\ \A k \in bucket \ bucket' : Released(k[1]) /\ pc[k[1]] = "done"
  BY <1>0, ReleaseBucket
<1>3. ASSUME NEW q \in Puts PROVE Uploaded(q)'
  <2>0. pc' = pc /\ hit' = hit /\ req' = req /\ Uploaded(q)
    BY <1>0 DEF putVars, BlobsKept
  <2>1. CASE pc[q] = "done"
    BY <2>0, <2>1 DEF Uploaded
  <2>2. CASE pc[q] # "done"
    <3>1. \A parts : Blobs(q, parts) \subseteq bucket => Blobs(q, parts) \subseteq bucket'
      BY <1>2, <2>2 DEF Blobs
    <3>2. <<q, "primary">> \in bucket => <<q, "primary">> \in bucket'
      BY <1>2, <2>2
    <3> QED BY <2>0, <3>1, <3>2 DEF Uploaded
  <2> QED BY <2>1, <2>2
<1>4. Stored'
  BY <1>0 DEF BlobsKept, Stored, Blobs
<1>5. ReleasedGone'
  <2> SUFFICES ASSUME NEW s \in Releases, rel'[s].at = "row", NEW k \in bucket'
               PROVE  k[1] # rel'[s].filing
    BY DEF ReleasedGone
  <2>0. rel \in [Releases -> [at : {"new", "blobs", "row", "done"},
                               filing : Puts \cup {NoFiling}, keep : BOOLEAN]]
    BY <1>0 DEF Types, TypeOK
  <2>1. CASE rel'[s] = rel[s]
    BY <1>0, <2>1 DEF BlobsKept, ReleasedGone
  <2>2. CASE rel'[s] # rel[s]
    <3>1. ReleaseBlobs(r) /\ s = r
      BY <2>0, <2>2 DEF ReleaseStep, ReleaseReads, ReleaseBlobs, ReleaseBlobsFails, ReleaseRow,
           ReleaseCrash, At
    <3>2. bucket' = bucket \ Blobs(rel[r].filing, req[rel[r].filing].parts)
          /\ rel'[r].filing = rel[r].filing
      BY <2>0, <3>1 DEF ReleaseBlobs, At
    <3>3. k \in Blobs(k[1], req[k[1]].parts)
      BY <1>0 DEF BlobsKept, Stored
    <3> QED BY <3>1, <3>2, <3>3
  <2> QED BY <2>1, <2>2
<1>6. \A f \in Puts : Exists(f)' => Exists(f)
  BY <1>0, ReleasedRow DEF Exists
<1>7. RowsHaveBlobs'
  <2> SUFFICES ASSUME NEW f \in Puts, Exists(f)', ~Released(f)'
               PROVE  Blobs(f, req[f].parts) \subseteq bucket'
    BY <1>0 DEF RowsHaveBlobs, Blobs
  <2>1. Exists(f) /\ ~Released(f)
    BY <1>2, <1>6
  <2>2. Blobs(f, req[f].parts) \subseteq bucket
    BY <2>1 DEF BlobsKept, RowsHaveBlobs
  <2> QED BY <1>2, <2>1, <2>2 DEF Blobs
<1>8. OrphansAreLeaks'
  <2> SUFFICES ASSUME NEW k \in bucket'
               PROVE  Exists(k[1])' \/ k \in keys[k[1]] \/ k[1] \in leaky
    BY <1>0 DEF OrphansAreLeaks, putVars
  <2>0. k \in bucket /\ k[1] \in Puts
    BY <1>0 DEF Types, TypeOK
  <2>1. CASE rows' = rows
    BY <2>0, <2>1 DEF BlobsKept, OrphansAreLeaks, Exists
  <2>2. CASE rows' # rows
    <3>1. ReleaseRow(r)
      BY <1>0, <2>2
    <3>2. k[1] # rel[r].filing
      BY <1>0, <2>0, <2>2, <3>1, ReleasedRow DEF BlobsKept, ReleasedGone
    <3>3. Exists(k[1]) => Exists(k[1])'
      BY <1>0, <2>0, <2>2, <3>1, <3>2, ReleasedRow
    <3> QED BY <2>0, <3>3 DEF BlobsKept, OrphansAreLeaks
  <2> QED BY <2>1, <2>2
<1> QED BY <1>1, <1>3, <1>4, <1>5, <1>7, <1>8 DEF BlobsKept

LEMMA BlobsNext == BlobsKept /\ [Next]_vars => BlobsKept'
<1> SUFFICES ASSUME BlobsKept, [Next]_vars PROVE BlobsKept'
  OBVIOUS
<1>1. Phases'
  BY PhasesNext DEF BlobsKept
<1>2. ASSUME UNCHANGED <<bucket, rows, putVars, req, rel, leaky>> PROVE BlobsKept'
  BY <1>1, <1>2 DEF BlobsKept, putVars, Uploaded, Stored, ReleasedGone, RowsHaveBlobs,
       OrphansAreLeaks, Exists, Released, Blobs
<1>3. ASSUME NEW f \in Puts, AttachExtractedText(f) PROVE BlobsKept'
  BY <1>2, <1>3 DEF AttachExtractedText, NoFault
<1>4. CASE UNCHANGED vars
  BY <1>2, <1>4 DEF vars, store, envVars
<1> QED BY <1>3, <1>4, PutBlobsNext, ReleaseBlobsNext DEF Next

(* Every blob that a committed filing names is in the object store until   *)
(* an operator releases the filing: the blobs are up before the row is     *)
(* committed, and a call deletes only keys of its own manifest.            *)
THEOREM CommittedRowsKeepBlobs == Spec => []RowsHaveBlobs
<1>1. BlobsKept => RowsHaveBlobs
  BY DEF BlobsKept
<1> QED BY <1>1, BlobsInit, BlobsNext, PTL DEF Spec

(* A blob without a filing and without a running call that tracks it was   *)
(* left by a call that died, failed to delete or was never released: the   *)
(* cleanup of put_filing and the order of `aslan doc release` miss none.   *)
THEOREM OnlyLeaksOrphan == Spec => []OrphansAreLeaks
<1>1. BlobsKept => OrphansAreLeaks
  BY DEF BlobsKept
<1> QED BY <1>1, BlobsInit, BlobsNext, PTL DEF Spec

-----------------------------------------------------------------------------
(* Rows: the row locks keep what a call has read and written true until it *)
(* ends, and the bytes of two rows differ.                                 *)
Sha(f) == req[f].sha

LocksExclude ==
    \A p, q \in Puts : p # q =>
        /\ pre[p] \in Puts => pre[p] \notin {pre[q], hit[q]}
        /\ hit[p] \in Puts => hit[q] # hit[p]

InHand(p) ==
    /\ pre[p] \in Puts => Exists(pre[p]) /\ Sha(pre[p]) = Sha(p)
    /\ hit[p] \in Puts \ {p} => Sha(hit[p]) = Sha(p) /\ draft[p] = WithAlias(hit[p], p)
    /\ hit[p] = p => SameBytes(p) = {} /\ NoPendingTwin(p)

ShaUnique == \A f, g \in Puts : Exists(f) /\ Exists(g) /\ Sha(f) = Sha(g) => f = g

RowsLocked == Phases /\ LocksExclude /\ (\A p \in Puts : InHand(p)) /\ ShaUnique

LEMMA RowsInit == Init => RowsLocked
<1> SUFFICES ASSUME Init PROVE RowsLocked
  OBVIOUS
<1>1. \A p \in Puts : pre[p] = NoFiling /\ hit[p] = NoFiling /\ ~Exists(p)
  BY DEF Init, Exists
<1>2. LocksExclude /\ (\A p \in Puts : InHand(p)) /\ ShaUnique
  BY <1>1, DocumentConstants DEF LocksExclude, InHand, ShaUnique
<1> QED BY <1>2, PhasesInit DEF RowsLocked

LEMMA PreChanges ==
    ASSUME Types, NEW p \in Puts, PutStep(p) \/ PutFault(p)
    PROVE  \/ pre'[p] = pre[p]
           \/ pre'[p] = NoFiling
           \/ /\ pre'[p] \in SameBytes(p) /\ FreeForUpdate(p, pre'[p]) /\ pc[p] = "pre"
              /\ UNCHANGED <<rows, hit, draft>>
<1> USE DEF store, Types, TypeOK
<1>1. CASE PutStep(p)
  BY <1>1 DEF PutStep, Refuse, UploadPrimary, TakeLock, FindPrior, UploadXbrl, CapturePre,
       UpsertExisting, UpsertNew, CleanDuplicate, PersistAttachments, Record, Raised, Commit,
       ReleaseResult, EndTransaction
<1>2. CASE PutFault(p)
  BY <1>2 DEF PutFault, UploadPrimaryFails, UploadXbrlFails, CleanDuplicateFails,
       PersistAttachmentsFails, StatementFails, RaisedUndeleted, CommitFails,
       ReleaseResultFails, Crash, EndTransaction
<1> QED BY <1>1, <1>2

(* The two ways to upsert, in terms of what is locked.                     *)
LEMMA UpsertFacts ==
    ASSUME Phases, NEW p \in Puts, PutStep(p) \/ PutFault(p),
           hit'[p] \in Puts, hit'[p] # hit[p]
    PROVE  /\ pc[p] = "upsert" /\ NoPendingTwin(p)
           /\ UNCHANGED <<rows, pre, prior, op>> /\ hit' = [hit EXCEPT ![p] = hit'[p]]
           /\ \/ /\ hit'[p] # p /\ hit'[p] \in SameBytes(p) /\ FreeForNoKeyUpdate(p, hit'[p])
                 /\ draft'[p] = WithAlias(hit'[p], p)
              \/ /\ hit'[p] = p /\ SameBytes(p) = {} /\ draft'[p] = NewRow(p)
                 /\ Previous(p) = NoFiling \/ Exists(Previous(p))
<1>0. /\ Types /\ hit \in [Puts -> Puts \cup {NoFiling}] /\ draft \in [Puts -> Row]
      /\ NoFiling \notin Puts
  BY DocumentConstants DEF Phases, Types, TypeOK
<1>1. UpsertExisting(p) \/ UpsertNew(p)
  BY <1>0, HitChanges
<1>2. CASE UpsertExisting(p)
  <2>1. PICK f \in SameBytes(p) : /\ FreeForNoKeyUpdate(p, f)
                                  /\ hit' = [hit EXCEPT ![p] = f]
                                  /\ draft' = [draft EXCEPT ![p] = WithAlias(f, p)]
    BY <1>2 DEF UpsertExisting
  <2>2. hit'[p] = f /\ draft'[p] = WithAlias(f, p)
    BY <1>0, <2>1
  <2>3. f # p
    BY <1>2, <2>1 DEF UpsertExisting, Phases, RowPhases, SameBytes
  <2>4. pc[p] = "upsert" /\ NoPendingTwin(p) /\ UNCHANGED <<rows, pre, prior, op>>
    BY <1>2 DEF UpsertExisting, store
  <2> QED BY <2>1, <2>2, <2>3, <2>4
<1>3. CASE UpsertNew(p)
  BY <1>0, <1>3 DEF UpsertNew, store
<1> QED BY <1>1, <1>2, <1>3

LEMMA PutLocks ==
    ASSUME RowsLocked, NEW p \in Puts, PutStep(p) \/ PutFault(p) PROVE LocksExclude'
<1>0. Phases /\ Types /\ OthersStay(p) /\ pc[p] # "done" /\ NoFiling \notin Puts
  BY PutOthers, PutNotDone, DocumentConstants DEF RowsLocked, Phases
<1>1. \A q \in Puts : q # p => pre[q] # p /\ hit[q] # p
  BY <1>0 DEF RowsLocked, InHand, Phases, RowPhases
<1>2. ASSUME NEW q \in Puts, q # p
      PROVE  /\ pre'[p] \in Puts => pre'[p] \notin {pre[q], hit[q]}
             /\ pre[q] \in Puts => pre[q] \notin {pre'[p], hit'[p]}
             /\ hit'[p] \in Puts => hit[q] # hit'[p]
  <2>1. pre'[p] \in Puts => pre'[p] \notin {pre[q], hit[q]}
    <3>1. CASE pre'[p] = pre[p]
      BY <1>2, <3>1 DEF RowsLocked, LocksExclude
    <3>2. CASE pre'[p] # pre[p] /\ pre'[p] # NoFiling
      BY <1>0, <1>2, <3>2, PreChanges DEF FreeForUpdate, FreeForNoKeyUpdate
    <3> QED BY <1>0, <3>1, <3>2
  <2>2. /\ hit'[p] \in Puts => hit[q] # hit'[p]
        /\ pre[q] \in Puts => pre[q] # hit'[p]
    <3>1. CASE hit'[p] = hit[p] \/ hit'[p] = NoFiling
      BY <1>0, <1>2, <3>1 DEF RowsLocked, LocksExclude
    <3>2. CASE hit'[p] # hit[p] /\ hit'[p] # NoFiling
      <4>1. hit'[p] \in Puts
        BY <1>0, <3>2, TypesNext DEF Next, Types, TypeOK
      <4>2. hit'[p] = p \/ FreeForNoKeyUpdate(p, hit'[p])
        BY <1>0, <3>2, <4>1, UpsertFacts
      <4> QED BY <1>1, <1>2, <4>2 DEF FreeForNoKeyUpdate
    <3> QED BY <3>1, <3>2
  <2>3. pre[q] \in Puts => pre[q] # pre'[p]
    BY <2>1
  <2> QED BY <2>1, <2>2, <2>3
<1>3. \A q \in Puts : q # p => pre'[q] = pre[q] /\ hit'[q] = hit[q]
  BY <1>0 DEF OthersStay
<1>4. ASSUME NEW q \in Puts, NEW s \in Puts, q # s
      PROVE  /\ pre'[q] \in Puts => pre'[q] \notin {pre'[s], hit'[s]}
             /\ hit'[q] \in Puts => hit'[s] # hit'[q]
  <2>1. CASE q = p
    BY <1>2, <1>3, <1>4, <2>1
  <2>2. CASE s = p
    BY <1>2, <1>3, <1>4, <2>2
  <2>3. CASE q # p /\ s # p
    BY <1>3, <1>4, <2>3 DEF RowsLocked, LocksExclude
  <2> QED BY <2>1, <2>2, <2>3
<1> QED BY <1>4 DEF LocksExclude

(* A commit changes the one row its call has locked.                       *)
LEMMA PutRows ==
    ASSUME RowsLocked, NEW p \in Puts, PutStep(p) \/ PutFault(p)
    PROVE  /\ \A f \in Puts : Exists(f) => Exists(f)'
           /\ \A f \in Puts : Exists(f)' /\ ~Exists(f) => f = p /\ hit[p] = p /\ Applies(p)
           /\ \A q \in Puts \ {p} : hit[q] \in Puts => rows'[hit[q]] = rows[hit[q]]
           /\ \A q \in Puts \ {p} : pre[q] \in Puts => rows'[pre[q]] = rows[pre[q]]
<1>0. Phases /\ (UNCHANGED rows \/ Applies(p)) /\ NoFiling \notin Puts
  BY PutFrame, DocumentConstants DEF RowsLocked, Phases
<1>1. CASE UNCHANGED rows
  BY <1>1 DEF Exists
<1>2. CASE Applies(p)
  <2>1. /\ hit[p] \in Puts
        /\ \A f \in Puts \ {hit[p]} : rows'[f] = rows[f]
        /\ \A f \in Puts : Exists(f)' <=> Exists(f) \/ f = hit[p]
    BY <1>0, <1>2, AppliedExists
  <2>2. hit[p] # p => Exists(hit[p])
    BY <1>0, <2>1 DEF Phases, RowPhases
  <2> QED BY <1>2, <2>1, <2>2 DEF RowsLocked, LocksExclude
<1> QED BY <1>0, <1>1, <1>2

LEMMA PutInHand ==
    ASSUME RowsLocked, NEW p \in Puts, PutStep(p) \/ PutFault(p), NEW q \in Puts
    PROVE  InHand(q)'
<1>0. /\ Phases /\ Types /\ OthersStay(p) /\ req' = req /\ NoFiling \notin Puts
      /\ UNCHANGED rows \/ Applies(p)
  BY PutFrame, PutOthers, DocumentConstants DEF RowsLocked, Phases
<1>1. /\ \A f \in Puts : Exists(f) => Exists(f)'
      /\ \A f \in Puts : Exists(f)' /\ ~Exists(f) => f = p /\ hit[p] = p /\ Applies(p)
  BY PutRows
<1>2. pre'[q] \in Puts => Exists(pre[q])' /\ Sha(pre'[q]) = Sha(q)
  <2>1. CASE pre'[q] = pre[q]
    BY <1>1, <2>1 DEF RowsLocked, InHand, Exists
  <2>2. CASE pre'[q] # pre[q]
    <3>1. q = p
      BY <1>0, <2>2 DEF OthersStay
    <3> QED BY <1>0, <2>2, <3>1, PreChanges DEF SameBytes, Exists, Sha
  <2> QED BY <2>1, <2>2
<1>3. hit'[q] \in Puts \ {q} => Sha(hit'[q]) = Sha(q) /\ draft'[q] = WithAlias(hit[q], q)'
  <2> SUFFICES ASSUME hit'[q] \in Puts \ {q}
               PROVE  Sha(hit'[q]) = Sha(q) /\ draft'[q] = WithAlias(hit[q], q)'
    OBVIOUS
  <2>1. CASE q # p
    <3>1. hit'[q] = hit[q] /\ draft'[q] = draft[q]
      BY <1>0, <2>1 DEF OthersStay
    <3>2. rows'[hit[q]] = rows[hit[q]]
      BY <2>1, <3>1, PutRows
    <3>3. WithAlias(hit[q], q)' = WithAlias(hit[q], q)
      BY <1>0, <3>1, <3>2 DEF WithAlias, Ref
    <3> QED BY <3>1, <3>3 DEF RowsLocked, InHand
  <2>2. CASE q = p /\ hit'[q] # hit[q]
    <3>1. rows' = rows /\ hit'[p] \in SameBytes(p) /\ draft'[p] = WithAlias(hit'[p], p)
      BY <1>0, <2>2, UpsertFacts
    <3>2. WithAlias(hit[p], p)' = WithAlias(hit'[p], p)
      BY <1>0, <3>1 DEF WithAlias, Ref
    <3> QED BY <2>2, <3>1, <3>2 DEF SameBytes, Sha
  <2>3. CASE q = p /\ hit'[q] = hit[q]
    <3>1. hit'[p] # NoFiling /\ ~UpsertExisting(p)
      BY <1>0, <2>3 DEF UpsertExisting, Phases, Phase
    <3>2. draft'[p] = draft[p]
      BY <1>0, <2>3, <3>1, HitChanges
    <3>3. rows' = rows
      BY <1>0, <3>1 DEF Applies, EndTransaction, Types, TypeOK
    <3>4. WithAlias(hit[q], q)' = WithAlias(hit[q], q)
      BY <1>0, <2>3, <3>3 DEF WithAlias, Ref
    <3> QED BY <2>3, <3>2, <3>4 DEF RowsLocked, InHand
  <2> QED BY <2>1, <2>2, <2>3
<1>4. hit'[q] = q => SameBytes(q)' = {} /\ NoPendingTwin(q)'
  <2> SUFFICES ASSUME hit'[q] = q PROVE SameBytes(q)' = {} /\ NoPendingTwin(q)'
    OBVIOUS
  <2>1. CASE q # p
    <3>1. hit[q] = q /\ SameBytes(q) = {} /\ NoPendingTwin(q)
      BY <1>0, <2>1 DEF OthersStay, RowsLocked, InHand
    <3>2. SameBytes(q)' = {}
      BY <1>0, <1>1, <2>1, <3>1 DEF SameBytes, NoPendingTwin
    <3>3. ASSUME NEW s \in Puts \ {q}, hit'[s] = s PROVE Sha(s) # Sha(q)
      <4>1. CASE hit[s] = s
        BY <3>1, <4>1 DEF NoPendingTwin, Sha
      <4>2. CASE hit[s] # s
        <5>1. s = p /\ NoPendingTwin(p)
          BY <1>0, <3>3, <4>2, UpsertFacts DEF OthersStay
        <5> QED BY <2>1, <3>1, <5>1 DEF NoPendingTwin, Sha
      <4> QED BY <4>1, <4>2
    <3> QED BY <1>0, <3>2, <3>3 DEF NoPendingTwin, Sha
  <2>2. CASE q = p
    <3>1. rows' = rows
      BY <1>0, <2>2 DEF Applies, EndTransaction, Types, TypeOK
    <3>2. SameBytes(p) = {} /\ NoPendingTwin(p)
      BY <1>0, <2>2, UpsertFacts DEF RowsLocked, InHand
    <3>3. \A s \in Puts \ {p} : hit'[s] = hit[s]
      BY <1>0 DEF OthersStay
    <3> QED BY <1>0, <2>2, <3>1, <3>2, <3>3 DEF SameBytes, NoPendingTwin, Exists
  <2> QED BY <2>1, <2>2
<1> QED BY <1>0, <1>2, <1>3, <1>4 DEF InHand, Sha

LEMMA RowsNext == RowsLocked /\ [Next]_vars => RowsLocked'
<1> SUFFICES ASSUME RowsLocked, [Next]_vars PROVE RowsLocked'
  OBVIOUS
<1>0. Phases /\ Phases' /\ Types /\ NoFiling \notin Puts
  BY PhasesNext, DocumentConstants DEF RowsLocked, Phases
<1>1. ASSUME NEW p \in Puts, PutStep(p) \/ PutFault(p) PROVE RowsLocked'
  <2>1. req' = req /\ ShaUnique
    BY <1>0, <1>1, PutFrame DEF RowsLocked
  <2>2. \A f \in Puts : Exists(f)' /\ ~Exists(f) => f = p /\ SameBytes(p) = {}
    BY <1>1, PutRows DEF RowsLocked, InHand
  <2>3. ShaUnique'
    BY <2>1, <2>2 DEF ShaUnique, Sha, SameBytes
  <2> QED BY <1>0, <1>1, <2>3, PutLocks, PutInHand DEF RowsLocked
<1>2. ASSUME UNCHANGED <<rows, req, putVars>> PROVE RowsLocked'
  BY <1>0, <1>2 DEF RowsLocked, LocksExclude, InHand, ShaUnique, Sha, Exists, SameBytes,
       NoPendingTwin, WithAlias, Ref, putVars
<1>3. ASSUME NEW r \in Releases, ReleaseStep(r), rows' # rows PROVE RowsLocked'
  <2>1. UNCHANGED <<req, putVars>> /\ ReleaseRow(r)
    BY <1>0, <1>3, ReleaseFrame
  <2>2. /\ \A q \in Puts : rel[r].filing \notin {pre[q], hit[q]}
        /\ \A f \in Puts : Exists(f)' <=> Exists(f) /\ f # rel[r].filing
        /\ \A f \in Puts : Exists(f)' => rows'[f] = rows[f]
    BY <1>0, <1>3, <2>1, ReleasedRow
  <2>3. LocksExclude' /\ ShaUnique'
    BY <2>1, <2>2 DEF RowsLocked, LocksExclude, ShaUnique, Sha, putVars
  <2>4. ASSUME NEW q \in Puts PROVE InHand(q)'
    <3>0. pre' = pre /\ hit' = hit /\ draft' = draft /\ InHand(q)
      BY <2>1 DEF putVars, RowsLocked
    <3>1. pre[q] \in Puts => Exists(pre[q])' /\ Sha(pre[q])' = Sha(q)'
      BY <2>1, <2>2, <3>0 DEF InHand, Sha, Exists
    <3>2. hit[q] \in Puts \ {q} => Sha(hit[q])' = Sha(q)' /\ draft[q] = WithAlias(hit[q], q)'
      <4>1. hit[q] \in Puts \ {q} => rows'[hit[q]] = rows[hit[q]]
        BY <1>0, <2>2 DEF Phases, RowPhases
      <4> QED BY <2>1, <3>0, <4>1 DEF InHand, Sha, WithAlias, Ref
    <3>3. hit[q] = q => SameBytes(q)' = {} /\ NoPendingTwin(q)'
      BY <2>1, <2>2, <3>0 DEF InHand, SameBytes, NoPendingTwin
    <3> QED BY <3>0, <3>1, <3>2, <3>3 DEF InHand
  <2> QED BY <1>0, <2>3, <2>4 DEF RowsLocked
<1>4. ASSUME NEW r \in Releases, ReleaseStep(r) PROVE RowsLocked'
  BY <1>0, <1>2, <1>3, <1>4, ReleaseFrame
<1>5. ASSUME NEW f \in Puts, AttachExtractedText(f) PROVE RowsLocked'
  BY <1>2, <1>5 DEF AttachExtractedText
<1>6. CASE UNCHANGED vars
  BY <1>2, <1>6 DEF vars, store, envVars
<1> QED BY <1>1, <1>4, <1>5, <1>6 DEF Next

-----------------------------------------------------------------------------
(* Chains: the advisory lock of a reference leaves its chain to one call,  *)
(* so what FindPrior read is still the newest revision when the row is     *)
(* written, unless a release took it away.                                 *)
Locked(p) == HoldsRef(p) /\ pc[p] # "raised"

RefsExclude ==
    \A p, q \in Puts : p # q /\ Locked(p) /\ Locked(q) => Ref(p) # Ref(q)

ReleasedRef(p) == \E h \in Puts : Released(h) /\ Ref(h) = Ref(p)

PriorHolds(p) ==
    pc[p] \in {"xbrl", "pre", "upsert"} =>
        /\ prior[p] = NoFiling => Revisions(Ref(p)) = {}
        /\ prior[p] \in Puts =>
              /\ Ref(prior[p]) = Ref(p) /\ (Exists(prior[p]) \/ Released(prior[p]))
              /\ Exists(prior[p]) =>
                    \A g \in Revisions(Ref(p)) : rows[g].rev <= rows[prior[p]].rev

DraftFollows(p) ==
    hit[p] = p /\ pc[p] # "raised" =>
        /\ \A g \in Revisions(Ref(p)) : rows[g].rev < draft[p].rev
        /\ draft[p].prev \in Puts =>
              /\ Exists(draft[p].prev) /\ Ref(draft[p].prev) = Ref(p)
              /\ draft[p].rev = rows[draft[p].prev].rev + 1
        /\ draft[p].prev = NoFiling /\ draft[p].rev > 1 => ReleasedRef(p)

(* The foreign key of previous_filing_id.                                  *)
PreviousExists == \A g \in Puts : Exists(g) /\ rows[g].prev \in Puts => Exists(rows[g].prev)

Chains ==
    /\ RowsLocked /\ RefsExclude /\ PreviousExists /\ ChainIsLinear
    /\ \A p \in Puts : PriorHolds(p) /\ DraftFollows(p)

LEMMA ChainsInit == Init => Chains
<1> SUFFICES ASSUME Init PROVE Chains
  OBVIOUS
<1>1. \A p \in Puts : pc[p] = "new" /\ hit[p] = NoFiling /\ ~Exists(p)
  BY DEF Init, Exists
<1>2. RefsExclude /\ PreviousExists /\ ChainIsLinear
  BY <1>1 DEF RefsExclude, PreviousExists, ChainIsLinear, Locked, HoldsRef
<1>3. \A p \in Puts : PriorHolds(p) /\ DraftFollows(p)
  BY <1>1, DocumentConstants DEF PriorHolds, DraftFollows
<1> QED BY <1>2, <1>3, RowsInit DEF Chains

(* The lock of a reference is taken once, by TakeLock.                     *)
LEMMA PutTakesLock ==
    ASSUME Types, NEW p \in Puts, PutStep(p) \/ PutFault(p), Locked(p)', ~Locked(p)
    PROVE  TakeLock(p)
<1> USE DEF Types, TypeOK, Locked, HoldsRef, Goto, EndTransaction
<1>1. CASE PutStep(p)
  BY <1>1 DEF PutStep, Refuse, UploadPrimary, TakeLock, FindPrior, UploadXbrl, CapturePre,
       UpsertExisting, UpsertNew, CleanDuplicate, PersistAttachments, Record, Raised, Commit,
       ReleaseResult
<1>2. CASE PutFault(p)
  BY <1>2 DEF PutFault, UploadPrimaryFails, UploadXbrlFails, CleanDuplicateFails,
       PersistAttachmentsFails, StatementFails, RaisedUndeleted, CommitFails,
       ReleaseResultFails, Crash
<1> QED BY <1>1, <1>2

LEMMA PutRefs ==
    ASSUME Chains, NEW p \in Puts, PutStep(p) \/ PutFault(p) PROVE RefsExclude'
<1>0. Types /\ OthersStay(p) /\ req' = req /\ RefsExclude
  BY PutOthers, PutFrame DEF Chains, RowsLocked, Phases
<1>1. \A q \in Puts \ {p} : Locked(q)' <=> Locked(q)
  BY <1>0 DEF OthersStay, Locked, HoldsRef
<1>2. ASSUME NEW q \in Puts \ {p}, Locked(p)', Locked(q) PROVE Ref(p) # Ref(q)
  <2>1. CASE Locked(p)
    BY <1>0, <1>2, <2>1 DEF RefsExclude
  <2>2. CASE ~Locked(p)
    BY <1>0, <1>2, <2>2, PutTakesLock DEF TakeLock, Locked
  <2> QED BY <2>1, <2>2
<1> QED BY <1>0, <1>1, <1>2 DEF RefsExclude, Ref

(* What a commit does to a chain: an alias keeps the place of its row, a   *)
(* new row comes last.                                                     *)
LEMMA AliasKeeps ==
    ASSUME Types, NEW p \in Puts, NEW f \in Puts
    PROVE  WithAlias(f, p).rev = rows[f].rev /\ WithAlias(f, p).prev = rows[f].prev
<1>1. rows[f] \in Row
  BY DEF Types, TypeOK
<1> QED BY <1>1 DEF WithAlias, Row

LEMMA PutChain ==
    ASSUME Chains, NEW p \in Puts, PutStep(p) \/ PutFault(p)
    PROVE  \/ /\ \A f \in Puts : (Exists(f)' <=> Exists(f)) /\ rows'[f].rev = rows[f].rev
                                 /\ rows'[f].prev = rows[f].prev
              /\ \A ref : Revisions(ref)' = Revisions(ref)
           \/ /\ Applies(p) /\ hit[p] = p /\ ~Exists(p) /\ rows'[p] = draft[p] /\ Locked(p)
              /\ \A f \in Puts : Exists(f)' <=> Exists(f) \/ f = p
              /\ \A f \in Puts \ {p} : rows'[f] = rows[f]
              /\ \A ref : Revisions(ref)' = Revisions(ref) \cup {f \in {p} : Ref(p) = ref}
<1>0. Phases /\ Types /\ (UNCHANGED rows \/ Applies(p)) /\ req' = req /\ InHand(p) /\ pc[p] # "done"
  BY PutFrame, PutNotDone DEF Chains, RowsLocked, Phases
<1>1. CASE UNCHANGED rows
  BY <1>0, <1>1 DEF Exists, Revisions, Ref
<1>2. CASE Applies(p) /\ hit[p] # p
  <2>1. /\ hit[p] \in Puts /\ rows'[hit[p]] = draft[p]
        /\ \A f \in Puts \ {hit[p]} : rows'[f] = rows[f]
        /\ \A f \in Puts : Exists(f)' <=> Exists(f) \/ f = hit[p]
    BY <1>0, <1>2, AppliedExists
  <2>2. Exists(hit[p]) /\ draft[p] = WithAlias(hit[p], p)
    BY <1>0, <1>2, <2>1 DEF Phases, RowPhases, InHand
  <2>3. \A f \in Puts : (Exists(f)' <=> Exists(f)) /\ rows'[f].rev = rows[f].rev
                                 /\ rows'[f].prev = rows[f].prev
    BY <1>0, <2>1, <2>2, AliasKeeps
  <2> QED BY <1>0, <2>3 DEF Revisions, Ref
<1>3. CASE Applies(p) /\ hit[p] = p
  <2>1. /\ rows'[p] = draft[p] /\ \A f \in Puts \ {p} : rows'[f] = rows[f]
        /\ \A f \in Puts : Exists(f)' <=> Exists(f) \/ f = p
    BY <1>0, <1>3, AppliedExists
  <2>2. ~Exists(p)
    BY <1>0 DEF Phases, RowPhases
  <2>3. Locked(p)
    BY <1>3 DEF Applies, Locked, HoldsRef
  <2> QED BY <1>0, <1>3, <2>1, <2>2, <2>3 DEF Revisions, Ref
<1> QED BY <1>0, <1>1, <1>2, <1>3

LEMMA PriorChanges ==
    ASSUME Types, NEW p \in Puts, PutStep(p) \/ PutFault(p), pc'[p] \in {"xbrl", "pre", "upsert"}
    PROVE  \/ pc[p] \in {"xbrl", "pre", "upsert"} /\ prior'[p] = prior[p] /\ rows' = rows
           \/ pc[p] = "prior" /\ prior'[p] = FindCanonicalByRef(Ref(p)) /\ rows' = rows
<1> USE DEF store, Types, TypeOK, Goto, EndTransaction
<1>1. CASE PutStep(p)
  BY <1>1 DEF PutStep, Refuse, UploadPrimary, TakeLock, FindPrior, UploadXbrl, CapturePre,
       UpsertExisting, UpsertNew, CleanDuplicate, PersistAttachments, Record, Raised, Commit,
       ReleaseResult
<1>2. CASE PutFault(p)
  BY <1>2 DEF PutFault, UploadPrimaryFails, UploadXbrlFails, CleanDuplicateFails,
       PersistAttachmentsFails, StatementFails, RaisedUndeleted, CommitFails,
       ReleaseResultFails, Crash
<1> QED BY <1>1, <1>2

LEMMA PutPrior ==
    ASSUME Chains, NEW p \in Puts, PutStep(p) \/ PutFault(p), NEW q \in Puts
    PROVE  PriorHolds(q)'
<1>0. Types /\ Phases /\ OthersStay(p) /\ req' = req /\ rel' = rel /\ NoFiling \notin Puts
  BY PutOthers, PutFrame, DocumentConstants DEF Chains, RowsLocked, Phases
<1> SUFFICES ASSUME pc'[q] \in {"xbrl", "pre", "upsert"}
             PROVE  /\ prior'[q] = NoFiling => Revisions(Ref(q))' = {}
                    /\ prior'[q] \in Puts =>
                          /\ Ref(prior'[q]) = Ref(q)
                          /\ Exists(prior[q])' \/ Released(prior'[q])
                          /\ Exists(prior[q])' =>
                                \A g \in Revisions(Ref(q))' : rows'[g].rev <= rows'[prior'[q]].rev
  BY <1>0 DEF PriorHolds, Ref, Released
<1>1. CASE q = p
  <2>0. rows' = rows /\ Revisions(Ref(p))' = Revisions(Ref(p))
    BY <1>0, <1>1, PriorChanges DEF Revisions, Ref, Exists
  <2>1. CASE pc[p] \in {"xbrl", "pre", "upsert"} /\ prior'[p] = prior[p]
    BY <1>0, <1>1, <2>0, <2>1 DEF Chains, PriorHolds, Exists
  <2>2. CASE prior'[p] = FindCanonicalByRef(Ref(p))
    <3>1. Revisions(Ref(p)) \subseteq Puts
      BY DEF Revisions
    <3>2. CASE Revisions(Ref(p)) = {}
      BY <1>0, <1>1, <2>0, <2>2, <3>2 DEF FindCanonicalByRef
    <3>3. CASE Revisions(Ref(p)) # {}
      <4>1. /\ prior'[p] \in Revisions(Ref(p))
            /\ \A g \in Revisions(Ref(p)) : rows[g].rev <= rows[prior'[p]].rev
        BY <1>0, <2>2, <3>1, <3>3, NewestExists DEF FindCanonicalByRef
      <4>2. prior'[p] \in Puts /\ Exists(prior'[p]) /\ Ref(prior'[p]) = Ref(p)
        BY <4>1 DEF Revisions
      <4> QED BY <1>0, <1>1, <2>0, <4>1, <4>2 DEF Exists
    <3> QED BY <3>2, <3>3
  <2> QED BY <1>0, <1>1, <2>1, <2>2, PriorChanges
<1>2. CASE q # p
  <2>1. pc[q] = pc'[q] /\ prior'[q] = prior[q] /\ PriorHolds(q) /\ Locked(q)
    BY <1>0, <1>2 DEF OthersStay, Chains, Locked, HoldsRef
  <2>2. Locked(p) => Ref(p) # Ref(q)
    BY <1>2, <2>1 DEF Chains, RefsExclude
  <2>3. CASE /\ \A f \in Puts : (Exists(f)' <=> Exists(f)) /\ rows'[f].rev = rows[f].rev
                                /\ rows'[f].prev = rows[f].prev
             /\ \A ref : Revisions(ref)' = Revisions(ref)
    <3>1. Revisions(Ref(q))' = Revisions(Ref(q)) /\ Revisions(Ref(q)) \subseteq Puts
      BY <1>0, <2>3 DEF Ref, Revisions
    <3>2. prior[q] \in Puts => (Exists(prior[q])' <=> Exists(prior[q]))
      BY <2>1, <2>3 DEF Exists
    <3> QED BY <2>1, <2>3, <3>1, <3>2 DEF PriorHolds
  <2>4. CASE /\ Locked(p)
             /\ \A f \in Puts : Exists(f)' <=> Exists(f) \/ f = p
             /\ \A f \in Puts \ {p} : rows'[f] = rows[f]
             /\ \A ref : Revisions(ref)' = Revisions(ref) \cup {f \in {p} : Ref(p) = ref}
    <3>1. Revisions(Ref(q))' = Revisions(Ref(q)) /\ Revisions(Ref(q)) \subseteq Puts \ {p}
      BY <1>0, <2>2, <2>4 DEF Ref, Revisions
    <3>2. prior[q] \in Puts => prior[q] # p
      BY <2>1, <2>2, <2>4 DEF PriorHolds
    <3>3. prior[q] \in Puts => (Exists(prior[q])' <=> Exists(prior[q]))
                                /\ rows'[prior[q]] = rows[prior[q]]
      BY <2>1, <2>4, <3>2 DEF Exists
    <3> QED BY <2>1, <2>4, <3>1, <3>3 DEF PriorHolds
  <2> QED BY <2>3, <2>4, PutChain
<1> QED BY <1>1, <1>2

(* The row that UpsertNew writes comes after the chain as it is.           *)
LEMMA NewRowFollows ==
    ASSUME Chains, NEW p \in Puts, pc[p] = "upsert", SameBytes(p) = {},
           Previous(p) = NoFiling \/ Exists(Previous(p))
    PROVE  LET d == NewRow(p) IN
           /\ \A g \in Revisions(Ref(p)) : rows[g].rev < d.rev
           /\ d.prev \in Puts => /\ Exists(d.prev) /\ Ref(d.prev) = Ref(p)
                                 /\ d.rev = rows[d.prev].rev + 1
           /\ d.prev = NoFiling /\ d.rev > 1 => ReleasedRef(p)
<1>0. Types /\ PriorHolds(p) /\ NoFiling \notin Puts /\ Revisions(Ref(p)) \subseteq Puts
  BY DocumentConstants DEF Chains, RowsLocked, Phases, Revisions
<1>1. \A f \in Puts : rows[f].rev \in Nat
  BY <1>0 DEF Types, TypeOK, Row
<1>2. /\ NewRow(p).prev = Previous(p)
      /\ NewRow(p).rev = IF Revisions(Ref(p)) = {} THEN 1
                         ELSE rows[Newest(Revisions(Ref(p)))].rev + 1
  BY DEF NewRow
<1>3. Revisions(Ref(p)) # {} =>
         /\ Newest(Revisions(Ref(p))) \in Revisions(Ref(p))
         /\ \A g \in Revisions(Ref(p)) : rows[g].rev <= rows[Newest(Revisions(Ref(p)))].rev
  BY <1>0, NewestExists
<1>4. \A g \in Revisions(Ref(p)) : rows[g].rev < NewRow(p).rev
  BY <1>0, <1>1, <1>2, <1>3
<1>5. ASSUME Previous(p) \in Puts
      PROVE  /\ Exists(Previous(p)) /\ Ref(Previous(p)) = Ref(p)
             /\ NewRow(p).rev = rows[Previous(p)].rev + 1
  <2>1. prior[p] = Previous(p) /\ Exists(prior[p])
    BY <1>0, <1>5 DEF Previous
  <2>2. Ref(prior[p]) = Ref(p) /\ \A g \in Revisions(Ref(p)) : rows[g].rev <= rows[prior[p]].rev
    BY <1>0, <1>5, <2>1 DEF PriorHolds
  <2>3. prior[p] \in Revisions(Ref(p))
    BY <1>5, <2>1, <2>2 DEF Revisions
  <2>4. rows[Newest(Revisions(Ref(p)))].rev = rows[prior[p]].rev
    BY <1>0, <1>1, <1>3, <2>2, <2>3
  <2> QED BY <1>2, <2>1, <2>2, <2>3, <2>4
<1>6. ASSUME Previous(p) = NoFiling, NewRow(p).rev > 1 PROVE ReleasedRef(p)
  <2>1. Revisions(Ref(p)) # {}
    BY <1>2, <1>6
  <2>2. prior[p] \in Puts
    BY <1>0, <2>1 DEF PriorHolds, Types, TypeOK
  <2>3. req[prior[p]].sha = req[p].sha
    BY <1>0, <1>6, <2>2 DEF Previous
  <2>4. ~Exists(prior[p])
    BY <2>2, <2>3 DEF SameBytes
  <2>5. Released(prior[p]) /\ Ref(prior[p]) = Ref(p)
    BY <1>0, <2>2, <2>4 DEF PriorHolds
  <2> QED BY <2>2, <2>5 DEF ReleasedRef
<1> QED BY <1>2, <1>4, <1>5, <1>6

LEMMA PutDraft ==
    ASSUME Chains, NEW p \in Puts, PutStep(p) \/ PutFault(p), NEW q \in Puts
    PROVE  DraftFollows(q)'
<1>0. Types /\ Phases /\ OthersStay(p) /\ req' = req /\ rel' = rel /\ NoFiling \notin Puts
      /\ (UNCHANGED rows \/ Applies(p))
  BY PutOthers, PutFrame, DocumentConstants DEF Chains, RowsLocked, Phases
<1>a. ReleasedRef(q)' <=> ReleasedRef(q)
  BY <1>0 DEF ReleasedRef, Released, Ref
<1> SUFFICES ASSUME hit'[q] = q, pc'[q] # "raised"
             PROVE  /\ \A g \in Revisions(Ref(q))' : rows'[g].rev < draft'[q].rev
                    /\ draft'[q].prev \in Puts =>
                          /\ Exists(draft[q].prev)' /\ Ref(draft'[q].prev) = Ref(q)
                          /\ draft'[q].rev = rows'[draft'[q].prev].rev + 1
                    /\ draft'[q].prev = NoFiling /\ draft'[q].rev > 1 => ReleasedRef(q)
  BY <1>0, <1>a DEF DraftFollows, Ref
<1>1. CASE q = p
  <2>0. rows' = rows
    BY <1>0, <1>1 DEF Applies, EndTransaction, Types, TypeOK
  <2>1. Revisions(Ref(p))' = Revisions(Ref(p))
    BY <1>0, <2>0 DEF Revisions, Ref, Exists
  <2>2. CASE hit[p] # p
    <3>1. /\ pc[p] = "upsert" /\ SameBytes(p) = {} /\ draft'[p] = NewRow(p)
          /\ Previous(p) = NoFiling \/ Exists(Previous(p))
      BY <1>0, <1>1, <2>2, UpsertFacts
    <3> QED BY <1>1, <2>0, <2>1, <3>1, NewRowFollows DEF Exists
  <2>3. CASE hit[p] = p
    <3>1. draft'[p] = draft[p]
      BY <1>0, <1>1, <2>3, HitChanges DEF UpsertExisting, UpsertNew, Phases, Phase
    <3>2. pc[p] # "raised"
      BY <1>0, <1>1 DEF PutStep, PutFault, Refuse, UploadPrimary, TakeLock, FindPrior,
           UploadXbrl, CapturePre, UpsertExisting, UpsertNew, CleanDuplicate, PersistAttachments,
           Record, Raised, Commit, ReleaseResult, UploadPrimaryFails, UploadXbrlFails,
           CleanDuplicateFails, PersistAttachmentsFails, StatementFails, RaisedUndeleted,
           CommitFails, ReleaseResultFails, Crash, EndTransaction, Types, TypeOK
    <3> QED BY <1>1, <2>0, <2>1, <2>3, <3>1, <3>2 DEF Chains, DraftFollows, Exists
  <2> QED BY <2>2, <2>3
<1>2. CASE q # p
  <2>1. /\ hit[q] = q /\ pc'[q] = pc[q] /\ draft'[q] = draft[q] /\ DraftFollows(q)
        /\ Revisions(Ref(q)) \subseteq Puts
    BY <1>0, <1>2 DEF OthersStay, Chains, Revisions
  <2>2. Locked(q)
    <3>1. pc[q] \in {"clean", "attach", "record", "returned", "raised"}
      BY <1>0, <2>1 DEF Phases, Phase
    <3> QED BY <2>1, <3>1 DEF Locked, HoldsRef
  <2>3. Locked(p) => Ref(p) # Ref(q)
    BY <1>2, <2>2 DEF Chains, RefsExclude
  <2>4. CASE /\ \A f \in Puts : (Exists(f)' <=> Exists(f)) /\ rows'[f].rev = rows[f].rev
                                /\ rows'[f].prev = rows[f].prev
             /\ \A ref : Revisions(ref)' = Revisions(ref)
    <3>1. Revisions(Ref(q))' = Revisions(Ref(q))
      BY <1>0, <2>4 DEF Ref
    <3>2. draft[q].prev \in Puts => (Exists(draft[q].prev)' <=> Exists(draft[q].prev))
      BY <2>1, <2>4 DEF Exists
    <3> QED BY <2>1, <2>4, <3>1, <3>2 DEF DraftFollows
  <2>5. CASE /\ Locked(p) /\ ~Exists(p)
             /\ \A f \in Puts : Exists(f)' <=> Exists(f) \/ f = p
             /\ \A f \in Puts \ {p} : rows'[f] = rows[f]
             /\ \A ref : Revisions(ref)' = Revisions(ref) \cup {f \in {p} : Ref(p) = ref}
    <3>1. Revisions(Ref(q))' = Revisions(Ref(q)) /\ Revisions(Ref(q)) \subseteq Puts \ {p}
      BY <1>0, <2>3, <2>5 DEF Ref, Revisions
    <3>2. draft[q].prev \in Puts => draft[q].prev # p
      BY <2>1, <2>5 DEF DraftFollows
    <3>3. draft[q].prev \in Puts => (Exists(draft[q].prev)' <=> Exists(draft[q].prev))
                                     /\ rows'[draft[q].prev] = rows[draft[q].prev]
      BY <2>1, <2>5, <3>2 DEF Exists
    <3> QED BY <2>1, <2>5, <3>1, <3>3 DEF DraftFollows
  <2> QED BY <2>4, <2>5, PutChain
<1> QED BY <1>1, <1>2

LEMMA PutLinear ==
    ASSUME Chains, NEW p \in Puts, PutStep(p) \/ PutFault(p)
    PROVE  PreviousExists' /\ ChainIsLinear'
<1>0. Types /\ Phases /\ req' = req /\ rel' = rel /\ NoFiling \notin Puts
  BY PutFrame, DocumentConstants DEF Chains, RowsLocked, Phases
<1>1. CASE /\ \A f \in Puts : (Exists(f)' <=> Exists(f)) /\ rows'[f].rev = rows[f].rev
                              /\ rows'[f].prev = rows[f].prev
  <2>1. PreviousExists'
    BY <1>1 DEF Chains, PreviousExists, Exists
  <2>2. ChainIsLinear'
    BY <1>0, <1>1 DEF Chains, ChainIsLinear, Released, Ref
  <2> QED BY <2>1, <2>2
<1>2. CASE /\ Applies(p) /\ hit[p] = p /\ ~Exists(p) /\ rows'[p] = draft[p] /\ Locked(p)
           /\ \A f \in Puts : Exists(f)' <=> Exists(f) \/ f = p
           /\ \A f \in Puts \ {p} : rows'[f] = rows[f]
  <2>1. /\ \A g \in Revisions(Ref(p)) : rows[g].rev < draft[p].rev
        /\ draft[p].prev \in Puts =>
              /\ Exists(draft[p].prev) /\ Ref(draft[p].prev) = Ref(p)
              /\ draft[p].rev = rows[draft[p].prev].rev + 1
        /\ draft[p].prev = NoFiling /\ draft[p].rev > 1 => ReleasedRef(p)
    BY <1>2 DEF Chains, DraftFollows, Locked
  <2>2. \A g \in Puts : Exists(g) /\ rows[g].prev \in Puts => Exists(rows[g].prev)
    BY DEF Chains, PreviousExists
  <2>3. PreviousExists'
    <3> SUFFICES ASSUME NEW g \in Puts, NEW h \in Puts, Exists(g)', rows'[g].prev = h
                 PROVE  Exists(h)'
      BY <1>0 DEF PreviousExists, Exists
    <3> QED BY <1>2, <2>1, <2>2
  <2>4. ChainIsLinear'
    <3> SUFFICES ASSUME NEW f \in Puts, NEW g \in Puts, Exists(f)', Exists(g)'
                 PROVE  /\ f # g /\ Ref(f) = Ref(g) => rows'[f].rev # rows'[g].rev
                        /\ rows'[g].prev = f => /\ Ref(f) = Ref(g)
                                                /\ rows'[g].rev = rows'[f].rev + 1
                        /\ rows'[g].rev > 1 /\ rows'[g].prev = NoFiling => ReleasedRef(g)
      BY <1>0 DEF ChainIsLinear, Released, Ref, ReleasedRef
    <3>0. \A h \in Puts : rows[h].rev \in Nat /\ draft[p].rev \in Nat
      BY <1>0 DEF Types, TypeOK, Row
    <3>1. CASE f # p /\ g # p
      BY <1>2, <3>1 DEF Chains, ChainIsLinear, ReleasedRef
    <3>2. CASE f = p /\ g # p
      <4>1. Exists(g) /\ rows'[g] = rows[g] /\ rows[g].prev # p
        BY <1>2, <2>2, <3>2
      <4>2. Ref(g) = Ref(p) => rows[g].rev < draft[p].rev
        BY <2>1, <4>1 DEF Revisions
      <4>3. rows[g].rev > 1 /\ rows[g].prev = NoFiling => ReleasedRef(g)
        BY <4>1 DEF Chains, ChainIsLinear, ReleasedRef
      <4> QED BY <1>2, <3>0, <3>2, <4>1, <4>2, <4>3
    <3>3. CASE g = p /\ f # p
      <4>1. Exists(f) /\ rows'[f] = rows[f]
        BY <1>2, <3>3
      <4>2. Ref(f) = Ref(p) => rows[f].rev < draft[p].rev
        BY <2>1, <4>1 DEF Revisions
      <4> QED BY <1>2, <2>1, <3>0, <3>3, <4>1, <4>2
    <3>4. CASE g = p /\ f = p
      <4>1. draft[p].prev # p
        BY <1>2, <2>1
      <4> QED BY <1>2, <2>1, <3>4, <4>1
    <3> QED BY <3>1, <3>2, <3>3, <3>4
  <2> QED BY <2>3, <2>4
<1> QED BY <1>1, <1>2, PutChain

LEMMA ReleaseChains ==
    ASSUME Chains, NEW r \in Releases, ReleaseStep(r) PROVE Chains'
<1>0. /\ Types /\ Phases /\ UNCHANGED <<req, putVars>> /\ NoFiling \notin Puts
      /\ UNCHANGED rows \/ ReleaseRow(r)
  BY ReleaseFrame, DocumentConstants DEF Chains, RowsLocked, Phases
<1>1. RowsLocked'
  BY RowsNext DEF Next, Chains
<1>2. /\ \A f \in Puts : Released(f) => Released(f)'
      /\ \A p \in Puts : ReleasedRef(p) => ReleasedRef(p)'
  BY <1>0, ReleaseBucket DEF ReleasedRef, Ref
<1>3. RefsExclude'
  BY <1>0 DEF Chains, RefsExclude, Locked, HoldsRef, Ref, putVars
<1>4. /\ \A f \in Puts : Exists(f)' => Exists(f) /\ rows'[f] = rows[f]
      /\ \A f \in Puts : Exists(f) /\ ~Exists(f)' =>
            /\ Released(f) /\ Downstream(f) = {}
            /\ \A q \in Puts : hit[q] = q => draft[q].prev # f
  <2>1. CASE rows' = rows
    BY <2>1 DEF Exists
  <2>2. CASE rows' # rows
    BY <1>0, <2>2, ReleasedRow DEF Released
  <2> QED BY <2>1, <2>2
<1>5. PreviousExists'
  <2> SUFFICES ASSUME NEW g \in Puts, NEW h \in Puts, Exists(g)', rows'[g].prev = h
               PROVE  Exists(h)'
    BY <1>0 DEF PreviousExists, Exists
  <2>1. Exists(g) /\ rows[g].prev = h /\ Exists(h)
    BY <1>4 DEF Chains, PreviousExists
  <2>2. g \in Downstream(h)
    BY <2>1 DEF Downstream
  <2> QED BY <1>4, <2>1, <2>2
<1>6. ChainIsLinear'
  <2> SUFFICES ASSUME NEW f \in Puts, NEW g \in Puts, Exists(f)', Exists(g)'
               PROVE  /\ f # g /\ Ref(f) = Ref(g) => rows'[f].rev # rows'[g].rev
                      /\ rows'[g].prev = f => /\ Ref(f) = Ref(g)
                                              /\ rows'[g].rev = rows'[f].rev + 1
                      /\ rows'[g].rev > 1 /\ rows'[g].prev = NoFiling => ReleasedRef(g)'
    BY <1>0 DEF ChainIsLinear, Ref, ReleasedRef
  <2>1. Exists(f) /\ Exists(g) /\ rows'[f] = rows[f] /\ rows'[g] = rows[g]
    BY <1>4
  <2> QED BY <1>2, <2>1 DEF Chains, ChainIsLinear, ReleasedRef
<1>7. \A ref : Revisions(ref)' \subseteq Revisions(ref) /\ \A g \in Revisions(ref)' : rows'[g] = rows[g]
  BY <1>0, <1>4 DEF Revisions, Ref
<1>8. ASSUME NEW p \in Puts PROVE PriorHolds(p)'
  <2> SUFFICES ASSUME pc[p] \in {"xbrl", "pre", "upsert"}
               PROVE  /\ prior[p] = NoFiling => Revisions(Ref(p))' = {}
                      /\ prior[p] \in Puts =>
                            /\ Ref(prior[p]) = Ref(p)
                            /\ Exists(prior[p])' \/ Released(prior[p])'
                            /\ Exists(prior[p])' =>
                                  \A g \in Revisions(Ref(p))' : rows'[g].rev <= rows'[prior[p]].rev
    BY <1>0 DEF PriorHolds, Ref, putVars, Released
  <2>0. PriorHolds(p) /\ Ref(p)' = Ref(p) /\ prior' = prior
    BY <1>0 DEF Chains, Ref, putVars
  <2>1. Revisions(Ref(p))' \subseteq Revisions(Ref(p))
        /\ \A g \in Revisions(Ref(p))' : rows'[g] = rows[g]
    BY <1>7, <2>0
  <2>2. prior[p] \in Puts => /\ Exists(prior[p])' => Exists(prior[p]) /\ rows'[prior[p]] = rows[prior[p]]
                             /\ Exists(prior[p]) /\ ~Exists(prior[p])' => Released(prior[p])
    BY <1>4, <2>0
  <2>3. prior[p] \in Puts => (Released(prior[p]) => Released(prior[p])')
    BY <1>2, <2>0
  <2> QED BY <2>0, <2>1, <2>2, <2>3 DEF PriorHolds
<1>9. ASSUME NEW p \in Puts PROVE DraftFollows(p)'
  <2> SUFFICES ASSUME hit[p] = p, pc[p] # "raised"
               PROVE  /\ \A g \in Revisions(Ref(p))' : rows'[g].rev < draft[p].rev
                      /\ draft[p].prev \in Puts =>
                            /\ Exists(draft[p].prev)' /\ Ref(draft[p].prev) = Ref(p)
                            /\ draft[p].rev = rows'[draft[p].prev].rev + 1
                      /\ draft[p].prev = NoFiling /\ draft[p].rev > 1 => ReleasedRef(p)'
    BY <1>0 DEF DraftFollows, Ref, putVars
  <2>0. DraftFollows(p) /\ Ref(p)' = Ref(p) /\ draft' = draft
    BY <1>0 DEF Chains, Ref, putVars
  <2>1. Revisions(Ref(p))' \subseteq Revisions(Ref(p))
        /\ \A g \in Revisions(Ref(p))' : rows'[g] = rows[g]
    BY <1>7, <2>0
  <2>2. draft[p].prev \in Puts /\ Exists(draft[p].prev) =>
           Exists(draft[p].prev)' /\ rows'[draft[p].prev] = rows[draft[p].prev]
    BY <1>4, <2>0
  <2> QED BY <1>2, <2>0, <2>1, <2>2 DEF DraftFollows
<1> QED BY <1>1, <1>3, <1>5, <1>6, <1>8, <1>9 DEF Chains

LEMMA ChainsNext == Chains /\ [Next]_vars => Chains'
<1> SUFFICES ASSUME Chains, [Next]_vars PROVE Chains'
  OBVIOUS
<1>0. RowsLocked'
  BY RowsNext DEF Chains
<1>1. ASSUME NEW p \in Puts, PutStep(p) \/ PutFault(p) PROVE Chains'
  BY <1>0, <1>1, PutRefs, PutPrior, PutDraft, PutLinear DEF Chains
<1>2. ASSUME UNCHANGED <<rows, req, rel, putVars>> PROVE Chains'
  <2>1. RefsExclude' /\ PreviousExists' /\ ChainIsLinear'
    BY <1>2 DEF Chains, RefsExclude, PreviousExists, ChainIsLinear, Locked, HoldsRef, Ref, Exists,
         Released, putVars
  <2>2. \A p \in Puts : PriorHolds(p)' /\ DraftFollows(p)'
    BY <1>2 DEF Chains, PriorHolds, DraftFollows, ReleasedRef, Revisions, Ref, Exists, Released,
         putVars
  <2> QED BY <1>0, <2>1, <2>2 DEF Chains
<1>3. ASSUME NEW f \in Puts, AttachExtractedText(f) PROVE Chains'
  BY <1>2, <1>3 DEF AttachExtractedText
<1>4. CASE UNCHANGED vars
  BY <1>2, <1>4 DEF vars, store, envVars
<1> QED BY <1>1, <1>3, <1>4, ReleaseChains DEF Next

(* Writers of a reference do not fork its chain of amendments: revisions   *)
(* are distinct, a row follows the revision before it, and only after a    *)
(* release does a later revision follow nothing.  It rests on the advisory *)
(* lock, on FOR KEY SHARE of the foreign key, and on the ON CONFLICT wait. *)
THEOREM ChainsDoNotFork == Spec => []ChainIsLinear
<1>1. Chains => ChainIsLinear
  BY DEF Chains
<1> QED BY <1>1, ChainsInit, ChainsNext, PTL DEF Spec

-----------------------------------------------------------------------------
(* The trail: what a call records is what its upsert did, because the row  *)
(* it captured before the upsert is the row the upsert hit.                *)
Knows(f, p) == Ref(f) = Ref(p) \/ Ref(p) \in Range(rows[f].aka)

Recorded(p) ==
    /\ hit[p] = p => draft[p].aka = <<>>
    /\ pc[p] = "returned" =>
          /\ op[p] = "put" <=> hit[p] = p
          /\ op[p] = "alias_added" <=> hit[p] # p /\ ~Knows(hit[p], p)

AliasAudits(f) == {a \in audits : a.op = "alias_added" /\ a.filing = f}

PutAudit(f) == [op |-> "put", by |-> f, filing |-> f]

Told(a) ==
    /\ a.by \in Puts /\ a.filing \in Puts /\ pc[a.by] = "done" /\ pc[a.filing] = "done"
    /\ a.op = "put" => a.by = a.filing
    /\ ~Released(a.filing) =>
          Exists(a.filing) /\ Sha(a.filing) = Sha(a.by) /\ Knows(a.filing, a.by)

Listed(f) ==
    /\ IsFiniteSet(AliasAudits(f))
    /\ Exists(f) => /\ PutAudit(f) \in audits
                    /\ Len(rows[f].aka) = Cardinality(AliasAudits(f))

Trail ==
    /\ RowsLocked /\ (\A p \in Puts : Recorded(p)) /\ (\A a \in audits : Told(a))
    /\ \A f \in Puts : Listed(f)

LEMMA TrailTells == Trail => AuditsTellRows
<1> SUFFICES ASSUME Trail PROVE AuditsTellRows
  OBVIOUS
<1>1. ASSUME NEW f \in Puts, Exists(f)
      PROVE  /\ {a.by : a \in {b \in audits : b.op = "put" /\ b.filing = f}} = {f}
             /\ Len(rows[f].aka) = Cardinality(
                   {a \in audits : a.op = "alias_added" /\ a.filing = f})
  <2>1. PutAudit(f) \in audits /\ Len(rows[f].aka) = Cardinality(AliasAudits(f))
    BY <1>1 DEF Trail, Listed
  <2>2. PutAudit(f).op = "put" /\ PutAudit(f).filing = f /\ PutAudit(f).by = f
    BY DEF PutAudit
  <2>3. \A b \in audits : b.op = "put" => b.by = b.filing
    BY DEF Trail, Told
  <2>4. {a.by : a \in {b \in audits : b.op = "put" /\ b.filing = f}} = {f}
    BY <2>1, <2>2, <2>3
  <2> QED BY <2>1, <2>4 DEF AliasAudits
<1>2. ASSUME NEW a \in audits, ~Released(a.filing)
      PROVE  req[a.filing].sha = req[a.by].sha /\ FindBySourceRef(Ref(a.by)) # {}
  <2>1. /\ a.filing \in Puts /\ Exists(a.filing) /\ Sha(a.filing) = Sha(a.by)
        /\ Knows(a.filing, a.by)
    BY <1>2 DEF Trail, Told
  <2>2. Revisions(Ref(a.by)) # {} \/ Republished(Ref(a.by)) # {}
    BY <2>1 DEF Knows, Revisions, Republished
  <2> QED BY <2>1, <2>2 DEF FindBySourceRef, Sha
<1> QED BY <1>1, <1>2 DEF AuditsTellRows

LEMMA TrailInit == Init => Trail
<1> SUFFICES ASSUME Init PROVE Trail
  OBVIOUS
<1>1. \A p \in Puts : Recorded(p)
  BY DocumentConstants DEF Init, Recorded
<1>2. audits = {} /\ \A f \in Puts : ~Exists(f)
  BY DEF Init, Exists
<1>3. \A f \in Puts : Listed(f)
  BY <1>2, FS_EmptySet DEF Listed, AliasAudits
<1> QED BY <1>1, <1>2, <1>3, RowsInit DEF Trail

LEMMA RangeAppend ==
    ASSUME NEW s \in Seq(STRING), NEW e \in STRING
    PROVE  Range(Append(s, e)) = Range(s) \cup {e}
<1>1. /\ Append(s, e) \in Seq(STRING) /\ Len(Append(s, e)) = Len(s) + 1
      /\ \A i \in 1 .. Len(s) : Append(s, e)[i] = s[i]
      /\ Append(s, e)[Len(s) + 1] = e
  <2>1. Append(s, e) \in Seq(STRING) /\ Len(Append(s, e)) = Len(s) + 1
    BY AppendProperties
  <2>2. \A i \in 1 .. Len(s) : Append(s, e)[i] = s[i]
    OBVIOUS
  <2>3. Append(s, e)[Len(s) + 1] = e
    <3>1. Len(s) \in Nat
      BY LenProperties
    <3> QED BY <3>1, AppendProperties, Zenon
  <2> QED BY <2>1, <2>2, <2>3
<1>2. Len(s) \in Nat
  BY LenProperties
<1>3. Range(s) = {s[i] : i \in 1 .. Len(s)}
  BY RangeEquality, Zenon
<1>4. Range(Append(s, e)) = {Append(s, e)[i] : i \in 1 .. Len(Append(s, e))}
  BY <1>1, RangeEquality, Zenon
<1>5. 1 .. Len(s) + 1 = (1 .. Len(s)) \cup {Len(s) + 1}
  BY <1>2
<1> QED BY <1>1, <1>3, <1>4, <1>5, Zenon

(* After DO UPDATE the row is found under the reference of the call, and   *)
(* under every reference that found it before.                             *)
LEMMA AliasFinds ==
    ASSUME Types, NEW p \in Puts, NEW f \in Puts
    PROVE  LET r == WithAlias(f, p) IN
           /\ Ref(f) = Ref(p) \/ Ref(p) \in Range(r.aka)
           /\ Range(rows[f].aka) \subseteq Range(r.aka)
           /\ Len(r.aka) = Len(rows[f].aka) + IF Knows(f, p) THEN 0 ELSE 1
<1>1. rows[f] \in Row /\ Ref(p) \in STRING
  BY RequestType DEF Types, TypeOK
<1>2. rows[f].aka \in Seq(STRING)
  BY <1>1 DEF Row
<1>3. CASE Knows(f, p)
  <2>1. WithAlias(f, p) = rows[f] /\ Len(rows[f].aka) \in Nat
    BY <1>2, <1>3, LenProperties DEF Knows, WithAlias
  <2>2. Len(WithAlias(f, p).aka) = Len(rows[f].aka) + IF Knows(f, p) THEN 0 ELSE 1
    BY <1>3, <2>1
  <2>3. Ref(f) = Ref(p) \/ Ref(p) \in Range(WithAlias(f, p).aka)
    BY <1>3, <2>1, Zenon DEF Knows
  <2>4. Range(rows[f].aka) \subseteq Range(WithAlias(f, p).aka)
    BY <2>1, Zenon
  <2> QED BY <2>2, <2>3, <2>4, Zenon
<1>4. CASE ~Knows(f, p)
  <2>1. WithAlias(f, p).aka = Append(rows[f].aka, Ref(p))
    BY <1>1, <1>4 DEF Knows, WithAlias, Row
  <2>2. Len(Append(rows[f].aka, Ref(p))) = Len(rows[f].aka) + 1
    BY <1>1, <1>2, AppendProperties
  <2> QED BY <1>1, <1>2, <1>4, <2>1, <2>2, RangeAppend
<1> QED BY <1>3, <1>4

LEMMA PutRecorded ==
    ASSUME Trail, NEW p \in Puts, PutStep(p) \/ PutFault(p), NEW q \in Puts PROVE Recorded(q)'
<1>0. /\ RowsLocked /\ Phases /\ Types /\ OthersStay(p) /\ req' = req /\ NoFiling \notin Puts
      /\ UNCHANGED rows \/ Applies(p)
  BY PutFrame, PutOthers, DocumentConstants DEF Trail, RowsLocked, Phases
<1>1. CASE q # p
  <2>1. /\ hit'[q] = hit[q] /\ pc'[q] = pc[q] /\ op'[q] = op[q] /\ draft'[q] = draft[q]
        /\ Recorded(q)
    BY <1>0, <1>1 DEF OthersStay, Trail
  <2>2. pc[q] = "returned" => hit[q] \in Puts
    BY <1>0 DEF Phases, Phase
  <2>3. hit[q] \in Puts => rows'[hit[q]] = rows[hit[q]]
    BY <1>0, <1>1, PutRows
  <2>4. hit[q] \in Puts => (Knows(hit[q], q)' <=> Knows(hit[q], q))
    BY <1>0, <2>1, <2>3 DEF Knows, Ref
  <2> QED BY <2>1, <2>2, <2>4 DEF Recorded
<1>2. CASE q = p
  <2>1. hit'[p] = p => draft'[p].aka = <<>>
    <3>1. CASE hit[p] = p
      BY <1>0, <3>1, HitChanges DEF Trail, Recorded, UpsertExisting, UpsertNew, Phases, Phase
    <3>2. CASE hit[p] # p /\ hit'[p] = p
      BY <1>0, <3>2, UpsertFacts, NewRowType
    <3> QED BY <3>1, <3>2
  <2>2. ASSUME pc'[p] = "returned" PROVE Record(p)
    <3> USE DEF Types, TypeOK, Goto, EndTransaction
    <3>1. CASE PutStep(p)
      BY <1>0, <2>2, <3>1 DEF PutStep, Refuse, UploadPrimary, TakeLock, FindPrior, UploadXbrl,
           CapturePre, UpsertExisting, UpsertNew, CleanDuplicate, PersistAttachments, Raised,
           Commit, ReleaseResult
    <3>2. CASE PutFault(p)
      BY <1>0, <2>2, <3>2 DEF PutFault, UploadPrimaryFails, UploadXbrlFails,
           CleanDuplicateFails, PersistAttachmentsFails, StatementFails, RaisedUndeleted,
           CommitFails, ReleaseResultFails, Crash
    <3> QED BY <3>1, <3>2
  <2>3. ASSUME pc'[p] = "returned"
        PROVE  /\ op'[p] = "put" <=> hit'[p] = p
               /\ op'[p] = "alias_added" <=> hit'[p] # p /\ ~Knows(hit[p], p)'
    <3>1. /\ pc[p] = "record" /\ PreIsKnown(p) /\ op'[p] = Operation(p) /\ hit' = hit
          /\ rows' = rows /\ hit[p] \in Puts
      BY <1>0, <2>2, <2>3 DEF Record, Goto, Types, TypeOK, store, Phases, Phase
    <3>2. Knows(hit[p], p)' <=> Knows(hit[p], p)
      BY <1>0, <3>1 DEF Knows, Ref
    <3>3. ASSUME hit[p] # p PROVE pre[p] = hit[p]
      <4>1. pre[p] \in Puts
        BY <1>0, <3>1, <3>3 DEF PreIsKnown, Types, TypeOK
      <4>2. Exists(pre[p]) /\ Exists(hit[p]) /\ Sha(pre[p]) = Sha(hit[p])
        BY <1>0, <3>1, <3>3, <4>1 DEF RowsLocked, InHand, Phases, RowPhases
      <4> QED BY <1>0, <3>1, <4>1, <4>2 DEF RowsLocked, ShaUnique
    <3>4. CASE hit[p] = p
      BY <3>1, <3>4 DEF Operation
    <3>5. CASE hit[p] # p
      BY <3>1, <3>2, <3>3, <3>5 DEF Operation, Knows
    <3> QED BY <3>4, <3>5
  <2> QED BY <1>2, <2>1, <2>3 DEF Recorded
<1> QED BY <1>1, <1>2

(* The commit of p adds the one audit of p.                                *)
LEMMA AppliesTrail ==
    ASSUME Trail, NEW p \in Puts, PutStep(p) \/ PutFault(p), Applies(p)
    PROVE  (\A a \in audits' : Told(a)') /\ (\A f \in Puts : Listed(f)')
<1> DEFINE new == [op |-> op[p], by |-> p, filing |-> hit[p]]
<1>0. /\ RowsLocked /\ Phases /\ Types /\ OthersStay(p) /\ UNCHANGED <<req, rel>>
      /\ NoFiling \notin Puts /\ pc[p] = "returned"
  BY PutFrame, PutOthers, DocumentConstants DEF Trail, RowsLocked, Phases, Applies
<1>1. /\ hit[p] \in Puts /\ rows'[hit[p]] = draft[p] /\ pc'[p] = "done"
      /\ \A f \in Puts \ {hit[p]} : rows'[f] = rows[f]
      /\ \A f \in Puts : Exists(f)' <=> Exists(f) \/ f = hit[p]
  BY <1>0, AppliedExists
<1>2. audits' = audits \cup {new} /\ new.by = p /\ new.filing = hit[p] /\ new.op = op[p]
  BY DEF Applies, Applied
<1>3. new \notin audits /\ (\A a \in audits : a.by # p /\ a.filing # p)
  BY <1>0, <1>2 DEF Trail, Told
<1>4. /\ op[p] = "put" <=> hit[p] = p
      /\ op[p] = "alias_added" <=> hit[p] # p /\ ~Knows(hit[p], p)
      /\ hit[p] = p => draft[p].aka = <<>>
  BY <1>0 DEF Trail, Recorded
<1>5. hit[p] # p => /\ draft[p] = WithAlias(hit[p], p) /\ Exists(hit[p])
                    /\ Sha(hit[p]) = Sha(p) /\ pc'[hit[p]] = "done"
  BY <1>0, <1>1 DEF RowsLocked, InHand, Phases, RowPhases, OthersStay
<1>6. \A f \in Puts : Released(f)' <=> Released(f)
  BY <1>0 DEF Released
<1> HIDE DEF new
<1>7. ASSUME NEW f \in Puts, NEW q \in Puts, Exists(f), Knows(f, q) PROVE Knows(f, q)'
  <2>1. f # p
    BY <1>0, <1>7 DEF Phases, RowPhases
  <2>2. Range(rows[f].aka) \subseteq Range(rows'[f].aka)
    BY <1>0, <1>1, <1>5, <2>1, AliasFinds
  <2> QED BY <1>0, <1>7, <2>2 DEF Knows, Ref
<1>9. ASSUME NEW f \in Puts, f = hit[p] PROVE Knows(f, p)'
  <2>1. CASE f = p
    BY <2>1 DEF Knows
  <2>2. CASE f # p
    <3>1. Ref(f) = Ref(p) \/ Ref(p) \in Range(rows'[f].aka)
      BY <1>0, <1>1, <1>5, <1>9, <2>2, AliasFinds
    <3> QED BY <1>0, <3>1 DEF Knows, Ref
  <2> QED BY <2>1, <2>2
<1>10. ASSUME NEW a \in audits' PROVE Told(a)'
  <2>1. CASE a \in audits
    <3>1. Told(a) /\ a.by # p /\ a.filing # p
      BY <1>3, <2>1 DEF Trail
    <3>2. pc'[a.by] = "done" /\ pc'[a.filing] = "done"
      BY <1>0, <3>1 DEF OthersStay, Told
    <3>3. ASSUME ~Released(a.filing)'
          PROVE  Exists(a.filing)' /\ Sha(a.filing)' = Sha(a.by)' /\ Knows(a.filing, a.by)'
      <4>1. Exists(a.filing) /\ Sha(a.filing) = Sha(a.by) /\ Knows(a.filing, a.by)
        BY <1>6, <3>1, <3>3 DEF Told
      <4> QED BY <1>0, <1>1, <1>7, <3>1, <4>1 DEF Told, Sha
    <3> QED BY <3>1, <3>2, <3>3 DEF Told
  <2>2. CASE a = new
    <3>1. a.by = p /\ a.filing = hit[p] /\ pc'[hit[p]] = "done"
      BY <1>1, <1>2, <1>5, <2>2
    <3>2. Sha(a.filing)' = Sha(a.by)' /\ Knows(a.filing, a.by)'
      BY <1>0, <1>1, <1>5, <1>9, <3>1 DEF Sha
    <3>3. a.op = "put" => a.by = a.filing
      BY <1>2, <1>4, <2>2, <3>1
    <3>4. Exists(a.filing)'
      BY <1>1, <3>1
    <3> QED BY <1>1, <3>1, <3>2, <3>3, <3>4 DEF Told
  <2> QED BY <1>2, <2>1, <2>2
<1>11. ASSUME NEW f \in Puts PROVE Listed(f)'
  <2>0. Listed(f)
    BY DEF Trail
  <2>1. CASE f # hit[p]
    <3>1. AliasAudits(f)' = AliasAudits(f)
      BY <1>2, <2>1 DEF AliasAudits
    <3> QED BY <1>1, <1>2, <2>0, <2>1, <3>1 DEF Listed, PutAudit
  <2>2. CASE f = hit[p] /\ hit[p] = p
    <3>1. AliasAudits(f)' = {}
      BY <1>2, <1>3, <1>4, <2>2 DEF AliasAudits
    <3>2. rows'[f].aka = <<>> /\ new = PutAudit(f)
      BY <1>1, <1>4, <2>2 DEF new, PutAudit
    <3>3. Len(rows'[f].aka) = Cardinality(AliasAudits(f)')
      BY <3>1, <3>2, FS_EmptySet
    <3> QED BY <1>2, <3>1, <3>2, <3>3, FS_EmptySet DEF Listed, PutAudit
  <2>3. CASE f = hit[p] /\ hit[p] # p
    <3>1. /\ PutAudit(f) \in audits /\ IsFiniteSet(AliasAudits(f))
          /\ Len(rows[f].aka) = Cardinality(AliasAudits(f))
      BY <1>5, <2>0, <2>3 DEF Listed
    <3>2. Len(rows'[f].aka) = Len(rows[f].aka) + IF Knows(f, p) THEN 0 ELSE 1
      <4>1. rows'[f] = WithAlias(f, p)
        BY <1>1, <1>5, <2>3
      <4>2. Len(WithAlias(f, p).aka) = Len(rows[f].aka) + IF Knows(f, p) THEN 0 ELSE 1
        BY <1>0, AliasFinds, Zenon
      <4> QED BY <4>1, <4>2, Zenon
    <3>3. CASE Knows(f, p)
      <4>1. AliasAudits(f)' = AliasAudits(f)
        BY <1>2, <1>4, <2>3, <3>3 DEF AliasAudits
      <4>2. Cardinality(AliasAudits(f)) \in Nat
        BY <3>1, FS_CardinalityType
      <4>3. Len(rows'[f].aka) = Cardinality(AliasAudits(f)')
        BY <3>1, <3>2, <3>3, <4>1, <4>2
      <4> QED BY <1>2, <3>1, <4>1, <4>3 DEF Listed, PutAudit
    <3>4. CASE ~Knows(f, p)
      <4>1. AliasAudits(f)' = AliasAudits(f) \cup {new} /\ new \notin AliasAudits(f)
        BY <1>2, <1>3, <1>4, <2>3, <3>4 DEF AliasAudits
      <4>2. /\ IsFiniteSet(AliasAudits(f)')
            /\ Cardinality(AliasAudits(f)') = Cardinality(AliasAudits(f)) + 1
        BY <3>1, <4>1, FS_AddElement
      <4>3. Len(rows'[f].aka) = Cardinality(AliasAudits(f)')
        BY <3>1, <3>2, <3>4, <4>2
      <4> QED BY <1>2, <3>1, <4>2, <4>3 DEF Listed, PutAudit
    <3> QED BY <3>3, <3>4
  <2> QED BY <2>1, <2>2, <2>3
<1> QED BY <1>10, <1>11

(* Steps that leave rows and audits alone and end no call leave the trail. *)
LEMMA TrailStays ==
    ASSUME Trail, UNCHANGED <<rows, audits, req>>,
           \A f \in Puts : pc[f] = "done" => pc'[f] = "done",
           \A f \in Puts : Released(f) => Released(f)'
    PROVE  (\A a \in audits' : Told(a)') /\ (\A f \in Puts : Listed(f)')
<1>1. \A a \in audits : Told(a)'
  BY DEF Trail, Told, Exists, Sha, Knows, Ref
<1>2. \A f \in Puts : Listed(f)'
  BY DEF Trail, Listed, Exists, AliasAudits, PutAudit
<1> QED BY <1>1, <1>2

LEMMA PutTrail ==
    ASSUME Trail, NEW p \in Puts, PutStep(p) \/ PutFault(p) PROVE Trail'
<1>0. /\ Types /\ OthersStay(p) /\ UNCHANGED <<req, rel>> /\ pc[p] # "done"
      /\ UNCHANGED <<rows, audits>> \/ Applies(p)
  BY PutFrame, PutOthers, PutNotDone DEF Trail, RowsLocked, Phases
<1>1. RowsLocked'
  BY RowsNext DEF Trail, Next
<1>2. CASE UNCHANGED <<rows, audits>>
  <2>1. \A f \in Puts : pc[f] = "done" => pc'[f] = "done"
    BY <1>0 DEF OthersStay
  <2>2. \A f \in Puts : Released(f) => Released(f)'
    BY <1>0 DEF Released
  <2> QED BY <1>0, <1>1, <1>2, <2>1, <2>2, TrailStays, PutRecorded DEF Trail
<1> QED BY <1>0, <1>1, <1>2, AppliesTrail, PutRecorded DEF Trail

LEMMA ReleaseTrail ==
    ASSUME Trail, NEW r \in Releases, ReleaseStep(r) PROVE Trail'
<1>0. /\ RowsLocked /\ Phases /\ Types /\ UNCHANGED <<req, putVars, audits>>
      /\ UNCHANGED rows \/ ReleaseRow(r)
  BY ReleaseFrame DEF Trail, RowsLocked, Phases
<1>1. RowsLocked' /\ (\A f \in Puts : Released(f) => Released(f)')
  BY <1>0, RowsNext, ReleaseBucket DEF Trail, Next
<1>2. /\ \A f \in Puts : Exists(f)' => Exists(f) /\ rows'[f] = rows[f]
      /\ \A f \in Puts : Exists(f) /\ ~Exists(f)' => Released(f)
      /\ \A q \in Puts : hit[q] \in Puts => rows'[hit[q]] = rows[hit[q]]
  <2>1. CASE rows' = rows
    BY <2>1 DEF Exists
  <2>2. CASE rows' # rows
    <3>1. /\ rel[r].filing \in Puts /\ rows' = [rows EXCEPT ![rel[r].filing] = NoRow]
          /\ \A q \in Puts : rel[r].filing \notin {pre[q], hit[q]}
          /\ \A f \in Puts : Exists(f)' <=> Exists(f) /\ f # rel[r].filing
          /\ \A f \in Puts : Exists(f)' => rows'[f] = rows[f]
      BY <1>0, <2>2, ReleasedRow
    <3>2. \A q \in Puts : hit[q] \in Puts => rows'[hit[q]] = rows[hit[q]]
      BY <1>0, <3>1 DEF Types, TypeOK
    <3> QED BY <3>1, <3>2 DEF Released
  <2> QED BY <2>1, <2>2
<1>3. ASSUME NEW q \in Puts PROVE Recorded(q)'
  <2>1. pc' = pc /\ hit' = hit /\ op' = op /\ draft' = draft /\ Recorded(q)
    BY <1>0 DEF putVars, Trail
  <2>2. pc[q] = "returned" => hit[q] \in Puts
    BY <1>0 DEF Phases, Phase
  <2>3. hit[q] \in Puts => (Knows(hit[q], q)' <=> Knows(hit[q], q))
    BY <1>0, <1>2, <2>1 DEF Knows, Ref
  <2> QED BY <2>1, <2>2, <2>3 DEF Recorded
<1>4. ASSUME NEW a \in audits PROVE Told(a)'
  <2>1. Told(a) /\ pc' = pc
    BY <1>0 DEF Trail, putVars
  <2>2. ASSUME ~Released(a.filing)'
        PROVE  Exists(a.filing)' /\ Sha(a.filing)' = Sha(a.by)' /\ Knows(a.filing, a.by)'
    <3>1. Exists(a.filing) /\ Sha(a.filing) = Sha(a.by) /\ Knows(a.filing, a.by)
      BY <1>1, <2>1, <2>2 DEF Told
    <3>2. Exists(a.filing)' /\ rows'[a.filing] = rows[a.filing]
      BY <1>1, <1>2, <2>1, <2>2, <3>1 DEF Told
    <3> QED BY <1>0, <3>1, <3>2 DEF Sha, Knows, Ref
  <2> QED BY <2>1, <2>2 DEF Told
<1>5. \A f \in Puts : Listed(f)'
  BY <1>0, <1>2 DEF Trail, Listed, AliasAudits, PutAudit
<1> QED BY <1>0, <1>1, <1>3, <1>4, <1>5 DEF Trail

LEMMA TextTrail ==
    ASSUME Trail, NEW f \in Puts, AttachExtractedText(f) PROVE Trail'
<1> DEFINE new == [op |-> IF f \in bodies THEN "body_update" ELSE "body_create",
                   by |-> f, filing |-> f]
<1>0. /\ RowsLocked /\ RowsLocked' /\ Phases /\ UNCHANGED <<rows, putVars, req, rel>> /\ Exists(f)
      /\ audits' = audits \cup {new}
  BY RowsNext DEF Trail, RowsLocked, Next, AttachExtractedText
<1>1. new.by = f /\ new.filing = f /\ new.op \notin {"put", "alias_added"}
  OBVIOUS
<1> HIDE DEF new
<1>2. pc[f] = "done"
  BY <1>0 DEF Phases, RowPhases
<1>3. \A q \in Puts : Recorded(q)'
  BY <1>0 DEF Trail, Recorded, Knows, Ref, putVars
<1>4. ASSUME NEW a \in audits' PROVE Told(a)'
  <2>1. CASE a \in audits
    BY <1>0, <2>1 DEF Trail, Told, Exists, Released, Sha, Knows, Ref, putVars
  <2>2. CASE a = new
    BY <1>0, <1>1, <1>2, <2>2 DEF Told, Exists, Sha, Knows, putVars
  <2> QED BY <1>0, <2>1, <2>2
<1>5. ASSUME NEW g \in Puts PROVE Listed(g)'
  <2>1. AliasAudits(g)' = AliasAudits(g)
    BY <1>0, <1>1 DEF AliasAudits
  <2> QED BY <1>0, <2>1 DEF Trail, Listed, Exists, PutAudit
<1> QED BY <1>0, <1>3, <1>4, <1>5 DEF Trail

LEMMA TrailNext == Trail /\ [Next]_vars => Trail'
<1> SUFFICES ASSUME Trail, [Next]_vars PROVE Trail'
  OBVIOUS
<1>1. CASE UNCHANGED vars
  <2>1. RowsLocked' /\ UNCHANGED <<rows, audits, req, rel, putVars>>
    BY <1>1, RowsNext DEF Trail, vars, store, envVars
  <2>2. \A q \in Puts : Recorded(q)'
    BY <2>1 DEF Trail, Recorded, Knows, Ref, putVars
  <2>3. (\A a \in audits' : Told(a)') /\ (\A f \in Puts : Listed(f)')
    BY <2>1, TrailStays DEF putVars, Released
  <2> QED BY <2>1, <2>2, <2>3 DEF Trail
<1> QED BY <1>1, PutTrail, ReleaseTrail, TextTrail DEF Next

(* The audit trail of filings tells the rows: one put by the call that     *)
(* drew the filing_id, one alias_added per alias, and every audited call   *)
(* finds a filing with its bytes under its reference until one is          *)
(* released.  The row read FOR UPDATE before the upsert is the row hit.    *)
THEOREM AuditTrailTellsRows == Spec => []AuditsTellRows
  BY TrailTells, TrailInit, TrailNext, PTL DEF Spec

=============================================================================
