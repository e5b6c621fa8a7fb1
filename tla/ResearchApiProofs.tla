------------------------- MODULE ResearchApiProofs -------------------------
(***************************************************************************)
(* Proofs about ResearchApi: the rate limiter is exact, the audit log      *)
(* tells the requests, no answer looks ahead, an answer declared immutable *)
(* stays what a replay gives, and the canary turns red only when history   *)
(* was rewritten.                                                          *)
(***************************************************************************)
EXTENDS ResearchApi, TLAPS, FiniteSetTheorems, SequenceTheorems

-----------------------------------------------------------------------------
(* Types.                                                                  *)
Context == [key : Keys \cup {None}, now : 0 .. MaxClock, admitted : BOOLEAN,
            readAt : Nat, headAt : Nat]

(* Redaction puts a value of its own in a row.                             *)
ShownRow == [table : STRING, key : Nat, val : STRING \cup {"<REDACTED:counterparty>"},
             kind : STRING, asof : Nat, when : Nat \cup {None}, at : Nat,
             pre : BOOLEAN, sort : Nat]

AnswerRow == [row : ShownRow, lineage : (SUBSET StoreRow) \cup {None}]

FilterSet == [asof : Seq(Nat) \cup (Nat \X Requests), range : (Nat \X Nat) \cup {None},
              only : SUBSET Nat, pre : BOOLEAN]

Response == [code : Nat, rows : SUBSET AnswerRow, asof : Nat \cup {None},
             filters : FilterSet \cup {None}, more : BOOLEAN, immutable : BOOLEAN]

Types ==
    /\ prog \in Programs /\ clock \in 0 .. MaxClock /\ faults \in 0 .. MaxFaults
    /\ tokens \in [Buckets -> Nat]
    /\ log = [r \in Requests |-> log[r]]
    /\ store \subseteq StoreRow
    /\ status \in {"unknown", "green", "red"}
    /\ pc \in [Requests -> Labels] /\ win \in [Requests -> 1 .. 4]
    /\ held \in [Requests -> SUBSET Buckets]
    /\ ctx \in [Requests -> Context] /\ resp \in [Requests -> Response]
    /\ wpc \in [Writers -> {"new", "open", "done"}] /\ began \in [Writers -> Nat]
    /\ \A w \in Writers : wpc[w] # "new" => w \in DOMAIN prog.writes
    /\ cpc \in [Canaries -> Nat] /\ red \in [Canaries -> BOOLEAN]
    /\ \A r \in Requests :
          /\ pc[r] # "new" => r \in DOMAIN prog.requests
          /\ pc[r] = "windows" => Req(r).key \in Keys
          /\ pc[r] \in {"windows", "handle", "read", "lineage"} => Req(r).endpoint \in Routes

LEMMA Typed ==
    ASSUME Types
    PROVE  /\ clock \in 0 .. MaxClock /\ clock \in Nat
           /\ ctx \in [Requests -> Context] /\ resp \in [Requests -> Response]
  BY DEF Types

LEMMA RequestType ==
    ASSUME prog \in Programs, NEW r \in DOMAIN prog.requests
    PROVE  Req(r) \in RequestArgs /\ r \in Requests
  BY ResearchPrograms DEF Req

LEMMA LimitsType ==
    ASSUME prog \in Programs, NEW k \in Keys PROVE Limits(k) \in [Kinds -> Nat]
<1> DEFINE tier == prog.keys[k].tier
           base == TierLimits[IF tier \in DOMAIN TierLimits THEN tier ELSE "partner"]
           over == prog.keys[k].overrides
<1>1. base \in [Kinds -> Nat]
  BY ResearchConstants, Zenon
<1>2. \A w \in DOMAIN over : over[w] \in Nat
  BY ResearchPrograms, Zenon
<1>3. Limits(k) = [w \in Kinds |-> IF w \in DOMAIN over THEN over[w] ELSE base[w]]
  BY Zenon DEF Limits
<1> HIDE DEF base, over, tier
<1> QED BY <1>1, <1>2, <1>3

LEMMA WindowsAre ==
    /\ Len(Windows) = 3
    /\ Windows[1] = "minute" /\ Windows[2] = "hour" /\ Windows[3] = "day"
    /\ \A n \in 1 .. 3 : Windows[n] \in Kinds
    /\ \A n, m \in 1 .. 3 : Windows[n] = Windows[m] => n = m
    /\ \A w \in Kinds : \E n \in 1 .. 3 : Windows[n] = w
<1>1. Windows[1] = "minute" /\ Windows[2] = "hour" /\ Windows[3] = "day" /\ Len(Windows) = 3
  BY DEF Windows
<1>2. \A n \in 1 .. 3 : n = 1 \/ n = 2 \/ n = 3
  OBVIOUS
<1>3. 1 \in 1 .. 3 /\ 2 \in 1 .. 3 /\ 3 \in 1 .. 3
  OBVIOUS
<1> QED BY <1>1, <1>2, <1>3 DEF Kinds

(* The window a limiter goes to next, and that it skipped only windows     *)
(* without a cap.                                                          *)
LEMMA WindowFromIs ==
    ASSUME prog \in Programs, NEW k \in Keys, NEW n \in 1 .. 4
    PROVE  /\ WindowFrom(k, n) \in n .. 4
           /\ WindowFrom(k, n) = 4 \/ Limits(k)[Windows[WindowFrom(k, n)]] # 0
           /\ \A i \in n .. WindowFrom(k, n) - 1 : Limits(k)[Windows[i]] = 0
<1> DEFINE Cap(m) == Limits(k)[Windows[m]]
           Is(m) == (m = 4 \/ Cap(m) # 0) /\ \A i \in n .. m - 1 : Cap(i) = 0
<1>1. \E m \in n .. 4 : Is(m)
  <2> HIDE DEF Cap
  <2> QED OBVIOUS
<1>2. WindowFrom(k, n) = CHOOSE m \in n .. 4 : Is(m)
  BY DEF WindowFrom
<1>3. WindowFrom(k, n) \in n .. 4 /\ Is(WindowFrom(k, n))
  <2> HIDE DEF Is
  <2> QED BY <1>1, <1>2
<1> QED BY <1>3

LEMMA DivideDown ==
    ASSUME NEW n \in Nat, NEW d \in Nat \ {0} PROVE n \div d \in 0 .. n
  OBVIOUS

LEMMA BucketType ==
    ASSUME Types, NEW r \in Requests, Req(r).key \in Keys, NEW kind \in Kinds
    PROVE  Bucket(r, kind) \in Buckets
<1>1. ctx[r].now \in 0 .. MaxClock
  BY DEF Types, Context
<1>2. Length[kind] \in Nat \ {0} /\ MaxClock \in Nat
  BY ResearchConstants
<1>3. ctx[r].now \div Length[kind] \in 0 .. ctx[r].now
  BY <1>1, <1>2, DivideDown
<1>4. WindowStart(ctx[r].now, kind) \in 0 .. MaxClock
  BY <1>1, <1>2, <1>3 DEF WindowStart
<1> QED BY <1>4 DEF Bucket, Buckets

(* The rows of an answer: typed, with the lineage still to be read for the *)
(* endpoints of entities alone, and none later than the question.          *)
InTime(q, t, v) ==
    q.endpoint \notin {"filings", "identifiers_resolve"} =>
        IF q.range # None /\ q.endpoint \notin Single
        THEN q.range[1] <= v.asof /\ v.asof < q.range[2]
        ELSE v.asof <= t \/ (v.pre /\ AsksForBackfill(q))

Answer(q, t, x) ==
    /\ x \in AnswerRow /\ InTime(q, t, x.row)
    /\ x.lineage = {} \/ (x.lineage = None /\ q.endpoint \in {"entities", "get_entity"})

LEMMA SelectedRows ==
    ASSUME Types, NEW q, NEW S, S \subseteq Main
    PROVE  /\ Where(q, S) \subseteq S /\ S \subseteq StoreRow
           /\ \A v \in ChainOr(q, S) :
                 /\ v \in StoreRow
                 /\ IF q.range # None THEN q.range[1] <= v.asof /\ v.asof < q.range[2]
                    ELSE v \in S
  BY DEF Types, Main, Where, ChainOr, Chain

LEMMA AtRows ==
    ASSUME NEW t
    PROVE  /\ At(t) \subseteq {v \in Main : v.asof <= t}
           /\ FilingEventAt(t) \subseteq {v \in Main : v.asof <= t}
           /\ VersionAt(t) \subseteq {v \in Main : v.asof <= t}
           /\ IdentifierAt(t) \subseteq Main
  BY DEF At, FilingEventAt, VersionAt, IdentifierAt, Newest

LEMMA DisclosureRows ==
    ASSUME NEW q, NEW t
    PROVE  DisclosureAt(q, t) \subseteq {v \in Main : v.asof <= t \/ (v.pre /\ q.pre)}
  BY DEF DisclosureAt, BackfilledAt, VersionAt, Newest

LEMMA PlainAnswers ==
    ASSUME NEW q, NEW t, NEW S, \A v \in S : v \in ShownRow /\ InTime(q, t, v)
    PROVE  /\ \A x \in Plain(S) : Answer(q, t, x)
           /\ q.endpoint \in {"entities", "get_entity"} => \A x \in Unread(S) : Answer(q, t, x)
<1>1. ASSUME NEW x \in Plain(S) PROVE Answer(q, t, x)
  <2>1. PICK v \in S : x = [row |-> v, lineage |-> {}]
    BY <1>1 DEF Plain
  <2> QED BY <2>1 DEF Answer, AnswerRow
<1>2. ASSUME NEW x \in Unread(S), q.endpoint \in {"entities", "get_entity"} PROVE Answer(q, t, x)
  <2>1. PICK v \in S : x = [row |-> v, lineage |-> None]
    BY <1>2 DEF Unread
  <2> QED BY <1>2, <2>1 DEF Answer, AnswerRow
<1> QED BY <1>1, <1>2

LEMMA RedactedRow ==
    ASSUME NEW v \in StoreRow, NEW k
    PROVE  Redacted(v, k) \in ShownRow /\ Redacted(v, k).asof = v.asof
           /\ Redacted(v, k).pre = v.pre
  BY DEF Redacted, StoreRow, ShownRow

LEMMA RowsAnswer ==
    ASSUME Types, NEW q, q.endpoint \in Routes, NEW t
    PROVE  \A x \in Rows(q, t) : Answer(q, t, x)
<1> USE DEF Single
<1>0. StoreRow \subseteq ShownRow
  BY DEF StoreRow, ShownRow
<1>1. CASE q.endpoint \in {"observations", "financials_canonical", "financials_line_items",
                           "quality_scores"}
  <2>1. \A v \in ChainOr(q, At(t)) : v \in StoreRow /\ InTime(q, t, v)
    BY <1>1, AtRows, SelectedRows DEF InTime
  <2>2. Rows(q, t) = Plain(ChainOr(q, At(t)))
    BY <1>1 DEF Rows, Observations, FinancialsCanonical, FinancialsLineItems, QualityScores
  <2> QED BY <1>0, <2>1, <2>2, PlainAnswers
<1>2. CASE q.endpoint \in {"entities", "get_entity"}
  <2>1. /\ \A v \in ChainOr(q, VersionAt(t)) : v \in StoreRow /\ (q.endpoint = "entities" => InTime(q, t, v))
        /\ \A v \in Where(q, VersionAt(t)) : v \in StoreRow /\ (q.endpoint = "get_entity" => InTime(q, t, v))
    BY <1>2, AtRows, SelectedRows DEF InTime
  <2>2. Rows(q, t) = IF q.endpoint = "entities" THEN Unread(ChainOr(q, VersionAt(t)))
                     ELSE Unread(Where(q, VersionAt(t)))
    BY <1>2 DEF Rows, Entities, GetEntity
  <2> QED BY <1>0, <1>2, <2>1, <2>2, PlainAnswers
<1>3. CASE q.endpoint \in {"disclosures", "get_disclosure"}
  <2>1. \A v \in DisclosureAt(q, t) : v \in Main /\ (v.asof <= t \/ (v.pre /\ AsksForBackfill(q)))
    BY <1>3, DisclosureRows DEF AsksForBackfill
  <2>2. /\ \A v \in ChainOr(q, DisclosureAt(q, t)) :
              v \in StoreRow /\ (q.endpoint = "disclosures" => InTime(q, t, v))
        /\ \A v \in Where(q, DisclosureAt(q, t)) :
              v \in StoreRow /\ (q.endpoint = "get_disclosure" => InTime(q, t, v))
    BY <1>3, <2>1, SelectedRows DEF InTime
  <2>3. Rows(q, t) = IF q.endpoint = "disclosures" THEN Plain(ChainOr(q, DisclosureAt(q, t)))
                     ELSE Plain(Where(q, DisclosureAt(q, t)))
    BY <1>3 DEF Rows, Disclosures, GetDisclosure
  <2> QED BY <1>0, <1>3, <2>2, <2>3, PlainAnswers
<1>4. CASE q.endpoint \in {"identifiers_resolve", "filings"}
  <2>1. \A S : S \subseteq Main => \A v \in Where(q, S) : v \in StoreRow /\ InTime(q, t, v)
    BY <1>4 DEF Types, Main, Where, InTime
  <2>2. \E S : S \subseteq Main /\ Rows(q, t) = Plain(Where(q, S))
    BY <1>4, AtRows DEF Rows, IdentifiersResolve, Filings
  <2> QED BY <1>0, <2>1, <2>2, PlainAnswers
<1>5. CASE q.endpoint = "events"
  <2>1. \A v \in ChainOr(q, FilingEventAt(t)) : v \in StoreRow /\ InTime(q, t, v)
    BY <1>5, AtRows, SelectedRows DEF InTime
  <2> DEFINE R == {Redacted(v, prog.keys[q.key]) : v \in ChainOr(q, FilingEventAt(t))}
  <2>2. \A v \in R : v \in ShownRow /\ InTime(q, t, v)
    BY <2>1, RedactedRow DEF InTime
  <2>3. Rows(q, t) = Plain(R)
    BY <1>5 DEF Rows, Events
  <2> HIDE DEF R
  <2> QED BY <2>2, <2>3, PlainAnswers
<1> QED BY <1>1, <1>2, <1>3, <1>4, <1>5 DEF Routes

-----------------------------------------------------------------------------
(* What a step of a request does to the others: nothing.                   *)
RequestAction(r) == RequestStep(r) \/ AuditFails(r) \/ RequestFails(r)

OthersStay(r) ==
    \A q \in Requests \ {r} :
        /\ pc'[q] = pc[q] /\ win'[q] = win[q] /\ held'[q] = held[q] /\ ctx'[q] = ctx[q]
        /\ resp'[q] = resp[q] /\ log'[q] = log[q]

LEMMA RequestFrame ==
    ASSUME Types, NEW r \in Requests, RequestAction(r)
    PROVE  /\ UNCHANGED <<prog, clock, store, writerVars, canaryVars>>
           /\ faults' \in {faults, faults + 1} /\ faults' \in 0 .. MaxFaults
<1>1. faults \in 0 .. MaxFaults /\ MaxFaults \in Nat
  BY ResearchConstants DEF Types
<1> USE DEF World, writerVars, canaryVars
<1>2. CASE RequestStep(r)
  BY <1>1, <1>2 DEF RequestStep, Authenticate, TakeToken, Admit, Resolve, Read, ReadLineage,
       SetCacheHeaders, HandlePublic, Audit
<1>3. CASE AuditFails(r) \/ RequestFails(r)
  BY <1>1, <1>3 DEF AuditFails, RequestFails, Fault
<1> QED BY <1>2, <1>3 DEF RequestAction

LEMMA RequestOthers ==
    ASSUME Types, NEW r \in Requests, RequestAction(r) PROVE OthersStay(r)
<1> USE DEF Types, OthersStay, Goto, Refused, gateVars
<1>1. CASE Authenticate(r)
  BY <1>1 DEF Authenticate, Named
<1>2. CASE TakeToken(r)
  BY <1>2 DEF TakeToken
<1>3. CASE Admit(r)
  BY <1>3 DEF Admit
<1>4. CASE Resolve(r)
  BY <1>4 DEF Resolve
<1>5. CASE Read(r)
  BY <1>5 DEF Read
<1>6. CASE ReadLineage(r) \/ SetCacheHeaders(r) \/ HandlePublic(r)
  BY <1>6 DEF ReadLineage, SetCacheHeaders, HandlePublic
<1>7. CASE Audit(r) \/ AuditFails(r) \/ RequestFails(r)
  BY <1>7 DEF Audit, AuditFails, RequestFails
<1> QED BY <1>1, <1>2, <1>3, <1>4, <1>5, <1>6, <1>7 DEF RequestAction, RequestStep

LEMMA TypesInit == Init => Types
<1> SUFFICES ASSUME Init PROVE Types
  OBVIOUS
<1>1. ctx \in [Requests -> Context]
  BY ResearchConstants DEF Init, NoContext, Context
<1>2. resp \in [Requests -> Response]
  BY DEF Init, NoResponse, Response
<1>3. store \subseteq StoreRow
  BY ResearchPrograms DEF Init
<1>4. tokens \in [Buckets -> Nat] /\ held \in [Requests -> SUBSET Buckets]
  BY DEF Init
<1>5. log = [r \in Requests |-> log[r]]
  BY DEF Init
<1>6. pc \in [Requests -> Labels] /\ win \in [Requests -> 1 .. 4]
  BY DEF Init, Labels
<1>7. clock \in 0 .. MaxClock /\ faults \in 0 .. MaxFaults
  BY ResearchConstants DEF Init
<1>8. /\ wpc \in [Writers -> {"new", "open", "done"}] /\ began \in [Writers -> Nat]
      /\ cpc \in [Canaries -> Nat] /\ red \in [Canaries -> BOOLEAN]
      /\ status \in {"unknown", "green", "red"}
  BY DEF Init
<1>9. /\ \A r \in Requests : pc[r] = "new"
      /\ \A w \in Writers : wpc[w] = "new"
  BY DEF Init
<1> QED BY <1>1, <1>2, <1>3, <1>4, <1>5, <1>6, <1>7, <1>8, <1>9 DEF Init, Types

(* The requests keep their types.                                          *)
RequestTypes ==
    /\ tokens \in [Buckets -> Nat]
    /\ log = [r \in Requests |-> log[r]]
    /\ pc \in [Requests -> Labels] /\ win \in [Requests -> 1 .. 4]
    /\ held \in [Requests -> SUBSET Buckets]
    /\ ctx \in [Requests -> Context] /\ resp \in [Requests -> Response]

LEMMA LabelsAre ==
    /\ "new" \in Labels /\ "windows" \in Labels /\ "public" \in Labels /\ "handle" \in Labels
    /\ "read" \in Labels /\ "lineage" \in Labels /\ "audit" \in Labels /\ "done" \in Labels
  BY DEF Labels

LEMMA RefusedTypes ==
    ASSUME Types, NEW r \in Requests, NEW code \in Nat, Refused(r, code)
    PROVE  resp' \in [Requests -> Response] /\ pc' \in [Requests -> Labels]
  BY LabelsAre DEF Types, Refused, Goto, Response

LEMMA GotoType ==
    ASSUME Types, NEW r \in Requests, NEW l \in Labels, Goto(r, l)
    PROVE  pc' \in [Requests -> Labels]
  BY DEF Types, Goto

LEMMA ResponseType ==
    ASSUME Types, NEW r \in Requests, NEW x \in Response, resp' = [resp EXCEPT ![r] = x]
    PROVE  resp' \in [Requests -> Response]
  BY DEF Types

(* A response with some of its fields changed.                             *)
LEMMA ResponseFields ==
    ASSUME NEW x \in Response
    PROVE  /\ \A c \in Nat : [x EXCEPT !.code = c] \in Response
           /\ \A a \in Nat : [x EXCEPT !.asof = a] \in Response
           /\ \A f \in FilterSet : [x EXCEPT !.filters = f] \in Response
           /\ \A b \in BOOLEAN : [x EXCEPT !.immutable = b] \in Response
           /\ \A b \in BOOLEAN : [x EXCEPT !.more = b] \in Response
  BY DEF Response

LEMMA RespondedType ==
    ASSUME Types, NEW r \in Requests, NEW c \in Nat, resp' = [resp EXCEPT ![r].code = c]
    PROVE  resp' \in [Requests -> Response]
<1>1. resp \in [Requests -> Response]
  BY DEF Types
<1>2. [resp[r] EXCEPT !.code = c] \in Response
  BY <1>1, ResponseFields
<1>3. resp' = [resp EXCEPT ![r] = [resp[r] EXCEPT !.code = c]]
  OBVIOUS
<1> QED BY <1>2, <1>3, ResponseType

LEMMA ImmutableType == ASSUME NEW a PROVE IsImmutable(a) \in BOOLEAN
  BY DEF IsImmutable

LEMMA NoResponseType == NoResponse \in Response
  BY DEF NoResponse, Response

LEMMA VerdictType ==
    ASSUME NEW r PROVE Verdict(r) \in {200, 400, 413, 503}
  BY DEF Verdict

LEMMA CommittedType ==
    ASSUME Types, NEW r, NEW bs
    PROVE  Committed(r, bs) \in [Buckets -> Nat]
  BY DEF Types, Committed

LEMMA AuthenticateTypes ==
    ASSUME Types, NEW r \in Requests, Authenticate(r) PROVE RequestTypes'
<1> USE DEF gateVars, Goto
<1>0. tokens' = tokens /\ log' = log /\ held' = held
  BY DEF Authenticate
<1>1. CASE Req(r).endpoint \in Public
  BY <1>0, <1>1, LabelsAre DEF Types, Authenticate, RequestTypes
<1>2. CASE Req(r).endpoint \notin Public /\ ~Authentic(r)
  BY <1>0, <1>2, RefusedTypes DEF Types, Authenticate, RequestTypes
<1>3. CASE Req(r).endpoint \notin Public /\ Authentic(r)
  <2>1. Req(r).key \in Keys
    BY <1>3 DEF Authentic
  <2>2. WindowFrom(Req(r).key, 1) \in 1 .. 4
    BY <2>1, WindowFromIs DEF Types
  <2>3. ctx' \in [Requests -> Context]
    <3>1. ctx' = [ctx EXCEPT ![r].key = Req(r).key, ![r].now = clock]
      BY <1>3 DEF Authenticate, Named
    <3> QED BY <2>1, <3>1, Typed DEF Context
  <2> QED BY <1>0, <1>3, <2>2, <2>3, LabelsAre DEF Types, Authenticate, RequestTypes
<1> QED BY <1>1, <1>2, <1>3

LEMMA TakeTokenTypes ==
    ASSUME Types, NEW r \in Requests, TakeToken(r) PROVE RequestTypes'
<1> DEFINE b == Bucket(r, Windows[win[r]])
           k == Req(r).key
<1>0. /\ pc[r] = "windows" /\ win[r] \in 1 .. 3 /\ k \in Keys /\ log' = log /\ ctx' = ctx
  BY WindowsAre DEF TakeToken, Types
<1>1. b \in Buckets
  BY <1>0, WindowsAre, BucketType
<1>2. WindowFrom(k, win[r] + 1) \in 1 .. 4
  <2>1. win[r] + 1 \in 1 .. 4 /\ prog \in Programs
    BY <1>0 DEF Types
  <2>2. WindowFrom(k, win[r] + 1) \in win[r] + 1 .. 4
    BY <1>0, <2>1, WindowFromIs
  <2> QED BY <1>0, <2>2
<1>3. CASE tokens[b] + 1 > Limits(k)[Windows[win[r]]]
  <2>1. /\ tokens' = Committed(r, held[r] \cup {b})
        /\ held' = [held EXCEPT ![r] = {}] /\ win' = win /\ Refused(r, 429)
    BY <1>3 DEF TakeToken
  <2>2. resp' \in [Requests -> Response] /\ pc' \in [Requests -> Labels]
    BY <2>1, RefusedTypes
  <2>3. tokens' \in [Buckets -> Nat]
    BY <2>1, CommittedType
  <2> QED BY <1>0, <2>1, <2>2, <2>3 DEF Types, RequestTypes
<1>4. CASE ~(tokens[b] + 1 > Limits(k)[Windows[win[r]]])
  <2>1. /\ held' = [held EXCEPT ![r] = @ \cup {b}]
        /\ win' = [win EXCEPT ![r] = WindowFrom(k, @ + 1)]
        /\ UNCHANGED <<tokens, pc, resp>>
    BY <1>4 DEF TakeToken
  <2> QED BY <1>0, <1>1, <1>2, <2>1 DEF Types, RequestTypes
<1> QED BY <1>3, <1>4

LEMMA FiltersType ==
    ASSUME Types, NEW r \in Requests, r \in DOMAIN prog.requests PROVE Filters(r) \in FilterSet
<1>1. Req(r) \in RequestArgs /\ clock \in Nat
  BY RequestType DEF Types
<1>2. <<>> \in Seq(Nat) /\ <<clock, r>> \in Nat \X Requests
  BY <1>1
<1>3. Req(r).asof # None => <<Req(r).asof>> \in Seq(Nat)
  BY <1>1 DEF RequestArgs
<1>4. /\ Req(r).range \in (Nat \X Nat) \cup {None} /\ Req(r).only \in SUBSET Nat
      /\ Req(r).pre \in BOOLEAN
  BY <1>1 DEF RequestArgs
<1> QED BY <1>2, <1>3, <1>4 DEF Filters, FilterSet

LEMMA ResolveTypes ==
    ASSUME Types, NEW r \in Requests, Resolve(r) PROVE RequestTypes'
<1>0. UNCHANGED <<tokens, log, win, held, ctx>> /\ pc[r] = "handle"
  BY DEF Resolve, gateVars
<1>1. CASE Verdict(r) # 200
  <2>1. Verdict(r) \in Nat
    BY VerdictType
  <2> QED BY <1>0, <1>1, <2>1, RefusedTypes DEF Resolve, Types, RequestTypes
<1>2. CASE Verdict(r) = 200
  <2>1. r \in DOMAIN prog.requests /\ clock \in Nat
    BY <1>0 DEF Types
  <2>2. Filters(r) \in FilterSet /\ Req(r).asof \in Nat \cup {None}
    BY <2>1, FiltersType, RequestType DEF Types, RequestArgs
  <2> DEFINE asof == IF Req(r).asof # None THEN Req(r).asof ELSE clock
  <2>3. asof \in Nat
    BY <2>1, <2>2
  <2>4. resp' = [resp EXCEPT ![r].asof = asof, ![r].filters = Filters(r)] /\ Goto(r, "read")
    BY <1>2 DEF Resolve
  <2> HIDE DEF asof
  <2> DEFINE x == [resp[r] EXCEPT !.asof = asof, !.filters = Filters(r)]
  <2>6. x \in Response
    <3>1. resp[r] \in Response
      BY DEF Types
    <3>2. [resp[r] EXCEPT !.asof = asof] \in Response
      BY <2>3, <3>1, ResponseFields
    <3> DEFINE y == [resp[r] EXCEPT !.asof = asof]
    <3>3. x = [y EXCEPT !.filters = Filters(r)]
      OBVIOUS
    <3> HIDE DEF x, y
    <3> QED BY <2>2, <3>2, <3>3, ResponseFields DEF y
  <2>7. resp' = [resp EXCEPT ![r] = x]
    BY <2>4 DEF Types
  <2>5. resp' \in [Requests -> Response]
    BY <2>6, <2>7, ResponseType
  <2> QED BY <1>0, <2>4, <2>5, LabelsAre DEF Types, RequestTypes, Goto
<1> QED BY <1>1, <1>2

LEMMA PageRows == \A q, S : \A P \in Pages(q, S) : P \subseteq S
  BY DEF Pages

LEMMA ReadCases ==
    ASSUME NEW r, Read(r)
    PROVE  \E rows \in Pages(Req(r), Rows(Req(r), resp[r].asof)) :
              \/ Refused(r, 404)
              \/ Refused(r, 409)
              \/ resp' = [resp EXCEPT ![r].rows = rows] /\ Goto(r, "lineage")
<1>1. PICK rows \in Pages(Req(r), Rows(Req(r), resp[r].asof)) :
          IF ReadVerdict(Req(r), rows) # 200
          THEN Refused(r, ReadVerdict(Req(r), rows))
          ELSE resp' = [resp EXCEPT ![r].rows = rows] /\ Goto(r, "lineage")
  BY Zenon DEF Read
<1>2. ReadVerdict(Req(r), rows) \in {200, 404, 409}
  BY DEF ReadVerdict
<1> QED BY <1>1, <1>2

LEMMA ReadTypes ==
    ASSUME Types, NEW r \in Requests, Read(r) PROVE RequestTypes'
<1>0. UNCHANGED <<tokens, log, win, held>> /\ Req(r).endpoint \in Routes
  BY DEF Read, gateVars, Types
<1>1. PICK rows \in Pages(Req(r), Rows(Req(r), resp[r].asof)) :
         \/ Refused(r, 404)
         \/ Refused(r, 409)
         \/ resp' = [resp EXCEPT ![r].rows = rows] /\ Goto(r, "lineage")
  BY ReadCases
<1>2. ctx' \in [Requests -> Context]
  BY Typed DEF Read, Context
<1>3. rows \in SUBSET AnswerRow
  <2>1. rows \subseteq Rows(Req(r), resp[r].asof)
    BY PageRows
  <2> QED BY <1>0, <2>1, RowsAnswer DEF Answer
<1>4. CASE resp' = [resp EXCEPT ![r].rows = rows] /\ Goto(r, "lineage")
  <2>1. resp' \in [Requests -> Response]
    BY <1>3, <1>4, Typed DEF Response
  <2> QED BY <1>0, <1>2, <1>4, <2>1, LabelsAre DEF Types, RequestTypes, Goto
<1>5. CASE \E code \in Nat : Refused(r, code)
  BY <1>0, <1>2, <1>5, RefusedTypes DEF Types, RequestTypes
<1> QED BY <1>1, <1>4, <1>5

LEMMA LineageType ==
    ASSUME Types, NEW r, NEW v
    PROVE  /\ Lineage(r, v) \subseteq StoreRow
           /\ \A l \in Lineage(r, v) : l.asof <= LineageTime(r, v)
  BY DEF Types, Lineage, LineageAt

LEMMA ReadLineageTypes ==
    ASSUME Types, NEW r \in Requests, ReadLineage(r) PROVE RequestTypes'
<1>0. UNCHANGED <<tokens, log, pc, win, held, ctx>>
  BY DEF ReadLineage, gateVars
<1>1. PICK x \in resp[r].rows :
         resp' = [resp EXCEPT ![r].rows =
            (@ \ {x}) \cup {[x EXCEPT !.lineage = Lineage(r, x.row)]}]
  BY DEF ReadLineage
<1>2. resp[r].rows \in SUBSET AnswerRow /\ x \in AnswerRow
  BY <1>1 DEF Types, Response
<1>3. [x EXCEPT !.lineage = Lineage(r, x.row)] \in AnswerRow
  <2>1. Lineage(r, x.row) \in SUBSET StoreRow
    BY LineageType
  <2> QED BY <1>2, <2>1 DEF AnswerRow
<1> DEFINE rows == (resp[r].rows \ {x}) \cup {[x EXCEPT !.lineage = Lineage(r, x.row)]}
           y == [resp[r] EXCEPT !.rows = rows]
<1>4. resp' \in [Requests -> Response]
  <2>1. rows \in SUBSET AnswerRow
    BY <1>2, <1>3
  <2>2. resp' = [resp EXCEPT ![r] = y]
    BY <1>1 DEF Types
  <2> HIDE DEF rows
  <2>3. y \in Response
    BY <2>1, Typed DEF Response
  <2> HIDE DEF y
  <2> QED BY <2>2, <2>3, ResponseType
<1> QED BY <1>0, <1>4 DEF Types, RequestTypes

LEMMA RequestActionTypes ==
    ASSUME Types, NEW r \in Requests, RequestAction(r) PROVE RequestTypes'
<1> USE DEF gateVars
<1>1. CASE Admit(r)
  <2>1. tokens' \in [Buckets -> Nat] /\ held' \in [Requests -> SUBSET Buckets]
    BY <1>1, CommittedType DEF Admit, Types
  <2>2. ctx' \in [Requests -> Context]
    BY <1>1 DEF Admit, Types, Context
  <2>3. pc' \in [Requests -> Labels]
    BY <1>1, GotoType, LabelsAre DEF Admit
  <2> QED BY <1>1, <2>1, <2>2, <2>3 DEF Admit, Types, RequestTypes
<1>2. CASE SetCacheHeaders(r)
  <2> DEFINE q == Req(r)
             i == IsImmutable(IF q.endpoint \notin Single /\ q.range # None
                              THEN q.range[2] ELSE resp[r].asof)
             m == q.endpoint \notin Single /\ Cardinality(resp[r].rows) = q.limit
             y == [[[resp[r] EXCEPT !.code = 200] EXCEPT !.immutable = i] EXCEPT !.more = m]
  <2>1. /\ ctx' = [ctx EXCEPT ![r].headAt = clock]
        /\ resp' = [resp EXCEPT ![r].code = 200, ![r].immutable = i, ![r].more = m]
    BY <1>2, Zenon DEF SetCacheHeaders
  <2>2. ctx' \in [Requests -> Context]
    <3>1. ctx \in [Requests -> Context] /\ clock \in Nat
      BY DEF Types
    <3> QED BY <2>1, <3>1 DEF Context
  <2>3. i \in BOOLEAN /\ m \in BOOLEAN
    <3>1. i \in BOOLEAN
      BY ImmutableType
    <3> QED BY <3>1, Zenon
  <2> HIDE DEF i, m
  <2>4. y \in Response
    <3>0. resp[r] \in Response
      BY DEF Types
    <3>1. [resp[r] EXCEPT !.code = 200] \in Response
      BY <3>0, ResponseFields
    <3>2. [[resp[r] EXCEPT !.code = 200] EXCEPT !.immutable = i] \in Response
      BY <2>3, <3>1, ResponseFields
    <3> QED BY <2>3, <3>2, ResponseFields
  <2>5. resp' = [resp EXCEPT ![r] = y]
    BY <2>1 DEF Types
  <2> HIDE DEF y
  <2>6. resp' \in [Requests -> Response]
    BY <2>4, <2>5, ResponseType
  <2>7. pc' \in [Requests -> Labels]
    BY <1>2, GotoType, LabelsAre DEF SetCacheHeaders
  <2> QED BY <1>2, <2>2, <2>6, <2>7 DEF SetCacheHeaders, Types, RequestTypes
<1>3. CASE HandlePublic(r)
  <2> DEFINE code == IF Req(r).endpoint = "verify_moat_2" /\ status # "green" THEN 503 ELSE 200
  <2>0. code \in Nat
    OBVIOUS
  <2>1. resp' = [resp EXCEPT ![r].code = code]
    BY <1>3 DEF HandlePublic
  <2> HIDE DEF code
  <2>2. resp' \in [Requests -> Response]
    BY <2>0, <2>1, RespondedType
  <2>3. pc' \in [Requests -> Labels]
    BY <1>3, GotoType, LabelsAre DEF HandlePublic
  <2> QED BY <1>3, <2>2, <2>3 DEF HandlePublic, Types, RequestTypes
<1>4. CASE Audit(r) \/ AuditFails(r)
  <2>1. pc' \in [Requests -> Labels]
    BY <1>4, GotoType, LabelsAre DEF Audit, AuditFails
  <2>2. log' = [q \in Requests |-> log'[q]]
    BY <1>4 DEF Audit, AuditFails, Types
  <2> QED BY <1>4, <2>1, <2>2 DEF Audit, AuditFails, Types, RequestTypes
<1>5. CASE RequestFails(r)
  <2>1. PICK code \in {0, 500} : resp' = [resp EXCEPT ![r] = [NoResponse EXCEPT !.code = code]]
    BY <1>5 DEF RequestFails
  <2>2. [NoResponse EXCEPT !.code = code] \in Response
    BY NoResponseType, ResponseFields
  <2>3. resp' \in [Requests -> Response]
    BY <2>1, <2>2, ResponseType
  <2>4. pc' \in [Requests -> Labels] /\ held' \in [Requests -> SUBSET Buckets]
    BY <1>5, GotoType, LabelsAre DEF RequestFails, Types
  <2> QED BY <1>5, <2>3, <2>4 DEF RequestFails, Types, RequestTypes
<1> QED BY <1>1, <1>2, <1>3, <1>4, <1>5, AuthenticateTypes, TakeTokenTypes, ResolveTypes,
        ReadTypes, ReadLineageTypes DEF RequestAction, RequestStep

(* How far a request has come tells what its parameters are.               *)
LEMMA RequestStages ==
    ASSUME Types, NEW r \in Requests, RequestAction(r)
    PROVE  \A q \in Requests :
              /\ pc'[q] # "new" => q \in DOMAIN prog.requests
              /\ pc'[q] = "windows" => Req(q).key \in Keys
              /\ pc'[q] \in {"windows", "handle", "read", "lineage"} => Req(q).endpoint \in Routes
<1>1. /\ pc'[r] # "new" => r \in DOMAIN prog.requests
      /\ pc'[r] = "windows" => Req(r).key \in Keys
      /\ pc'[r] \in {"windows", "handle", "read", "lineage"} => Req(r).endpoint \in Routes
  <2> USE DEF Goto, Refused
  <2>0. pc \in [Requests -> Labels]
    BY DEF Types
  <2>1. CASE Authenticate(r)
    <3>1. r \in DOMAIN prog.requests /\ Req(r).endpoint \in Routes \cup Public
      BY <2>1, RequestType DEF Authenticate, Types, RequestArgs
    <3>2. \/ pc'[r] = "public" \/ pc'[r] = "audit"
          \/ pc'[r] = "windows" /\ Req(r).endpoint \notin Public /\ Authentic(r)
      BY <2>0, <2>1 DEF Authenticate
    <3> QED BY <3>1, <3>2 DEF Authentic
  <2>2. CASE TakeToken(r)
    <3>1. pc[r] = "windows" /\ (pc'[r] = "audit" \/ pc'[r] = "windows")
      BY <2>0, <2>2 DEF TakeToken
    <3> QED BY <3>1 DEF Types
  <2>3. CASE Admit(r)
    <3>1. pc[r] = "windows" /\ pc'[r] = "handle"
      BY <2>0, <2>3 DEF Admit
    <3> QED BY <3>1 DEF Types
  <2>4. CASE Resolve(r)
    <3>1. pc[r] = "handle" /\ (pc'[r] = "audit" \/ pc'[r] = "read")
      BY <2>0, <2>4 DEF Resolve
    <3> QED BY <3>1 DEF Types
  <2>5. CASE Read(r)
    <3>1. pc[r] = "read" /\ (pc'[r] = "audit" \/ pc'[r] = "lineage")
      BY <2>0, <2>5 DEF Read
    <3> QED BY <3>1 DEF Types
  <2>6. CASE ReadLineage(r)
    <3>1. pc[r] = "lineage" /\ pc'[r] = "lineage"
      BY <2>0, <2>6 DEF ReadLineage
    <3> QED BY <3>1 DEF Types
  <2>7. CASE SetCacheHeaders(r) \/ HandlePublic(r) \/ Audit(r) \/ AuditFails(r) \/ RequestFails(r)
    <3>1. pc[r] # "new" /\ pc'[r] \in {"audit", "done"}
      BY <2>0, <2>7 DEF SetCacheHeaders, HandlePublic, Audit, AuditFails, RequestFails
    <3> QED BY <3>1 DEF Types
  <2> QED BY <2>1, <2>2, <2>3, <2>4, <2>5, <2>6, <2>7 DEF RequestAction, RequestStep
<1>2. \A q \in Requests \ {r} : pc'[q] = pc[q]
  BY RequestOthers DEF OthersStay
<1> QED BY <1>1, <1>2 DEF Types

(* Writers leave the requests alone, and what they store is a row.         *)
WriterAction(w) == WriterBegins(w) \/ WriterCommits(w)

CanaryAction(c) == CanaryReads(c) \/ CanaryPersists(c) \/ CanaryFails(c)

LEMMA StoredType ==
    ASSUME Types, NEW w \in Writers, w \in DOMAIN prog.writes PROVE Stored(w) \subseteq StoreRow
<1> DEFINE u == prog.writes[w]
           v == [table |-> u.table, key |-> u.key, val |-> u.val, kind |-> u.kind,
                 asof |-> IF u.asof = None THEN began[w] ELSE u.asof,
                 when |-> u.when, at |-> clock, pre |-> FALSE, sort |-> u.sort]
           same == {x \in store : x.table = v.table /\ x.key = v.key}
<1>1. u \in WriteArgs
  BY ResearchPrograms DEF Types
<1>2. began[w] \in Nat /\ clock \in Nat /\ store \subseteq StoreRow
  BY DEF Types
<1>3. (IF u.asof = None THEN began[w] ELSE u.asof) \in Nat
  BY <1>1, <1>2 DEF WriteArgs
<1>4. v \in StoreRow
  BY <1>1, <1>2, <1>3 DEF WriteArgs, StoreRow
<1>5. Stored(w) = IF u.op = "replace" THEN (store \ same) \cup {v}
                  ELSE IF \E x \in same : x.asof = v.asof THEN store ELSE store \cup {v}
  BY DEF Stored
<1> HIDE DEF u, v, same
<1> QED BY <1>2, <1>4, <1>5

LEMMA TypesTick == ASSUME Types, Tick PROVE Types'
<1>1. clock' \in 0 .. MaxClock
  BY ResearchConstants DEF Tick, Types
<1> QED BY <1>1 DEF Tick, Types, gateVars, reqVars, writerVars, canaryVars, Req

LEMMA TypesRequest == ASSUME Types, NEW r \in Requests, RequestAction(r) PROVE Types'
<1>1. RequestTypes'
  BY RequestActionTypes
<1>2. /\ UNCHANGED <<prog, clock, store, writerVars, canaryVars>>
      /\ faults' \in 0 .. MaxFaults
  BY RequestFrame
<1>3. \A q \in Requests :
              /\ pc'[q] # "new" => q \in DOMAIN prog.requests
              /\ pc'[q] = "windows" => Req(q).key \in Keys
              /\ pc'[q] \in {"windows", "handle", "read", "lineage"} => Req(q).endpoint \in Routes
  BY RequestStages
<1> QED BY <1>1, <1>2, <1>3 DEF Types, RequestTypes, writerVars, canaryVars, Req

LEMMA TypesWriter == ASSUME Types, NEW w \in Writers, WriterAction(w) PROVE Types'
<1>1. UNCHANGED <<prog, clock, gateVars, reqVars, canaryVars, faults>>
  BY DEF WriterAction, WriterBegins, WriterCommits
<1>2. CASE WriterBegins(w)
  <2>1. wpc' \in [Writers -> {"new", "open", "done"}] /\ began' \in [Writers -> Nat]
    BY <1>2 DEF WriterBegins, Types
  <2> QED BY <1>1, <1>2, <2>1 DEF WriterBegins, Types, gateVars, reqVars, canaryVars, Req
<1>3. CASE WriterCommits(w)
  <2>1. w \in DOMAIN prog.writes
    BY <1>3 DEF WriterCommits, Types
  <2>2. wpc' \in [Writers -> {"new", "open", "done"}] /\ store' \subseteq StoreRow
    BY <1>3, <2>1, StoredType DEF WriterCommits, Types
  <2> QED BY <1>1, <1>3, <2>2 DEF WriterCommits, Types, gateVars, reqVars, canaryVars, Req
<1> QED BY <1>2, <1>3 DEF WriterAction

LEMMA TypesCanary == ASSUME Types, NEW c \in Canaries, CanaryAction(c) PROVE Types'
<1>1. UNCHANGED <<prog, clock, gateVars, store, reqVars, writerVars>>
  BY DEF CanaryAction, CanaryReads, CanaryPersists, CanaryFails
<1>2. Reads \in Nat
  <2>1. prog.cases \in Seq(Amendment)
    BY ResearchPrograms, Zenon DEF Types
  <2> QED BY <2>1 DEF Reads
<1>3. /\ cpc' \in [Canaries -> Nat] /\ red' \in [Canaries -> BOOLEAN]
      /\ status' \in {"unknown", "green", "red"} /\ faults' \in 0 .. MaxFaults
  <2> USE DEF Types
  <2>1. CASE CanaryReads(c)
    <3> DEFINE e == Expected(cpc[c])
               wrong == {v.val : v \in {x \in At(e.asof) : x.key = e.key}} # {e.val}
    <3>1. /\ cpc' = [cpc EXCEPT ![c] = @ + 1] /\ red' = [red EXCEPT ![c] = @ \/ wrong]
          /\ status' = status /\ faults' = faults
      BY <2>1 DEF CanaryReads
    <3>2. wrong \in BOOLEAN
      OBVIOUS
    <3> HIDE DEF wrong
    <3>3. red' \in [Canaries -> BOOLEAN]
      BY <3>1, <3>2, Zenon
    <3> QED BY <3>1, <3>3
  <2>2. CASE CanaryPersists(c)
    BY <2>2 DEF CanaryPersists
  <2>3. CASE CanaryFails(c)
    BY <1>2, <2>3, ResearchConstants DEF CanaryFails, Fault
  <2> QED BY <2>1, <2>2, <2>3 DEF CanaryAction
<1> QED BY <1>1, <1>3 DEF Types, gateVars, reqVars, writerVars, Req

LEMMA NextCases ==
    ASSUME [Next]_vars
    PROVE  \/ UNCHANGED vars \/ Tick
           \/ \E r \in Requests : RequestAction(r)
           \/ \E w \in Writers : WriterAction(w)
           \/ \E c \in Canaries : CanaryAction(c)
  BY DEF Next, RequestAction, WriterAction, CanaryAction

LEMMA TypesNext == Types /\ [Next]_vars => Types'
<1> SUFFICES ASSUME Types, [Next]_vars PROVE Types'
  OBVIOUS
<1>1. CASE UNCHANGED vars
  BY <1>1 DEF vars, Types, gateVars, reqVars, writerVars, canaryVars, Req
<1> QED BY <1>1, NextCases, TypesTick, TypesRequest, TypesWriter, TypesCanary

LEMMA TypesHold == Spec => []Types
  BY TypesInit, TypesNext, PTL DEF Spec

(* The model is typed: the tokens are counts, a request is at one of its   *)
(* labels, holds buckets that exist and is known under a key or none.      *)
THEOREM TypeCorrect == Spec => []TypeOK
<1>1. Types => TypeOK
  <2> SUFFICES ASSUME Types PROVE TypeOK
    OBVIOUS
  <2>1. clock \in Nat /\ \A r \in Requests : ctx[r].key \in Keys \cup {None}
    BY DEF Types, Context
  <2> QED BY <2>1 DEF Types, TypeOK
<1> QED BY <1>1, TypesHold, PTL

-----------------------------------------------------------------------------
(* No look-ahead: rows are read after as_of is resolved, and as_of then    *)
(* stays; only the endpoints of entities have a lineage.                   *)
Early == {"new", "public", "windows", "handle", "read"}

LooksBack(r, x) ==
    /\ InTime(Req(r), resp[r].asof, x.row)
    /\ x.lineage # {} => Req(r).endpoint \in {"entities", "get_entity"}
    /\ x.lineage # None => \A l \in x.lineage : l.asof <= LineageTime(r, x.row)

Answers ==
    \A r \in Requests :
        /\ pc[r] \in Early => resp[r].rows = {}
        /\ \A x \in resp[r].rows : LooksBack(r, x)

LEMMA AnswersKept ==
    ASSUME Types, Answers, NEW r \in Requests, prog' = prog,
           resp'[r].rows = resp[r].rows, resp'[r].asof = resp[r].asof,
           pc'[r] \in Early => pc[r] \in Early
    PROVE  /\ pc'[r] \in Early => resp'[r].rows = {}
           /\ \A x \in resp'[r].rows : LooksBack(r, x)'
  BY DEF Answers, LooksBack, LineageTime, Req

LEMMA RefusedKeeps ==
    ASSUME Types, NEW r \in Requests, NEW code, Refused(r, code)
    PROVE  /\ resp'[r].rows = resp[r].rows /\ resp'[r].asof = resp[r].asof
           /\ resp'[r].code = code /\ pc'[r] = "audit"
<1>1. resp \in [Requests -> Response] /\ pc \in [Requests -> Labels]
  BY DEF Types
<1> QED BY <1>1 DEF Refused, Goto, Response

LEMMA AnswersOwn ==
    ASSUME Types, Answers, NEW r \in Requests, RequestAction(r)
    PROVE  /\ pc'[r] \in Early => resp'[r].rows = {}
           /\ \A x \in resp'[r].rows : LooksBack(r, x)'
<1>0. prog' = prog /\ pc \in [Requests -> Labels] /\ resp \in [Requests -> Response]
  BY RequestFrame DEF Types
<1> USE DEF Goto
<1>1. CASE Authenticate(r)
  <2>1. pc[r] \in Early
    BY <1>1 DEF Authenticate, Early
  <2>2. resp' = resp \/ Refused(r, 401)
    BY <1>1 DEF Authenticate
  <2> QED BY <1>0, <2>1, <2>2, AnswersKept, RefusedKeeps
<1>2. CASE TakeToken(r)
  <2>1. pc[r] \in Early
    BY <1>2 DEF TakeToken, Early
  <2>2. resp' = resp \/ Refused(r, 429)
    BY <1>2 DEF TakeToken
  <2> QED BY <1>0, <2>1, <2>2, AnswersKept, RefusedKeeps
<1>3. CASE Admit(r)
  <2>1. pc[r] \in Early /\ resp' = resp
    BY <1>3 DEF Admit, Early
  <2> QED BY <1>0, <2>1, AnswersKept
<1>4. CASE Resolve(r)
  <2>1. CASE Refused(r, Verdict(r))
    <3>1. pc[r] \in Early
      BY <1>4 DEF Resolve, Early
    <3> QED BY <1>0, <2>1, <3>1, AnswersKept, RefusedKeeps
  <2>2. CASE ~Refused(r, Verdict(r))
    <3>1. resp[r].rows = {}
      BY <1>4 DEF Resolve, Early, Answers
    <3>2. PICK a, f : resp' = [resp EXCEPT ![r].asof = a, ![r].filters = f]
      BY <1>4, <2>2 DEF Resolve
    <3>3. resp'[r].rows = resp[r].rows
      BY <1>0, <3>2 DEF Response
    <3> QED BY <3>1, <3>3
  <2> QED BY <2>1, <2>2
<1>5. CASE Read(r)
  <2>0. pc[r] \in Early /\ Req(r).endpoint \in Routes
    BY <1>5 DEF Read, Early, Types
  <2>1. PICK rows \in Pages(Req(r), Rows(Req(r), resp[r].asof)) :
           \/ Refused(r, 404)
           \/ Refused(r, 409)
           \/ resp' = [resp EXCEPT ![r].rows = rows] /\ Goto(r, "lineage")
    BY <1>5, ReadCases
  <2>2. CASE \E code \in {404, 409} : Refused(r, code)
    BY <1>0, <2>0, <2>2, AnswersKept, RefusedKeeps
  <2>3. CASE resp' = [resp EXCEPT ![r].rows = rows] /\ Goto(r, "lineage")
    <3>1. \A x \in rows : Answer(Req(r), resp[r].asof, x)
      <4>1. rows \subseteq Rows(Req(r), resp[r].asof)
        BY PageRows
      <4> QED BY <2>0, <4>1, RowsAnswer
    <3>2. resp'[r].rows = rows /\ resp'[r].asof = resp[r].asof /\ pc'[r] = "lineage"
      BY <1>0, <2>3 DEF Response
    <3>3. \A x \in rows : LooksBack(r, x)'
      BY <1>0, <3>1, <3>2, ResearchConstants DEF Answer, LooksBack, Req
    <3> QED BY <3>2, <3>3 DEF Early
  <2> QED BY <2>1, <2>2, <2>3
<1>6. CASE ReadLineage(r)
  <2>1. PICK x \in resp[r].rows :
           /\ x.lineage = None
           /\ resp' = [resp EXCEPT ![r].rows =
                 (@ \ {x}) \cup {[x EXCEPT !.lineage = Lineage(r, x.row)]}]
    BY <1>6 DEF ReadLineage
  <2> DEFINE y == [x EXCEPT !.lineage = Lineage(r, x.row)]
  <2>2. x \in AnswerRow /\ LooksBack(r, x)
    BY <1>0, <2>1 DEF Answers, Response
  <2>3. y.row = x.row /\ y.lineage = Lineage(r, x.row)
    BY <2>2 DEF AnswerRow
  <2>4. Req(r).endpoint \in {"entities", "get_entity"}
    BY <2>1, <2>2, ResearchConstants DEF LooksBack
  <2>5. LooksBack(r, y)
    BY <2>2, <2>3, <2>4, LineageType DEF LooksBack
  <2>6. /\ resp'[r].rows = (resp[r].rows \ {x}) \cup {y}
        /\ resp'[r].asof = resp[r].asof /\ pc'[r] = "lineage"
    BY <1>0, <1>6, <2>1 DEF ReadLineage, Response
  <2> HIDE DEF y
  <2>7. \A z \in resp'[r].rows : LooksBack(r, z)
    BY <2>5, <2>6 DEF Answers
  <2> QED BY <1>0, <2>6, <2>7 DEF LooksBack, LineageTime, Req, Early
<1>7. CASE SetCacheHeaders(r)
  <2>1. PICK i, m : resp' = [resp EXCEPT ![r].code = 200, ![r].immutable = i, ![r].more = m]
    BY <1>7, Zenon DEF SetCacheHeaders
  <2>2. resp'[r].rows = resp[r].rows /\ resp'[r].asof = resp[r].asof
    BY <1>0, <2>1 DEF Response
  <2>3. pc'[r] \notin Early
    BY <1>0, <1>7 DEF SetCacheHeaders, Early
  <2> QED BY <1>0, <2>2, <2>3, AnswersKept
<1>8. CASE HandlePublic(r)
  <2>1. PICK c : resp' = [resp EXCEPT ![r].code = c]
    BY <1>8, Zenon DEF HandlePublic
  <2>2. resp'[r].rows = resp[r].rows /\ resp'[r].asof = resp[r].asof
    BY <1>0, <2>1 DEF Response
  <2>3. pc'[r] \notin Early
    BY <1>0, <1>8 DEF HandlePublic, Early
  <2> QED BY <1>0, <2>2, <2>3, AnswersKept
<1>9. CASE Audit(r) \/ AuditFails(r)
  <2>1. resp' = resp /\ pc'[r] \notin Early
    BY <1>0, <1>9 DEF Audit, AuditFails, Early
  <2> QED BY <1>0, <2>1, AnswersKept
<1>10. CASE RequestFails(r)
  <2>1. resp'[r].rows = {}
    BY <1>0, <1>10 DEF RequestFails, NoResponse
  <2> QED BY <2>1
<1> QED BY <1>1, <1>2, <1>3, <1>4, <1>5, <1>6, <1>7, <1>8, <1>9, <1>10
        DEF RequestAction, RequestStep

LEMMA AnswersNext == Types /\ Answers /\ [Next]_vars => Answers'
<1> SUFFICES ASSUME Types, Answers, [Next]_vars PROVE Answers'
  OBVIOUS
<1>1. ASSUME NEW r \in Requests, RequestAction(r) PROVE Answers'
  <2>1. OthersStay(r) /\ prog' = prog
    BY <1>1, RequestOthers, RequestFrame
  <2>2. \A q \in Requests \ {r} : /\ pc'[q] \in Early => resp'[q].rows = {}
                                  /\ \A x \in resp'[q].rows : LooksBack(q, x)'
    BY <2>1, AnswersKept DEF OthersStay
  <2>3. /\ pc'[r] \in Early => resp'[r].rows = {}
        /\ \A x \in resp'[r].rows : LooksBack(r, x)'
    BY <1>1, AnswersOwn
  <2> QED BY <2>2, <2>3 DEF Answers
<1>2. CASE ~\E r \in Requests : RequestAction(r)
  <2>1. prog' = prog /\ pc' = pc /\ resp' = resp
    BY <1>2, NextCases DEF vars, reqVars, Tick, WriterAction, WriterBegins, WriterCommits,
       CanaryAction, CanaryReads, CanaryPersists, CanaryFails
  <2> QED BY <2>1, AnswersKept DEF Answers
<1> QED BY <1>1, <1>2

LEMMA AnswersHold == Spec => []Answers
<1>1. Init => Answers
  BY DEF Init, NoResponse, Answers
<1> QED BY <1>1, AnswersNext, TypesHold, PTL DEF Spec

(* No answer looks ahead: whatever writers commit between the resolution   *)
(* of as_of, the read of the rows and the reads of their lineage, a row    *)
(* and its lineage are not later than the point or interval asked about,   *)
(* but for the rows of unknown provenance where include_pre_bitemporal     *)
(* asked for them.                                                         *)
THEOREM AnswersLookBack == Spec => []NoLookAhead
<1>1. Types /\ Answers => NoLookAhead
  <2> SUFFICES ASSUME Types, Answers, NEW r \in Requests, NEW x \in resp[r].rows, Historical(r)
               PROVE  LET range == Req(r).range
                          upTo == IF range # None /\ Req(r).endpoint \notin Single
                                  THEN x.row.asof ELSE resp[r].asof
                      IN  /\ x.row.asof <= upTo \/ (x.row.pre /\ AsksForBackfill(Req(r)))
                          /\ (range # None /\ Req(r).endpoint \notin Single) =>
                                range[1] <= x.row.asof /\ x.row.asof < range[2]
                          /\ x.lineage # None => \A l \in x.lineage : l.asof <= upTo
    BY DEF NoLookAhead
  <2>1. x \in AnswerRow /\ LooksBack(r, x)
    BY Typed DEF Answers, Response
  <2>2. x.row.asof \in Nat
    BY <2>1 DEF AnswerRow, ShownRow
  <2>3. CASE x.lineage = {}
    BY <2>1, <2>2, <2>3 DEF LooksBack, InTime, Historical
  <2>4. CASE x.lineage # {}
    BY <2>1, <2>2, <2>4 DEF LooksBack, InTime, Historical, LineageTime, Single,
                         AsksForBackfill
  <2> QED BY <2>3, <2>4
<1> QED BY <1>1, TypesHold, AnswersHold, PTL

-----------------------------------------------------------------------------
(* The canary: as long as no row was added to the past, a replay reads     *)
(* what the amendments say.                                                *)
Rewritten ==
    \E v \in store \ prog.rows : \E n \in DOMAIN prog.cases : v.asof <= prog.cases[n].after

History ==
    /\ DOMAIN prog.cases # {} => prog.rows \subseteq store
    /\ (status = "red" \/ \E c \in Canaries : red[c]) => Rewritten

LEMMA CasesType ==
    ASSUME Types
    PROVE  /\ prog.cases \in Seq(Amendment) /\ prog.rows \subseteq StoreRow
           /\ \A n \in DOMAIN prog.cases : LET case == prog.cases[n] IN
                 /\ case.before <= case.after
                 /\ ValueIn(prog.rows, case.key, case.before) = {case.first}
                 /\ ValueIn(prog.rows, case.key, case.after) = {case.second}
                 /\ \A w \in DOMAIN prog.writes : prog.writes[w].op # "replace"
<1>1. prog \in Programs
  BY DEF Types
<1> QED BY <1>1, ResearchPrograms, Zenon

(* A table that is amended only grows.                                     *)
LEMMA StoreGrows ==
    ASSUME Types, NEW w \in Writers, WriterCommits(w), DOMAIN prog.cases # {}
    PROVE  store \subseteq store'
<1>1. w \in DOMAIN prog.writes /\ store' = Stored(w)
  BY DEF WriterCommits, Types
<1>2. prog.writes[w].op # "replace"
  BY <1>1, CasesType
<1> QED BY <1>1, <1>2 DEF Stored

LEMMA PastIsKept ==
    ASSUME Types, History, ~Rewritten, NEW n \in DOMAIN prog.cases, NEW t \in Nat,
           t <= prog.cases[n].after, NEW key
    PROVE  {v.val : v \in {x \in At(t) : x.key = key}} = ValueIn(prog.rows, key, t)
<1>1. prog.cases[n].after \in Nat
  <2>1. prog.cases \in Seq(Amendment)
    BY CasesType
  <2>2. prog.cases[n] \in Amendment
    BY <2>1
  <2> QED BY <2>2 DEF Amendment
<1>2. \A v \in store : v.asof \in Nat
  BY DEF Types, StoreRow
<1>3. prog.rows \subseteq store
  BY DEF History
<1>4. \A v \in store : v.asof <= t => v \in prog.rows
  BY <1>1, <1>2 DEF Rewritten
<1>5. {v \in Main : v.asof <= t} = {v \in prog.rows : v.table = "main" /\ v.asof <= t}
  BY <1>3, <1>4 DEF Main
<1> QED BY <1>5 DEF At, ValueIn

LEMMA ExpectedIs ==
    ASSUME Types, NEW m \in Nat, m < Reads
    PROVE  \E n \in DOMAIN prog.cases :
              /\ Expected(m).asof \in Nat /\ Expected(m).asof <= prog.cases[n].after
              /\ ValueIn(prog.rows, Expected(m).key, Expected(m).asof) = {Expected(m).val}
<1> DEFINE n == (m \div 2) + 1
           case == prog.cases[n]
<1>1. prog.cases \in Seq(Amendment)
  BY CasesType
<1>2. n \in 1 .. Len(prog.cases)
  <2>1. Len(prog.cases) \in Nat
    BY <1>1
  <2> QED BY <2>1 DEF Reads
<1>3. n \in DOMAIN prog.cases /\ case \in Amendment
  BY <1>1, <1>2
<1>4. /\ case.before <= case.after
      /\ ValueIn(prog.rows, case.key, case.before) = {case.first}
      /\ ValueIn(prog.rows, case.key, case.after) = {case.second}
  BY <1>3, CasesType, Zenon
<1>5. case.before \in Nat /\ case.after \in Nat
  BY <1>3 DEF Amendment
<1>6. Expected(m) = IF m % 2 = 0 THEN [key |-> case.key, asof |-> case.before, val |-> case.first]
                    ELSE [key |-> case.key, asof |-> case.after, val |-> case.second]
  BY DEF Expected
<1> HIDE DEF n, case
<1>7. /\ Expected(m).asof \in Nat /\ Expected(m).asof <= case.after
      /\ ValueIn(prog.rows, Expected(m).key, Expected(m).asof) = {Expected(m).val}
  BY <1>4, <1>5, <1>6
<1> QED BY <1>3, <1>7 DEF case

LEMMA WrongIsDue ==
    ASSUME Types, History, NEW m \in Nat, m < Reads,
           {v.val : v \in {x \in At(Expected(m).asof) : x.key = Expected(m).key}}
               # {Expected(m).val}
    PROVE  Rewritten
<1> SUFFICES ASSUME ~Rewritten PROVE FALSE
  OBVIOUS
<1>1. PICK n \in DOMAIN prog.cases :
              /\ Expected(m).asof \in Nat /\ Expected(m).asof <= prog.cases[n].after
              /\ ValueIn(prog.rows, Expected(m).key, Expected(m).asof) = {Expected(m).val}
  BY ExpectedIs
<1> QED BY <1>1, PastIsKept

LEMMA HistoryNext == Types /\ History /\ [Next]_vars => History'
<1> SUFFICES ASSUME Types, History, [Next]_vars PROVE History'
  OBVIOUS
<1>1. CASE UNCHANGED vars \/ Tick \/ \E r \in Requests : RequestAction(r)
  <2>1. prog' = prog /\ store' = store /\ status' = status /\ red' = red
    BY <1>1, RequestFrame DEF vars, Tick, canaryVars
  <2> QED BY <2>1 DEF History, Rewritten
<1>2. ASSUME NEW w \in Writers, WriterAction(w) PROVE History'
  <2>1. prog' = prog /\ status' = status /\ red' = red
    BY <1>2 DEF WriterAction, WriterBegins, WriterCommits, canaryVars
  <2>2. DOMAIN prog.cases # {} => store \subseteq store'
    BY <1>2, StoreGrows DEF WriterAction, WriterBegins
  <2> QED BY <2>1, <2>2 DEF History, Rewritten
<1>3. ASSUME NEW c \in Canaries, CanaryAction(c) PROVE History'
  <2>0. prog' = prog /\ store' = store /\ cpc \in [Canaries -> Nat] /\ red \in [Canaries -> BOOLEAN]
    BY <1>3 DEF CanaryAction, CanaryReads, CanaryPersists, CanaryFails, Types
  <2>1. CASE CanaryReads(c)
    <3> DEFINE e == Expected(cpc[c])
               wrong == {v.val : v \in {x \in At(e.asof) : x.key = e.key}} # {e.val}
    <3>1. red' = [red EXCEPT ![c] = @ \/ wrong] /\ status' = status /\ cpc[c] < Reads
      BY <2>1 DEF CanaryReads
    <3>2. wrong => Rewritten
      BY <2>0, <3>1, WrongIsDue
    <3> HIDE DEF wrong
    <3>3. \A d \in Canaries : red'[d] => red[d] \/ wrong
      BY <2>0, <3>1, Zenon
    <3> QED BY <2>0, <3>1, <3>2, <3>3 DEF History, Rewritten
  <2>2. CASE CanaryPersists(c)
    <3>1. red' = red /\ (status' = "red" => red[c])
      BY <2>2 DEF CanaryPersists
    <3> QED BY <2>0, <3>1 DEF History, Rewritten
  <2>3. CASE CanaryFails(c)
    <3>1. red' = red /\ status' = status
      BY <2>3 DEF CanaryFails
    <3> QED BY <2>0, <3>1 DEF History, Rewritten
  <2> QED BY <1>3, <2>1, <2>2, <2>3 DEF CanaryAction
<1> QED BY <1>1, <1>2, <1>3, NextCases

(* The canary turns red only if history was rewritten: its verdict, made   *)
(* of reads that writers may come between, is red only when a row was      *)
(* added whose as_of is not after an amendment it replays.                 *)
THEOREM RedMeansRewritten == Spec => []RedIsDue
<1>1. Init => History
  BY DEF Init, History
<1>2. History => RedIsDue
  BY DEF History, Rewritten, RedIsDue
<1> QED BY <1>1, <1>2, HistoryNext, TypesHold, PTL DEF Spec

-----------------------------------------------------------------------------
(* The audit log: the context has the key from the limiter on, and it is   *)
(* written down once, with the code of the response.                       *)
Who(r) == IF resp[r].code = 401 \/ Req(r).endpoint \in Public THEN None ELSE Req(r).key

Staged(r) ==
    /\ pc[r] # "done" => log[r] = <<>>
    /\ pc[r] \notin {"audit", "done"} => resp[r].code = 0
    /\ pc[r] \in {"new", "public"} => ctx[r].key = None
    /\ pc[r] = "public" => Req(r).endpoint \in Public
    /\ pc[r] \in {"windows", "handle", "read", "lineage"} =>
          ctx[r].key = Req(r).key /\ Req(r).endpoint \notin Public
    /\ pc[r] = "audit" => ctx[r].key = Who(r)
    /\ log[r] # <<>> =>
          Len(log[r]) = 1 /\ log[r][1].code = resp[r].code /\ log[r][1].key = Who(r)

Stages == \A r \in Requests : Staged(r)

Lost == {r \in Requests : pc[r] = "done" /\ log[r] = <<>> /\ resp[r].code \notin {0, 500}}

LEMMA StagedKept ==
    ASSUME Stages, NEW r \in Requests, prog' = prog, pc'[r] = pc[r], log'[r] = log[r],
           ctx'[r] = ctx[r], resp'[r].code = resp[r].code
    PROVE  Staged(r)'
  BY DEF Stages, Staged, Who, Req

LEMMA RefusedStage ==
    ASSUME Types, Stages, NEW r \in Requests, NEW code \in Nat, Refused(r, code), prog' = prog,
           log' = log, ctx'[r].key = ctx[r].key,
           pc[r] \in {"windows", "handle", "read", "lineage"}, code # 401
    PROVE  Staged(r)'
<1>1. resp'[r].code = code /\ pc'[r] = "audit"
  BY RefusedKeeps
<1> QED BY <1>1 DEF Stages, Staged, Who, Req

LEMMA StagedOwn ==
    ASSUME Types, Stages, NEW r \in Requests, RequestAction(r) PROVE Staged(r)'
<1>0. /\ prog' = prog /\ pc \in [Requests -> Labels]
      /\ ctx \in [Requests -> Context] /\ resp \in [Requests -> Response]
      /\ log = [q \in Requests |-> log[q]]
  BY RequestFrame DEF Types
<1>00. Staged(r)
  BY DEF Stages
<1> USE DEF Goto, gateVars
<1>1. CASE Authenticate(r)
  <2>0. log' = log /\ pc[r] = "new"
    BY <1>1 DEF Authenticate
  <2>1. CASE Req(r).endpoint \in Public
    <3>1. pc'[r] = "public" /\ resp' = resp /\ ctx' = ctx
      BY <1>0, <1>1, <2>1 DEF Authenticate
    <3> QED BY <1>0, <1>00, <2>0, <2>1, <3>1 DEF Staged, Req
  <2>2. CASE Req(r).endpoint \notin Public /\ ~Authentic(r)
    <3>1. Refused(r, 401) /\ ctx' = ctx
      BY <1>1, <2>2 DEF Authenticate
    <3>2. resp'[r].code = 401 /\ pc'[r] = "audit"
      BY <3>1, RefusedKeeps
    <3> QED BY <1>0, <1>00, <2>0, <3>1, <3>2 DEF Staged, Who, Req
  <2>3. CASE Req(r).endpoint \notin Public /\ Authentic(r)
    <3>1. /\ ctx' = [ctx EXCEPT ![r].key = Req(r).key, ![r].now = clock]
          /\ resp' = resp /\ Goto(r, "windows")
      BY <1>1, <2>3 DEF Authenticate, Named
    <3>2. pc'[r] = "windows" /\ ctx'[r].key = Req(r).key
      BY <1>0, <3>1 DEF Context
    <3> QED BY <1>0, <1>00, <2>0, <2>3, <3>1, <3>2 DEF Staged, Req
  <2> QED BY <2>1, <2>2, <2>3
<1>2. CASE TakeToken(r)
  <2>0. log' = log /\ ctx' = ctx /\ pc[r] = "windows"
    BY <1>2 DEF TakeToken
  <2>1. UNCHANGED <<pc, resp>> \/ Refused(r, 429)
    BY <1>2 DEF TakeToken
  <2> QED BY <1>0, <2>0, <2>1, StagedKept, RefusedStage
<1>3. CASE Admit(r)
  <2>1. log' = log /\ resp' = resp /\ pc[r] = "windows" /\ pc'[r] = "handle"
    BY <1>0, <1>3 DEF Admit
  <2>2. ctx'[r].key = ctx[r].key
    BY <1>0, <1>3 DEF Admit, Context
  <2> QED BY <1>0, <1>00, <2>1, <2>2 DEF Staged, Who, Req
<1>4. CASE Resolve(r)
  <2>0. log' = log /\ ctx' = ctx /\ pc[r] = "handle"
    BY <1>4 DEF Resolve
  <2>1. CASE Refused(r, Verdict(r))
    <3>1. Verdict(r) \in Nat /\ Verdict(r) # 401
      BY VerdictType
    <3> QED BY <1>0, <2>0, <2>1, <3>1, RefusedStage
  <2>2. CASE ~Refused(r, Verdict(r))
    <3>1. PICK a, f : resp' = [resp EXCEPT ![r].asof = a, ![r].filters = f]
      BY <1>4, <2>2 DEF Resolve
    <3>2. resp'[r].code = resp[r].code /\ pc'[r] = "read"
      BY <1>0, <1>4, <2>2, <3>1 DEF Resolve, Response
    <3> QED BY <1>0, <1>00, <2>0, <3>2 DEF Staged, Who, Req
  <2> QED BY <2>1, <2>2
<1>5. CASE Read(r)
  <2>0. log' = log /\ pc[r] = "read"
    BY <1>5 DEF Read
  <2>1. ctx'[r].key = ctx[r].key
    BY <1>0, <1>5 DEF Read, Context
  <2>2. CASE \E code \in {404, 409} : Refused(r, code)
    BY <1>0, <2>0, <2>1, <2>2, RefusedStage
  <2>3. CASE ~\E code \in {404, 409} : Refused(r, code)
    <3>1. PICK rows : resp' = [resp EXCEPT ![r].rows = rows] /\ Goto(r, "lineage")
      BY <1>5, <2>3, ReadCases
    <3>2. resp'[r].code = resp[r].code /\ pc'[r] = "lineage"
      BY <1>0, <3>1, Typed DEF Response, Goto, Types
    <3> QED BY <1>0, <1>00, <2>0, <2>1, <3>2 DEF Staged, Who, Req
  <2> QED BY <2>2, <2>3
<1>6. CASE ReadLineage(r)
  <2>1. PICK rows : resp' = [resp EXCEPT ![r].rows = rows]
    BY <1>6 DEF ReadLineage
  <2>2. resp'[r].code = resp[r].code
    BY <1>0, <2>1 DEF Response
  <2>3. log' = log /\ ctx' = ctx /\ pc' = pc
    BY <1>6 DEF ReadLineage
  <2> QED BY <1>0, <2>2, <2>3, StagedKept
<1>7. CASE SetCacheHeaders(r)
  <2>1. PICK i, m : resp' = [resp EXCEPT ![r].code = 200, ![r].immutable = i, ![r].more = m]
    BY <1>7, Zenon DEF SetCacheHeaders
  <2>2. resp'[r].code = 200
    BY <1>0, <2>1 DEF Response
  <2>3. log' = log /\ pc[r] = "lineage" /\ pc'[r] = "audit"
    BY <1>0, <1>7 DEF SetCacheHeaders
  <2>4. ctx' = [ctx EXCEPT ![r].headAt = clock]
    BY <1>7, Zenon DEF SetCacheHeaders
  <2>5. ctx'[r].key = ctx[r].key
    BY <1>0, <2>4 DEF Context
  <2> QED BY <1>0, <1>00, <2>2, <2>3, <2>5 DEF Staged, Who, Req
<1>8. CASE HandlePublic(r)
  <2>1. PICK c : resp' = [resp EXCEPT ![r].code = c]
    BY <1>8, Zenon DEF HandlePublic
  <2>2. log' = log /\ ctx' = ctx /\ pc[r] = "public" /\ pc'[r] = "audit"
    BY <1>0, <1>8 DEF HandlePublic
  <2> QED BY <1>0, <1>00, <2>2 DEF Staged, Who, Req
<1>9. CASE Audit(r)
  <2>1. pc[r] = "audit" /\ pc'[r] = "done" /\ ctx' = ctx /\ resp' = resp
    BY <1>0, <1>9 DEF Audit
  <2>2. log[r] = <<>>
    BY <1>00, <2>1 DEF Staged
  <2> DEFINE x == [key |-> ctx[r].key, code |-> resp[r].code, rows |-> Cardinality(resp[r].rows)]
  <2>3. log'[r] = Append(<<>>, x)
    BY <1>0, <1>9, <2>2 DEF Audit
  <2>4. x.key = ctx[r].key /\ x.code = resp[r].code
    OBVIOUS
  <2> HIDE DEF x
  <2>5. Len(log'[r]) = 1 /\ log'[r][1] = x
    BY <2>3
  <2> QED BY <1>0, <1>00, <2>1, <2>4, <2>5 DEF Staged, Who, Req
<1>10. CASE AuditFails(r)
  <2>1. pc[r] = "audit" /\ pc'[r] = "done" /\ ctx' = ctx /\ resp' = resp /\ log' = log
    BY <1>0, <1>10 DEF AuditFails
  <2> QED BY <1>00, <2>1 DEF Staged
<1>11. CASE RequestFails(r)
  <2>1. pc[r] # "done" /\ pc'[r] = "done" /\ log' = log
    BY <1>0, <1>11 DEF RequestFails
  <2> QED BY <1>00, <2>1 DEF Staged
<1> QED BY <1>1, <1>2, <1>3, <1>4, <1>5, <1>6, <1>7, <1>8, <1>9, <1>10, <1>11
        DEF RequestAction, RequestStep

LEMMA OtherStepsKeepRequests ==
    ASSUME [Next]_vars, ~\E r \in Requests : RequestAction(r)
    PROVE  UNCHANGED <<prog, gateVars, reqVars>>
  BY NextCases DEF vars, Tick, WriterAction, WriterBegins, WriterCommits,
     CanaryAction, CanaryReads, CanaryPersists, CanaryFails

LEMMA StagesNext == Types /\ Stages /\ [Next]_vars => Stages'
<1> SUFFICES ASSUME Types, Stages, [Next]_vars PROVE Stages'
  OBVIOUS
<1>1. ASSUME NEW r \in Requests, RequestAction(r) PROVE Stages'
  <2>1. OthersStay(r) /\ prog' = prog
    BY <1>1, RequestOthers, RequestFrame
  <2>2. \A q \in Requests \ {r} : Staged(q)'
    BY <2>1, StagedKept DEF OthersStay
  <2>3. Staged(r)'
    BY <1>1, StagedOwn
  <2> QED BY <2>2, <2>3 DEF Stages
<1>2. CASE ~\E r \in Requests : RequestAction(r)
  <2>1. UNCHANGED <<prog, pc, log, ctx, resp>>
    BY <1>2, OtherStepsKeepRequests DEF gateVars, reqVars
  <2> QED BY <2>1, StagedKept DEF Stages
<1> QED BY <1>1, <1>2

LEMMA StagesHold == Spec => []Stages
<1>1. Init => Stages
  BY DEF Init, NoContext, NoResponse, Stages, Staged
<1> QED BY <1>1, StagesNext, TypesHold, PTL DEF Spec

(* An answer is lost from the log only by a failure.                       *)
LEMMA LostStep ==
    ASSUME Types, Stages, [Next]_vars
    PROVE  \/ Lost' \subseteq Lost /\ faults' >= faults
           \/ \E r \in Requests : Lost' \subseteq Lost \cup {r} /\ faults' = faults + 1
<1>0. faults \in Nat
  BY DEF Types
<1>1. ASSUME NEW r \in Requests, RequestAction(r)
      PROVE  \/ Lost' \subseteq Lost /\ faults' >= faults
             \/ \E q \in Requests : Lost' \subseteq Lost \cup {q} /\ faults' = faults + 1
  <2>1. OthersStay(r) /\ faults' >= faults
    BY <1>0, <1>1, RequestOthers, RequestFrame
  <2>2. Lost' \subseteq Lost \cup {r}
    BY <2>1 DEF OthersStay, Lost
  <2>3. CASE AuditFails(r)
    <3>1. faults' = faults + 1
      BY <2>3 DEF AuditFails, Fault
    <3> QED BY <2>2, <3>1
  <2>4. CASE ~AuditFails(r)
    <3>0. pc \in [Requests -> Labels] /\ resp \in [Requests -> Response]
          /\ log = [q \in Requests |-> log[q]]
      BY DEF Types
    <3>1. r \notin Lost'
      <4>1. CASE Audit(r)
        <5>1. log[r] = <<>>
          BY <4>1 DEF Audit, Stages, Staged
        <5>2. \E x : log'[r] = Append(<<>>, x)
          BY <3>0, <4>1, <5>1 DEF Audit
        <5>3. log'[r] # <<>>
          BY <5>2
        <5> QED BY <5>3 DEF Lost
      <4>2. CASE RequestFails(r)
        <5>1. PICK code \in {0, 500} :
                 resp' = [resp EXCEPT ![r] = [NoResponse EXCEPT !.code = code]]
          BY <4>2 DEF RequestFails
        <5>2. resp'[r].code = code
          BY <3>0, <5>1 DEF NoResponse
        <5> QED BY <5>2 DEF Lost
      <4>3. CASE Authenticate(r) \/ TakeToken(r) \/ Admit(r) \/ Resolve(r) \/ Read(r)
        <5>1. pc'[r] # "done"
          BY <3>0, <4>3 DEF Authenticate, TakeToken, Admit, Resolve, Read, Refused, Goto
        <5> QED BY <5>1 DEF Lost
      <4>4. CASE ReadLineage(r) \/ SetCacheHeaders(r) \/ HandlePublic(r)
        <5>1. pc'[r] # "done"
          BY <3>0, <4>4 DEF ReadLineage, SetCacheHeaders, HandlePublic, Goto
        <5> QED BY <5>1 DEF Lost
      <4> QED BY <1>1, <2>4, <4>1, <4>2, <4>3, <4>4 DEF RequestAction, RequestStep
    <3> QED BY <2>1, <2>2, <3>1
  <2> QED BY <2>3, <2>4
<1>2. CASE ~\E r \in Requests : RequestAction(r)
  <2>1. Lost' = Lost
    BY <1>2, OtherStepsKeepRequests DEF gateVars, reqVars, Lost
  <2>2. faults' \in {faults, faults + 1}
    BY <1>2, NextCases DEF vars, Tick, WriterAction, WriterBegins, WriterCommits,
       CanaryAction, CanaryReads, CanaryPersists, CanaryFails, Fault
  <2> QED BY <1>0, <2>1, <2>2
<1> QED BY <1>1, <1>2

Losses == Cardinality(Lost) <= faults

LEMMA LossesNext == Types /\ Stages /\ Losses /\ [Next]_vars => Losses'
<1> SUFFICES ASSUME Types, Stages, Losses, [Next]_vars PROVE Losses'
  OBVIOUS
<1>1. IsFiniteSet(Lost) /\ IsFiniteSet(Lost')
  <2>1. Lost \subseteq Requests /\ Lost' \subseteq Requests
    BY DEF Lost
  <2>2. IsFiniteSet(Requests)
    BY ResearchConstants
  <2> QED BY <2>1, <2>2, FS_Subset
<1>2. Cardinality(Lost) \in Nat /\ Cardinality(Lost') \in Nat
  BY <1>1, FS_CardinalityType
<1>3. faults \in Nat /\ faults' \in Nat
  BY TypesNext DEF Types
<1>4. CASE Lost' \subseteq Lost /\ faults' >= faults
  <2>1. Cardinality(Lost') <= Cardinality(Lost)
    BY <1>1, <1>4, FS_Subset
  <2> QED BY <1>2, <1>3, <1>4, <2>1 DEF Losses
<1>5. ASSUME NEW r \in Requests, Lost' \subseteq Lost \cup {r}, faults' = faults + 1
      PROVE  Losses'
  <2>1. /\ IsFiniteSet(Lost \cup {r})
        /\ Cardinality(Lost \cup {r}) \in {Cardinality(Lost), Cardinality(Lost) + 1}
    BY <1>1, FS_AddElement
  <2>2. Cardinality(Lost') <= Cardinality(Lost \cup {r})
    BY <1>5, <2>1, FS_Subset
  <2> QED BY <1>2, <1>3, <1>5, <2>1, <2>2 DEF Losses
<1> QED BY <1>4, <1>5, LostStep

(* The audit log tells the requests: one row for an answer, its code, the  *)
(* key that was authenticated, and no more answers without a row than      *)
(* there were failures.                                                    *)
THEOREM LogTellsRequests == Spec => []AuditTellsRequests
<1>1. Init => Losses
  <2> SUFFICES ASSUME Init PROVE Losses
    OBVIOUS
  <2>1. Lost = {} /\ faults = 0
    BY DEF Init, Lost
  <2> QED BY <2>1, FS_EmptySet DEF Losses
<1>2. Stages /\ Losses => AuditTellsRequests
  <2> SUFFICES ASSUME Stages, Losses PROVE AuditTellsRequests
    OBVIOUS
  <2>1. \A r \in Requests : log[r] # <<>> =>
           /\ Len(log[r]) = 1 /\ log[r][1].code = resp[r].code
           /\ log[r][1].key = IF resp[r].code = 401 \/ Req(r).endpoint \in Public
                              THEN None ELSE Req(r).key
    BY DEF Stages, Staged, Who
  <2>2. Cardinality({r \in Requests : /\ pc[r] = "done" /\ log[r] = <<>>
                                      /\ resp[r].code \notin {0, 500}}) <= faults
    BY Zenon DEF Losses, Lost
  <2> QED BY <2>1, <2>2, Zenon DEF AuditTellsRequests
<1> QED BY <1>1, <1>2, LossesNext, StagesHold, TypesHold, PTL DEF Spec

-----------------------------------------------------------------------------
(* The rate limiter, for the buckets that have a cap: a committed bucket   *)
(* counts the requests that were charged, and one that is being updated is *)
(* in one transaction, which has seen that there is room.                  *)
Cap(b) == Limits(b[1])[b[2]]

Limited == {b \in Buckets : Cap(b) # 0}

Matches(r, b) == ctx[r].key = b[1] /\ Bucket(r, b[2]) = b

Spent(r, kind) ==
    \/ ctx[r].admitted
    \/ resp[r].code = 429 /\ \E n \in 1 .. win[r] : Windows[n] = kind

Admitted(b) == {r \in Counted(b) : ctx[r].admitted}

RefusedAt(r, b) == resp[r].code = 429 /\ Windows[win[r]] = b[2]

Charged(r) ==
    /\ ctx[r].admitted => /\ pc[r] \in {"handle", "read", "lineage", "audit", "done"}
                          /\ resp[r].code # 429
    /\ ctx[r].key # None => ctx[r].key = Req(r).key

Holding(r) ==
    /\ pc[r] # "windows" => held[r] = {}
    /\ pc[r] = "windows" =>
          /\ win[r] = 4 \/ Limits(Req(r).key)[Windows[win[r]]] # 0
          /\ \A b \in Limited :
                b \in held[r] <=> \E n \in 1 .. win[r] - 1 : b = Bucket(r, Windows[n])

Room ==
    \A r \in Requests : \A b \in held[r] \cap Limited :
        tokens[b] + 1 <= Cap(b) /\ \A q \in Requests \ {r} : b \notin held[q]

Exact(b) ==
    /\ tokens[b] = Cardinality(Counted(b))
    /\ Cardinality(Admitted(b)) <= Cap(b)
    /\ \A r \in Counted(b) : RefusedAt(r, b) => Cardinality(Counted(b) \ {r}) >= Cap(b)

Limiter ==
    /\ \A r \in Requests : Charged(r) /\ Holding(r)
    /\ Room
    /\ \A b \in Limited : Exact(b)

LEMMA CountedIs ==
    /\ \A b : Counted(b) = {r \in Requests : Matches(r, b) /\ Spent(r, b[2])}
    /\ \A b : Counted(b)' = {r \in Requests : Matches(r, b)' /\ Spent(r, b[2])'}
  BY DEF Counted, Matches, Spent

LEMMA LimitedSame ==
    ASSUME prog' = prog
    PROVE  /\ \A k : Limits(k)' = Limits(k)
           /\ \A b : Cap(b)' = Cap(b)
           /\ Limited' = Limited
<1>1. \A k : Limits(k)' = Limits(k)
  BY DEF Limits
<1> QED BY <1>1 DEF Cap, Limited

LEMMA CapType == ASSUME Types, NEW b \in Limited PROVE Cap(b) \in Nat /\ b \in Buckets
<1>1. b[1] \in Keys /\ b[2] \in Kinds
  BY DEF Limited, Buckets
<1> QED BY <1>1, LimitsType DEF Types, Cap, Limited

LEMMA BucketIs ==
    ASSUME NEW r, NEW kind
    PROVE  Bucket(r, kind)[1] = Req(r).key /\ Bucket(r, kind)[2] = kind
  BY DEF Bucket

LEMMA CountedFinite ==
    ASSUME Types, NEW S, S \subseteq Requests PROVE IsFiniteSet(S) /\ Cardinality(S) \in Nat
<1>1. IsFiniteSet(Requests)
  BY ResearchConstants
<1> QED BY <1>1, FS_Subset, FS_CardinalityType

(* A bucket that nobody is charged in stays exact.                         *)
LEMMA ExactQuiet ==
    ASSUME Types, NEW b \in Limited, Exact(b), prog' = prog, tokens'[b] = tokens[b],
           Counted(b)' = Counted(b), Admitted(b)' = Admitted(b),
           \A q \in Counted(b) : RefusedAt(q, b)' => RefusedAt(q, b)
    PROVE  Exact(b)'
<1>1. Cap(b)' = Cap(b)
  BY LimitedSame
<1> QED BY <1>1 DEF Exact

(* One more request is charged: it is let in where there was room, or it   *)
(* is refused where there was none.                                        *)
LEMMA ExactGrows ==
    ASSUME Types, NEW b \in Limited, Exact(b), prog' = prog, tokens'[b] = tokens[b] + 1,
           NEW r \in Requests, r \notin Counted(b), Counted(b)' = Counted(b) \cup {r},
           Admitted(b)' = Admitted(b) \/ tokens[b] + 1 <= Cap(b),
           \A q \in Counted(b) : RefusedAt(q, b)' => RefusedAt(q, b),
           RefusedAt(r, b)' => tokens[b] >= Cap(b)
    PROVE  Exact(b)'
<1> DEFINE C == Counted(b)
           D == Counted(b)'
<1>0. Cap(b)' = Cap(b) /\ Cap(b) \in Nat
  BY LimitedSame, CapType
<1>1. C \subseteq Requests /\ D \subseteq Requests /\ D = C \cup {r} /\ r \notin C
  BY DEF Counted
<1>2. IsFiniteSet(C) /\ IsFiniteSet(D) /\ Cardinality(C) \in Nat /\ Cardinality(D) \in Nat
  BY <1>1, CountedFinite
<1>3. Cardinality(D) = Cardinality(C) + 1
  BY <1>1, <1>2, FS_AddElement
<1>4. tokens[b] = Cardinality(C) /\ tokens[b] \in Nat
  BY <1>2 DEF Exact
<1>5. Cardinality(Admitted(b)') <= Cap(b)
  <2>1. CASE Admitted(b)' = Admitted(b)
    BY <2>1 DEF Exact
  <2>2. CASE tokens[b] + 1 <= Cap(b)
    <3>1. Admitted(b)' \subseteq D
      BY DEF Admitted
    <3>2. Cardinality(Admitted(b)') <= Cardinality(D) /\ Cardinality(Admitted(b)') \in Nat
      BY <1>2, <3>1, FS_Subset, FS_CardinalityType
    <3> QED BY <1>0, <1>2, <1>3, <1>4, <2>2, <3>2
  <2> QED BY <2>1, <2>2
<1>6. ASSUME NEW q \in D, RefusedAt(q, b)' PROVE Cardinality(D \ {q}) >= Cap(b)
  <2>1. CASE q = r
    <3>1. D \ {r} = C
      BY <1>1
    <3> QED BY <1>4, <1>6, <2>1, <3>1
  <2>2. CASE q # r
    <3>1. q \in C /\ RefusedAt(q, b)
      BY <1>1, <1>6, <2>2
    <3>2. Cardinality(C \ {q}) >= Cap(b)
      BY <3>1 DEF Exact
    <3>3. C \ {q} \subseteq D \ {q} /\ IsFiniteSet(D \ {q})
      BY <1>1, <1>2, FS_RemoveElement
    <3>4. /\ Cardinality(C \ {q}) <= Cardinality(D \ {q})
          /\ Cardinality(C \ {q}) \in Nat /\ Cardinality(D \ {q}) \in Nat
      BY <3>3, FS_Subset, FS_CardinalityType
    <3> QED BY <1>0, <3>2, <3>4
  <2> QED BY <2>1, <2>2
<1>7. tokens'[b] = Cardinality(D)
  BY <1>3, <1>4
<1> HIDE DEF C
<1>8. /\ tokens'[b] = Cardinality(Counted(b)')
      /\ Cardinality(Admitted(b)') <= Cap(b)'
      /\ \A q \in Counted(b)' : RefusedAt(q, b)' => Cardinality(Counted(b)' \ {q}) >= Cap(b)'
  BY <1>0, <1>5, <1>6, <1>7
<1> QED BY <1>8 DEF Exact

(* Who is charged where, of the requests that do not move.                 *)
SameCharge(r) ==
    /\ win'[r] = win[r] /\ ctx'[r].key = ctx[r].key /\ ctx'[r].now = ctx[r].now
    /\ ctx'[r].admitted = ctx[r].admitted
    /\ resp'[r].code = 429 <=> resp[r].code = 429

LEMMA ChargeSame ==
    ASSUME prog' = prog, NEW r, SameCharge(r), NEW b
    PROVE  /\ Matches(r, b)' <=> Matches(r, b)
           /\ Spent(r, b[2])' <=> Spent(r, b[2])
           /\ RefusedAt(r, b)' <=> RefusedAt(r, b)
           /\ \A kind : Bucket(r, kind)' = Bucket(r, kind)
<1>1. \A kind : Bucket(r, kind)' = Bucket(r, kind)
  BY DEF SameCharge, Bucket, Req, WindowStart
<1>2. Matches(r, b)' <=> Matches(r, b)
  BY <1>1 DEF SameCharge, Matches
<1>3. Spent(r, b[2])' <=> Spent(r, b[2])
  BY DEF SameCharge, Spent
<1>4. RefusedAt(r, b)' <=> RefusedAt(r, b)
  BY DEF SameCharge, RefusedAt
<1> QED BY <1>1, <1>2, <1>3, <1>4

LEMMA OthersCharge ==
    ASSUME prog' = prog, NEW r \in Requests, OthersStay(r), NEW b
    PROVE  /\ \A q \in Requests \ {r} : SameCharge(q)
           /\ \A q \in Requests \ {r} : q \in Counted(b)' <=> q \in Counted(b)
           /\ \A q \in Requests \ {r} : q \in Admitted(b)' <=> q \in Admitted(b)
           /\ \A q \in Requests \ {r} : RefusedAt(q, b)' <=> RefusedAt(q, b)
<1>1. \A q \in Requests \ {r} : SameCharge(q)
  BY DEF OthersStay, SameCharge
<1>2. \A q \in Requests \ {r} : q \in Counted(b)' <=> q \in Counted(b)
  <2>1. \A q \in Requests \ {r} : (Matches(q, b)' <=> Matches(q, b))
                                  /\ (Spent(q, b[2])' <=> Spent(q, b[2]))
    BY <1>1, ChargeSame
  <2> QED BY <2>1, CountedIs
<1>3. \A q \in Requests \ {r} : q \in Admitted(b)' <=> q \in Admitted(b)
  BY <1>1, <1>2 DEF Admitted, SameCharge
<1>4. \A q \in Requests \ {r} : RefusedAt(q, b)' <=> RefusedAt(q, b)
  BY <1>1, ChargeSame
<1> QED BY <1>1, <1>2, <1>3, <1>4

(* The steps after the limiter charge nobody.                              *)
Later(r) ==
    \/ Resolve(r) \/ Read(r) \/ ReadLineage(r) \/ SetCacheHeaders(r) \/ HandlePublic(r)
    \/ Audit(r) \/ AuditFails(r) \/ RequestFails(r)

LEMMA LaterSteps ==
    ASSUME Types, Stages, NEW r \in Requests, Later(r)
    PROVE  /\ SameCharge(r) /\ tokens' = tokens
           /\ pc'[r] \in {"read", "lineage", "audit", "done"}
           /\ (pc[r] # "windows" /\ held' = held) \/ held'[r] = {}
<1>0. /\ pc \in [Requests -> Labels] /\ ctx \in [Requests -> Context]
      /\ resp \in [Requests -> Response] /\ held \in [Requests -> SUBSET Buckets]
  BY DEF Types
<1>1. pc[r] \notin {"audit", "done"} => resp[r].code = 0
  BY DEF Stages, Staged
<1> USE DEF Goto, gateVars
<1>2. CASE Resolve(r)
  <2>0. /\ tokens' = tokens /\ win' = win /\ held' = held /\ ctx' = ctx /\ pc[r] = "handle"
    BY <1>2 DEF Resolve
  <2>1. CASE Refused(r, Verdict(r))
    <3>1. Verdict(r) # 429
      BY VerdictType
    <3> QED BY <1>1, <2>0, <2>1, <3>1, RefusedKeeps DEF SameCharge
  <2>2. CASE ~Refused(r, Verdict(r))
    <3>1. PICK a, f : resp' = [resp EXCEPT ![r].asof = a, ![r].filters = f]
      BY <1>2, <2>2 DEF Resolve
    <3>2. resp'[r].code = resp[r].code /\ pc'[r] = "read"
      BY <1>0, <1>2, <2>2, <3>1 DEF Resolve, Response
    <3> QED BY <2>0, <3>2 DEF SameCharge
  <2> QED BY <2>1, <2>2
<1>3. CASE Read(r)
  <2>0. /\ tokens' = tokens /\ win' = win /\ held' = held /\ pc[r] = "read"
        /\ ctx' = [ctx EXCEPT ![r].readAt = clock]
    BY <1>3 DEF Read
  <2>1. /\ ctx'[r].key = ctx[r].key /\ ctx'[r].now = ctx[r].now
        /\ ctx'[r].admitted = ctx[r].admitted
    BY <1>0, <2>0 DEF Context
  <2>2. CASE \E code \in {404, 409} : Refused(r, code)
    BY <1>1, <2>0, <2>1, <2>2, RefusedKeeps DEF SameCharge
  <2>3. CASE ~\E code \in {404, 409} : Refused(r, code)
    <3>1. PICK rows : resp' = [resp EXCEPT ![r].rows = rows] /\ Goto(r, "lineage")
      BY <1>3, <2>3, ReadCases
    <3>2. resp'[r].code = resp[r].code /\ pc'[r] = "lineage"
      BY <1>0, <3>1, Typed DEF Response, Goto, Types
    <3> QED BY <2>0, <2>1, <3>2 DEF SameCharge
  <2> QED BY <2>2, <2>3
<1>4. CASE ReadLineage(r)
  <2>0. /\ tokens' = tokens /\ win' = win /\ held' = held /\ ctx' = ctx
        /\ pc' = pc /\ pc[r] = "lineage"
    BY <1>4 DEF ReadLineage
  <2>1. PICK rows : resp' = [resp EXCEPT ![r].rows = rows]
    BY <1>4 DEF ReadLineage
  <2>2. resp'[r].code = resp[r].code
    BY <1>0, <2>1 DEF Response
  <2> QED BY <2>0, <2>2 DEF SameCharge
<1>5. CASE SetCacheHeaders(r)
  <2>0. /\ tokens' = tokens /\ win' = win /\ held' = held /\ pc[r] = "lineage" /\ pc'[r] = "audit"
    BY <1>0, <1>5 DEF SetCacheHeaders
  <2>1. /\ ctx' = [ctx EXCEPT ![r].headAt = clock]
        /\ \E i, m : resp' = [resp EXCEPT ![r].code = 200, ![r].immutable = i, ![r].more = m]
    BY <1>5, Zenon DEF SetCacheHeaders
  <2>2. /\ ctx'[r].key = ctx[r].key /\ ctx'[r].now = ctx[r].now
        /\ ctx'[r].admitted = ctx[r].admitted
    BY <1>0, <2>1 DEF Context
  <2>3. resp'[r].code = 200
    BY <1>0, <2>1 DEF Response
  <2> QED BY <1>1, <2>0, <2>2, <2>3 DEF SameCharge
<1>6. CASE HandlePublic(r)
  <2>0. /\ tokens' = tokens /\ win' = win /\ held' = held /\ ctx' = ctx
        /\ pc[r] = "public" /\ pc'[r] = "audit"
    BY <1>0, <1>6 DEF HandlePublic
  <2>1. \/ resp' = [resp EXCEPT ![r].code = 503]
        \/ resp' = [resp EXCEPT ![r].code = 200]
    BY <1>6 DEF HandlePublic
  <2>2. resp'[r].code \in {200, 503}
    BY <1>0, <2>1 DEF Response
  <2> QED BY <1>1, <2>0, <2>2 DEF SameCharge
<1>7. CASE Audit(r) \/ AuditFails(r)
  <2>1. /\ tokens' = tokens /\ win' = win /\ held' = held /\ ctx' = ctx /\ resp' = resp
        /\ pc[r] = "audit" /\ pc'[r] = "done"
    BY <1>0, <1>7 DEF Audit, AuditFails
  <2> QED BY <2>1 DEF SameCharge
<1>8. CASE RequestFails(r)
  <2>0. /\ tokens' = tokens /\ win' = win /\ ctx' = ctx /\ held'[r] = {}
        /\ pc[r] \notin {"audit", "done"} /\ pc'[r] = "done"
    BY <1>0, <1>8 DEF RequestFails
  <2>1. PICK code \in {0, 500} : resp' = [resp EXCEPT ![r] = [NoResponse EXCEPT !.code = code]]
    BY <1>8 DEF RequestFails
  <2>2. resp'[r].code = code
    BY <1>0, <2>1 DEF NoResponse
  <2> QED BY <1>1, <2>0, <2>2 DEF SameCharge
<1> QED BY <1>2, <1>3, <1>4, <1>5, <1>6, <1>7, <1>8 DEF Later

Uncharged(r) == ~ctx[r].admitted /\ resp[r].code # 429

LEMMA UnchargedCounts == ASSUME NEW r, NEW b, Uncharged(r) PROVE r \notin Counted(b)
  BY DEF Uncharged, Counted

LEMMA SameBut ==
    ASSUME NEW U, NEW S \in SUBSET U, NEW T \in SUBSET U, NEW r,
           \A q \in U \ {r} : q \in S <=> q \in T, r \notin S, r \notin T
    PROVE  S = T
  OBVIOUS

(* The buckets stay exact when nobody is charged.                          *)
LEMMA ExactKept ==
    ASSUME Types, Limiter, NEW r \in Requests, OthersStay(r), prog' = prog, tokens' = tokens,
           SameCharge(r) \/ (Uncharged(r) /\ Uncharged(r)')
    PROVE  \A b \in Limited : Exact(b)'
<1> TAKE b \in Limited
<1>1. r \in Counted(b)' <=> r \in Counted(b)
  <2>1. CASE SameCharge(r)
    <3>1. (Matches(r, b)' <=> Matches(r, b)) /\ (Spent(r, b[2])' <=> Spent(r, b[2]))
      BY <2>1, ChargeSame
    <3> QED BY <3>1, CountedIs
  <2>2. CASE Uncharged(r) /\ Uncharged(r)'
    BY <2>2 DEF Uncharged, Counted
  <2> QED BY <2>1, <2>2
<1>2. r \in Admitted(b)' <=> r \in Admitted(b)
  BY <1>1 DEF Admitted, SameCharge, Uncharged
<1>3. r \in Counted(b) => (RefusedAt(r, b)' => RefusedAt(r, b))
  BY ChargeSame, UnchargedCounts
<1>4. /\ \A q \in Requests \ {r} : q \in Counted(b)' <=> q \in Counted(b)
      /\ \A q \in Requests \ {r} : q \in Admitted(b)' <=> q \in Admitted(b)
      /\ \A q \in Requests \ {r} : RefusedAt(q, b)' <=> RefusedAt(q, b)
  BY OthersCharge
<1>5. /\ Counted(b) \subseteq Requests /\ Counted(b)' \subseteq Requests
      /\ Admitted(b) \subseteq Requests /\ Admitted(b)' \subseteq Requests
  BY DEF Counted, Admitted
<1>6. Counted(b)' = Counted(b)
  BY <1>1, <1>4, <1>5
<1>7. Admitted(b)' = Admitted(b)
  BY <1>2, <1>4, <1>5
<1>8. \A q \in Counted(b) : RefusedAt(q, b)' => RefusedAt(q, b)
  BY <1>3, <1>4, <1>5
<1> QED BY <1>6, <1>7, <1>8, ExactQuiet DEF Limiter

(* A commit of the limiter: r is charged in the buckets bs.                *)
LEMMA ExactCommit ==
    ASSUME Types, Limiter, NEW r \in Requests, OthersStay(r), prog' = prog,
           NEW bs, tokens' = Committed(r, bs), Uncharged(r),
           \A b \in Limited : r \in Counted(b)' <=> b \in bs,
           \A b \in Limited \cap bs : ~ctx'[r].admitted \/ tokens[b] + 1 <= Cap(b),
           \A b \in Limited \cap bs : RefusedAt(r, b)' => tokens[b] >= Cap(b)
    PROVE  \A b \in Limited : Exact(b)'
<1> TAKE b \in Limited
<1>0. b \in Buckets /\ r \notin Counted(b) /\ Exact(b) /\ tokens \in [Buckets -> Nat]
  BY CapType, UnchargedCounts DEF Limiter, Types
<1>4. /\ \A q \in Requests \ {r} : q \in Counted(b)' <=> q \in Counted(b)
      /\ \A q \in Requests \ {r} : q \in Admitted(b)' <=> q \in Admitted(b)
      /\ \A q \in Requests \ {r} : RefusedAt(q, b)' <=> RefusedAt(q, b)
  BY OthersCharge
<1>5. /\ Counted(b) \subseteq Requests /\ Counted(b)' \subseteq Requests
      /\ Admitted(b) \subseteq Counted(b) /\ Admitted(b)' \subseteq Counted(b)'
  BY DEF Counted, Admitted
<1>6. \A q \in Counted(b) : RefusedAt(q, b)' => RefusedAt(q, b)
  BY <1>0, <1>4, <1>5
<1>7. CASE b \in bs
  <2>1. tokens'[b] = tokens[b] + 1
    BY <1>0, <1>7 DEF Committed
  <2>2. Counted(b)' = Counted(b) \cup {r}
    BY <1>4, <1>5, <1>7
  <2>3. Admitted(b)' = Admitted(b) \/ tokens[b] + 1 <= Cap(b)
    <3>1. CASE ~ctx'[r].admitted
      <4>1. r \notin Admitted(b)' /\ r \notin Admitted(b)
        BY <1>0, <1>5, <3>1 DEF Admitted
      <4>2. Admitted(b) \in SUBSET Requests /\ Admitted(b)' \in SUBSET Requests
        BY <1>5
      <4>3. Admitted(b)' = Admitted(b)
        BY <1>4, <4>1, <4>2, SameBut, Zenon
      <4> QED BY <4>3
    <3>2. CASE ctx'[r].admitted
      BY <1>7, <3>2, Zenon
    <3> QED BY <3>1, <3>2
  <2> QED BY <1>0, <1>6, <1>7, <2>1, <2>2, <2>3, ExactGrows
<1>8. CASE b \notin bs
  <2>1. tokens'[b] = tokens[b]
    BY <1>0, <1>8 DEF Committed
  <2>0. r \notin Counted(b)' /\ r \notin Counted(b)
    BY <1>0, <1>8, Zenon
  <2>2. Counted(b)' = Counted(b)
    <3>1. Counted(b) \in SUBSET Requests /\ Counted(b)' \in SUBSET Requests
      BY <1>5
    <3> QED BY <1>4, <2>0, <3>1, SameBut, Zenon
  <2>3. Admitted(b)' = Admitted(b)
    <3>1. r \notin Admitted(b)' /\ r \notin Admitted(b)
      BY <1>5, <2>0
    <3>2. Admitted(b) \in SUBSET Requests /\ Admitted(b)' \in SUBSET Requests
      BY <1>5
    <3> QED BY <1>4, <3>1, <3>2, SameBut, Zenon
  <2> QED BY <1>0, <1>6, <2>1, <2>2, <2>3, ExactQuiet
<1> QED BY <1>7, <1>8

(* The other requests stay as they are.                                    *)
LEMMA OthersLimited ==
    ASSUME Limiter, NEW r \in Requests, OthersStay(r), prog' = prog
    PROVE  \A q \in Requests \ {r} : Charged(q)' /\ Holding(q)'
<1> TAKE q \in Requests \ {r}
<1>1. Charged(q) /\ Holding(q)
  BY DEF Limiter
<1>2. /\ pc'[q] = pc[q] /\ win'[q] = win[q] /\ held'[q] = held[q] /\ ctx'[q] = ctx[q]
      /\ resp'[q] = resp[q]
  BY DEF OthersStay
<1>3. Charged(q)'
  BY <1>1, <1>2 DEF Charged, Req
<1>4. Req(q)' = Req(q) /\ \A kind : Bucket(q, kind)' = Bucket(q, kind)
  BY <1>2 DEF Bucket, Req, WindowStart
<1>5. Holding(q)'
  BY <1>1, <1>2, <1>4, LimitedSame DEF Holding
<1> QED BY <1>3, <1>5

(* There is still room when r charges nobody and updates nothing more.     *)
LEMMA RoomKept ==
    ASSUME Limiter, NEW r \in Requests, OthersStay(r), prog' = prog, tokens' = tokens,
           held'[r] \subseteq held[r]
    PROVE  Room'
<1>1. \A q \in Requests : held'[q] \subseteq held[q]
  BY DEF OthersStay
<1>2. Limited' = Limited /\ \A b : Cap(b)' = Cap(b)
  BY LimitedSame
<1> QED BY <1>1, <1>2 DEF Limiter, Room

LEMMA LimiterLater ==
    ASSUME Types, Stages, Limiter, NEW r \in Requests, Later(r), OthersStay(r), prog' = prog
    PROVE  Limiter'
<1>1. /\ SameCharge(r) /\ tokens' = tokens
      /\ pc'[r] \in {"read", "lineage", "audit", "done"}
      /\ (pc[r] # "windows" /\ held' = held) \/ held'[r] = {}
  BY LaterSteps
<1>2. held'[r] = {}
  BY <1>1 DEF Limiter, Holding
<1>3. Charged(r)' /\ Holding(r)'
  BY <1>1, <1>2 DEF Limiter, Charged, Holding, SameCharge, Req
<1>4. Room'
  BY <1>1, <1>2, RoomKept
<1>5. \A b \in Limited : Exact(b)'
  BY <1>1, ExactKept
<1>6. \A q \in Requests \ {r} : Charged(q)' /\ Holding(q)'
  BY OthersLimited
<1> QED BY <1>3, <1>4, <1>5, <1>6, LimitedSame DEF Limiter

LEMMA LimiterAuthenticate ==
    ASSUME Types, Stages, Limiter, NEW r \in Requests, Authenticate(r), OthersStay(r), prog' = prog
    PROVE  Limiter'
<1>0. /\ pc \in [Requests -> Labels] /\ ctx \in [Requests -> Context]
      /\ resp \in [Requests -> Response] /\ win \in [Requests -> 1 .. 4]
  BY DEF Types
<1>1. pc[r] = "new" /\ tokens' = tokens /\ held' = held /\ log' = log
  BY DEF Authenticate, gateVars
<1>2. Uncharged(r) /\ held[r] = {} /\ ctx[r].key = None
  BY <1>1 DEF Limiter, Charged, Holding, Stages, Staged, Uncharged
<1>3. CASE pc'[r] # "windows"
  <2>1. ctx' = ctx /\ (resp' = resp \/ Refused(r, 401))
    BY <1>0, <1>3 DEF Authenticate, Goto
  <2>2. Uncharged(r)'
    BY <1>2, <2>1, RefusedKeeps DEF Uncharged
  <2>3. Charged(r)' /\ Holding(r)'
    BY <1>1, <1>2, <1>3, <2>1, <2>2 DEF Charged, Holding, Uncharged
  <2> QED BY <1>1, <1>2, <2>2, <2>3, RoomKept, ExactKept, OthersLimited, LimitedSame DEF Limiter
<1>4. CASE pc'[r] = "windows"
  <2>0. Authentic(r) /\ Req(r).endpoint \notin Public
    BY <1>0, <1>4 DEF Authenticate, Goto, Refused
  <2>1. /\ ctx' = [ctx EXCEPT ![r].key = Req(r).key, ![r].now = clock]
        /\ win' = [win EXCEPT ![r] = WindowFrom(Req(r).key, 1)] /\ resp' = resp
    BY <2>0 DEF Authenticate, Named
  <2>2. /\ ctx'[r].key = Req(r).key /\ ctx'[r].admitted = ctx[r].admitted
        /\ win'[r] = WindowFrom(Req(r).key, 1)
    BY <1>0, <2>1 DEF Context
  <2>3. Uncharged(r)'
    BY <1>2, <2>1, <2>2 DEF Uncharged
  <2>4. Charged(r)'
    BY <2>2, <2>3 DEF Charged, Uncharged, Req
  <2>5. /\ WindowFrom(Req(r).key, 1) \in 1 .. 4
        /\ win'[r] = 4 \/ Limits(Req(r).key)[Windows[win'[r]]] # 0
        /\ \A i \in 1 .. win'[r] - 1 : Limits(Req(r).key)[Windows[i]] = 0
    BY <2>0, <2>2, WindowFromIs DEF Authentic, Types
  <2>6. \A b \in Limited : ~\E n \in 1 .. win'[r] - 1 : b = Bucket(r, Windows[n])'
    <3>1. \A n : /\ Bucket(r, Windows[n])'[1] = Req(r).key
                 /\ Bucket(r, Windows[n])'[2] = Windows[n]
      BY DEF Bucket, Req
    <3> QED BY <2>5, <3>1 DEF Limited, Cap
  <2>7. Holding(r)'
    BY <1>1, <1>2, <1>4, <2>5, <2>6, LimitedSame DEF Holding, Req
  <2> QED BY <1>1, <1>2, <2>3, <2>4, <2>7, RoomKept, ExactKept, OthersLimited, LimitedSame
          DEF Limiter
<1> QED BY <1>3, <1>4

(* The bucket of a window with a cap, and which buckets a request that has *)
(* passed the windows before n has updated.                                *)
LEMMA TokenBucket ==
    ASSUME Types, Stages, Limiter, NEW r \in Requests, pc[r] = "windows"
    PROVE  /\ Req(r).key \in Keys /\ ctx[r].key = Req(r).key /\ Uncharged(r)
           /\ win[r] \in 1 .. 4
           /\ win[r] # 4 => /\ Bucket(r, Windows[win[r]]) \in Limited
                            /\ Cap(Bucket(r, Windows[win[r]])) = Limits(Req(r).key)[Windows[win[r]]]
           /\ \A b \in Limited :
                b \in held[r] <=> \E n \in 1 .. win[r] - 1 : b = Bucket(r, Windows[n])
           /\ \A b \in Limited : Matches(r, b) <=> \E n \in 1 .. 3 : b = Bucket(r, Windows[n])
<1>1. Req(r).key \in Keys /\ ctx[r].key = Req(r).key /\ win[r] \in 1 .. 4
  BY DEF Types, Stages, Staged
<1>2. Uncharged(r)
  BY DEF Limiter, Charged, Stages, Staged, Uncharged
<1>3. win[r] # 4 => /\ Bucket(r, Windows[win[r]]) \in Limited
                    /\ Cap(Bucket(r, Windows[win[r]])) = Limits(Req(r).key)[Windows[win[r]]]
  <2> SUFFICES ASSUME win[r] # 4
               PROVE  /\ Bucket(r, Windows[win[r]]) \in Limited
                      /\ Cap(Bucket(r, Windows[win[r]])) = Limits(Req(r).key)[Windows[win[r]]]
    OBVIOUS
  <2>1. win[r] \in 1 .. 3 /\ Windows[win[r]] \in Kinds
    BY <1>1, WindowsAre
  <2>2. Bucket(r, Windows[win[r]]) \in Buckets
    BY <1>1, <2>1, BucketType
  <2>3. Cap(Bucket(r, Windows[win[r]])) = Limits(Req(r).key)[Windows[win[r]]]
    BY BucketIs DEF Cap
  <2> QED BY <2>2, <2>3 DEF Limiter, Holding, Limited
<1>4. \A b \in Limited : Matches(r, b) <=> \E n \in 1 .. 3 : b = Bucket(r, Windows[n])
  <2> TAKE b \in Limited
  <2>1. b[2] \in Kinds
    BY DEF Limited, Buckets
  <2>2. PICK n \in 1 .. 3 : Windows[n] = b[2]
    BY <2>1, WindowsAre
  <2> QED BY <1>1, <2>2, BucketIs DEF Matches
<1> QED BY <1>1, <1>2, <1>3, <1>4 DEF Limiter, Holding

LEMMA LimiterTakes ==
    ASSUME Types, Stages, Limiter, NEW r \in Requests, TakeToken(r), OthersStay(r), prog' = prog,
           ~(tokens[Bucket(r, Windows[win[r]])] + 1 > Limits(Req(r).key)[Windows[win[r]]])
    PROVE  Limiter'
<1> DEFINE k == Req(r).key
           b0 == Bucket(r, Windows[win[r]])
<1>0. /\ pc[r] = "windows" /\ win[r] \in 1 .. 3 /\ Free(r, b0)
      /\ held' = [held EXCEPT ![r] = held[r] \cup {b0}]
      /\ win' = [win EXCEPT ![r] = WindowFrom(k, win[r] + 1)]
      /\ tokens' = tokens /\ pc' = pc /\ resp' = resp /\ ctx' = ctx
  BY WindowsAre DEF TakeToken, Types
<1>1. /\ k \in Keys /\ ctx[r].key = k /\ Uncharged(r)
      /\ b0 \in Limited /\ Cap(b0) = Limits(k)[Windows[win[r]]]
      /\ \A b \in Limited : b \in held[r] <=> \E n \in 1 .. win[r] - 1 : b = Bucket(r, Windows[n])
  BY <1>0, TokenBucket
<1>2. /\ held'[r] = held[r] \cup {b0} /\ win'[r] = WindowFrom(k, win[r] + 1)
      /\ tokens \in [Buckets -> Nat]
  BY <1>0 DEF Types
<1>3. /\ win'[r] \in win[r] + 1 .. 4
      /\ win'[r] = 4 \/ Limits(k)[Windows[win'[r]]] # 0
      /\ \A i \in win[r] + 1 .. win'[r] - 1 : Limits(k)[Windows[i]] = 0
  <2>1. win[r] + 1 \in 1 .. 4 /\ prog \in Programs
    BY <1>0 DEF Types
  <2> HIDE DEF k
  <2> QED BY <1>1, <1>2, <2>1, WindowFromIs
<1>4. Uncharged(r)' /\ Charged(r)'
  BY <1>0, <1>1 DEF Uncharged, Charged, Req
<1>5. \A b \in Limited : b \in held'[r] <=> \E n \in 1 .. win'[r] - 1 : b = Bucket(r, Windows[n])
  <2> TAKE b \in Limited
  <2>1. ASSUME b \in held'[r] PROVE \E n \in 1 .. win'[r] - 1 : b = Bucket(r, Windows[n])
    <3>1. CASE b = b0
      BY <1>0, <1>3, <3>1
    <3>2. CASE b \in held[r]
      <4>1. PICK n \in 1 .. win[r] - 1 : b = Bucket(r, Windows[n])
        BY <1>1, <3>2
      <4> QED BY <1>0, <1>3, <4>1
    <3> QED BY <1>2, <2>1, <3>1, <3>2
  <2>2. ASSUME NEW n \in 1 .. win'[r] - 1, b = Bucket(r, Windows[n]) PROVE b \in held'[r]
    <3>1. Limits(k)[Windows[n]] # 0
      BY <2>2, BucketIs DEF Limited, Cap
    <3>2. n \notin win[r] + 1 .. win'[r] - 1
      BY <1>3, <3>1
    <3>3. n = win[r] \/ n \in 1 .. win[r] - 1
      BY <1>0, <1>3, <3>2
    <3> QED BY <1>1, <1>2, <2>2, <3>3
  <2> QED BY <2>1, <2>2
<1>6. Holding(r)'
  <2>1. \A kind : Bucket(r, kind)' = Bucket(r, kind)
    BY <1>0 DEF Bucket, Req, WindowStart
  <2>2. Req(r)' = Req(r)
    BY DEF Req
  <2> QED BY <1>0, <1>3, <1>5, <2>1, <2>2, LimitedSame DEF Holding
<1>7. Room'
  <2>1. \A q \in Requests \ {r} : held'[q] = held[q] /\ b0 \notin held[q]
    BY <1>0 DEF OthersStay, Free
  <2>2. tokens[b0] + 1 <= Cap(b0)
    <3>1. tokens[b0] \in Nat /\ Cap(b0) \in Nat
      BY <1>1, <1>2, CapType
    <3> QED BY <1>1, <3>1
  <2>3. Limited' = Limited /\ \A b : Cap(b)' = Cap(b)
    BY LimitedSame
  <2> HIDE DEF b0
  <2>4. ASSUME NEW q \in Requests, NEW b \in held'[q] \cap Limited
        PROVE  tokens[b] + 1 <= Cap(b) /\ \A p \in Requests \ {q} : b \notin held'[p]
    <3>1. CASE q = r /\ b = b0
      BY <2>1, <2>2, <3>1
    <3>2. CASE b \in held[q]
      <4>1. tokens[b] + 1 <= Cap(b) /\ \A p \in Requests \ {q} : b \notin held[p]
        BY <2>4, <3>2 DEF Limiter, Room
      <4>2. q # r => b # b0
        BY <2>1, <3>2
      <4> QED BY <1>2, <2>1, <4>1, <4>2
    <3> QED BY <1>2, <2>1, <2>4, <3>1, <3>2
  <2> QED BY <1>0, <2>3, <2>4 DEF Room
<1> QED BY <1>0, <1>1, <1>4, <1>6, <1>7, ExactKept, OthersLimited, LimitedSame DEF Limiter

(* There is still room for the others when r commits buckets of its own.   *)
LEMMA RoomCommit ==
    ASSUME Types, Limiter, NEW r \in Requests, OthersStay(r), prog' = prog, held'[r] = {},
           NEW bs, tokens' = Committed(r, bs),
           \A q \in Requests \ {r} : \A b \in held[q] \cap Limited : b \notin bs
    PROVE  Room'
<1>1. Limited' = Limited /\ \A b : Cap(b)' = Cap(b)
  BY LimitedSame
<1>2. \A q \in Requests \ {r} : held'[q] = held[q]
  BY DEF OthersStay
<1>3. ASSUME NEW q \in Requests, NEW b \in held'[q] \cap Limited
      PROVE  tokens'[b] + 1 <= Cap(b) /\ \A p \in Requests \ {q} : b \notin held'[p]
  <2>1. q # r /\ b \in held[q] \cap Limited
    BY <1>2, <1>3
  <2>2. tokens[b] + 1 <= Cap(b) /\ \A p \in Requests \ {q} : b \notin held[p]
    BY <2>1 DEF Limiter, Room
  <2>3. tokens'[b] = tokens[b]
    <3>1. b \in Buckets /\ b \notin bs /\ tokens[b] \in Nat
      BY <2>1, CapType DEF Types
    <3> QED BY <3>1 DEF Committed
  <2> QED BY <1>2, <2>2, <2>3
<1> QED BY <1>1, <1>3 DEF Room

LEMMA LimiterRefuses ==
    ASSUME Types, Stages, Limiter, NEW r \in Requests, TakeToken(r), OthersStay(r), prog' = prog,
           tokens[Bucket(r, Windows[win[r]])] + 1 > Limits(Req(r).key)[Windows[win[r]]]
    PROVE  Limiter'
<1> DEFINE b0 == Bucket(r, Windows[win[r]])
           bs == held[r] \cup {b0}
<1>0. /\ pc[r] = "windows" /\ win[r] \in 1 .. 3 /\ Free(r, b0)
      /\ tokens' = Committed(r, bs) /\ held' = [held EXCEPT ![r] = {}] /\ win' = win
      /\ Refused(r, 429) /\ ctx' = ctx
  BY WindowsAre DEF TakeToken, Types
<1>1. /\ Req(r).key \in Keys /\ ctx[r].key = Req(r).key /\ Uncharged(r)
      /\ b0 \in Limited /\ Cap(b0) = Limits(Req(r).key)[Windows[win[r]]]
      /\ \A b \in Limited : b \in held[r] <=> \E n \in 1 .. win[r] - 1 : b = Bucket(r, Windows[n])
  BY <1>0, TokenBucket
<1>2. /\ held'[r] = {} /\ resp'[r].code = 429 /\ pc'[r] = "audit"
      /\ ~ctx'[r].admitted /\ win'[r] = win[r]
  BY <1>0, <1>1, RefusedKeeps DEF Types, Uncharged
<1>3. \A kind : Bucket(r, kind)' = Bucket(r, kind)
  BY <1>0 DEF Bucket, Req, WindowStart
<1>4. \A b : Matches(r, b)' <=> Matches(r, b)
  BY <1>0, <1>3 DEF Matches
<1>5. \A b : Spent(r, b[2])' <=> \E n \in 1 .. win[r] : Windows[n] = b[2]
  BY <1>2 DEF Spent
<1>6. \A b \in Limited : r \in Counted(b)' <=> b \in bs
  <2> TAKE b \in Limited
  <2>1. ASSUME r \in Counted(b)' PROVE b \in bs
    <3>1. Matches(r, b) /\ \E n \in 1 .. win[r] : Windows[n] = b[2]
      BY <1>4, <1>5, <2>1, CountedIs
    <3>2. PICK n \in 1 .. win[r] : Windows[n] = b[2]
      BY <3>1
    <3>3. b = Bucket(r, Windows[n])
      BY <3>1, <3>2 DEF Matches
    <3>4. n = win[r] \/ n \in 1 .. win[r] - 1
      BY <1>0
    <3> QED BY <1>1, <3>3, <3>4
  <2>2. ASSUME b \in bs PROVE r \in Counted(b)'
    <3>1. PICK n \in 1 .. win[r] : b = Bucket(r, Windows[n])
      <4>1. CASE b = b0
        BY <1>0, <4>1
      <4>2. CASE b \in held[r]
        <5>1. PICK n \in 1 .. win[r] - 1 : b = Bucket(r, Windows[n])
          BY <1>1, <4>2
        <5>2. n \in 1 .. win[r]
          BY <1>0
        <5> QED BY <5>1, <5>2
      <4> QED BY <2>2, <4>1, <4>2
    <3>2. Matches(r, b) /\ Windows[n] = b[2]
      BY <1>1, <3>1, BucketIs DEF Matches
    <3> QED BY <1>4, <1>5, <3>2, CountedIs
  <2> QED BY <2>1, <2>2
<1>7. \A b \in Limited \cap bs : RefusedAt(r, b)' => tokens[b] >= Cap(b)
  <2> SUFFICES ASSUME NEW b \in Limited \cap bs, RefusedAt(r, b)' PROVE tokens[b] >= Cap(b)
    OBVIOUS
  <2>1. Windows[win[r]] = b[2]
    BY <1>2 DEF RefusedAt
  <2>2. b = b0
    <3>1. r \in Counted(b)'
      BY <1>6
    <3>2. Matches(r, b)
      BY <1>4, <3>1, CountedIs
    <3> QED BY <2>1, <3>2 DEF Matches
  <2>3. tokens[b0] \in Nat /\ Cap(b0) \in Nat
    BY <1>1, CapType DEF Types
  <2> QED BY <1>1, <2>2, <2>3
<1>8. \A q \in Requests \ {r} : \A b \in held[q] \cap Limited : b \notin bs
  BY <1>0 DEF Free, Limiter, Room
<1> HIDE DEF bs
<1>9. Room'
  BY <1>0, <1>2, <1>8, RoomCommit
<1>10. \A b \in Limited : Exact(b)'
  BY <1>0, <1>1, <1>2, <1>6, <1>7, ExactCommit
<1>11. Charged(r)' /\ Holding(r)'
  BY <1>0, <1>1, <1>2 DEF Charged, Holding, Req
<1> QED BY <1>9, <1>10, <1>11, OthersLimited, LimitedSame DEF Limiter

LEMMA LimiterAdmits ==
    ASSUME Types, Stages, Limiter, NEW r \in Requests, Admit(r), OthersStay(r), prog' = prog
    PROVE  Limiter'
<1> DEFINE bs == held[r]
<1>0. /\ pc[r] = "windows" /\ win[r] > 3
      /\ tokens' = Committed(r, bs) /\ held' = [held EXCEPT ![r] = {}] /\ win' = win
      /\ ctx' = [ctx EXCEPT ![r].admitted = TRUE] /\ resp' = resp /\ Goto(r, "handle")
  BY WindowsAre DEF Admit
<1>1. /\ Req(r).key \in Keys /\ ctx[r].key = Req(r).key /\ Uncharged(r) /\ win[r] = 4
      /\ \A b \in Limited : b \in held[r] <=> \E n \in 1 .. 3 : b = Bucket(r, Windows[n])
      /\ \A b \in Limited : Matches(r, b) <=> \E n \in 1 .. 3 : b = Bucket(r, Windows[n])
  <2>1. win[r] = 4
    BY <1>0, TokenBucket
  <2>2. win[r] - 1 = 3
    BY <2>1
  <2> QED BY <1>0, <2>1, <2>2, TokenBucket
<1>2. /\ held'[r] = {} /\ pc'[r] = "handle"
      /\ ctx'[r].key = ctx[r].key /\ ctx'[r].now = ctx[r].now /\ ctx'[r].admitted = TRUE
  <2>1. pc \in [Requests -> Labels] /\ held \in [Requests -> SUBSET Buckets]
    BY DEF Types
  <2> QED BY <1>0, <2>1, Typed DEF Goto, Context
<1>3. \A kind : Bucket(r, kind)' = Bucket(r, kind)
  BY <1>2 DEF Bucket, Req, WindowStart
<1>4. \A b : Matches(r, b)' <=> Matches(r, b)
  BY <1>2, <1>3 DEF Matches
<1>5. \A b : Spent(r, b[2])'
  BY <1>2 DEF Spent
<1>6. \A b \in Limited : r \in Counted(b)' <=> b \in bs
  BY <1>1, <1>4, <1>5, CountedIs
<1>7. \A b \in Limited \cap bs : tokens[b] + 1 <= Cap(b)
  BY DEF Limiter, Room
<1>8. ~\E b : RefusedAt(r, b)'
  BY <1>0, <1>1 DEF RefusedAt, Uncharged
<1>9. \A q \in Requests \ {r} : \A b \in held[q] \cap Limited : b \notin bs
  BY DEF Limiter, Room
<1> HIDE DEF bs
<1>10. Room'
  BY <1>0, <1>2, <1>9, RoomCommit
<1>11. \A b \in Limited : Exact(b)'
  BY <1>0, <1>1, <1>6, <1>7, <1>8, ExactCommit
<1>12. Charged(r)' /\ Holding(r)'
  BY <1>0, <1>1, <1>2 DEF Charged, Holding, Uncharged, Req
<1> QED BY <1>10, <1>11, <1>12, OthersLimited, LimitedSame DEF Limiter

LEMMA LimiterNext == Types /\ Stages /\ Limiter /\ [Next]_vars => Limiter'
<1> SUFFICES ASSUME Types, Stages, Limiter, [Next]_vars PROVE Limiter'
  OBVIOUS
<1>1. ASSUME NEW r \in Requests, RequestAction(r) PROVE Limiter'
  <2>1. OthersStay(r) /\ prog' = prog
    BY <1>1, RequestOthers, RequestFrame
  <2>2. CASE TakeToken(r)
    BY <2>1, <2>2, LimiterTakes, LimiterRefuses
  <2>3. CASE Authenticate(r)
    BY <2>1, <2>3, LimiterAuthenticate
  <2>4. CASE Admit(r)
    BY <2>1, <2>4, LimiterAdmits
  <2>5. CASE Later(r)
    BY <2>1, <2>5, LimiterLater
  <2> QED BY <1>1, <2>2, <2>3, <2>4, <2>5 DEF RequestAction, RequestStep, Later
<1>2. CASE ~\E r \in Requests : RequestAction(r)
  <2>1. UNCHANGED <<prog, tokens, pc, win, held, ctx, resp>>
    BY <1>2, OtherStepsKeepRequests DEF gateVars, reqVars
  <2>2. \A r \in Requests : SameCharge(r)
    BY <2>1 DEF SameCharge
  <2>3. \A b \in Limited : Exact(b)'
    <3> TAKE b \in Limited
    <3>1. \A r \in Requests : (Matches(r, b)' <=> Matches(r, b))
                               /\ (Spent(r, b[2])' <=> Spent(r, b[2]))
                               /\ (RefusedAt(r, b)' <=> RefusedAt(r, b))
      BY <2>1, <2>2, ChargeSame
    <3>2. Counted(b)' = Counted(b)
      BY <3>1, CountedIs
    <3>3. Admitted(b)' = Admitted(b)
      BY <2>1, <3>2 DEF Admitted
    <3>4. Counted(b) \subseteq Requests
      BY DEF Counted
    <3> QED BY <2>1, <3>1, <3>2, <3>3, <3>4, ExactQuiet DEF Limiter
  <2>4. \A r \in Requests : Charged(r)' /\ Holding(r)'
    BY <2>1, LimitedSame DEF Limiter, Charged, Holding, Bucket, Req
  <2>5. Room'
    BY <2>1, LimitedSame DEF Limiter, Room
  <2> QED BY <2>1, <2>3, <2>4, <2>5, LimitedSame DEF Limiter
<1> QED BY <1>1, <1>2

LEMMA LimiterInit == Init => Limiter
<1> SUFFICES ASSUME Init PROVE Limiter
  OBVIOUS
<1>0. Types
  BY TypesInit
<1>1. \A r \in Requests : Charged(r) /\ Holding(r) /\ Uncharged(r) /\ held[r] = {}
  BY DEF Init, NoContext, NoResponse, Charged, Holding, Uncharged
<1>2. \A b \in Limited : Exact(b)
  <2> TAKE b \in Limited
  <2>1. Counted(b) = {} /\ Admitted(b) = {}
    BY <1>1 DEF Counted, Admitted, Uncharged
  <2>2. tokens[b] = 0 /\ Cap(b) \in Nat
    BY <1>0, CapType DEF Init
  <2> QED BY <2>1, <2>2, FS_EmptySet DEF Exact
<1> QED BY <1>1, <1>2 DEF Limiter, Room

(* The limiter is exact, however the requests of a key interleave in their *)
(* windows: no window admits more than its cap, and a request is refused   *)
(* only in a window whose cap others have used up.                         *)
THEOREM LimiterIsExact == Spec => []RateLimitIsExact
<1>1. Types /\ Limiter => RateLimitIsExact
  <2> SUFFICES ASSUME Types, Limiter PROVE RateLimitIsExact
    OBVIOUS
  <2>4. ASSUME NEW b \in InUse, Limits(b[1])[b[2]] # 0 PROVE Exact(b)
    <3>1. PICK q \in Requests, kind \in Kinds : ctx[q].key # None /\ b = Bucket(q, kind)
      BY <2>4 DEF InUse
    <3>2. Req(q).key \in Keys
      BY <3>1, Typed DEF Limiter, Charged, Context
    <3>3. b \in Limited
      BY <2>4, <3>1, <3>2, BucketType DEF Limited, Cap
    <3> QED BY <3>3 DEF Limiter
  <2>5. \A b \in InUse :
           Limits(b[1])[b[2]] # 0 =>
           /\ Cardinality({r \in Counted(b) : ctx[r].admitted}) <= Limits(b[1])[b[2]]
           /\ \A r \in Counted(b) :
                 (resp[r].code = 429 /\ Windows[win[r]] = b[2])
                 => Cardinality(Counted(b) \ {r}) >= Limits(b[1])[b[2]]
    <3> TAKE b \in InUse
    <3> HAVE Limits(b[1])[b[2]] # 0
    <3>1. Exact(b)
      BY <2>4
    <3> QED BY <3>1 DEF Exact, Admitted, RefusedAt, Cap
  <2> QED BY <2>5, Zenon DEF RateLimitIsExact
<1> QED BY <1>1, LimiterInit, LimiterNext, StagesHold, TypesHold, PTL DEF Spec

-----------------------------------------------------------------------------
(* What is declared immutable is: once its rows are read, an answer is     *)
(* what a replay gives, with the lineage that is still to be read, unless  *)
(* a writer commits a row at or before the cut of the answer.              *)
Cut(r) == IF Req(r).endpoint \notin Single /\ Req(r).range # None THEN Req(r).range[2]
          ELSE resp[r].asof

Disturbed(r) == \E v \in store : v.at >= ctx[r].readAt /\ v.asof <= Cut(r)

Shown(r) == pc[r] = "lineage" \/ resp[r].immutable

Frozen(r) ==
    /\ pc[r] = "read" => resp[r].asof \in Nat
    /\ pc[r] \in Early \cup {"lineage"} => ~resp[r].immutable
    /\ Shown(r) =>
          /\ resp[r].asof \in Nat /\ ctx[r].readAt <= clock
          /\ Req(r).endpoint \in Routes /\ pc[r] # "new"
          /\ Historical(r) => Disturbed(r) \/ Filled(r, resp[r].rows) \in Replays(r)
    /\ resp[r].immutable =>
          /\ ctx[r].readAt <= ctx[r].headAt /\ Cut(r) + Fresh <= ctx[r].headAt
          /\ \A x \in resp[r].rows : x.lineage # None

Frozens == \A r \in Requests : Frozen(r)

(* The rows that were added are after c, and say that their as_of is known. *)
AddedAfter(c) ==
    store \subseteq store' /\ \A v \in store' \ store : v.asof > c /\ ~v.pre

LEMMA PastSame ==
    ASSUME NEW c \in Nat, \A v \in store' : v.asof \in Nat, AddedAfter(c), NEW t \in Nat, t <= c
    PROVE  /\ At(t)' = At(t) /\ FilingEventAt(t)' = FilingEventAt(t)
           /\ VersionAt(t)' = VersionAt(t) /\ BackfilledAt(t)' = BackfilledAt(t)
           /\ \A e : LineageAt(t, e)' = LineageAt(t, e)
<1>0. store \subseteq store' /\ \A v \in store' \ store : v.asof > c /\ ~v.pre
  BY DEF AddedAfter
<1>1. \A v \in store' : (v.asof <= t => v \in store) /\ (v.pre => v \in store)
  BY <1>0
<1>2. At(t)' = At(t)
  <2>1. {v \in Main : v.asof <= t}' = {v \in Main : v.asof <= t}
    BY <1>0, <1>1 DEF Main
  <2> QED BY <2>1, Zenon DEF At, Newest
<1>3. FilingEventAt(t)' = FilingEventAt(t)
  <2>1. {v \in Main : v.asof <= t /\ (v.when = None \/ v.when > t)}'
           = {v \in Main : v.asof <= t /\ (v.when = None \/ v.when > t)}
    BY <1>0, <1>1 DEF Main
  <2> QED BY <2>1, Zenon DEF FilingEventAt, Newest
<1>4. VersionAt(t)' = VersionAt(t)
  <2>1. {v \in Main : v.asof <= t /\ v.kind # "deleted"}'
           = {v \in Main : v.asof <= t /\ v.kind # "deleted"}
    BY <1>0, <1>1 DEF Main
  <2> QED BY <2>1, Zenon DEF VersionAt, Newest
<1>6. BackfilledAt(t)' = BackfilledAt(t)
  <2>1. {v \in Main : (v.asof <= t \/ v.pre) /\ v.kind # "deleted"}'
           = {v \in Main : (v.asof <= t \/ v.pre) /\ v.kind # "deleted"}
    BY <1>0, <1>1 DEF Main
  <2> QED BY <2>1, Zenon DEF BackfilledAt, Newest
<1>5. ASSUME NEW e PROVE LineageAt(t, e)' = LineageAt(t, e)
  <2>1. {v \in store : v.table = "lineage" /\ v.key = e /\ v.asof <= t}'
           = {v \in store : v.table = "lineage" /\ v.key = e /\ v.asof <= t}
    BY <1>0, <1>1
  <2> QED BY <2>1, Zenon DEF LineageAt
<1> QED BY <1>2, <1>3, <1>4, <1>5, <1>6

LEMMA ChainSame ==
    ASSUME NEW q \in RequestArgs, q.range # None,
           \A v \in store' : v.asof \in Nat, AddedAfter(q.range[2])
    PROVE  Chain(q)' = Chain(q)
<1>1. q.range[2] \in Nat
  BY DEF RequestArgs
<1>2. store \subseteq store' /\ \A v \in store' : v.asof < q.range[2] => v \in store
  BY <1>1 DEF AddedAfter
<1> QED BY <1>2 DEF Chain, Main

LEMMA RowsSame ==
    ASSUME NEW q, q.endpoint \in Routes \ {"filings", "identifiers_resolve"}, NEW t, prog' = prog,
           IF q.endpoint \notin Single /\ q.range # None THEN Chain(q)' = Chain(q)
           ELSE /\ At(t)' = At(t) /\ FilingEventAt(t)' = FilingEventAt(t)
                /\ VersionAt(t)' = VersionAt(t) /\ BackfilledAt(t)' = BackfilledAt(t)
    PROVE  Rows(q, t)' = Rows(q, t)
<1> USE DEF Single, ChainOr, Where
<1>1. CASE q.endpoint \in {"observations", "financials_canonical", "financials_line_items",
                           "quality_scores"}
  <2>1. ChainOr(q, At(t))' = ChainOr(q, At(t))
    BY <1>1
  <2>2. Rows(q, t) = Plain(ChainOr(q, At(t))) /\ Rows(q, t)' = Plain(ChainOr(q, At(t)))'
    BY <1>1 DEF Rows, Observations, FinancialsCanonical, FinancialsLineItems, QualityScores
  <2> QED BY <2>1, <2>2, Zenon DEF Plain
<1>2. CASE q.endpoint = "entities"
  <2>1. ChainOr(q, VersionAt(t))' = ChainOr(q, VersionAt(t))
    BY <1>2
  <2>2. /\ Rows(q, t) = Unread(ChainOr(q, VersionAt(t)))
        /\ Rows(q, t)' = Unread(ChainOr(q, VersionAt(t)))'
    BY <1>2 DEF Rows, Entities
  <2> QED BY <2>1, <2>2, Zenon DEF Unread
<1>3. CASE q.endpoint = "get_entity"
  <2>1. Where(q, VersionAt(t))' = Where(q, VersionAt(t))
    BY <1>3
  <2>2. /\ Rows(q, t) = Unread(Where(q, VersionAt(t)))
        /\ Rows(q, t)' = Unread(Where(q, VersionAt(t)))'
    BY <1>3 DEF Rows, GetEntity
  <2> QED BY <2>1, <2>2, Zenon DEF Unread
<1>5. CASE q.endpoint = "disclosures"
  <2>1. ChainOr(q, DisclosureAt(q, t))' = ChainOr(q, DisclosureAt(q, t))
    BY <1>5 DEF DisclosureAt
  <2>2. /\ Rows(q, t) = Plain(ChainOr(q, DisclosureAt(q, t)))
        /\ Rows(q, t)' = Plain(ChainOr(q, DisclosureAt(q, t)))'
    BY <1>5 DEF Rows, Disclosures
  <2> QED BY <2>1, <2>2, Zenon DEF Plain
<1>6. CASE q.endpoint = "get_disclosure"
  <2>1. Where(q, DisclosureAt(q, t))' = Where(q, DisclosureAt(q, t))
    BY <1>6 DEF DisclosureAt
  <2>2. /\ Rows(q, t) = Plain(Where(q, DisclosureAt(q, t)))
        /\ Rows(q, t)' = Plain(Where(q, DisclosureAt(q, t)))'
    BY <1>6 DEF Rows, GetDisclosure
  <2> QED BY <2>1, <2>2, Zenon DEF Plain
<1>4. CASE q.endpoint = "events"
  <2>1. ChainOr(q, FilingEventAt(t))' = ChainOr(q, FilingEventAt(t))
    BY <1>4
  <2>2. Rows(q, t) = Events(q, t) /\ Rows(q, t)' = Events(q, t)'
    BY <1>4 DEF Rows
  <2> HIDE DEF ChainOr
  <2>3. PICK C, k : C = ChainOr(q, FilingEventAt(t)) /\ k = prog.keys[q.key]
    OBVIOUS
  <2>4. C = ChainOr(q, FilingEventAt(t))' /\ k = prog'.keys[q.key]
    BY <2>1, <2>3
  <2>5. Events(q, t) = Plain({Redacted(v, k) : v \in C})
    BY <2>3, Zenon DEF Events
  <2>6. Events(q, t)' = Plain({Redacted(v, k) : v \in C})
    BY <2>4, Zenon DEF Events, Plain, Redacted
  <2> QED BY <2>2, <2>5, <2>6
<1> QED BY <1>1, <1>2, <1>3, <1>4, <1>5, <1>6 DEF Routes

(* Rows after the cut change neither the answer nor its replay.            *)
LEMMA LineageSame ==
    ASSUME Types, Types', NEW r \in Requests, prog' = prog,
           resp'[r].asof = resp[r].asof, pc[r] # "new",
           Historical(r), resp[r].asof \in Nat,
           AddedAfter(Cut(r)), NEW x, x.row.asof \in Nat, InTime(Req(r), resp[r].asof, x.row),
           Req(r).endpoint \in {"entities", "get_entity"}
    PROVE  Lineage(r, x.row)' = Lineage(r, x.row)
<1>1. PICK t : t = LineageTime(r, x.row)
  OBVIOUS
<1>2. Req(r) \in RequestArgs
  BY RequestType DEF Types
<1>3. PICK c : c = Cut(r)
  OBVIOUS
<1>4. c \in Nat /\ t \in Nat /\ t <= c
  <2>1. CASE Req(r).endpoint \notin Single /\ Req(r).range # None
    <3>1. Req(r).range[2] \in Nat
      BY <1>2, <2>1 DEF RequestArgs
    <3>2. c = Req(r).range[2] /\ x.row.asof < c
      BY <1>3, <2>1 DEF Cut, InTime, Historical
    <3>3. t = x.row.asof
      BY <1>1, <2>1 DEF LineageTime, Single
    <3> QED BY <3>1, <3>2, <3>3
  <2>2. CASE ~(Req(r).endpoint \notin Single /\ Req(r).range # None)
    <3>1. c = resp[r].asof
      BY <1>3, <2>2 DEF Cut
    <3>2. t = resp[r].asof
      BY <1>1, <2>2 DEF LineageTime, Single
    <3> QED BY <3>1, <3>2
  <2> QED BY <2>1, <2>2
<1>5. \A v \in store' : v.asof \in Nat
  BY DEF Types, StoreRow
<1>6. LineageAt(t, x.row.key)' = LineageAt(t, x.row.key)
  BY <1>3, <1>4, <1>5, PastSame
<1>7. Req(r)' = Req(r) /\ LineageTime(r, x.row)' = t
  BY <1>1 DEF Req, LineageTime
<1> QED BY <1>1, <1>6, <1>7 DEF Lineage, LineageAt

LEMMA AnsweredSame ==
    ASSUME Types, Types', NEW r \in Requests, prog' = prog,
           resp'[r].asof = resp[r].asof, pc[r] # "new",
           Historical(r), Req(r).endpoint \in Routes, resp[r].asof \in Nat,
           AddedAfter(Cut(r)),
           NEW q, q = Req(r), NEW t, t = resp[r].asof
    PROVE  Req(r)' = q /\ Rows(q, t)' = Rows(q, t)
<1>1. PICK c : c = Cut(r)
  OBVIOUS
<1>2. q \in RequestArgs /\ Req(r)' = q /\ t \in Nat
  BY RequestType DEF Types, Req
<1>3. \A v \in store' : v.asof \in Nat
  BY DEF Types, StoreRow
<1>4. CASE q.endpoint \notin Single /\ q.range # None
  <2>1. AddedAfter(q.range[2])
    BY <1>4 DEF Cut
  <2>2. Chain(q)' = Chain(q)
    BY <1>2, <1>3, <1>4, <2>1, ChainSame
  <2> QED BY <1>2, <1>4, <2>2, RowsSame DEF Historical
<1>5. CASE ~(q.endpoint \notin Single /\ q.range # None)
  <2>1. c = t /\ AddedAfter(c)
    BY <1>1, <1>5 DEF Cut
  <2> QED BY <1>2, <1>3, <1>5, <2>1, PastSame, RowsSame DEF Historical
<1> QED BY <1>2, <1>4, <1>5

LEMMA PagesSame ==
    ASSUME Types, Types', NEW r \in Requests, prog' = prog,
           resp'[r].asof = resp[r].asof, pc[r] # "new",
           Historical(r), Req(r).endpoint \in Routes, resp[r].asof \in Nat,
           AddedAfter(Cut(r))
    PROVE  Pages(Req(r), Rows(Req(r), resp[r].asof))'
              = Pages(Req(r), Rows(Req(r), resp[r].asof))
<1>1. PICK q, t : q = Req(r) /\ t = resp[r].asof
  OBVIOUS
<1>2. Req(r)' = q /\ resp'[r].asof = t /\ Rows(q, t)' = Rows(q, t)
  BY <1>1, AnsweredSame
<1>3. PICK S : S = Rows(q, t)
  OBVIOUS
<1>4. Rows(Req(r), resp[r].asof)' = S
  BY <1>2, <1>3
<1> QED BY <1>1, <1>2, <1>3, <1>4, Zenon DEF Pages

(* The rows of a page keep the lineage that is still to be read.           *)
LEMMA PageFilled ==
    ASSUME Types, Types', NEW r \in Requests, prog' = prog,
           resp'[r].asof = resp[r].asof, pc[r] # "new",
           Historical(r), Req(r).endpoint \in Routes, resp[r].asof \in Nat,
           AddedAfter(Cut(r)),
           NEW P \in Pages(Req(r), Rows(Req(r), resp[r].asof))
    PROVE  Filled(r, P)' = Filled(r, P)
<1>1. PICK q, t : q = Req(r) /\ t = resp[r].asof
  OBVIOUS
<1>2. ASSUME NEW x \in P, x.lineage = None PROVE Lineage(r, x.row)' = Lineage(r, x.row)
  <2>1. Answer(q, t, x)
    <3>1. P \subseteq Rows(q, t)
      BY <1>1, PageRows
    <3> QED BY <1>1, <1>2, <3>1, RowsAnswer
  <2>2. /\ x.row.asof \in Nat /\ InTime(Req(r), resp[r].asof, x.row)
        /\ Req(r).endpoint \in {"entities", "get_entity"}
    BY <1>1, <1>2, <2>1, ResearchConstants DEF Answer, AnswerRow, ShownRow
  <2> QED BY <2>2, LineageSame
<1>3. Filled(r, P)' =
        {[x EXCEPT !.lineage = IF @ = None THEN Lineage(r, x.row)' ELSE @] : x \in P}
  BY DEF Filled
<1> QED BY <1>2, <1>3 DEF Filled

LEMMA ReplaysSame ==
    ASSUME Types, Types', NEW r \in Requests, prog' = prog,
           resp'[r].asof = resp[r].asof, pc[r] # "new",
           Historical(r), Req(r).endpoint \in Routes, resp[r].asof \in Nat,
           AddedAfter(Cut(r))
    PROVE  Replays(r)' = Replays(r)
<1>1. PICK T : T = Pages(Req(r), Rows(Req(r), resp[r].asof))
  OBVIOUS
<1>2. Pages(Req(r), Rows(Req(r), resp[r].asof))' = T
  BY <1>1, PagesSame
<1>3. \A P \in T : Filled(r, P)' = Filled(r, P)
  BY <1>1, PageFilled
<1>4. Replays(r) = {Filled(r, P) : P \in T}
  BY <1>1 DEF Replays
<1>5. Replays(r)' = {Filled(r, P)' : P \in T}
  BY <1>2 DEF Replays
<1> QED BY <1>3, <1>4, <1>5

Lasts(r) ==
    /\ prog' = prog /\ resp'[r].asof = resp[r].asof
    /\ AddedAfter(Cut(r))

LEMMA LineageLasts ==
    ASSUME Types, Types', Answers, NEW r \in Requests, pc[r] # "new", Historical(r),
           resp[r].asof \in Nat, Lasts(r), NEW x \in resp[r].rows, x.lineage = None
    PROVE  Lineage(r, x.row)' = Lineage(r, x.row)
<1>1. x \in AnswerRow /\ LooksBack(r, x)
  BY Typed DEF Answers, Response
<1>2. x.row.asof \in Nat /\ Req(r).endpoint \in {"entities", "get_entity"}
  BY <1>1, ResearchConstants DEF AnswerRow, ShownRow, LooksBack
<1> QED BY <1>1, <1>2, LineageSame DEF Lasts, LooksBack

LEMMA CutType ==
    ASSUME Types, NEW r \in Requests, pc[r] # "new", resp[r].asof \in Nat PROVE Cut(r) \in Nat
<1>1. Req(r) \in RequestArgs
  BY RequestType DEF Types
<1> QED BY <1>1 DEF Cut, RequestArgs

(* A step of somebody else, or the audit of the answer.                    *)
LEMMA FrozenKept ==
    ASSUME Types, Types', Answers, NEW r \in Requests, Frozen(r), prog' = prog,
           resp'[r] = resp[r], ctx'[r] = ctx[r], clock <= clock',
           pc'[r] = pc[r] \/ (pc[r] = "audit" /\ pc'[r] = "done"),
           Shown(r) /\ Historical(r) =>
              store \subseteq store' /\ \A v \in store' \ store : v.at >= clock /\ ~v.pre
    PROVE  Frozen(r)'
<1>0. Req(r)' = Req(r) /\ Cut(r)' = Cut(r) /\ Historical(r)' = Historical(r)
  BY DEF Req, Cut, Historical
<1>1. /\ pc'[r] = "read" => resp'[r].asof \in Nat
      /\ pc'[r] \in Early \cup {"lineage"} => ~resp'[r].immutable
      /\ resp'[r].immutable =>
            /\ ctx'[r].readAt <= ctx'[r].headAt /\ Cut(r)' + Fresh <= ctx'[r].headAt
            /\ \A x \in resp'[r].rows : x.lineage # None
  BY <1>0 DEF Frozen, Early
<1>2. Shown(r)' => Shown(r)
  BY DEF Shown
<1>3. ASSUME Shown(r)
      PROVE  /\ resp'[r].asof \in Nat /\ ctx'[r].readAt <= clock'
             /\ Req(r)'.endpoint \in Routes /\ pc'[r] # "new"
  <2>1. ctx[r].readAt \in Nat /\ clock \in Nat /\ clock' \in Nat
    BY DEF Types, Context
  <2> QED BY <1>0, <1>3, <2>1 DEF Frozen
<1>4. ASSUME Shown(r), Historical(r)
      PROVE  Disturbed(r)' \/ Filled(r, resp[r].rows)' \in Replays(r)'
  <2>0. /\ store \subseteq store' /\ (\A v \in store' \ store : v.at >= clock /\ ~v.pre)
        /\ resp[r].asof \in Nat /\ ctx[r].readAt <= clock /\ pc[r] # "new"
        /\ Req(r).endpoint \in Routes /\ Cut(r) \in Nat
    BY <1>4, CutType DEF Frozen
  <2>1. CASE \E v \in store' \ store : v.asof <= Cut(r)
    <3>1. PICK v \in store' \ store : v.asof <= Cut(r)
      BY <2>1
    <3>2. v.at \in Nat /\ v.at >= clock /\ clock \in Nat /\ ctx[r].readAt \in Nat
      BY <2>0, <3>1 DEF Types, StoreRow, Context
    <3> QED BY <1>0, <2>0, <3>1, <3>2 DEF Disturbed
  <2>2. CASE ~\E v \in store' \ store : v.asof <= Cut(r)
    <3>1. \A v \in store' : v.asof \in Nat
      BY DEF Types, StoreRow
    <3>2. Lasts(r)
      BY <2>0, <2>2, <3>1 DEF Lasts, AddedAfter
    <3>3. CASE Disturbed(r)
      BY <1>0, <2>0, <3>3 DEF Disturbed
    <3>4. CASE Filled(r, resp[r].rows) \in Replays(r)
      <4>1. Replays(r)' = Replays(r)
        BY <1>4, <2>0, <3>2, ReplaysSame DEF Lasts
      <4>2. \A x \in resp[r].rows : x.lineage = None => Lineage(r, x.row)' = Lineage(r, x.row)
        BY <1>4, <2>0, <3>2, LineageLasts
      <4>3. Filled(r, resp[r].rows)' = Filled(r, resp[r].rows)
        BY <4>2 DEF Filled
      <4> QED BY <3>4, <4>1, <4>3
    <3> QED BY <1>4, <3>3, <3>4 DEF Frozen
  <2> QED BY <2>1, <2>2
<1> QED BY <1>0, <1>1, <1>2, <1>3, <1>4 DEF Frozen

LEMMA FrozenOff ==
    ASSUME NEW r \in Requests, pc'[r] # "lineage", ~resp'[r].immutable,
           pc'[r] = "read" => resp'[r].asof \in Nat
    PROVE  Frozen(r)'
  BY DEF Frozen, Shown

LEMMA RefusedFrozen ==
    ASSUME Types, NEW r \in Requests, NEW code, Refused(r, code), ~resp[r].immutable
    PROVE  Frozen(r)'
<1>1. pc'[r] = "audit" /\ resp'[r].immutable = resp[r].immutable
  BY Typed DEF Refused, Goto, Types, Response
<1> QED BY <1>1, FrozenOff

LEMMA FrozenRead ==
    ASSUME Types, Types', NEW r \in Requests, Frozen(r), Read(r) PROVE Frozen(r)'
<1>0. /\ prog' = prog /\ store' = store /\ clock' = clock /\ pc[r] = "read"
      /\ ~resp[r].immutable /\ resp[r].asof \in Nat /\ Req(r).endpoint \in Routes
      /\ pc \in [Requests -> Labels] /\ clock \in Nat
  BY DEF Read, World, Frozen, Early, Types
<1>1. PICK rows \in Pages(Req(r), Rows(Req(r), resp[r].asof)) :
         \/ Refused(r, 404)
         \/ Refused(r, 409)
         \/ resp' = [resp EXCEPT ![r].rows = rows] /\ Goto(r, "lineage")
  BY ReadCases
<1>2. CASE \E code \in {404, 409} : Refused(r, code)
  BY <1>0, <1>2, RefusedFrozen
<1>3. CASE resp' = [resp EXCEPT ![r].rows = rows] /\ Goto(r, "lineage")
  <2>1. /\ resp'[r].rows = rows /\ resp'[r].asof = resp[r].asof
        /\ resp'[r].immutable = resp[r].immutable /\ pc'[r] = "lineage"
    BY <1>0, <1>3, Typed DEF Response, Goto
  <2>2. ctx'[r].readAt = clock
    BY Typed DEF Read, Context
  <2>3. Req(r)' = Req(r)
    BY <1>0 DEF Req
  <2>4. ASSUME Historical(r) PROVE Filled(r, resp[r].rows)' \in Replays(r)'
    <3>0. AddedAfter(Cut(r))
      BY <1>0 DEF AddedAfter
    <3>1. Pages(Req(r), Rows(Req(r), resp[r].asof))' = Pages(Req(r), Rows(Req(r), resp[r].asof))
      BY <1>0, <2>1, <2>4, <3>0, PagesSame
    <3>2. rows \in Pages(Req(r), Rows(Req(r), resp[r].asof))'
      BY <1>1, <3>1
    <3>3. Filled(r, rows)' \in Replays(r)'
      BY <3>2, Zenon DEF Replays
    <3> QED BY <2>1, <3>3, Zenon DEF Filled
  <2> QED BY <1>0, <2>1, <2>2, <2>3, <2>4 DEF Frozen, Historical
<1> QED BY <1>1, <1>2, <1>3

LEMMA FrozenLineage ==
    ASSUME Types, Types', Answers, NEW r \in Requests, Frozen(r), ReadLineage(r)
    PROVE  Frozen(r)'
<1>0. /\ prog' = prog /\ store' = store /\ clock' = clock /\ ctx' = ctx
      /\ pc' = pc /\ pc[r] = "lineage"
  BY DEF ReadLineage, World
<1>1. PICK x \in resp[r].rows :
           /\ x.lineage = None
           /\ resp' = [resp EXCEPT ![r].rows =
                 (@ \ {x}) \cup {[x EXCEPT !.lineage = Lineage(r, x.row)]}]
  BY DEF ReadLineage
<1> DEFINE L == Lineage(r, x.row)
           y == [x EXCEPT !.lineage = L]
<1>2. /\ resp'[r].rows = (resp[r].rows \ {x}) \cup {y} /\ resp'[r].asof = resp[r].asof
      /\ resp'[r].immutable = resp[r].immutable
  BY <1>1, Typed DEF Response
<1>3. Req(r)' = Req(r) /\ Cut(r)' = Cut(r) /\ Historical(r)' = Historical(r)
  BY <1>0, <1>2 DEF Req, Cut, Historical
<1>4. /\ Shown(r) /\ ~resp[r].immutable /\ resp[r].asof \in Nat
      /\ ctx[r].readAt <= clock /\ Req(r).endpoint \in Routes
  BY <1>0 DEF Frozen, Shown
<1>5. ASSUME Historical(r), ~Disturbed(r) PROVE Filled(r, resp[r].rows)' \in Replays(r)'
  <2>1. Lasts(r) /\ pc[r] # "new"
    BY <1>0, <1>2 DEF Lasts, AddedAfter
  <2>2. Replays(r)' = Replays(r)
    BY <1>4, <1>5, <2>1, ReplaysSame DEF Lasts
  <2>3. \A z \in resp[r].rows : z.lineage = None => Lineage(r, z.row)' = Lineage(r, z.row)
    BY <1>4, <1>5, <2>1, LineageLasts
  <2> DEFINE F(z) == [z EXCEPT !.lineage = IF @ = None THEN Lineage(r, z.row) ELSE @]
             G(z) == [z EXCEPT !.lineage = IF @ = None THEN Lineage(r, z.row)' ELSE @]
  <2>4. Filled(r, resp[r].rows)' = {G(z) : z \in (resp[r].rows \ {x}) \cup {y}}
    BY <1>2 DEF Filled
  <2>5. \A z \in resp[r].rows : G(z) = F(z)
    BY <2>3
  <2>6. G(y) = F(x)
    <3>1. x \in AnswerRow
      BY Typed DEF Response
    <3>2. x = [row |-> x.row, lineage |-> x.lineage]
      BY <3>1 DEF AnswerRow
    <3>3. y = [row |-> x.row, lineage |-> L]
      BY <3>2
    <3>4. L' = L
      BY <1>1, <2>3
    <3>5. F(x) = [row |-> x.row, lineage |-> L]
      BY <1>1, <3>2
    <3>6. G(y) = [row |-> x.row, lineage |-> L]
      <4>1. y.row = x.row /\ y.lineage = L
        BY <3>3
      <4>2. Lineage(r, y.row)' = L
        BY <1>1, <2>3, <4>1
      <4> HIDE DEF y, L
      <4> QED BY <3>3, <4>1, <4>2
    <3> QED BY <3>5, <3>6
  <2>7. Filled(r, resp[r].rows) = {F(z) : z \in resp[r].rows}
    BY DEF Filled
  <2>8. x \in resp[r].rows
    BY <1>1
  <2> HIDE DEF F, G, y, L
  <2>9. {G(z) : z \in (resp[r].rows \ {x}) \cup {y}} = {F(z) : z \in resp[r].rows}
    BY <2>5, <2>6, <2>8
  <2> QED BY <1>4, <1>5, <2>2, <2>4, <2>7, <2>9 DEF Frozen
<1>6. Disturbed(r)' = Disturbed(r)
  BY <1>0, <1>3 DEF Disturbed
<1> QED BY <1>0, <1>2, <1>3, <1>4, <1>5, <1>6 DEF Frozen

LEMMA FrozenHeaders ==
    ASSUME Types, Types', Answers, NEW r \in Requests, Frozen(r), SetCacheHeaders(r)
    PROVE  Frozen(r)'
<1>0. /\ prog' = prog /\ store' = store /\ clock' = clock /\ pc[r] = "lineage"
      /\ (\A x \in resp[r].rows : x.lineage # None) /\ pc \in [Requests -> Labels]
      /\ ctx' = [ctx EXCEPT ![r].headAt = clock]
  BY DEF SetCacheHeaders, World, Types
<1>1. PICK m : resp' = [resp EXCEPT ![r].code = 200, ![r].immutable = IsImmutable(Cut(r)),
                                    ![r].more = m]
  BY Zenon DEF SetCacheHeaders, Cut
<1>2. /\ resp'[r].rows = resp[r].rows /\ resp'[r].asof = resp[r].asof
      /\ resp'[r].immutable = IsImmutable(Cut(r)) /\ pc'[r] = "audit"
  BY <1>0, <1>1, Typed DEF Response, SetCacheHeaders, Goto
<1>3. ctx'[r].readAt = ctx[r].readAt /\ ctx'[r].headAt = clock
  BY <1>0, Typed DEF Context
<1>4. Req(r)' = Req(r) /\ Cut(r)' = Cut(r) /\ Historical(r)' = Historical(r)
  BY <1>0, <1>2 DEF Req, Cut, Historical
<1>5. /\ Shown(r) /\ resp[r].asof \in Nat
      /\ ctx[r].readAt <= clock /\ Req(r).endpoint \in Routes
  BY <1>0 DEF Frozen, Shown
<1>6. ASSUME Historical(r), ~Disturbed(r) PROVE Filled(r, resp[r].rows)' \in Replays(r)'
  <2>1. Lasts(r) /\ pc[r] # "new"
    BY <1>0, <1>2 DEF Lasts, AddedAfter
  <2>2. Replays(r)' = Replays(r)
    BY <1>5, <1>6, <2>1, ReplaysSame DEF Lasts
  <2>3. Filled(r, resp[r].rows)' = Filled(r, resp[r].rows)
    BY <1>0, <1>2 DEF Filled
  <2> QED BY <1>5, <1>6, <2>2, <2>3 DEF Frozen
<1>7. Disturbed(r)' = Disturbed(r)
  BY <1>0, <1>3, <1>4 DEF Disturbed
<1>8. IsImmutable(Cut(r)) => Cut(r) + Fresh <= clock
  BY DEF IsImmutable
<1> QED BY <1>0, <1>2, <1>3, <1>4, <1>5, <1>6, <1>7, <1>8 DEF Frozen, Early

LEMMA FrozenOwn ==
    ASSUME Types, Types', Answers, NEW r \in Requests, Frozen(r), RequestAction(r)
    PROVE  Frozen(r)'
<1>0. prog' = prog /\ store' = store /\ clock' = clock /\ clock \in Nat /\ pc \in [Requests -> Labels]
  BY RequestFrame DEF Types
<1> USE DEF Goto
<1>1. CASE Authenticate(r) \/ TakeToken(r) \/ Admit(r)
  <2>1. ~resp[r].immutable
    BY <1>1 DEF Authenticate, TakeToken, Admit, Frozen, Early
  <2>2. CASE \E code \in {401, 429} : Refused(r, code)
    BY <2>1, <2>2, RefusedFrozen
  <2>3. CASE ~\E code \in {401, 429} : Refused(r, code)
    <3>1. resp' = resp /\ pc'[r] \in {"public", "windows", "handle"}
      BY <1>0, <1>1, <2>3 DEF Authenticate, TakeToken, Admit
    <3> QED BY <2>1, <3>1, FrozenOff
  <2> QED BY <2>2, <2>3
<1>2. CASE Resolve(r)
  <2>1. ~resp[r].immutable
    BY <1>2 DEF Resolve, Frozen, Early
  <2>2. CASE Refused(r, Verdict(r))
    BY <2>1, <2>2, RefusedFrozen
  <2>3. CASE ~Refused(r, Verdict(r))
    <3> DEFINE a == IF Req(r).asof # None THEN Req(r).asof ELSE clock
    <3>0. a \in Nat
      <4>1. Req(r) \in RequestArgs
        BY <1>2, RequestType DEF Resolve, Types
      <4> QED BY <1>0, <4>1 DEF RequestArgs
    <3>1. PICK f : resp' = [resp EXCEPT ![r].asof = a, ![r].filters = f]
      BY <1>2, <2>3, Zenon DEF Resolve
    <3> HIDE DEF a
    <3>2. resp'[r].asof = a /\ resp'[r].immutable = resp[r].immutable
      BY <3>1, Typed DEF Response
    <3>3. pc'[r] = "read"
      BY <1>0, <1>2, <2>3 DEF Resolve
    <3> QED BY <2>1, <3>0, <3>2, <3>3, FrozenOff
  <2> QED BY <2>2, <2>3
<1>3. CASE HandlePublic(r)
  <2>1. PICK c : resp' = [resp EXCEPT ![r].code = c]
    BY <1>3, Zenon DEF HandlePublic
  <2>2. resp'[r].immutable = resp[r].immutable /\ pc'[r] = "audit" /\ ~resp[r].immutable
    BY <1>0, <1>3, <2>1, Typed DEF Response, HandlePublic, Frozen, Early
  <2> QED BY <2>2, FrozenOff
<1>4. CASE Audit(r) \/ AuditFails(r)
  <2>1. resp' = resp /\ ctx' = ctx /\ pc[r] = "audit" /\ pc'[r] = "done"
    BY <1>0, <1>4 DEF Audit, AuditFails
  <2> QED BY <1>0, <2>1, FrozenKept
<1>5. CASE RequestFails(r)
  <2>1. ~resp'[r].immutable /\ pc'[r] = "done"
    BY <1>0, <1>5, Typed DEF RequestFails, NoResponse
  <2> QED BY <2>1, FrozenOff
<1> QED BY <1>1, <1>2, <1>3, <1>4, <1>5, FrozenRead, FrozenLineage, FrozenHeaders
        DEF RequestAction, RequestStep

(* A writer of a table with a history appends a row, committed now.        *)
LEMMA WriterAppends ==
    ASSUME Types, NEW r \in Requests, pc[r] # "new", Req(r).endpoint \in Routes, Historical(r),
           NEW w \in Writers, WriterCommits(w)
    PROVE  store \subseteq store' /\ \A v \in store' \ store : v.at >= clock /\ ~v.pre
<1>1. w \in DOMAIN prog.writes /\ store' = Stored(w) /\ r \in DOMAIN prog.requests /\ clock \in Nat
  BY DEF WriterCommits, Types
<1>2. prog.writes[w].op # "replace"
  BY <1>1, ResearchPrograms DEF Types, Req, Historical
<1>3. \E v : v.at = clock /\ ~v.pre /\ Stored(w) \subseteq store \cup {v} /\ store \subseteq Stored(w)
  <2> DEFINE u == prog.writes[w]
             v == [table |-> u.table, key |-> u.key, val |-> u.val, kind |-> u.kind,
                   asof |-> IF u.asof = None THEN began[w] ELSE u.asof,
                   when |-> u.when, at |-> clock, pre |-> FALSE, sort |-> u.sort]
  <2>1. Stored(w) = store \/ Stored(w) = store \cup {v}
    BY <1>2, Zenon DEF Stored
  <2>2. v.at = clock /\ ~v.pre
    OBVIOUS
  <2> HIDE DEF v
  <2> QED BY <2>1, <2>2
<1> QED BY <1>1, <1>3

LEMMA FrozensNext == Types /\ Answers /\ Frozens /\ [Next]_vars => Frozens'
<1> SUFFICES ASSUME Types, Answers, Frozens, [Next]_vars, NEW r \in Requests PROVE Frozen(r)'
  BY DEF Frozens
<1>0. Types' /\ Frozen(r) /\ clock \in Nat
  BY TypesNext DEF Frozens, Types
<1>1. CASE RequestAction(r)
  BY <1>0, <1>1, FrozenOwn
<1>2. ASSUME NEW q \in Requests \ {r}, RequestAction(q) PROVE Frozen(r)'
  <2>1. OthersStay(q) /\ UNCHANGED <<prog, clock, store>>
    BY <1>2, RequestOthers, RequestFrame
  <2> QED BY <1>0, <2>1, FrozenKept DEF OthersStay
<1>3. ASSUME NEW w \in Writers, WriterCommits(w) PROVE Frozen(r)'
  <2>1. UNCHANGED <<prog, clock, pc, ctx, resp>>
    BY <1>3 DEF WriterCommits, reqVars
  <2>2. Shown(r) => pc[r] # "new" /\ Req(r).endpoint \in Routes
    BY <1>0 DEF Frozen
  <2> QED BY <1>0, <1>3, <2>1, <2>2, WriterAppends, FrozenKept
<1>4. CASE /\ ~\E q \in Requests : RequestAction(q)
           /\ ~\E w \in Writers : WriterCommits(w)
  <2>1. UNCHANGED <<prog, store, pc, ctx, resp>> /\ clock <= clock'
    BY <1>0, <1>4, NextCases DEF vars, reqVars, Tick, WriterAction, WriterBegins, CanaryAction,
       CanaryReads, CanaryPersists, CanaryFails
  <2> QED BY <1>0, <2>1, FrozenKept
<1> QED BY <1>1, <1>2, <1>3, <1>4

(* set_cache_headers and its threshold: an answer that was declared        *)
(* immutable is for ever what a replay may give, one of the pages where    *)
(* rows tie at the end of a full page and the same rows otherwise, whoever *)
(* writes meanwhile and whatever fails, unless a writer committed a row    *)
(* more than the threshold after its as_of.                                *)
THEOREM ImmutableAnswersStay == Spec => []CachedStaysTrue
<1>1. Init => Frozens
  BY DEF Init, NoResponse, Frozens, Frozen, Shown
<1>2. Types /\ Frozens => CachedStaysTrue
  <2> SUFFICES ASSUME Types, Frozens, NEW r \in Requests, pc[r] = "done", resp[r].immutable,
                      Historical(r), resp[r].rows \notin Replays(r)
               PROVE  \E v \in store : CommittedLate(v, r)
    BY DEF CachedStaysTrue
  <2>1. Frozen(r) /\ Shown(r)
    BY DEF Frozens, Shown
  <2>2. \A x \in resp[r].rows :
           [x EXCEPT !.lineage = IF @ = None THEN Lineage(r, x.row) ELSE @] = x
    <3> SUFFICES ASSUME NEW x \in resp[r].rows
                 PROVE  [x EXCEPT !.lineage = IF @ = None THEN Lineage(r, x.row) ELSE @] = x
      OBVIOUS
    <3>1. x \in AnswerRow /\ x.lineage # None
      BY <2>1, Typed DEF Frozen, Response
    <3> QED BY <3>1 DEF AnswerRow
  <2>3. Filled(r, resp[r].rows) = resp[r].rows
    BY <2>2 DEF Filled
  <2>4. PICK v \in store : v.at >= ctx[r].readAt /\ v.asof <= Cut(r)
    BY <2>1, <2>3 DEF Frozen, Disturbed
  <2>5. /\ v.at \in Nat /\ v.asof \in Nat /\ ctx[r].readAt \in Nat /\ ctx[r].headAt \in Nat
        /\ Fresh \in Nat /\ Cut(r) \in Nat
    BY <2>1, CutType, ResearchConstants DEF Types, StoreRow, Context, Frozen
  <2>6. ctx[r].readAt <= ctx[r].headAt /\ Cut(r) + Fresh <= ctx[r].headAt
    BY <2>1 DEF Frozen
  <2> QED BY <2>4, <2>5, <2>6 DEF CommittedLate
<1> QED BY <1>1, <1>2, FrozensNext, TypesHold, AnswersHold, PTL DEF Spec

=============================================================================
