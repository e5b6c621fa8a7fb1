---------------------------- MODULE ResearchApi ----------------------------
(***************************************************************************)
(* The bitemporal research API: authentication, rate limiting, the reads   *)
(* of the endpoints, cache headers and the audit log                       *)
(* (api/research_auth.py, api/research_observability.py,                   *)
(* api/routes/research.py, api/research_logging.py), the point-in-time     *)
(* functions it reads (migrations 0044 to 0051) and the canary that        *)
(* replays old amendments (scripts/canary_moat_2.py).                      *)
(*                                                                         *)
(* Requests, writers of the tables and canary runs are processes of one    *)
(* database.  A behaviour is about one endpoint: `store' holds the rows of *)
(* the table behind it, and of ref.entity_lineage.  Time is a clock that   *)
(* ticks between any two steps; a minute is the shortest rate window.      *)
(***************************************************************************)
EXTENDS Naturals, Sequences, FiniteSets

CONSTANTS
    Requests, Writers, Canaries,
    Keys,          \* API keys
    None,          \* None: no key, no as_of, no range, no cursor
    TierLimits,    \* _TIER_LIMITS: tier -> window -> cap, 0 for no limit
    Length,        \* window -> its length in ticks
    Fresh,         \* _IMMUTABLE_THRESHOLD_SECONDS, in ticks
    Skew,          \* _CLOCK_SKEW_TOLERANCE, in ticks
    MaxLimit,      \* _LIMIT_HARD_CAP
    MaxWidth,      \* _AS_OF_RANGE_MAX_WIDTH, in ticks
    Start,         \* the clock at the beginning
    MaxClock,      \* bound: the clock
    Programs,      \* keys, flags, requests, writes and amendments of a run
    MaxFaults      \* bound: failed statements, lost audit rows, kills

Windows == <<"minute", "hour", "day">>

Kinds == {"minute", "hour", "day"}

ASSUME ResearchConstants ==
    /\ None \notin Keys /\ None \notin Requests /\ None # {}
    /\ IsFiniteSet(Requests)
    /\ "partner" \in DOMAIN TierLimits
    /\ \A t \in DOMAIN TierLimits : TierLimits[t] \in [Kinds -> Nat]
    /\ Length \in [Kinds -> Nat \ {0}]
    /\ Fresh \in Nat /\ MaxClock \in Nat /\ Start \in 0 .. MaxClock /\ MaxFaults \in Nat

VARIABLES
    prog,      \* the program of this behaviour
    clock,
    tokens,    \* api_rate_limit_state.tokens_used, committed
    log,       \* request -> its rows of api_query_audit
    store,     \* rows of the tables, with the time they were committed
    status,    \* MOAT_2_CANARY_STATUS: "unknown", "green", "red"
    pc,        \* request -> where it is
    win,       \* request -> the window it is at in the limiter
    held,      \* request -> buckets it has updated and not committed
    ctx,       \* request -> RequestContext, and `now' of the limiter
    resp,      \* request -> its response
    wpc, began, \* writer -> where it is, now() of its transaction
    cpc, red,  \* canary run -> the read it is at, whether a case failed
    faults

reqVars    == <<pc, win, held, ctx, resp>>
gateVars   == <<tokens, log>>
writerVars == <<wpc, began>>
canaryVars == <<cpc, red, status>>
vars == <<prog, clock, gateVars, store, reqVars, writerVars, canaryVars, faults>>

-----------------------------------------------------------------------------
Req(r) == prog.requests[r]

Key(r) == prog.keys[Req(r).key]

\* _load_feature_flags: the flags with a row, and what an absent one means.
Flag(name, default) ==
    IF name \in DOMAIN prog.flags THEN prog.flags[name] ELSE default

Buckets == Keys \X Kinds \X (0 .. MaxClock)

(* _TIER_LIMITS.get(tier, partner), updated with rate_overrides.           *)
Limits(k) ==
    LET tier == prog.keys[k].tier
        base == TierLimits[IF tier \in DOMAIN TierLimits THEN tier ELSE "partner"]
        over == prog.keys[k].overrides
    IN  [w \in Kinds |-> IF w \in DOMAIN over THEN over[w] ELSE base[w]]

(* _window_start: the beginning of the minute, hour, day.                  *)
WindowStart(now, kind) == now \div Length[kind]

Bucket(r, kind) == <<Req(r).key, kind, WindowStart(ctx[r].now, kind)>>

NoContext == [key |-> None, now |-> 0, admitted |-> FALSE, readAt |-> 0, headAt |-> 0]

NoResponse == [code |-> 0, rows |-> {}, asof |-> None, filters |-> None,
               more |-> FALSE, immutable |-> FALSE]

Init ==
    /\ prog \in Programs
    /\ clock = Start /\ tokens = [b \in Buckets |-> 0]
    /\ log = [r \in Requests |-> <<>>] /\ store = prog.rows
    /\ status = "unknown"
    /\ pc = [r \in Requests |-> "new"] /\ win = [r \in Requests |-> 1]
    /\ held = [r \in Requests |-> {}] /\ ctx = [r \in Requests |-> NoContext]
    /\ resp = [r \in Requests |-> NoResponse]
    /\ wpc = [w \in Writers |-> "new"] /\ began = [w \in Writers |-> 0]
    /\ cpc = [c \in Canaries |-> 0] /\ red = [c \in Canaries |-> FALSE]
    /\ faults = 0

Tick ==
    /\ clock < MaxClock /\ clock' = clock + 1
    /\ UNCHANGED <<prog, gateVars, store, reqVars, writerVars, canaryVars, faults>>

-----------------------------------------------------------------------------
(* The gate: get_principal and enforce_rate_limit.                         *)

World == UNCHANGED <<prog, clock, store, writerVars, canaryVars, faults>>

Goto(r, l) == pc' = [pc EXCEPT ![r] = l]

(* An HTTPException: the handlers turn it into a response, which the       *)
(* middleware audits.                                                      *)
Refused(r, code) ==
    /\ resp' = [resp EXCEPT ![r].code = code]
    /\ Goto(r, "audit")

\* _is_public
Public == {"healthz", "openapi", "version", "verify_moat_2"}

(* get_principal: a known key, its secret, neither revoked nor expired.    *)
Authentic(r) ==
    /\ Req(r).key \in Keys /\ Key(r).secret = Req(r).secret
    /\ ~Key(r).revoked /\ clock <= Key(r).expires

\* A client follows a cursor after it has got one.
Sent(r) == Req(r).cursor # None => pc[Req(r).cursor] = "done" /\ resp[Req(r).cursor].more

\* The next window from the n-th on that has a cap: `if cap == 0: continue'.
WindowFrom(k, n) ==
    CHOOSE m \in n .. 4 :
        /\ m = 4 \/ Limits(k)[Windows[m]] # 0
        /\ \A i \in n .. m - 1 : Limits(k)[Windows[i]] = 0

\* Faulty variant: the context learns the key in the handler.
NamedLater(r) == [ctx EXCEPT ![r].now = clock]

(* The beginning of enforce_rate_limit: the context learns the key, the    *)
(* overrides are read, then the clock.                                     *)
Named(r) == [ctx EXCEPT ![r].key = Req(r).key, ![r].now = clock]

Authenticate(r) ==
    /\ pc[r] = "new" /\ r \in DOMAIN prog.requests /\ Sent(r)
    /\ IF Req(r).endpoint \in Public
       THEN Goto(r, "public") /\ UNCHANGED <<resp, ctx, win>>
       ELSE IF ~Authentic(r) THEN Refused(r, 401) /\ UNCHANGED <<ctx, win>>
       ELSE /\ ctx' = Named(r)
            /\ win' = [win EXCEPT ![r] = WindowFrom(Req(r).key, 1)]
            /\ Goto(r, "windows") /\ resp' = resp
    /\ UNCHANGED <<gateVars, held>> /\ World

\* Faulty variant: the count is read before it is updated.
FreeAlways(r, b) == TRUE

(* The upsert of a bucket waits for the transaction that has updated it.   *)
Free(r, b) == \A q \in Requests \ {r} : b \notin held[q]

\* session.commit() of the limiter.
Committed(r, bs) == [b \in Buckets |-> tokens[b] + (IF b \in bs THEN 1 ELSE 0)]

(* One window: the token is taken, whatever the cap; beyond it the tokens  *)
(* of this and the earlier windows are committed and the answer is 429.    *)
TakeToken(r) ==
    LET kind == Windows[win[r]]
        b == Bucket(r, kind)
        cap == Limits(Req(r).key)[kind]
    IN
    /\ pc[r] = "windows" /\ win[r] <= Len(Windows)
    /\ Free(r, b)
    /\ IF tokens[b] + 1 > cap
       THEN /\ tokens' = Committed(r, held[r] \cup {b})
            /\ held' = [held EXCEPT ![r] = {}] /\ win' = win /\ Refused(r, 429)
       ELSE /\ held' = [held EXCEPT ![r] = @ \cup {b}]
            /\ win' = [win EXCEPT ![r] = WindowFrom(Req(r).key, @ + 1)]
            /\ UNCHANGED <<tokens, pc, resp>>
    /\ UNCHANGED <<log, ctx>> /\ World

Admit(r) ==
    /\ pc[r] = "windows" /\ win[r] > Len(Windows)
    /\ tokens' = Committed(r, held[r]) /\ held' = [held EXCEPT ![r] = {}]
    /\ ctx' = [ctx EXCEPT ![r].admitted = TRUE]
    /\ Goto(r, "handle")
    /\ UNCHANGED <<log, win, resp>> /\ World

-----------------------------------------------------------------------------
(* What the endpoints read.  A row has an as_of, the time `at' at which it *)
(* was committed, and a second time `when': superseded_at of an event,     *)
(* valid_to of an identifier, event_at of a lineage event.  `pre' says     *)
(* that its as_of_provenance is pre_bitemporal_unknown; `sort' is what the *)
(* display order sorts by (period_end, published_at, event_ts ...).        *)

Main == {v \in store : v.table = "main"}

\* DISTINCT ON (key) ... ORDER BY key, as_of DESC
Newest(S) == {v \in S : \A w \in S : w.key = v.key => w.asof <= v.asof}

\* Faulty variant: the row recorded at the very instant is left out.
AtExclusive(t) == Newest({v \in Main : v.asof < t})

(* ts.observation_at, financial_line_item_at, canonical_financial_at,      *)
(* entity_quality_score_at.                                                *)
At(t) == Newest({v \in Main : v.asof <= t})

(* agg.filing_event_at                                                     *)
FilingEventAt(t) ==
    Newest({v \in Main : v.asof <= t /\ (v.when = None \/ v.when > t)})

(* ref.entity_at, kap.disclosures_at: rows of kind deleted are left out    *)
(* before the newest is taken.                                             *)
VersionAt(t) == Newest({v \in Main : v.asof <= t /\ v.kind # "deleted"})

(* include_pre_bitemporal: kap.disclosures_version itself, as VersionAt    *)
(* but with the rows of unknown provenance, whatever their as_of.          *)
BackfilledAt(t) ==
    Newest({v \in Main : (v.asof <= t \/ v.pre) /\ v.kind # "deleted"})

(* ref.identifier_at: valid_from <= t < valid_to, whenever it was recorded.*)
IdentifierAt(t) == {v \in Main : v.asof <= t /\ (v.when = None \/ t < v.when)}

(* ref.entity_lineage_at, of one entity.                                   *)
LineageAt(t, e) ==
    LET S == {v \in store : v.table = "lineage" /\ v.key = e /\ v.asof <= t} IN
    {v \in S : \A w \in S : w.val = v.val => w.asof <= v.asof}

(* _build_filtered_sql in interval mode: the version chain.                *)
Chain(q) == {v \in Main : q.range[1] <= v.asof /\ v.asof < q.range[2]}

\* The WHERE of the filters; `only' is empty when no filter is given.
Where(q, S) == {v \in S : q.only = {} \/ v.key \in q.only}

\* A row of a response; None: the lineage is still to be read.
Plain(S) == {[row |-> v, lineage |-> {}] : v \in S}

Unread(S) == {[row |-> v, lineage |-> None] : v \in S}

ChainOr(q, S) == Where(q, IF q.range # None THEN Chain(q) ELSE S)

Observations(q, t) == Plain(ChainOr(q, At(t)))

FinancialsCanonical(q, t) == Plain(ChainOr(q, At(t)))

FinancialsLineItems(q, t) == Plain(ChainOr(q, At(t)))

QualityScores(q, t) == Plain(ChainOr(q, At(t)))

Entities(q, t) == Unread(ChainOr(q, VersionAt(t)))

GetEntity(q, t) == Unread(Where(q, VersionAt(t)))

DisclosureAt(q, t) == IF q.pre THEN BackfilledAt(t) ELSE VersionAt(t)

Disclosures(q, t) == Plain(ChainOr(q, DisclosureAt(q, t)))

GetDisclosure(q, t) == Plain(Where(q, DisclosureAt(q, t)))

IdentifiersResolve(q, t) == Plain(Where(q, IdentifierAt(t)))

\* doc.filing has no history: the current rows in both modes.
Filings(q, t) == Plain(Where(q, Main))

(* _redact_event_payload: the keys of _PII_KEYS are replaced, unless the   *)
(* principal may see them.                                                 *)
Redacted(v, k) ==
    IF v.val = "pii" /\ ~k.pii THEN [v EXCEPT !.val = "<REDACTED:counterparty>"] ELSE v

Events(q, t) ==
    Plain({Redacted(v, prog.keys[q.key]) : v \in ChainOr(q, FilingEventAt(t))})

Single == {"identifiers_resolve", "get_entity", "get_disclosure"}

Rows(q, t) ==
    CASE q.endpoint = "observations" -> Observations(q, t)
      [] q.endpoint = "financials_canonical" -> FinancialsCanonical(q, t)
      [] q.endpoint = "financials_line_items" -> FinancialsLineItems(q, t)
      [] q.endpoint = "quality_scores" -> QualityScores(q, t)
      [] q.endpoint = "entities" -> Entities(q, t)
      [] q.endpoint = "get_entity" -> GetEntity(q, t)
      [] q.endpoint = "disclosures" -> Disclosures(q, t)
      [] q.endpoint = "get_disclosure" -> GetDisclosure(q, t)
      [] q.endpoint = "identifiers_resolve" -> IdentifiersResolve(q, t)
      [] q.endpoint = "filings" -> Filings(q, t)
      [] q.endpoint = "events" -> Events(q, t)

(* ORDER BY: the natural key and as_of in interval mode; the display order *)
(* otherwise, which tells all rows apart for observations (series_id, ts)   *)
(* and entities (legal_name, entity_id) only.                              *)
Before(q, v, w) ==
    IF q.range # None /\ q.endpoint # "filings"
    THEN v.key < w.key \/ (v.key = w.key /\ v.asof < w.asof)
    ELSE \/ q.endpoint # "observations" /\ v.sort < w.sort
         \/ q.endpoint = "observations" /\ v.key < w.key
         \/ q.endpoint = "entities" /\ v.sort = w.sort /\ v.key < w.key

(* LIMIT :limit: all rows, or as many as the limit says with none left out *)
(* that sorts before one of them; which of the rows that tie is not said.  *)
Pages(q, S) ==
    IF q.endpoint \in Single \/ Cardinality(S) <= q.limit THEN {S}
    ELSE {P \in SUBSET S : /\ Cardinality(P) = q.limit
                           /\ \A x \in P, y \in S \ P : ~Before(q, y.row, x.row)}

-----------------------------------------------------------------------------
(* The handlers: the parameters are checked and as_of is resolved, the     *)
(* rows are read, their lineage row by row, and the cache headers are set. *)

(* filters_for_cursor; now() of one request is not that of another.        *)
Filters(r) ==
    LET q == Req(r) IN
    [asof |-> IF q.range # None THEN <<>>
              ELSE IF q.asof = None THEN <<clock, r>>
              ELSE <<q.asof>>,
     range |-> q.range, only |-> q.only,
     pre |-> q.endpoint = "disclosures" /\ q.pre]

\* decode_cursor; the anchor is not used.
CursorAccepted(r) ==
    Req(r).cursor # None => resp[Req(r).cursor].filters = Filters(r)

(* require_master_flag, whose dependency is solved after the limiter, then *)
(* _reject_pit_with_interval, _parse_as_of_range, _gate_interval_flag,     *)
(* _enforce_query_cost, include_pre_bitemporal, _parse_as_of, the          *)
(* series_code and the cursor, in this order; 200 if nothing is wrong.     *)
Verdict(r) ==
    LET q == Req(r)
        interval == q.endpoint \notin Single /\ q.range # None
    IN
    IF ~Flag("BITEMPORAL_API_ENABLED", FALSE) THEN 503
    ELSE IF interval /\ q.asof # None THEN 400
    ELSE IF interval /\ q.range[1] >= q.range[2] THEN 400
    ELSE IF interval /\ ~Flag("BITEMPORAL_API_INTERVAL_QUERIES", TRUE) THEN 503
    ELSE IF interval /\ q.range[2] > q.range[1] + MaxWidth THEN 413
    ELSE IF q.endpoint \notin Single /\ q.limit > MaxLimit THEN 413
    ELSE IF interval /\ q.endpoint = "disclosures" /\ q.pre THEN 400
    ELSE IF q.asof # None /\ q.asof > clock + Skew THEN 400
    ELSE IF q.endpoint = "observations" /\ ~q.known THEN 400
    ELSE IF q.endpoint \notin Single /\ ~CursorAccepted(r) THEN 400
    ELSE 200

Resolve(r) ==
    /\ pc[r] = "handle"
    /\ IF Verdict(r) # 200 THEN Refused(r, Verdict(r))
       ELSE /\ resp' = [resp EXCEPT
                   ![r].asof = IF Req(r).asof # None THEN Req(r).asof ELSE clock,
                   ![r].filters = Filters(r)]
            /\ Goto(r, "read")
    /\ UNCHANGED <<gateVars, win, held, ctx>> /\ World

\* A single resource that is not there is 404, an identifier that names
\* several entities 409.
ReadVerdict(q, rows) ==
    CASE q.endpoint \in Single /\ rows = {} -> 404
      [] q.endpoint = "identifiers_resolve" /\ Cardinality(rows) > 1 -> 409
      [] OTHER -> 200

(* The statement of the endpoint, which gives one of the pages.            *)
Read(r) ==
    /\ pc[r] = "read"
    /\ ctx' = [ctx EXCEPT ![r].readAt = clock]
    /\ \E rows \in Pages(Req(r), Rows(Req(r), resp[r].asof)) :
          IF ReadVerdict(Req(r), rows) # 200
          THEN Refused(r, ReadVerdict(Req(r), rows))
          ELSE resp' = [resp EXCEPT ![r].rows = rows] /\ Goto(r, "lineage")
    /\ UNCHANGED <<gateVars, win, held>> /\ World

\* Faulty variant: the lineage of a version is that of the request's time.
LineageTimeResolved(r, v) == resp[r].asof

(* lineage_as_of: in interval mode the version's own as_of.                *)
LineageTime(r, v) ==
    IF Req(r).endpoint = "entities" /\ Req(r).range # None THEN v.asof ELSE resp[r].asof

(* One query per row; get_entity also asks for event_at <= as_of.          *)
Lineage(r, v) ==
    {l \in LineageAt(LineageTime(r, v), v.key) :
        Req(r).endpoint = "get_entity" => l.when <= resp[r].asof}

ReadLineage(r) ==
    /\ pc[r] = "lineage"
    /\ \E x \in resp[r].rows :
          /\ x.lineage = None
          /\ resp' = [resp EXCEPT ![r].rows =
                (@ \ {x}) \cup {[x EXCEPT !.lineage = Lineage(r, x.row)]}]
    /\ UNCHANGED <<gateVars, pc, win, held, ctx>> /\ World

\* Faulty variant: every answer about the past is immutable.
IsImmutableAtOnce(asof) == asof < clock

IsImmutable(asof) == asof + Fresh <= clock

(* The next cursor, the envelope and set_cache_headers: the age is that of *)
(* the end of the range or of as_of.                                       *)
SetCacheHeaders(r) ==
    LET q == Req(r)
        asof == IF q.endpoint \notin Single /\ q.range # None THEN q.range[2] ELSE resp[r].asof
    IN
    /\ pc[r] = "lineage" /\ \A x \in resp[r].rows : x.lineage # None
    /\ resp' = [resp EXCEPT
          ![r].code = 200, ![r].immutable = IsImmutable(asof),
          ![r].more = q.endpoint \notin Single /\ Cardinality(resp[r].rows) = q.limit]
    /\ ctx' = [ctx EXCEPT ![r].headAt = clock]
    /\ Goto(r, "audit")
    /\ UNCHANGED <<gateVars, win, held>> /\ World

(* healthz, openapi.json, version; verify/moat-2 tells the flag, whatever  *)
(* its age.                                                                *)
HandlePublic(r) ==
    /\ pc[r] = "public"
    /\ resp' = [resp EXCEPT ![r].code =
          IF Req(r).endpoint = "verify_moat_2" /\ status # "green" THEN 503 ELSE 200]
    /\ Goto(r, "audit")
    /\ UNCHANGED <<gateVars, win, held, ctx>> /\ World

(* research_audit_middleware: one row for the response, whoever made it.   *)
Audit(r) ==
    /\ pc[r] = "audit"
    /\ log' = [log EXCEPT ![r] = Append(@,
          [key |-> ctx[r].key, code |-> resp[r].code, rows |-> Cardinality(resp[r].rows)])]
    /\ Goto(r, "done")
    /\ UNCHANGED <<tokens, win, held, ctx, resp>> /\ World

Fault == faults < MaxFaults /\ faults' = faults + 1

\* The insert of the audit row fails; the response is sent all the same.
AuditFails(r) ==
    /\ pc[r] = "audit" /\ Fault /\ Goto(r, "done")
    /\ UNCHANGED <<prog, clock, gateVars, store, writerVars, canaryVars,
                   win, held, ctx, resp>>

(* A statement raises something that is not an HTTPException: the session  *)
(* rolls back and the exception passes the middleware, so the 500 has no   *)
(* audit row; or the server is killed and there is no response at all.     *)
RequestFails(r) ==
    /\ pc[r] \notin {"new", "done", "audit"} /\ Fault
    /\ \E code \in {0, 500} :
          resp' = [resp EXCEPT ![r] = [NoResponse EXCEPT !.code = code]]
    /\ held' = [held EXCEPT ![r] = {}] /\ Goto(r, "done")
    /\ UNCHANGED <<prog, clock, gateVars, store, writerVars, canaryVars, win, ctx>>

-----------------------------------------------------------------------------
(* The writers of the tables, external to the API: a transaction appends a *)
(* row (or, for doc.filing, replaces one).  as_of is now(), the time the   *)
(* transaction began, or given by the writer.                              *)
WriterBegins(w) ==
    /\ wpc[w] = "new" /\ w \in DOMAIN prog.writes
    /\ wpc' = [wpc EXCEPT ![w] = "open"] /\ began' = [began EXCEPT ![w] = clock]
    /\ UNCHANGED <<prog, clock, gateVars, store, reqVars, canaryVars, faults>>

\* ON CONFLICT (key, as_of) DO NOTHING; UPDATE is rejected by a trigger.  Only
\* a backfill writes pre_bitemporal_unknown.
Stored(w) ==
    LET u == prog.writes[w]
        v == [table |-> u.table, key |-> u.key, val |-> u.val, kind |-> u.kind,
              asof |-> IF u.asof = None THEN began[w] ELSE u.asof,
              when |-> u.when, at |-> clock, pre |-> FALSE, sort |-> u.sort]
        same == {x \in store : x.table = v.table /\ x.key = v.key}
    IN  IF u.op = "replace" THEN (store \ same) \cup {v}
        ELSE IF \E x \in same : x.asof = v.asof THEN store ELSE store \cup {v}

WriterCommits(w) ==
    /\ wpc[w] = "open" /\ wpc' = [wpc EXCEPT ![w] = "done"]
    /\ store' = Stored(w)
    /\ UNCHANGED <<prog, clock, gateVars, began, reqVars, canaryVars, faults>>

-----------------------------------------------------------------------------
(* The canary reads the value before and after each amendment, then stores *)
(* its verdict.                                                            *)
Reads == 2 * Len(prog.cases)

Expected(n) ==
    LET case == prog.cases[(n \div 2) + 1] IN
    IF n % 2 = 0 THEN [key |-> case.key, asof |-> case.before, val |-> case.first]
    ELSE [key |-> case.key, asof |-> case.after, val |-> case.second]

CanaryReads(c) ==
    LET e == Expected(cpc[c]) IN
    /\ cpc[c] < Reads
    /\ cpc' = [cpc EXCEPT ![c] = @ + 1]
    /\ red' = [red EXCEPT ![c] = @ \/
          {v.val : v \in {x \in At(e.asof) : x.key = e.key}} # {e.val}]
    /\ UNCHANGED <<prog, clock, gateVars, store, reqVars, writerVars, status, faults>>

CanaryPersists(c) ==
    /\ Reads > 0 /\ cpc[c] = Reads
    /\ cpc' = [cpc EXCEPT ![c] = @ + 1]
    /\ status' = IF red[c] THEN "red" ELSE "green"
    /\ UNCHANGED <<prog, clock, gateVars, store, reqVars, writerVars, red, faults>>

(* A read raises: the transaction is aborted, every later statement fails  *)
(* and so does persist_status; the flag keeps its value.                   *)
CanaryFails(c) ==
    /\ cpc[c] <= Reads /\ Reads > 0 /\ Fault
    /\ cpc' = [cpc EXCEPT ![c] = Reads + 1]
    /\ UNCHANGED <<prog, clock, gateVars, store, reqVars, writerVars, red, status>>

RequestStep(r) ==
    \/ Authenticate(r) \/ TakeToken(r) \/ Admit(r) \/ Resolve(r) \/ Read(r) \/ ReadLineage(r)
    \/ SetCacheHeaders(r) \/ HandlePublic(r) \/ Audit(r)

Next ==
    \/ Tick
    \/ \E r \in Requests : RequestStep(r) \/ AuditFails(r) \/ RequestFails(r)
    \/ \E w \in Writers : WriterBegins(w) \/ WriterCommits(w)
    \/ \E c \in Canaries : CanaryReads(c) \/ CanaryPersists(c) \/ CanaryFails(c)

Spec == Init /\ [][Next]_vars

-----------------------------------------------------------------------------
(* What a program is made of: keys whose overrides are caps, requests of   *)
(* the routes, writes (only rows of doc.filing are replaced), and          *)
(* KNOWN_AMENDMENTS, which were taken from the history that is there at    *)
(* the start, of a table whose rows stay.                                  *)
StoreRow == [table : STRING, key : Nat, val : STRING, kind : STRING,
             asof : Nat, when : Nat \cup {None}, at : Nat, pre : BOOLEAN, sort : Nat]

Routes == {"observations", "financials_canonical", "financials_line_items",
           "quality_scores", "entities", "get_entity", "disclosures",
           "get_disclosure", "identifiers_resolve", "filings", "events"}

RequestArgs == [key : Keys \cup {None}, secret : STRING, endpoint : Routes \cup Public,
                asof : Nat \cup {None}, range : (Nat \X Nat) \cup {None},
                only : SUBSET Nat, limit : Nat, pre : BOOLEAN, known : BOOLEAN,
                cursor : Requests \cup {None}]

WriteArgs == [op : {"append", "replace"}, table : STRING, key : Nat, val : STRING,
              kind : STRING, asof : Nat \cup {None}, when : Nat \cup {None},
              sort : Nat]

Amendment == [key : Nat, before : Nat, first : STRING, after : Nat, second : STRING]

\* The value of key at t, in a set of rows.
ValueIn(S, key, t) ==
    {v.val : v \in {x \in Newest({w \in S : w.table = "main" /\ w.asof <= t}) : x.key = key}}

ASSUME ResearchPrograms ==
    \A p \in Programs :
        /\ \A k \in Keys : LET over == p.keys[k].overrides IN
              DOMAIN over \subseteq Kinds /\ \A w \in DOMAIN over : over[w] \in Nat
        /\ DOMAIN p.requests \subseteq Requests
        /\ \A r \in DOMAIN p.requests : p.requests[r] \in RequestArgs
        /\ p.rows \subseteq StoreRow
        /\ \A w \in DOMAIN p.writes : p.writes[w] \in WriteArgs
        /\ \A r \in DOMAIN p.requests : \A w \in DOMAIN p.writes :
              p.requests[r].endpoint \in Routes \ {"filings"} => p.writes[w].op # "replace"
        /\ p.cases \in Seq(Amendment)
        /\ \A n \in DOMAIN p.cases : LET case == p.cases[n] IN
              /\ case.before <= case.after
              /\ ValueIn(p.rows, case.key, case.before) = {case.first}
              /\ ValueIn(p.rows, case.key, case.after) = {case.second}
              /\ \A w \in DOMAIN p.writes : p.writes[w].op # "replace"

Labels == {"new", "windows", "public", "handle", "read",
           "lineage", "audit", "done"}

TypeOK ==
    /\ prog \in Programs /\ clock \in Nat /\ faults \in 0 .. MaxFaults
    /\ tokens \in [Buckets -> Nat]
    /\ pc \in [Requests -> Labels] /\ win \in [Requests -> 1 .. 4]
    /\ held \in [Requests -> SUBSET Buckets]
    /\ status \in {"unknown", "green", "red"}
    /\ \A r \in Requests : ctx[r].key \in Keys \cup {None}

\* Requests that were counted in a bucket by a limiter that has committed.
Counted(b) ==
    {r \in Requests :
        /\ ctx[r].key = b[1] /\ Bucket(r, b[2]) = b
        /\ \/ ctx[r].admitted
           \/ resp[r].code = 429 /\ \E n \in 1 .. win[r] : Windows[n] = b[2]}

\* The buckets that some authenticated request has been, or will be, at.
InUse == {Bucket(q, kind) : q \in {r \in Requests : ctx[r].key # None}, kind \in Kinds}

(* The limiter is exact, however the requests of a key overlap: in every   *)
(* window it admits no more requests than the cap, and the one it refuses  *)
(* finds that the cap has been used up by others.                          *)
RateLimitIsExact ==
    \A b \in InUse :
        Limits(b[1])[b[2]] # 0 =>
        /\ Cardinality({r \in Counted(b) : ctx[r].admitted}) <= Limits(b[1])[b[2]]
        /\ \A r \in Counted(b) :
              (resp[r].code = 429 /\ Windows[win[r]] = b[2])
              => Cardinality(Counted(b) \ {r}) >= Limits(b[1])[b[2]]

(* The audit log tells the requests: an answer has one row, with its       *)
(* status, under the key that was authenticated, also when the limiter     *)
(* refused it; rows are missing only for as many answers as there were     *)
(* failures, and for the answers 500.                                      *)
AuditTellsRequests ==
    /\ \A r \in Requests : log[r] # <<>> =>
          /\ Len(log[r]) = 1 /\ log[r][1].code = resp[r].code
          /\ log[r][1].key =
                IF resp[r].code = 401 \/ Req(r).endpoint \in Public
                THEN None ELSE Req(r).key
    /\ Cardinality({r \in Requests : /\ pc[r] = "done" /\ log[r] = <<>>
                                     /\ resp[r].code \notin {0, 500}}) <= faults

\* Endpoints that read a history.
Historical(r) == Req(r).endpoint \notin {"filings", "identifiers_resolve"}

\* include_pre_bitemporal asks for rows whose as_of means nothing.
AsksForBackfill(q) == q.pre /\ q.endpoint \in {"disclosures", "get_disclosure"}

(* No look-ahead: an answer about a point in time, or about an interval,   *)
(* holds nothing that was recorded with a later as_of, neither rows nor    *)
(* the lineage of their entities; only rows of unknown provenance may be   *)
(* later, and only where the request asked for them.                       *)
NoLookAhead ==
    \A r \in Requests : \A x \in resp[r].rows : Historical(r) =>
        LET range == Req(r).range
            upTo == IF range # None /\ Req(r).endpoint \notin Single
                    THEN x.row.asof ELSE resp[r].asof
        IN  /\ x.row.asof <= upTo \/ (x.row.pre /\ AsksForBackfill(Req(r)))
            /\ (range # None /\ Req(r).endpoint \notin Single) =>
                  range[1] <= x.row.asof /\ x.row.asof < range[2]
            /\ x.lineage # None => \A l \in x.lineage : l.asof <= upTo

\* Rows with the lineage that is still to be read.
Filled(r, S) ==
    {[x EXCEPT !.lineage = IF @ = None THEN Lineage(r, x.row) ELSE @] : x \in S}

\* The answers the request may get now: one, or those of the pages that a full
\* page of rows that tie may be.
Replays(r) == {Filled(r, P) : P \in Pages(Req(r), Rows(Req(r), resp[r].asof))}

\* A row that was committed after r had read, too long after its as_of: the
\* threshold also has to cover the time r took from its read to its headers.
CommittedLate(v, r) ==
    /\ v.at >= ctx[r].readAt
    /\ v.at + (ctx[r].headAt - ctx[r].readAt) >= v.asof + Fresh

(* What is declared immutable is: a cached answer is for ever one that a   *)
(* replay may give, and so the only one, unless a full page cuts through   *)
(* rows that tie in its order; except that a writer may have committed a   *)
(* row more than the threshold after its as_of (a long transaction, or an  *)
(* as_of in the past).                                                     *)
CachedStaysTrue ==
    \A r \in Requests :
        (pc[r] = "done" /\ resp[r].immutable /\ Historical(r))
        => \/ resp[r].rows \in Replays(r)
           \/ \E v \in store : CommittedLate(v, r)

(* The canary turns red only if history was rewritten: a row was added     *)
(* whose as_of is not after the amendments it replays.                     *)
RedIsDue ==
    status = "red" =>
        \E v \in store \ prog.rows : \E n \in DOMAIN prog.cases :
            v.asof <= prog.cases[n].after

=============================================================================
