---------------------------- MODULE MCResearchApi ----------------------------
(* Instances of ResearchApi: three requests that compete for the windows   *)
(* of one key; or two requests, two writers and a canary on the table of   *)
(* one endpoint.                                                           *)
EXTENDS ResearchApi

CONSTANTS r1, r2, r3, w1, w2, c1, k1, k2

Tiers == [public |-> [minute |-> 1, hour |-> 2, day |-> 0],
          partner |-> [minute |-> 2, hour |-> 3, day |-> 3],
          internal |-> [minute |-> 0, hour |-> 0, day |-> 0]]

Lengths == [minute |-> 1, hour |-> 2, day |-> 6]

NoOverride == [w \in {} |-> 0]

ApiKey(tier, overrides) ==
    [tier |-> tier, overrides |-> overrides, secret |-> "s", revoked |-> FALSE,
     expires |-> 9, pii |-> FALSE]

Get(k, endpoint) ==
    [key |-> k, secret |-> "s", endpoint |-> endpoint, asof |-> None,
     range |-> None, only |-> {}, limit |-> 2, pre |-> FALSE, known |-> TRUE,
     cursor |-> None]

Row(key, asof, val) ==
    [table |-> "main", key |-> key, asof |-> asof, val |-> val, kind |-> "live",
     when |-> None, at |-> asof, pre |-> FALSE, sort |-> 1]

Write(asof, val) ==
    [op |-> "append", table |-> "main", key |-> 1, val |-> val, kind |-> "live",
     asof |-> asof, when |-> None, sort |-> 1]

On == [f \in {"BITEMPORAL_API_ENABLED"} |-> TRUE]

Off == [f \in {} |-> TRUE]

TheKeys(a, b) == [k \in {k1, k2} |-> IF k = k1 THEN a ELSE b]

Quiet == [x \in {} |-> <<>>]

\* The limiter: three requests of a key, or two and a stranger; what they
\* ask for is disabled, so that they end behind the limiter.
RatePrograms ==
    {[keys |-> TheKeys(a, [ApiKey("internal", NoOverride) EXCEPT !.revoked = TRUE]),
      flags |-> Off, rows |-> {}, writes |-> Quiet, cases |-> <<>>, requests |-> rs] :
     a \in {ApiKey("public", NoOverride), [ApiKey("partner", [hour |-> 1]) EXCEPT !.expires = 4]},
     rs \in {[r \in {r1, r2, r3} |-> Get(k1, "quality_scores")],
             [r \in {r1, r2} |-> IF r = r1 THEN Get(k1, "events") ELSE Get(k2, "events")],
             [r \in {r1} |-> Get(None, "healthz")]}}

\* More keys than a page holds, two or three of which tie in its order.
History == {Row(1, 1, "a"), Row(1, 2, "b"), Row(2, 2, "pii"),
            [Row(3, 2, "c") EXCEPT !.sort = 2]}

Table(endpoint) ==
    CASE endpoint \in {"entities", "get_entity"} ->
           History \cup {[Row(1, 1, "split") EXCEPT !.table = "lineage", !.when = 1]}
      [] endpoint = "identifiers_resolve" ->
           {[Row(1, 1, "a") EXCEPT !.when = 3], Row(2, 2, "b")}
      [] endpoint = "filings" -> {Row(1, 1, "a"), Row(2, 2, "b")}
      [] endpoint \in {"disclosures", "get_disclosure"} ->
           History \cup {[Row(1, 4, "old") EXCEPT !.pre = TRUE]}
      [] OTHER -> History

Writes(endpoint) ==
    CASE endpoint \in {"entities", "get_entity"} ->
           {[Write(None, "merge") EXCEPT !.table = "lineage", !.when = 3],
            [Write(None, "gone") EXCEPT !.kind = "deleted"]}
      [] endpoint = "disclosures" -> {[Write(None, "gone") EXCEPT !.kind = "deleted"]}
      [] endpoint = "events" -> {[Write(None, "pii") EXCEPT !.when = 5]}
      [] endpoint = "filings" -> {[Write(None, "c") EXCEPT !.op = "replace"]}
      [] endpoint = "financials_canonical" -> {Write(None, "c"), Write(1, "late")}
      [] endpoint = "financials_line_items" -> {Write(1, "late")}
      [] OTHER -> {Write(None, "c")}

Queries(endpoint) ==
    LET q == Get(k1, endpoint) IN
    IF endpoint \in {"get_entity", "get_disclosure", "identifiers_resolve"}
    THEN {[q EXCEPT !.only = {1}, !.asof = 3], [q EXCEPT !.only = {4}]} \cup
         (IF endpoint = "get_disclosure"
          THEN {[q EXCEPT !.only = {1}, !.asof = 3, !.pre = TRUE]} ELSE {})
    ELSE {[q EXCEPT !.asof = 3], [q EXCEPT !.range = <<1, 4>>, !.limit = 3]} \cup
         (IF endpoint = "disclosures" THEN {[q EXCEPT !.asof = 3, !.pre = TRUE]}
          ELSE IF endpoint = "observations" THEN {[q EXCEPT !.known = FALSE]}
          ELSE {})

Endpoints == {"observations", "financials_canonical", "financials_line_items",
              "quality_scores", "entities", "get_entity", "disclosures",
              "get_disclosure", "identifiers_resolve", "filings", "events"}

\* Reads of one endpoint; the second request follows the cursor of the first.
ReadPrograms ==
    UNION {
    {[keys |-> TheKeys(ApiKey("internal", NoOverride),
                       [ApiKey("internal", NoOverride) EXCEPT !.pii = TRUE]),
      flags |-> On, rows |-> Table(e),
      writes |-> [w \in {w1} |-> u],
      cases |-> IF e = "financials_canonical"
                THEN <<[key |-> 1, before |-> 1, first |-> "a", after |-> 2, second |-> "b"]>>
                ELSE <<>>,
      requests |-> [r \in IF e = "observations" /\ q.range = None THEN {r1, r2} ELSE {r1} |->
          IF e = "financials_canonical" /\ q.range # None THEN Get(None, "verify_moat_2")
          ELSE IF r = r1 THEN q
          ELSE [q EXCEPT !.asof = second, !.cursor = r1]]] :
     u \in Writes(e), q \in Queries(e),
     second \in IF e = "observations" THEN {2, 3} ELSE {3}} : e \in Endpoints}

AllPrograms == RatePrograms \cup ReadPrograms
=============================================================================
