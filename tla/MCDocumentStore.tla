--------------------------- MODULE MCDocumentStore --------------------------
(* Three calls over two references and two contents, one of which comes    *)
(* with XBRL and an attachment, and one call that is refused.              *)
EXTENDS DocumentStore

CONSTANTS f1, f2, f3

AllPuts == {f1, f2, f3}

Of(ref, sha, parts, valid) ==
    [ref |-> ref, sha |-> sha, parts |-> {"primary"} \cup parts, valid |-> valid]

AllRequests ==
    {[p \in AllPuts |->
        CASE p = f1 -> Of("A", "x", {"attachment"}, TRUE)
          [] p = f2 -> second
          [] p = f3 -> third] :
     second \in {Of("A", "y", {"xbrl"}, TRUE), Of("B", "x", {}, TRUE)},
     third \in {Of("A", "y", {}, TRUE), Of("B", "x", {}, TRUE),
                Of("A", "z", {}, TRUE), Of("A", "x", {}, FALSE)}}
=============================================================================
