--------------------------- MODULE MCObservations ---------------------------
(* Four commands on one series, two or three of them upserts: definitions  *)
(* that differ in a fixed field, in another field, in fields only updates  *)
(* tell or no event tells, or in pii_class, batches that overlap in        *)
(* opposite order, agree, contradict or restate.                           *)
EXTENDS Observations

CONSTANTS j1, j2, j3, j4

AllTexts == {"", "TRY", "USD", "a", "b", "c", "p", "q", "s"}

AllJobs == {j1, j2, j3, j4}

Def(fixed, other, pii) ==
    [fixed |-> fixed, other |-> other, extra |-> "", entity |-> "",
     pii |-> pii, clean |-> TRUE]

Upsert(def, who, valid) ==
    [kind |-> "upsert", def |-> def, subjects |-> who, batch |-> <<>>, valid |-> valid]

Write(batch) ==
    [kind |-> "write", def |-> NoSeries, subjects |-> {}, batch |-> batch, valid |-> TRUE]

Entry(ts, asof, payload) == [key |-> <<ts, asof>>, payload |-> payload]

AllWorks ==
    {[j \in AllJobs |->
        CASE j = j1 -> Upsert(Def("TRY", "a", "none"), {}, TRUE)
          [] j = j2 -> second
          [] j = j3 -> Write(<<Entry(1, 1, "p"), Entry(2, 1, "p")>>)
          [] j = j4 -> fourth] :
     second \in {Upsert(Def("USD", "a", "none"), {}, TRUE),
                 Upsert(Def("TRY", "b", "identifying"), {"s"}, TRUE),
                 Upsert(Def("TRY", "b", "identifying"), {}, TRUE),
                 Upsert([Def("TRY", "b", "identifying") EXCEPT !.clean = FALSE],
                        {"s"}, TRUE)},
     fourth \in {Upsert([Def("TRY", "a", "none") EXCEPT !.extra = "c", !.entity = "s"],
                        {}, TRUE)} \cup
               {Write(batch) : batch \in
                {<<Entry(2, 1, "p"), Entry(1, 1, "p")>>,
                 <<Entry(1, 2, "q"), Entry(2, 1, "q")>>,
                 <<Entry(1, 2, "p"), Entry(1, 2, "q")>>,
                 <<Entry(1, 2, "q"), Entry(1, 2, "q")>>}}}
=============================================================================
