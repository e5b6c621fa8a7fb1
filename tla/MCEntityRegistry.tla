-------------------------- MODULE MCEntityRegistry --------------------------
(* Three transactions: one creates an entity with two identifiers, one     *)
(* creates with the same in the other order, from its own or another       *)
(* source, or attaches an identifier of its own first; one updates.        *)
EXTENDS EntityRegistry

CONSTANTS j1, j2, j3

AllJobs == {j1, j2, j3}

Create(order, name) ==
    [op |-> "create", order |-> order, name |-> name,
     idents |-> {order[n] : n \in DOMAIN order}]

Update(target, set) == [op |-> "update", target |-> target, set |-> set]

Add(target, ident) == [op |-> "add", target |-> target, order |-> <<ident>>]

Put(t, v) == [op |-> "put", table |-> t, value |-> v]

Job(source, calls) == [source |-> source, calls |-> calls]

AllPrograms ==
    {[j \in AllJobs |->
        CASE j = j1 -> Job("kap", first)
          [] j = j2 -> second
          [] j = j3 -> Job("gleif", third)] :
     first \in {<<Create(<<"isin", "lei">>, "n1")>>,
                <<Create(<<"isin">>, "n1"), Update(j1, [status |-> "merged"])>>},
     second \in {Job("kap", <<Create(<<"lei", "isin">>, "n2")>>),
                 Job("kap", <<Update(j1, [name |-> "n3"]), Put("sector", "a")>>),
                 Job("gleif", <<Add(j1, "vkn"), Create(<<"vkn", "lei">>, "n2")>>)},
     third \in {<<Put("sector", "b"), Update(j1, [status |-> "dead"])>>,
                <<Create(<<"vkn">>, "n4"), Put("link", "c")>>,
                <<[op |-> "expire"]>>}}
=============================================================================
