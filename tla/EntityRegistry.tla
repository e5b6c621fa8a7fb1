--------------------------- MODULE EntityRegistry ---------------------------
(***************************************************************************)
(* The entity registry (registry/client.py, cli/registry.py) and the       *)
(* history its trigger keeps (migrations 0002, 0044, 0046).                *)
(*                                                                         *)
(* A job is a transaction with one or more calls of EntityRegistryClient.  *)
(* It creates at most one entity, which is named after it.  An identifier  *)
(* is a pair (namespace, value), valid from the default date on, of which  *)
(* the exclusion constraint allows one row.  Relationships, sectors and    *)
(* sector assignments are upserted the same way: one row of each.          *)
(* Statements read committed rows and those of their own transaction; what *)
(* a transaction has written is locked until it ends.                      *)
(***************************************************************************)
EXTENDS Naturals, Sequences, FiniteSets

CONSTANTS
    Jobs,       \* transactions, and the entities they may create
    NoEntity,   \* None
    Idents,     \* identifiers
    Tables,     \* entity_relationship, sector, entity_sector: one row each
    Programs,   \* what the jobs may do: functions of Jobs
    MaxFailures \* bound: failed statements, kills

\* The keyword arguments of update_entity: the source is not among them.
Arguments == [name : STRING] \cup [status : STRING] \cup [name : STRING, status : STRING]

CallRecords ==
    [op : {"create"}, order : Seq(Idents), idents : SUBSET Idents, name : STRING]
    \cup [op : {"add"}, target : Jobs, order : Seq(Idents)]
    \cup [op : {"update"}, target : Jobs, set : Arguments]
    \cup [op : {"put"}, table : Tables, value : STRING \ {""}]
    \cup [op : {"expire"}]

ASSUME RegistryConstants ==
    /\ NoEntity \notin Jobs /\ MaxFailures \in Nat /\ Jobs \cap Tables = {}
    /\ \A q \in Programs : \A j \in Jobs : LET calls == q[j].calls IN
          /\ q[j].source \in STRING \ {""} /\ calls \in Seq(CallRecords) \ {<<>>}
          /\ \A n \in DOMAIN calls : calls[n].op = "create" =>
                /\ calls[n].idents = {calls[n].order[m] : m \in DOMAIN calls[n].order}
                /\ \A m \in DOMAIN calls : calls[m].op = "create" => m = n

VARIABLES
    prog,      \* job -> its source and its calls
    entity,    \* ref.entity, committed: NoRow where there is none
    owner,     \* ref.identifier: [of, source], of NoEntity without a row
    table,     \* the value of each upserted row, "" without a row
    versions,  \* ref.entity_version
    trail,     \* committed audit events of changes, in commit order
    creates,   \* committed create_entity calls and the entity they returned
    at, ip,    \* job -> the statement, the call it is at
    adding,    \* job -> identifiers still to add
    to,        \* job -> the entity it adds them to
    seen,      \* job -> the row as a call read it before writing
    tx,        \* job -> what it has written and not committed
    clock,     \* number of transactions begun
    began,     \* job -> now() of its transaction
    failures

dbVars == <<entity, owner, table, versions, trail, creates>>
jobVars == <<ip, adding, to, seen, tx>>
registryVars == <<prog, dbVars, at, jobVars, clock, began, failures>>

-----------------------------------------------------------------------------
NoRow == [name |-> "", status |-> "", source |-> ""]

NoOwner == [of |-> NoEntity, source |-> ""]

Nothing == [entity |-> [e \in Jobs |-> NoRow],
            owner |-> [i \in Idents |-> NoOwner],
            table |-> [t \in Tables |-> ""],
            versions |-> {}, trail |-> <<>>, creates |-> {}]

Call(j) == prog[j].calls[ip[j]]

\* What a statement of j sees.
Entity(j, e) == IF tx[j].entity[e] # NoRow THEN tx[j].entity[e] ELSE entity[e]

Owner(j, i) == IF tx[j].owner[i] # NoOwner THEN tx[j].owner[i] ELSE owner[i]

Table(j, t) == IF tx[j].table[t] # "" THEN tx[j].table[t] ELSE table[t]

Goto(j, l) == at' = [at EXCEPT ![j] = l]

\* The call is done: the next one, or back to the caller.
NextCall(j) ==
    /\ ip' = [ip EXCEPT ![j] = @ + 1]
    /\ Goto(j, IF ip[j] = Len(prog[j].calls) THEN "returned" ELSE "call")

EndTransaction(j) ==
    /\ Goto(j, "done") /\ tx' = [tx EXCEPT ![j] = Nothing]
    /\ adding' = [adding EXCEPT ![j] = <<>>] /\ to' = [to EXCEPT ![j] = NoEntity]
    /\ seen' = [seen EXCEPT ![j] = NoRow] /\ ip' = ip

\* The call raises and session_scope rolls back.
Raise(j) == EndTransaction(j) /\ UNCHANGED <<prog, dbVars, clock, began, failures>>

Rest == UNCHANGED <<prog, dbVars, clock, began, failures>>

RegistryInit ==
    /\ prog \in Programs
    /\ entity = [e \in Jobs |-> NoRow] /\ owner = [i \in Idents |-> NoOwner]
    /\ table = [t \in Tables |-> ""] /\ versions = {} /\ trail = <<>>
    /\ creates = {}
    /\ at = [j \in Jobs |-> "new"] /\ ip = [j \in Jobs |-> 1]
    /\ adding = [j \in Jobs |-> <<>>] /\ to = [j \in Jobs |-> NoEntity]
    /\ seen = [j \in Jobs |-> NoRow] /\ tx = [j \in Jobs |-> Nothing]
    /\ clock = 0 /\ began = [j \in Jobs |-> 0] /\ failures = 0

(* now() of a transaction is the time it began.                            *)
Begin(j) ==
    /\ at[j] = "new"
    /\ clock' = clock + 1 /\ began' = [began EXCEPT ![j] = clock']
    /\ Goto(j, "call")
    /\ UNCHANGED <<prog, dbVars, jobVars, failures>>

-----------------------------------------------------------------------------
\* Faulty variant: the trigger is created for INSERT only.
CaptureInsertsOnly(j, e, row) ==
    IF e # j \/ \E v \in tx[j].versions : v.entity = e THEN tx[j].versions
    ELSE tx[j].versions \cup {[entity |-> e, asof |-> began[j], row |-> row]}

(* fn_capture_entity_version: AFTER INSERT OR UPDATE, as_of = now(), ON    *)
(* CONFLICT (entity_id, as_of) DO NOTHING.                                 *)
Capture(j, e, row) ==
    IF \E v \in tx[j].versions : v.entity = e THEN tx[j].versions
    ELSE tx[j].versions \cup {[entity |-> e, asof |-> began[j], row |-> row]}

Event(j, of, set, after) == [by |-> j, of |-> of, set |-> set, after |-> after]

(* create_entity: the entities that the identifiers of the call name.      *)
Matches(j) == {Owner(j, i).of : i \in Call(j).idents} \ {NoEntity}

\* Faulty variant: only the source of the identifiers is looked at.
TrustedByIdents(j, e) ==
    \A i \in Call(j).idents :
        Owner(j, i).of = e => Owner(j, i).source = prog[j].source

(* The entity and its matching identifiers come from this source.          *)
Trusted(j, e) ==
    /\ Entity(j, e).source = prog[j].source
    /\ \A i \in Call(j).idents :
          Owner(j, i).of = e => Owner(j, i).source = prog[j].source

(* No match, or the one entity to which the identifiers that are not yet   *)
(* there are added, in the order of the dict.                              *)
CreateLookUp(j) ==
    /\ at[j] = "call" /\ Call(j).op = "create"
    /\ \/ /\ Matches(j) = {}
          /\ Goto(j, "insert") /\ UNCHANGED jobVars /\ Rest
       \/ \E e \in Jobs :
          /\ Matches(j) = {e} /\ Trusted(j, e)
          /\ to' = [to EXCEPT ![j] = e] /\ adding' = [adding EXCEPT ![j] = Call(j).order]
          /\ Goto(j, "add") /\ UNCHANGED <<ip, seen, tx>> /\ Rest

\* EntityMergeRequired.
CreateMergeRequired(j) ==
    /\ at[j] = "call" /\ Call(j).op = "create" /\ Matches(j) # {}
    /\ \A e \in Jobs : Matches(j) # {e} \/ ~Trusted(j, e)
    /\ Raise(j)

InsertEntity(j) ==
    LET row == [name |-> Call(j).name, status |-> "active",
                source |-> prog[j].source] IN
    /\ at[j] = "insert"
    /\ tx' = [tx EXCEPT ![j].entity[j] = row, ![j].versions = Capture(j, j, row),
                        ![j].trail = Append(@, Event(j, j, row, row))]
    /\ to' = [to EXCEPT ![j] = j]
    /\ adding' = [adding EXCEPT ![j] = Call(j).order]
    /\ Goto(j, "add") /\ UNCHANGED <<ip, seen>> /\ Rest

(* add_identifier, called or as a part of create_entity: SELECT, where a   *)
(* row of the same entity is passed over, then INSERT, which waits for     *)
(* another transaction's row.                                              *)
AddCall(j) ==
    /\ at[j] = "call" /\ Call(j).op = "add"
    /\ IF Entity(j, Call(j).target) = NoRow THEN Raise(j)
       ELSE /\ to' = [to EXCEPT ![j] = Call(j).target]
            /\ adding' = [adding EXCEPT ![j] = Call(j).order]
            /\ Goto(j, "add") /\ UNCHANGED <<ip, seen, tx>> /\ Rest

AddIdentifier(j) ==
    LET i == Head(adding[j]) IN
    /\ at[j] = "add" /\ adding[j] # <<>>
    /\ \/ /\ Owner(j, i).of = NoEntity
          /\ Goto(j, "addrow") /\ UNCHANGED jobVars /\ Rest
       \/ /\ Owner(j, i).of = to[j]
          /\ adding' = [adding EXCEPT ![j] = Tail(@)]
          /\ UNCHANGED <<at, ip, to, seen, tx>> /\ Rest
       \/ /\ Owner(j, i).of \notin {NoEntity, to[j]}
          /\ Raise(j)

InsertIdentifier(j) ==
    LET i == Head(adding[j]) IN
    /\ at[j] = "addrow"
    /\ \A k \in Jobs \ {j} : tx[k].owner[i] = NoOwner
    /\ IF owner[i] # NoOwner THEN Raise(j)
       ELSE /\ tx' = [tx EXCEPT ![j].owner[i] =
                         [of |-> to[j], source |-> prog[j].source]]
            /\ adding' = [adding EXCEPT ![j] = Tail(@)]
            /\ Goto(j, "add") /\ UNCHANGED <<ip, to, seen>> /\ Rest

(* Both calls end with their audit event.                                  *)
AddDone(j) ==
    /\ at[j] = "add" /\ adding[j] = <<>>
    /\ tx' = [tx EXCEPT ![j].creates = @ \cup
                 (IF Call(j).op = "create"
                  THEN {[by |-> j, of |-> to[j], idents |-> Call(j).idents]}
                  ELSE {})]
    /\ to' = [to EXCEPT ![j] = NoEntity]
    /\ NextCall(j) /\ UNCHANGED <<adding, seen>> /\ Rest

-----------------------------------------------------------------------------
(* update_entity: the row is read, then updated, then read again.          *)
UpdateReads(j) ==
    /\ at[j] = "call" /\ Call(j).op = "update"
    /\ IF Entity(j, Call(j).target) = NoRow THEN Raise(j)
       ELSE /\ seen' = [seen EXCEPT ![j] = Entity(j, Call(j).target)]
            /\ Goto(j, "update") /\ UNCHANGED <<ip, adding, to, tx>> /\ Rest

\* Faulty variant: every column is written, from the row that was read.
NewValuesOfSnapshot(j) ==
    [f \in DOMAIN NoRow |->
        IF f \in DOMAIN Call(j).set THEN Call(j).set[f] ELSE seen[j][f]]

(* SET only the fields that were given.                                    *)
NewValues(j) ==
    [f \in DOMAIN NoRow |->
        IF f \in DOMAIN Call(j).set THEN Call(j).set[f]
        ELSE Entity(j, Call(j).target)[f]]

UpdateEntity(j) ==
    LET e == Call(j).target IN
    /\ at[j] = "update"
    /\ \A k \in Jobs \ {j} : tx[k].entity[e] = NoRow
    /\ tx' = [tx EXCEPT
          ![j].entity[e] = NewValues(j),
          ![j].versions = Capture(j, e, NewValues(j)),
          ![j].trail = Append(@, Event(j, e, Call(j).set, NewValues(j)))]
    /\ seen' = [seen EXCEPT ![j] = NoRow]
    /\ NextCall(j) /\ UNCHANGED <<adding, to>> /\ Rest

(* expire_identifier: no active row, or an UPDATE that the append-only     *)
(* trigger of migration 0044 rejects.                                      *)
ExpireIdentifier(j) ==
    /\ at[j] = "call" /\ Call(j).op = "expire"
    /\ Raise(j)

(* link, upsert_sector, assign_sector: the same values are an idempotent   *)
(* hit, anything else is upserted.                                         *)
PutReads(j) ==
    /\ at[j] = "call" /\ Call(j).op = "put"
    /\ IF Table(j, Call(j).table) = Call(j).value
       THEN NextCall(j) /\ UNCHANGED <<adding, to, seen, tx>>
       ELSE Goto(j, "put") /\ UNCHANGED jobVars
    /\ Rest

PutRow(j) ==
    LET t == Call(j).table IN
    /\ at[j] = "put"
    /\ \A k \in Jobs \ {j} : tx[k].table[t] = ""
    /\ tx' = [tx EXCEPT
          ![j].table[t] = Call(j).value,
          ![j].trail = Append(@, Event(j, t, [value |-> Call(j).value],
                                       [value |-> Call(j).value]))]
    /\ NextCall(j) /\ UNCHANGED <<adding, to, seen>> /\ Rest

\* j waits for a row that k has written and not committed.
WaitsFor(j, k) ==
    /\ j # k
    /\ \/ at[j] = "addrow" /\ tx[k].owner[Head(adding[j])] # NoOwner
       \/ at[j] = "update" /\ tx[k].entity[Call(j).target] # NoRow
       \/ at[j] = "put" /\ tx[k].table[Call(j).table] # ""

\* Postgres ends one of the transactions that wait in a circle; a caller of
\* add_identifier is told of an IdentifierConflict.
DeadlockEnds(j) ==
    /\ \E S \in SUBSET Jobs :
          j \in S /\ \A k \in S : \E l \in S : WaitsFor(k, l) /\ \E m \in S : WaitsFor(m, k)
    /\ Raise(j)

-----------------------------------------------------------------------------
CommitJob(j) ==
    /\ at[j] = "returned"
    /\ entity' = [e \in Jobs |-> Entity(j, e)]
    /\ owner' = [i \in Idents |-> Owner(j, i)]
    /\ table' = [t \in Tables |-> Table(j, t)]
    /\ versions' = versions \cup tx[j].versions
    /\ trail' = trail \o tx[j].trail
    /\ creates' = creates \cup tx[j].creates
    /\ EndTransaction(j)
    /\ UNCHANGED <<prog, clock, began, failures>>

\* A statement or the commit fails, or the process dies.
Fails(j) ==
    /\ at[j] \notin {"new", "done"}
    /\ failures < MaxFailures /\ failures' = failures + 1
    /\ EndTransaction(j)
    /\ UNCHANGED <<prog, dbVars, clock, began>>

JobStep(j) ==
    \/ Begin(j) \/ CreateLookUp(j) \/ CreateMergeRequired(j) \/ InsertEntity(j)
    \/ AddCall(j) \/ AddIdentifier(j) \/ InsertIdentifier(j) \/ AddDone(j)
    \/ DeadlockEnds(j) \/ UpdateReads(j) \/ UpdateEntity(j)
    \/ ExpireIdentifier(j) \/ PutReads(j) \/ PutRow(j) \/ CommitJob(j)

RegistryNext == \E j \in Jobs : JobStep(j) \/ Fails(j)

RegistrySpec == RegistryInit /\ [][RegistryNext]_registryVars

-----------------------------------------------------------------------------
(* ref.entity_at(t): the newest version not after t.                       *)
EntityAt(e, t) ==
    {v \in versions : v.entity = e /\ v.asof <= t /\
        \A w \in versions : w.entity = e /\ w.asof <= t => w.asof <= v.asof}

Current(of) == IF of \in Jobs THEN entity[of] ELSE [value |-> table[of]]

Changes(of) == {n \in DOMAIN trail : trail[n].of = of}

Labels == {"new", "call", "insert", "add", "addrow", "update", "put",
           "returned", "done"}

\* The text of a column: what a caller gave, or what the code puts there.
Text == STRING \cup {"", "active"}

Row == [name : Text, status : Text, source : Text]

RegistryTypes ==
    /\ prog \in Programs /\ entity \in [Jobs -> Row]
    /\ owner \in [Idents -> [of : Jobs \cup {NoEntity}, source : Text]]
    /\ at \in [Jobs -> Labels] /\ to \in [Jobs -> Jobs \cup {NoEntity}]
    /\ seen \in [Jobs -> Row] /\ began \in [Jobs -> Nat] /\ clock \in Nat
    /\ \A j \in Jobs : \A e \in Jobs : tx[j].entity[e] \in Row

(* A create_entity that was committed stands: every identifier it was      *)
(* given names the entity it returned, that entity is there, and it        *)
(* belongs to the source of the call, whoever attached identifiers to it   *)
(* meanwhile.                                                              *)
CreatesStand ==
    \A c \in creates :
        /\ entity[c.of] # NoRow /\ entity[c.of].source = prog[c.by].source
        /\ \A i \in c.idents : owner[i].of = c.of

(* The audit trail tells the rows: of every field, the last committed      *)
(* event that set it has set what the row holds, so no update undoes       *)
(* another one's field, and the last event of a row ends with that row.    *)
TrailTellsRows ==
    \A n \in DOMAIN trail :
        /\ \A f \in DOMAIN trail[n].set :
              (\A m \in Changes(trail[n].of) :
                  m > n => f \notin DOMAIN trail[m].set)
              => Current(trail[n].of)[f] = trail[n].set[f]
        /\ (\A m \in Changes(trail[n].of) : m <= n)
              => trail[n].after = Current(trail[n].of)

(* The history tells the present: the newest version of an entity is its   *)
(* row, if its last change came from the transaction that began last of    *)
(* those that changed it and was that transaction's only one.              *)
HistoryTellsEntity ==
    \A e \in Jobs : \A n \in Changes(e) :
        (\A m \in Changes(e) \ {n} :
            m < n /\ began[trail[m].by] < began[trail[n].by])
        => {v.row : v \in EntityAt(e, clock)} = {entity[e]}

=============================================================================
