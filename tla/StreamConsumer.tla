--------------------------- MODULE StreamConsumer ---------------------------
(***************************************************************************)
(* The consumers of one group on one Redis stream (streams/consumer.py):   *)
(* delivery from the group and from its pending entries list (PEL), the    *)
(* claim / processed dedup keys, the redaction check under the per-event   *)
(* advisory lock, the caller's ack, and the hand-over to dead-letter       *)
(* routing, which DeadLetter models in detail and which is one step here.  *)
(*                                                                         *)
(* Messages are numbered in stream order.  Two messages with the same      *)
(* event are what a drainer that retried an XADD leaves behind.  Each      *)
(* Redis call and each database transaction is a step.  How long an entry  *)
(* has been idle and how old a claim is are not counted: both may run out  *)
(* at any time, also under the hands of a slow caller.                     *)
(***************************************************************************)
EXTENDS Naturals, FiniteSets

CONSTANTS
    Events,        \* event ids
    NMsgs,         \* number of entries of the stream
    EventOf,       \* message -> its event_id
    Bad,           \* messages that fail parsing or the schema gate
    Halting,       \* mismatches under deadletter_on_schema_mismatch=False
    Poison,        \* events on which the caller's body always raises
    Redactable,    \* events a redaction is requested for
    Consumers,     \* consumer names of the group
    Redactor,      \* the holder of an event lock that is not a consumer
    None,          \* nobody
    Count,         \* batch size of XAUTOCLAIM and XREADGROUP
    MaxAttempts,   \* max_attempts_before_deadletter
    FaultKinds,    \* which faults may happen
    MaxFaults      \* bound: how many of them

Msgs == 1..NMsgs

AllFaults == {"span", "route", "lookup", "lock", "lua", "raise", "skip",
              "crash", "operator", "expire", "trim", "poll"}

ASSUME ConsumerConstants ==
    /\ NMsgs \in Nat /\ EventOf \in [Msgs -> Events]
    /\ Bad \subseteq Msgs /\ Halting \subseteq Msgs \ Bad /\ Poison \subseteq Events
    /\ Redactable \subseteq Events
    /\ IsFiniteSet(Consumers) /\ Consumers # {}
    /\ Redactor \notin Consumers /\ None \notin Consumers /\ None # Redactor
    /\ Count \in Nat \ {0} /\ MaxAttempts \in Nat
    /\ FaultKinds \subseteq AllFaults /\ MaxFaults \in Nat

VARIABLES
    trimmed,    \* Redis: entries 1..trimmed were evicted by MAXLEN
    last,       \* Redis: the group's last-delivered id
    pending,    \* Redis: the PEL of the group
    idle,       \* Redis: its entries not delivered for pel_idle_claim_ms
    claim,      \* Redis: event -> owner in the claim key, or None
    processed,  \* Redis: the processed SET
    failures,   \* Redis: message -> its failure counter
    cache,      \* Redis: events with a cached redaction entry
    registry,   \* Postgres: committed rows of redaction_registry
    lock,       \* Postgres: event -> holder of the advisory lock, or None
    audits,     \* Postgres: event -> number of consume audits
    dead,       \* messages whose dead-letter routing completed
    pc,         \* consumer -> step
    batch,      \* consumer -> messages of this XAUTOCLAIM / XREADGROUP answer
    after,      \* consumer -> what follows the batch in the loop of consume
    cursor,     \* consumer -> autoclaim_cursor, 0 for "0-0"
    msg,        \* consumer -> the message in _process_message, 0 for none
    red,        \* consumer -> it has a redacted event to yield
    repeats,    \* history: event -> yields while it was in processed, since
                \* it last joined that set
    faults

pel       == <<pending, idle>>
done      == <<processed, repeats>>
redisVars == <<trimmed, last, pel, claim, done, failures, cache>>
dbVars    == <<registry, lock, audits, dead>>
locals    == <<batch, after, cursor, msg, red>>
vars      == <<redisVars, dbVars, pc, locals, faults>>

-----------------------------------------------------------------------------
Ev(c) == EventOf[msg[c]]

Fault(kind) == /\ kind \in FaultKinds
               /\ faults < MaxFaults
               /\ faults' = faults + 1

Goto(c, l) == pc' = [pc EXCEPT ![c] = l]

(* lock_session ends: the transaction-scoped advisory lock is released.    *)
Unlocked(c) == [e \in Events |-> IF lock[e] = c THEN None ELSE lock[e]]

(* _process_message returns: the for loop takes the next entry.            *)
Return(c) == /\ Goto(c, "next")
             /\ msg' = [msg EXCEPT ![c] = 0] /\ red' = [red EXCEPT ![c] = FALSE]
             /\ UNCHANGED <<batch, after, cursor>>

(* XACK, alone or as the last call of the ack script.                      *)
XAck(m) == pending' = pending \ {m} /\ idle' = idle \ {m}

(* An exception leaves consume(), or its process dies: entries not handled *)
(* stay in the PEL, and consume() is called again under the same name, its *)
(* cursor at "0-0" (or never).                                             *)
Leave(c) == /\ Goto(c, "autoclaim")
            /\ batch' = [batch EXCEPT ![c] = {}]
            /\ after' = [after EXCEPT ![c] = "xread"]
            /\ cursor' = [cursor EXCEPT ![c] = 0]
            /\ msg' = [msg EXCEPT ![c] = 0] /\ red' = [red EXCEPT ![c] = FALSE]
            /\ lock' = Unlocked(c)

Init ==
    /\ trimmed = 0 /\ last = 0 /\ pending = {} /\ idle = {}
    /\ claim = [e \in Events |-> None]
    /\ processed = {} /\ cache = {}
    /\ failures = [m \in Msgs |-> 0]
    /\ registry = {} /\ dead = {}
    /\ lock = [e \in Events |-> None]
    /\ audits = [e \in Events |-> 0]
    /\ pc = [c \in Consumers |-> "autoclaim"]
    /\ batch = [c \in Consumers |-> {}]
    /\ after = [c \in Consumers |-> "xread"]
    /\ cursor = [c \in Consumers |-> 0]
    /\ msg = [c \in Consumers |-> 0]
    /\ red = [c \in Consumers |-> FALSE]
    /\ repeats = [e \in Events |-> 0]
    /\ faults = 0

-----------------------------------------------------------------------------
(* XAUTOCLAIM from the cursor: the first Count pending entries that are    *)
(* idle, or evicted; the evicted ones leave the PEL (Redis names them in   *)
(* deleted_ids, which consume() ignores), the others start to idle anew.   *)
Due(c)    == {m \in pending : m >= cursor[c] /\ (m \in idle \/ m <= trimmed)}
Answer(c) == {m \in Due(c) : Cardinality({n \in Due(c) : n < m}) < Count}

XAutoClaim(c) == /\ pending' = pending \ (Answer(c) \cap (1..trimmed))
                 /\ idle' = idle \ Answer(c)

(* The pending entries behind the answer: the cursor goes to the first, or *)
(* back to "0-0" when the end of the PEL was reached.                      *)
Behind(c) == {m \in pending : \A n \in Answer(c) : n < m}

EndsPel(c) == Cardinality(Answer(c)) < Count \/ Behind(c) = {}

GoesOn(c) == /\ ~EndsPel(c)
             /\ \E m \in Behind(c) : /\ \A n \in Behind(c) : m <= n
                                     /\ cursor' = [cursor EXCEPT ![c] = m]

\* Faulty variant: the cursor is not reset at the end of the PEL.
NextCursorEnds(c) ==
    \/ EndsPel(c) /\ cursor' = [cursor EXCEPT ![c] = last]
    \/ GoesOn(c)

NextCursor(c) ==
    \/ EndsPel(c) /\ cursor' = [cursor EXCEPT ![c] = 0]
    \/ GoesOn(c)

(* Step A of the loop.                                                     *)
AutoClaim(c) ==
    /\ pc[c] = "autoclaim"
    /\ XAutoClaim(c) /\ NextCursor(c)
    /\ batch' = [batch EXCEPT ![c] = Answer(c) \ (1..trimmed)]
    /\ after' = [after EXCEPT ![c] = "xread"]
    /\ Goto(c, "next")
    /\ UNCHANGED <<trimmed, last, claim, done, failures, cache, dbVars, msg,
                   red, faults>>

(* A RedisError of XAUTOCLAIM is logged, whether or not the server ran it. *)
AutoClaimFails(c) ==
    /\ pc[c] = "autoclaim" /\ Fault("poll")
    /\ XAutoClaim(c) \/ UNCHANGED pel
    /\ Goto(c, "xread")
    /\ UNCHANGED <<trimmed, last, claim, done, failures, cache, dbVars, locals>>

(* XREADGROUP delivers entries up to n, none when block_ms runs out; the   *)
(* evicted ones are passed over.                                           *)
NewUpTo(n) == (last+1 .. n) \ (1..trimmed)

XReadGroup(n) == /\ Cardinality(NewUpTo(n)) <= Count
                 /\ last' = n
                 /\ pending' = pending \cup NewUpTo(n)

(* Step B.                                                                 *)
ReadNew(c) ==
    /\ pc[c] = "xread"
    /\ \E n \in last..NMsgs :
         /\ XReadGroup(n)
         /\ batch' = [batch EXCEPT ![c] = NewUpTo(n)]
    /\ after' = [after EXCEPT ![c] = "autoclaim"]
    /\ Goto(c, "next")
    /\ UNCHANGED <<trimmed, idle, claim, done, failures, cache, dbVars, cursor, msg,
                   red, faults>>

(* A RedisError of XREADGROUP, or its answer lost, leaves consume().       *)
ReadFails(c) ==
    /\ pc[c] = "xread" /\ Fault("poll")
    /\ (\E n \in last..NMsgs : XReadGroup(n)) \/ UNCHANGED <<last, pending>>
    /\ Leave(c)
    /\ UNCHANGED <<trimmed, idle, claim, done, failures, cache, registry, audits, dead>>

BatchDone(c) ==
    /\ pc[c] = "next" /\ batch[c] = {}
    /\ Goto(c, after[c])
    /\ UNCHANGED <<redisVars, dbVars, locals, faults>>

(* m is the next entry of the answer, in stream order.                     *)
IsNext(c, m) == m \in batch[c] /\ \A n \in batch[c] : m <= n

(* _process_message, parse and schema gate.                                *)
Begin(c) ==
    /\ pc[c] = "next"
    /\ \E m \in Msgs \ Halting :
         /\ IsNext(c, m)
         /\ msg' = [msg EXCEPT ![c] = m]
         /\ batch' = [batch EXCEPT ![c] = @ \ {m}]
         /\ Goto(c, IF m \in Bad THEN "route" ELSE "early")
    /\ UNCHANGED <<redisVars, dbVars, after, cursor, red, faults>>

BeginRaises(c) ==
    /\ pc[c] = "next"
    /\ \E m \in Halting : IsNext(c, m)
    /\ Leave(c)
    /\ UNCHANGED <<redisVars, registry, audits, dead, faults>>

-----------------------------------------------------------------------------
(* _route.  From the parse gate the loop goes on; from the exception path, *)
(* which still holds the lock session, the exception is raised again.      *)
EndRoute(c) ==
    \/ lock[Ev(c)] # c /\ Return(c) /\ UNCHANGED lock
    \/ lock[Ev(c)] = c /\ Leave(c)

(* RoutingComplete or RoutingReconciledByAdoption, then XACK, whose own    *)
(* failure is only logged.                                                 *)
RouteComplete(c) ==
    /\ pc[c] = "route"
    /\ dead' = dead \cup {msg[c]}
    /\ \/ XAck(msg[c]) /\ UNCHANGED faults
       \/ Fault("route") /\ UNCHANGED pel
    /\ EndRoute(c)
    /\ UNCHANGED <<trimmed, last, claim, done, failures, cache, registry, audits>>

(* RoutingAborted: a sibling is routing this message.                      *)
RouteAborted(c) ==
    /\ pc[c] = "route" /\ Fault("route")
    /\ EndRoute(c)
    /\ UNCHANGED <<redisVars, registry, audits, dead>>

RouteRaises(c) ==
    /\ pc[c] = "route" /\ Fault("route")
    /\ Leave(c)
    /\ UNCHANGED <<redisVars, registry, audits, dead>>

-----------------------------------------------------------------------------
(* Step 1: early redaction lookup, a hint read without the lock.           *)
EarlyLookup(c) ==
    /\ pc[c] = "early"
    /\ red' = [red EXCEPT ![c] = Ev(c) \in cache \cup registry]
    /\ cache' = IF Ev(c) \in registry THEN cache \cup {Ev(c)} ELSE cache
    /\ Goto(c, "gate")
    /\ UNCHANGED <<trimmed, last, pel, claim, done, failures, dbVars, batch, after,
                   cursor, msg, faults>>

(* A Redis, database or integrity error before the claim.                  *)
LookupRaises(c) ==
    /\ pc[c] \in {"early", "gate", "claim", "holder", "loser"} /\ Fault("lookup")
    /\ Leave(c)
    /\ UNCHANGED <<redisVars, registry, audits, dead>>

\* Faulty variant: the gate is skipped.
DedupGateOpen(c) ==
    /\ pc[c] = "gate"
    /\ Goto(c, "claim")
    /\ UNCHANGED <<redisVars, dbVars, locals, faults>>

(* Step 2: completed-dedup gate.                                           *)
DedupGate(c) ==
    /\ pc[c] = "gate"
    /\ IF Ev(c) \in processed
       THEN XAck(msg[c]) /\ Return(c)
       ELSE Goto(c, "claim") /\ UNCHANGED <<pel, locals>>
    /\ UNCHANGED <<trimmed, last, claim, done, failures, cache, dbVars, faults>>

(* Step 3: SET NX, then GET of the holder when it failed.                  *)
Claim(c) ==
    /\ pc[c] = "claim"
    /\ IF claim[Ev(c)] = None
       THEN claim' = [claim EXCEPT ![Ev(c)] = c] /\ Goto(c, "lock")
       ELSE Goto(c, "holder") /\ UNCHANGED claim
    /\ UNCHANGED <<trimmed, last, pel, done, failures, cache, dbVars, locals, faults>>

CheckHolder(c) ==
    /\ pc[c] = "holder"
    /\ \/ claim[Ev(c)] = None /\ Return(c)
       \/ claim[Ev(c)] = c /\ Goto(c, "lock") /\ UNCHANGED locals
       \/ claim[Ev(c)] \notin {None, c} /\ Goto(c, "loser") /\ UNCHANGED locals
    /\ UNCHANGED <<redisVars, dbVars, faults>>

\* Faulty variant: the loser acknowledges without looking at processed.
LoserAlwaysAcks(c) ==
    /\ pc[c] = "loser"
    /\ XAck(msg[c])
    /\ Return(c)
    /\ UNCHANGED <<trimmed, last, claim, done, failures, cache, dbVars, faults>>

(* The loser path: XACK only what the winner has completed.                *)
Loser(c) ==
    /\ pc[c] = "loser"
    /\ IF Ev(c) \in processed THEN XAck(msg[c]) ELSE UNCHANGED pel
    /\ Return(c)
    /\ UNCHANGED <<trimmed, last, claim, done, failures, cache, dbVars, faults>>

-----------------------------------------------------------------------------
\* Faulty variant: the consumer does not wait for the lock.
AcquireEventLockAnyway(c) ==
    /\ pc[c] = "lock"
    /\ lock' = [lock EXCEPT ![Ev(c)] = c]
    /\ Goto(c, "fetch")
    /\ UNCHANGED <<redisVars, registry, audits, dead, locals, faults>>

(* Step 4: pg_advisory_xact_lock waits for the holder.                     *)
AcquireEventLock(c) ==
    /\ pc[c] = "lock" /\ lock[Ev(c)] = None
    /\ lock' = [lock EXCEPT ![Ev(c)] = c]
    /\ Goto(c, "fetch")
    /\ UNCHANGED <<redisVars, registry, audits, dead, locals, faults>>

\* Faulty variant: the early lookup is trusted.
FetchRegistryHint(c) ==
    /\ pc[c] = "fetch"
    /\ Goto(c, "yielded")
    /\ UNCHANGED <<redisVars, dbVars, locals, faults>>

(* The authoritative lookup under the lock, and the yield.                 *)
FetchRegistry(c) ==
    /\ pc[c] = "fetch"
    /\ red' = [red EXCEPT ![c] = @ \/ Ev(c) \in registry]
    /\ Goto(c, "yielded")
    /\ repeats' = IF Ev(c) \in processed THEN [repeats EXCEPT ![Ev(c)] = @ + 1]
                                         ELSE repeats
    /\ UNCHANGED <<trimmed, last, pel, claim, processed, failures, cache, dbVars,
                   batch, after, cursor, msg, faults>>

(* An error in step 4 deletes the claim, whoever holds it, and is raised;  *)
(* the DEL may fail too.                                                   *)
LockRaises(c) ==
    /\ pc[c] \in {"lock", "fetch"} /\ Fault("lock")
    /\ claim' \in {claim, [claim EXCEPT ![Ev(c)] = None]}
    /\ Leave(c)
    /\ UNCHANGED <<trimmed, last, pel, done, failures, cache, registry, audits, dead>>

(* The iterate span raises instead of yielding.  This is the only error    *)
(* that reaches `except Exception`: _handle_caller_exception deletes the   *)
(* claim, counts the failure and routes past the threshold.                *)
SpanRaises(c) ==
    /\ pc[c] = "fetch" /\ Fault("span")
    /\ claim' = [claim EXCEPT ![Ev(c)] = None]
    /\ failures' = [failures EXCEPT ![msg[c]] = @ + 1]
    /\ IF failures[msg[c]] + 1 > MaxAttempts
       THEN Goto(c, "route") /\ UNCHANGED <<locals, lock>>
       ELSE Leave(c)
    /\ UNCHANGED <<trimmed, last, pel, done, cache, registry, audits, dead>>

-----------------------------------------------------------------------------
(* The caller's body.                                                      *)

(* ack(): the audit row is committed first, which releases the lock.       *)
AckAudit(c) ==
    /\ pc[c] = "yielded" /\ Ev(c) \notin Poison
    /\ audits' = [audits EXCEPT ![Ev(c)] = @ + 1]
    /\ lock' = Unlocked(c)
    /\ Goto(c, "acking")
    /\ UNCHANGED <<redisVars, registry, dead, locals, faults>>

(* ack(): the Lua script, atomic on the Redis side: SADD, DEL, XACK.       *)
LuaEffect(c) ==
    /\ processed' = processed \cup {Ev(c)}
    /\ repeats' = IF Ev(c) \in processed THEN repeats
                                         ELSE [repeats EXCEPT ![Ev(c)] = 0]
    /\ claim' = [claim EXCEPT ![Ev(c)] = None]
    /\ XAck(msg[c])

AckLua(c) ==
    /\ pc[c] = "acking"
    /\ LuaEffect(c)
    /\ Return(c)
    /\ UNCHANGED <<trimmed, last, failures, cache, dbVars, faults>>

(* The script fails, or only its answer is lost; the error surfaces in the *)
(* caller's body, which ends the iteration.                                *)
AckLuaFails(c) ==
    /\ pc[c] = "acking" /\ Fault("lua")
    /\ LuaEffect(c) \/ UNCHANGED <<done, claim, pel>>
    /\ Leave(c)
    /\ UNCHANGED <<trimmed, last, failures, cache, registry, audits, dead>>

(* The caller's body raises, its audit included: the generator is closed   *)
(* with GeneratorExit, which no handler catches.  Only `finally` runs.     *)
BodyRaises(c) ==
    /\ pc[c] = "yielded"
    /\ \/ Ev(c) \in Poison /\ UNCHANGED faults
       \/ Fault("raise")
    /\ Leave(c)
    /\ UNCHANGED <<redisVars, registry, audits, dead>>

(* The caller asks for the next event without having called ack().         *)
SkipAck(c) ==
    /\ pc[c] = "yielded" /\ Fault("skip")
    /\ lock' = Unlocked(c)
    /\ Return(c)
    /\ UNCHANGED <<redisVars, registry, audits, dead>>

Crash(c) ==
    /\ Fault("crash")
    /\ Leave(c)
    /\ UNCHANGED <<redisVars, registry, audits, dead>>

-----------------------------------------------------------------------------
(* An entry has not been delivered for pel_idle_claim_ms.                  *)
GetsIdle(m) ==
    /\ m \in pending \ idle
    /\ idle' = idle \cup {m}
    /\ UNCHANGED <<trimmed, last, pending, claim, done, failures, cache, dbVars, pc, locals,
                   faults>>

(* The claim's 5-minute lease runs out.                                    *)
ClaimExpires(e) ==
    /\ claim[e] # None
    /\ claim' = [claim EXCEPT ![e] = None]
    /\ UNCHANGED <<trimmed, last, pel, done, failures, cache, dbVars, pc, locals, faults>>

(* `aslan streams claim-release` and `processed-clear`.                    *)
ClaimRelease(e) ==
    /\ claim[e] # None /\ Fault("operator")
    /\ claim' = [claim EXCEPT ![e] = None]
    /\ UNCHANGED <<trimmed, last, pel, done, failures, cache, dbVars, pc, locals>>

ProcessedClear(e) ==
    /\ e \in processed /\ Fault("operator")
    /\ processed' = processed \ {e}
    /\ UNCHANGED <<trimmed, last, pel, claim, repeats, failures, cache, dbVars, pc, locals>>

(* The processed SET expires as a whole, 7 days after the last ack.        *)
ProcessedExpires ==
    /\ processed # {} /\ Fault("expire")
    /\ processed' = {}
    /\ UNCHANGED <<trimmed, last, pel, claim, repeats, failures, cache, dbVars, pc, locals>>

(* An XADD MAXLEN ~ of the drainer evicts the oldest entries, delivered,   *)
(* pending or neither.                                                     *)
Trim ==
    /\ Fault("trim")
    /\ \E n \in Msgs : n > trimmed /\ n < NMsgs /\ trimmed' = n
    /\ UNCHANGED <<last, pel, claim, done, failures, cache, dbVars, pc, locals>>

(* redaction_registry_insert takes the event lock, inserts, and holds the  *)
(* lock until its caller's transaction commits or rolls back.              *)
RedactInsert(e) ==
    /\ e \in Redactable \ registry /\ lock[e] = None
    /\ lock' = [lock EXCEPT ![e] = Redactor]
    /\ UNCHANGED <<redisVars, registry, audits, dead, pc, locals, faults>>

RedactCommit(e) ==
    /\ lock[e] = Redactor
    /\ registry' = registry \cup {e}
    /\ lock' = [lock EXCEPT ![e] = None]
    /\ UNCHANGED <<redisVars, audits, dead, pc, locals, faults>>

RedactRollback(e) ==
    /\ lock[e] = Redactor
    /\ lock' = [lock EXCEPT ![e] = None]
    /\ UNCHANGED <<redisVars, registry, audits, dead, pc, locals, faults>>

-----------------------------------------------------------------------------
Process(c) ==
    \/ AutoClaim(c) \/ ReadNew(c) \/ BatchDone(c) \/ Begin(c) \/ BeginRaises(c)
    \/ RouteComplete(c) \/ EarlyLookup(c) \/ DedupGate(c) \/ Claim(c)
    \/ CheckHolder(c) \/ Loser(c) \/ AcquireEventLock(c) \/ FetchRegistry(c)
    \/ AckAudit(c) \/ AckLua(c) \/ BodyRaises(c)

Failing(c) ==
    \/ AutoClaimFails(c) \/ ReadFails(c) \/ RouteAborted(c) \/ RouteRaises(c)
    \/ LookupRaises(c) \/ LockRaises(c) \/ SpanRaises(c) \/ AckLuaFails(c)
    \/ SkipAck(c) \/ Crash(c)

Operate(e) == ClaimRelease(e) \/ ProcessedClear(e)
Redact(e)  == RedactInsert(e) \/ RedactCommit(e) \/ RedactRollback(e)

Next == \/ \E c \in Consumers : Process(c) \/ Failing(c)
        \/ \E m \in Msgs : GetsIdle(m)
        \/ \E e \in Events : ClaimExpires(e) \/ Operate(e) \/ Redact(e)
        \/ ProcessedExpires \/ Trim

Spec == Init /\ [][Next]_vars

(* Every consumer keeps running and its caller returns or raises; time     *)
(* passes for the entries of the PEL and for the leases; a redaction ends; *)
(* Postgres queues the waiters of a lock.                                  *)
FairSpec ==
    /\ Spec
    /\ \A c \in Consumers : WF_vars(Process(c)) /\ SF_vars(AcquireEventLock(c))
    /\ \A m \in Msgs : WF_vars(GetsIdle(m))
    /\ \A e \in Events : WF_vars(ClaimExpires(e))
                      /\ WF_vars(RedactCommit(e) \/ RedactRollback(e))

-----------------------------------------------------------------------------
PCs == {"autoclaim", "xread", "next", "route", "early", "gate", "claim",
        "holder", "loser", "lock", "fetch", "yielded", "acking"}

(* The types of the variables.                                             *)
TypeOK ==
    /\ trimmed \in 0..NMsgs /\ last \in 0..NMsgs
    /\ pending \subseteq 1..last /\ idle \subseteq pending
    /\ claim \in [Events -> Consumers \cup {None}]
    /\ processed \subseteq Events /\ cache \subseteq Events
    /\ failures \in [Msgs -> Nat] /\ repeats \in [Events -> Nat]
    /\ registry \subseteq Events /\ dead \subseteq Msgs
    /\ lock \in [Events -> Consumers \cup {None, Redactor}]
    /\ audits \in [Events -> Nat]
    /\ pc \in [Consumers -> PCs]
    /\ batch \in [Consumers -> SUBSET (1..last)]
    /\ after \in [Consumers -> {"autoclaim", "xread"}]
    /\ cursor \in [Consumers -> 0..last]
    /\ msg \in [Consumers -> 0..last]
    /\ red \in [Consumers -> BOOLEAN]
    /\ faults \in 0..MaxFaults

(* Step 4 of _process_message: an event is in the hands of one caller at a *)
(* time, also after the claim's lease ran out or an operator released it.  *)
SingleYield ==
    \A c, d \in Consumers :
        pc[c] = "yielded" /\ pc[d] = "yielded" /\ Ev(c) = Ev(d) => c = d

(* Step 4 of _process_message and redaction_registry_insert: while a       *)
(* caller holds the original payload, no redaction of the event has        *)
(* committed, although the early lookup and the cache may be stale.        *)
NoRawYieldAfterRedaction ==
    \A c \in Consumers : pc[c] = "yielded" /\ ~red[c] => Ev(c) \notin registry

(* _ack, the dedup gate, the loser path and _route: a delivered message    *)
(* leaves the PEL only when a caller's ack of its event was audited or its *)
(* dead-letter routing completed; nothing but the eviction of the entry    *)
(* itself loses it.                                                        *)
NothingLost ==
    \A m \in 1..last :
        m \in pending \/ audits[EventOf[m]] > 0 \/ m \in dead \/ m <= trimmed

(* F4, audit before the Redis transition: a processed event has an audit.  *)
ProcessedIsAudited == \A e \in processed : audits[e] > 0

(* An entry that makes the consumer raise whenever it is handled.          *)
Raising(m) == m \in Halting \cup {n \in Msgs \ Bad : EventOf[n] \in Poison}

(* XAUTOCLAIM, leases and the gates together: whatever failed before, a    *)
(* delivered message leaves the PEL, unless an earlier entry that raises   *)
(* each time is pending: consume() then starts again at the head of the    *)
(* PEL, and may meet the earlier entry first for ever.                     *)
DeliveredIsSettled ==
    \A m \in Msgs : ~Raising(m) =>
        (m \in pending) ~>
            (m \notin pending \/ \E n \in pending : n < m /\ Raising(n))

(* consumer.py:32-41, the dedup gate, the claim and the loser path: once   *)
(* an ack put an event into processed, it is yielded again only by callers *)
(* that had passed the gate before, so at most once by each other          *)
(* consumer, through lost claims, expired leases, copies and redelivery;   *)
(* only the operator or the 7 days of the set start it anew.               *)
RepeatsAreBounded == \A e \in Events : repeats[e] < Cardinality(Consumers)

=============================================================================
