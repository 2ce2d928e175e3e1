------------------------------ MODULE OmsEngine ------------------------------
(***************************************************************************)
(* One order plan going through OmsEngine.submit_plan                      *)
(* (src/trading/oms/engine.py) to a broker adapter, with the durable order *)
(* log of trading_store.py underneath.  Leg k is also its idempotency key. *)
(* Every durable write, every exchange with the broker and every read of   *)
(* the in-memory cache is a step, so other threads and crashes fall        *)
(* between them.                                                           *)
(***************************************************************************)
EXTENDS Naturals, FiniteSets, StateMachines

CONSTANTS N,              \* the plan's legs are 1..N, submitted in that order
          Threads,        \* callers of submit_plan
          Plans,          \* plan objects: fresh internal ids, the same keys
          Outcomes,       \* what broker.submit may do
          BrokerRemembers \* the broker's own duplicate check survives a crash

Replies == {"ACKNOWLEDGED", "PARTIAL", "FILLED", "REJECTED", "CANCELLED"}

Timeouts == {"TIMEOUT_LIVE", "TIMEOUT_DEAD"}

Errors == {"ERROR_LIVE", "ERROR_DEAD"}

ASSUME LegsAssumption == N \in Nat \ {0}

ASSUME OutcomesAssumption == Outcomes \subseteq Replies \cup Timeouts \cup Errors

ASSUME PlansAssumption == "NONE" \notin Plans /\ Plans # {}

ASSUME BrokerAssumption == BrokerRemembers \in BOOLEAN

VARIABLES durable,   \* per key, the event that a replay of the log leaves
          cache,     \* per key, OmsEngine._latest_by_key
          broker,    \* per key, the order as the broker really has it
          placed,    \* per key, how often the broker took the order (history)
          memo,      \* per key, the adapter's orders_by_idempotency_key
          now,       \* the clock: advances with every stamp taken
          call       \* per thread, where its submit_plan call is

vars == <<durable, cache, broker, placed, memo, now, call>>

-----------------------------------------------------------------------------

Legs == 1..N

Absent == [state |-> "NONE", at |-> 0]

SubmitStop == {"REJECTED", "CANCELLED", "UNKNOWN"}

Resting == {"idle", "returned", "raised", "frozen"}

Stages == Resting \cup {"lookup", "create", "send", "broker", "accept",
                        "timedout", "adopt"}

OrderStatesOrNone == OrderStates \cup {"NONE"}

StampedState == [state : OrderStatesOrNone, at : Nat]

CallType == [pc : Stages, plan : Plans \cup {"NONE"}, leg : Legs, at : Nat,
             reply : OrderStatesOrNone]

NoCall == [pc |-> "idle", plan |-> "NONE", leg |-> 1, at |-> 0, reply |-> "NONE"]

At(t, stage) == call[t].pc = stage

Leg(t) == call[t].leg

\* One event of the adapter's own map of orders, by idempotency key.
NoMemo == [plan |-> "NONE", state |-> "NONE", at |-> 0]

MemoType == [plan : Plans \cup {"NONE"}, state : OrderStatesOrNone, at : Nat]

Remember(t, seen, at) ==
  memo' = [memo EXCEPT ![Leg(t)] =
             [plan |-> call[t].plan, state |-> seen, at |-> at]]

\* Thread t's call becomes c.
Goes(t, c) == call' = [call EXCEPT ![t] = c]

Move(t, stage) == Goes(t, [call[t] EXCEPT !.pc = stage])

\* What a replay makes of key k when event e joins the log: a later
\* received_at wins, and of equal ones the later row.
Newer(old, e) == IF e.at >= old.at THEN e ELSE old

\* _persist without a key registration: the row is added to the log and the
\* cache takes the event whatever its stamp.
Append(k, e) ==
  /\ durable' = [durable EXCEPT ![k] = Newer(@, e)]
  /\ cache' = [cache EXCEPT ![k] = e]

\* _replay_store: the log is folded over what the cache already holds.
Replay == cache' = [k \in Legs |-> Newer(cache[k], durable[k])]

\* Mutant: the loop goes on past a rejected leg.
AfterLegIgnoringRejects(t, state) ==
  IF state = "UNKNOWN" \/ Leg(t) = N
    THEN Move(t, "returned")
    ELSE Goes(t, [call[t] EXCEPT !.pc = "lookup", !.leg = Leg(t) + 1])

\* submit_plan's loop body after one leg: stop, go on, or the plan is done.
AfterLeg(t, state) ==
  IF state \in SubmitStop \/ Leg(t) = N
    THEN Move(t, "returned")
    ELSE Goes(t, [call[t] EXCEPT !.pc = "lookup", !.leg = Leg(t) + 1])

-----------------------------------------------------------------------------

Init ==
  /\ durable = [k \in Legs |-> Absent]
  /\ cache = [k \in Legs |-> Absent]
  /\ broker = [k \in Legs |-> "NONE"]
  /\ placed = [k \in Legs |-> 0]
  /\ memo = [k \in Legs |-> NoMemo]
  /\ now = 1
  /\ call = [t \in Threads |-> NoCall]

\* A caller submits the plan, for the first time or again.
Begin(t) ==
  /\ call[t].pc \in Resting
  /\ \E p \in Plans : Goes(t, [NoCall EXCEPT !.pc = "lookup", !.plan = p])
  /\ UNCHANGED <<durable, cache, broker, placed, memo, now>>

\* is_valid_at fails before any leg: OrderPlanExpiredError.
Expired(t) ==
  /\ call[t].pc \in Resting
  /\ Goes(t, [NoCall EXCEPT !.pc = "raised"])
  /\ UNCHANGED <<durable, cache, broker, placed, memo, now>>

\* The key is known and its outcome is not: OrderFrozenError.
LookupUnknown(t) ==
  /\ At(t, "lookup")
  /\ cache[Leg(t)].state = "UNKNOWN"
  /\ Move(t, "frozen")
  /\ UNCHANGED <<durable, cache, broker, placed, memo, now>>

\* The key is known: its latest event is the leg's result, whatever it says.
LookupKnown(t) ==
  /\ At(t, "lookup")
  /\ cache[Leg(t)].state \notin {"NONE", "UNKNOWN"}
  /\ AfterLeg(t, cache[Leg(t)].state)
  /\ UNCHANGED <<durable, cache, broker, placed, memo, now>>

\* Mutant: an order of unknown outcome is sent again.
LookupNewRetryingUnknown(t) ==
  /\ At(t, "lookup")
  /\ cache[Leg(t)].state \in {"NONE", "UNKNOWN"}
  /\ Move(t, "create")
  /\ UNCHANGED <<durable, cache, broker, placed, memo, now>>

LookupNew(t) ==
  /\ At(t, "lookup")
  /\ cache[Leg(t)].state = "NONE"
  /\ Move(t, "create")
  /\ UNCHANGED <<durable, cache, broker, placed, memo, now>>

\* OrderRateLimiter.check_and_consume refuses.
RateLimited(t) ==
  /\ At(t, "create")
  /\ Move(t, "raised")
  /\ UNCHANGED <<durable, cache, broker, placed, memo, now>>

\* CREATED and its key are one transaction.  When the key is already taken
\* the row is rolled back and the cache replayed; the caller goes on alike.
PersistCreated(t) ==
  /\ At(t, "create")
  /\ now' = now + 1
  /\ Goes(t, [call[t] EXCEPT !.pc = "send", !.at = now + 1])
  /\ IF durable[Leg(t)].state = "NONE"
       THEN Append(Leg(t), [state |-> "CREATED", at |-> now + 1])
       ELSE Replay /\ UNCHANGED durable
  /\ UNCHANGED <<broker, placed, memo>>

\* Mutant: the order goes to the broker with only CREATED in the log.
PersistSubmittingInMemory(t) ==
  /\ At(t, "send")
  /\ cache' = [cache EXCEPT ![Leg(t)] = [state |-> "SUBMITTING", at |-> call[t].at]]
  /\ Move(t, "broker")
  /\ UNCHANGED <<durable, broker, placed, memo, now>>

\* SUBMITTING carries the same stamp as CREATED.
PersistSubmitting(t) ==
  /\ At(t, "send")
  /\ CanOrder("CREATED", "SUBMITTING", "LOCAL_COMMAND")
  /\ Append(Leg(t), [state |-> "SUBMITTING", at |-> call[t].at])
  /\ Move(t, "broker")
  /\ UNCHANGED <<broker, placed, memo, now>>

\* The adapter knows the key: from this plan, it answers with the event it
\* kept; from another one, it raises DuplicateBrokerOrderError.
BrokerSeesKey(t) ==
  /\ At(t, "broker")
  /\ memo[Leg(t)] # NoMemo
  /\ LET known == memo[Leg(t)]
     IN  IF known.plan = call[t].plan
           THEN Goes(t, [call[t] EXCEPT !.pc = "adopt", !.at = known.at,
                                        !.reply = known.state])
           ELSE Move(t, "raised")
  /\ UNCHANGED <<durable, cache, broker, placed, memo, now>>

BrokerSeesNone(t) ==
  /\ At(t, "broker")
  /\ memo[Leg(t)] = NoMemo
  /\ Move(t, "accept")
  /\ UNCHANGED <<durable, cache, broker, placed, memo, now>>

\* The broker takes leg k: a second taking is a second order at the venue.
Place(k, state) ==
  /\ broker' = [broker EXCEPT ![k] = state]
  /\ placed' = [placed EXCEPT ![k] = @ + 1]

\* The broker takes the order and says so.
BrokerReplies(t) ==
  /\ At(t, "accept")
  /\ \E state \in Outcomes \cap Replies :
       /\ Place(Leg(t), state)
       /\ Goes(t, [call[t] EXCEPT !.pc = "adopt", !.at = now + 1, !.reply = state])
       /\ Remember(t, state, now + 1)
  /\ now' = now + 1
  /\ UNCHANGED <<durable, cache>>

\* BrokerSubmitTimeoutError: the order may or may not be live.
BrokerTimesOut(t) ==
  /\ At(t, "accept")
  /\ \/ "TIMEOUT_LIVE" \in Outcomes /\ Place(Leg(t), "ACKNOWLEDGED")
     \/ "TIMEOUT_DEAD" \in Outcomes /\ UNCHANGED <<broker, placed>>
  /\ Remember(t, "UNKNOWN", now)
  /\ Move(t, "timedout")
  /\ UNCHANGED <<durable, cache, now>>

\* Any other exception of the adapter, which leaves through submit_plan.
BrokerFails(t) ==
  /\ At(t, "accept")
  /\ \/ "ERROR_LIVE" \in Outcomes /\ Place(Leg(t), "ACKNOWLEDGED")
     \/ "ERROR_DEAD" \in Outcomes /\ UNCHANGED <<broker, placed>>
  /\ Move(t, "raised")
  /\ UNCHANGED <<durable, cache, memo, now>>

\* Mutant: a timeout is written as a rejection.
PersistTimeoutAsRejected(t) ==
  /\ At(t, "timedout")
  /\ Append(Leg(t), [state |-> "REJECTED", at |-> call[t].at])
  /\ Move(t, "frozen")
  /\ UNCHANGED <<broker, placed, memo, now>>

\* Mutant: a timeout is written under the adapter's own name for it.
PersistRawTimeout(t) ==
  /\ At(t, "timedout")
  /\ Append(Leg(t), [state |-> "TIMEOUT_DEAD", at |-> call[t].at])
  /\ Move(t, "frozen")
  /\ UNCHANGED <<broker, placed, memo, now>>

\* UNKNOWN is written with the stamp of SUBMITTING, then OrderFrozenError.
PersistUnknown(t) ==
  /\ At(t, "timedout")
  /\ Append(Leg(t), [state |-> "UNKNOWN", at |-> call[t].at])
  /\ Move(t, "frozen")
  /\ UNCHANGED <<broker, placed, memo, now>>

\* _adopt_broker_event and the final write; an illegal answer is an OmsError.
PersistFinal(t) ==
  /\ At(t, "adopt")
  /\ IF CanOrder("SUBMITTING", call[t].reply, "BROKER_EVENT")
       THEN /\ Append(Leg(t), [state |-> call[t].reply, at |-> call[t].at])
            /\ AfterLeg(t, call[t].reply)
       ELSE Move(t, "raised") /\ UNCHANGED <<durable, cache>>
  /\ UNCHANGED <<broker, placed, memo, now>>

\* A working order moves on at the venue; nothing in submit_plan hears of it.
BrokerAdvances(k) ==
  /\ broker[k] \in Working
  /\ \E state \in OrderStates :
       /\ CanOrder(broker[k], state, "BROKER_EVENT")
       /\ broker' = [broker EXCEPT ![k] = state]
  /\ UNCHANGED <<durable, cache, placed, memo, now, call>>

\* Mutant: the new engine starts with an empty cache.
CrashWithoutReplay ==
  /\ call' = [t \in Threads |-> NoCall]
  /\ cache' = [k \in Legs |-> Absent]
  /\ memo' = IF BrokerRemembers THEN memo ELSE [k \in Legs |-> NoMemo]
  /\ UNCHANGED <<durable, broker, placed, now>>

\* The process dies and a new engine replays the log.
Crash ==
  /\ call' = [t \in Threads |-> NoCall]
  /\ cache' = durable
  /\ memo' = IF BrokerRemembers THEN memo ELSE [k \in Legs |-> NoMemo]
  /\ UNCHANGED <<durable, broker, placed, now>>

\* The steps submit_plan takes of itself once called.
Step(t) ==
  \/ LookupUnknown(t) \/ LookupKnown(t) \/ LookupNew(t)
  \/ PersistCreated(t) \/ PersistSubmitting(t)
  \/ BrokerSeesKey(t) \/ BrokerSeesNone(t)
  \/ BrokerReplies(t) \/ BrokerTimesOut(t) \/ BrokerFails(t)
  \/ PersistUnknown(t) \/ PersistFinal(t)

Next ==
  \/ \E t \in Threads : Begin(t) \/ Expired(t) \/ RateLimited(t) \/ Step(t)
  \/ \E k \in Legs : BrokerAdvances(k)
  \/ Crash

Spec == Init /\ [][Next]_vars

-----------------------------------------------------------------------------

TypeOK ==
  /\ durable \in [Legs -> StampedState]
  /\ cache \in [Legs -> StampedState]
  /\ broker \in [Legs -> OrderStatesOrNone]
  /\ placed \in [Legs -> Nat]
  /\ memo \in [Legs -> MemoType]
  /\ now \in Nat
  /\ call \in [Threads -> CallType]

\* Whatever the broker has taken, a restart knows was sent: the log holds
\* SUBMITTING or later for it, with any number of callers and any crash
\* (engine.py: "durable OrderEvent(CREATED) missing before broker submit").
DurableBeforeBroker ==
  \A k \in Legs : placed[k] > 0 => durable[k].state \notin {"NONE", "CREATED"}

\* One logical order reaches the broker at most once, however often the plan
\* is submitted again and wherever the process died, even when the broker
\* itself would take it twice (SAFETY_INVARIANTS 11, BROKER_SPEC submission 4).
SubmitOnce == \A k \in Legs : placed[k] <= 1

\* A leg is never sent past a leg that this engine knows to have failed
\* (the comment in submit_plan).
KnownFailureStops ==
  \A j, k \in Legs :
    j < k /\ placed[k] > 0 => durable[j].state \notin SubmitStop \cup {"NONE"}

\* What the log calls finished is finished the same way at the broker: a
\* timeout or an error never becomes a fill (SAFETY_INVARIANTS 12).
LocalOutcomeIsBrokers ==
  \A k \in Legs : durable[k].state \in OrderTerminal => broker[k] = durable[k].state

\* An order whose outcome is unknown is never sent again and never gets an
\* outcome from the submit path: it waits for reconciliation, across restarts
\* (SAFETY_INVARIANTS 13).
UnknownStaysFrozen ==
  [][\A k \in Legs : durable[k].state = "UNKNOWN" =>
       durable'[k].state = "UNKNOWN" /\ placed'[k] = placed[k]]_vars

-----------------------------------------------------------------------------

\* What the durable log says of a leg, in the terms of LogicalOrder.
StageOf(state) ==
  CASE state = "NONE" -> "unsent"
    [] state = "CREATED" -> "recorded"
    [] state = "SUBMITTING" -> "committed"
    [] state = "UNKNOWN" -> "unknown"
    [] state \in {"REJECTED", "CANCELLED"} -> "failed"
    [] OTHER -> "good"

Stage == [k \in Legs |-> StageOf(durable[k].state)]

Promise == INSTANCE LogicalOrder WITH stage <- Stage, taken <- placed

\* With one caller at a time the engine implements LogicalOrder: commits come
\* before the broker, in plan order, outcomes after it, and each only once.
ImplementsPromise == Promise!Spec
=============================================================================
