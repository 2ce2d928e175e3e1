------------------------------ MODULE PaperExit ------------------------------
(***************************************************************************)
(* The full exit of one multi-leg trade: PaperRunner.manage_exits          *)
(* (src/trading/runtime/paper_runner.py) over TradeManager, OmsEngine, the *)
(* paper broker, the capital reservation and the durable lifecycle row,    *)
(* with the broker repair that runs at start-up.  A leg names its exit     *)
(* order too: the order's idempotency key and internal id never change.    *)
(***************************************************************************)
EXTENDS Naturals, FiniteSets, StateMachines

CONSTANTS Legs,     \* the trade's legs, in the order of its entry plan
          Shorts,   \* the legs that are liabilities
          Outcomes, \* what the paper broker may do with an exit order
          Threads   \* callers of manage_exits

ASSUME LegsAssumption == Legs \subseteq Nat /\ Legs # {}

ASSUME ShortsAssumption == Shorts \subseteq Legs

ASSUME OutcomesAssumption == Outcomes \subseteq {"FILLED", "REJECTED"}

VARIABLES
  log,          \* per leg, the exit order's latest event in the durable log
  cache,        \* per leg, OmsEngine._latest_by_key
  order,        \* per leg, the exit order in broker_state.json
  held,         \* the legs the paper broker holds for the trade
  trade,        \* the trade in TradeManager._positions
  row,          \* the trade's durable lifecycle row
  reservation,  \* the trade's capital reservation
  book,         \* the trade is in PaperRunner._open_book
  call          \* per thread, where its manage_exits call is

vars == <<log, cache, order, held, trade, row, reservation, book, call>>

orders == <<log, cache, order, held>>

-----------------------------------------------------------------------------

InFlight == {"EXIT_PENDING", "CLOSING"}

Failed == {"REJECTED", "CANCELLED", "EXPIRED"}

Stages == {"idle", "judged", "requested", "choose", "lookup", "create", "send",
           "broker", "adopt", "record", "apply", "release"}

States == OrderStates \cup {"NONE"}

Trade == [state : TradeStates, legs : SUBSET Legs]

Row == [state : TradeStates, legs : SUBSET Legs, ids : SUBSET Legs]

\* seen: the events in hand, per leg; todo: the legs yet to be submitted, and
\* then the events yet to be applied; adopting: the events are of recorded ids.
CallType == [pc : Stages, todo : SUBSET Legs, seen : [Legs -> States],
             adopting : BOOLEAN]

NoEvents == [k \in Legs |-> "NONE"]

NoCall == [pc |-> "idle", todo |-> {}, seen |-> NoEvents, adopting |-> FALSE]

At(t, stage) == call[t].pc = stage

Goes(t, c) == call' = [call EXCEPT ![t] = c]

Move(t, stage) == Goes(t, [call[t] EXCEPT !.pc = stage])

\* An exception leaves manage_exits: what was written stays written.
Raises(t) == Goes(t, NoCall)

\* Mutant: the legs keep the order of the entry plan.
FirstInEntryOrder(S) == CHOOSE k \in S : \A j \in S : k <= j

\* _liability_first, a stable sort: the shorts are bought back before any
\* long is released.
First(S) ==
  LET ahead(j, k) == \/ j \in Shorts /\ k \notin Shorts
                     \/ (j \in Shorts <=> k \in Shorts) /\ j <= k
  IN  CHOOSE k \in S : \A j \in S : ahead(k, j)

Leg(t) == First(call[t].todo)

\* submit_plan's results and the ids of a row are these legs.
InHand(t) == {k \in Legs : call[t].seen[k] # "NONE"}

\* _exit_order_event: the broker's order with that id, else the log's.
ExitOrderEvent(k) == IF order[k] # "NONE" THEN order[k] ELSE log[k]

\* The event that is applied next.
Event(t) ==
  IF call[t].adopting THEN ExitOrderEvent(Leg(t)) ELSE call[t].seen[Leg(t)]

\* _write_lifecycle: the live trade, under the given exit order ids.
WriteRow(ids) == row' = [state |-> trade.state, legs |-> trade.legs, ids |-> ids]

\* Thread t starts over the exit orders in S, in its first stage.
Starts(t, stage, S, adopting) ==
  Goes(t, [NoCall EXCEPT !.pc = stage, !.todo = S, !.adopting = adopting])

\* _adopt_existing_exit_orders begins on the ids the row holds.
Adopts(t) == Starts(t, "apply", row.ids, TRUE)

-----------------------------------------------------------------------------

Init ==
  /\ log = NoEvents
  /\ cache = NoEvents
  /\ order = NoEvents
  /\ held = Legs
  /\ trade = [state |-> "OPEN", legs |-> Legs]
  /\ row = [state |-> "OPEN", legs |-> Legs, ids |-> {}]
  /\ reservation = "COMMITTED"
  /\ book = TRUE
  /\ call = [t \in Threads |-> NoCall]

\* The exit policy says of an OPEN position that it should be closed.
Judge(t) ==
  /\ At(t, "idle")
  /\ book /\ trade.state = "OPEN"
  /\ Move(t, "judged")
  /\ UNCHANGED <<orders, trade, row, reservation, book>>

\* apply_exit_evaluation, on the position as it is by now.
RequestExit(t) ==
  /\ At(t, "judged")
  /\ IF CanTrade(trade.state, "EXIT_PENDING", "LOCAL_COMMAND")
       THEN trade' = [trade EXCEPT !.state = "EXIT_PENDING"]
       ELSE UNCHANGED trade
  /\ IF trade'.state = "EXIT_PENDING"
       THEN Starts(t, "requested", trade.legs, FALSE)
       ELSE Starts(t, "requested", {}, FALSE)
  /\ UNCHANGED <<orders, row, reservation, book>>

\* Mutant: the row takes the ids of the planned orders before they are sent.
WriteRequestWithPlannedIds(t) ==
  /\ At(t, "requested")
  /\ WriteRow(IF row.ids = {} THEN call[t].todo ELSE row.ids)
  /\ IF call[t].todo = {} THEN Goes(t, NoCall) ELSE Move(t, "choose")
  /\ UNCHANGED <<orders, trade, reservation, book>>

\* The request is durable before any order; a trade that is not EXIT_PENDING
\* goes no further.
WriteRequest(t) ==
  /\ At(t, "requested")
  /\ WriteRow(row.ids)
  /\ IF call[t].todo = {} THEN Goes(t, NoCall) ELSE Move(t, "choose")
  /\ UNCHANGED <<orders, trade, reservation, book>>

\* Mutant: only a trade that is CLOSING already is taken up again.
ResumeClosingOnly(t) ==
  /\ At(t, "idle")
  /\ book /\ trade.state = "CLOSING"
  /\ IF row.ids # {} THEN Adopts(t) ELSE Starts(t, "choose", trade.legs, FALSE)
  /\ UNCHANGED <<orders, trade, row, reservation, book>>

\* _resume_inflight_exits.
Resume(t) ==
  /\ At(t, "idle")
  /\ book /\ trade.state \in InFlight
  /\ IF row.ids # {} THEN Adopts(t) ELSE Starts(t, "choose", trade.legs, FALSE)
  /\ UNCHANGED <<orders, trade, row, reservation, book>>

\* _submit_exit adopts the orders of a trade that is being closed already.
AdoptRecorded(t) ==
  /\ At(t, "choose")
  /\ row.ids # {} /\ trade.state \in InFlight
  /\ Adopts(t)
  /\ UNCHANGED <<orders, trade, row, reservation, book>>

MustPlan(t) == At(t, "choose") /\ ~(row.ids # {} /\ trade.state \in InFlight)

\* _exit_plan finds a snapshot for every leg.
PlanExit(t) ==
  /\ MustPlan(t)
  /\ call[t].todo # {}
  /\ Move(t, "lookup")
  /\ UNCHANGED <<orders, trade, row, reservation, book>>

\* _exit_plan is None: a leg without a quote, or no legs.
NoPlan(t) ==
  /\ MustPlan(t)
  /\ Goes(t, NoCall)
  /\ UNCHANGED <<orders, trade, row, reservation, book>>

-----------------------------------------------------------------------------
\* OmsEngine.submit_plan, with the outcomes the paper broker has.

\* Mutant: the loop goes on past a failed leg.
AfterLegPastFailures(t, state) ==
  LET c == [call[t] EXCEPT !.seen[Leg(t)] = state, !.todo = @ \ {Leg(t)}]
  IN  IF c.todo = {} THEN Goes(t, [c EXCEPT !.pc = "record"])
                     ELSE Goes(t, [c EXCEPT !.pc = "lookup"])

\* The result of one leg; the loop goes on unless it failed.
AfterLeg(t, state) ==
  LET c == [call[t] EXCEPT !.seen[Leg(t)] = state, !.todo = @ \ {Leg(t)}]
  IN  IF state \in Failed \/ c.todo = {}
        THEN Goes(t, [c EXCEPT !.pc = "record", !.todo = {}])
        ELSE Goes(t, [c EXCEPT !.pc = "lookup"])

\* A known key: its latest event is the result, also when it says SUBMITTING.
LookupKnown(t) ==
  /\ At(t, "lookup")
  /\ cache[Leg(t)] # "NONE"
  /\ AfterLeg(t, cache[Leg(t)])
  /\ UNCHANGED <<orders, trade, row, reservation, book>>

LookupNew(t) ==
  /\ At(t, "lookup")
  /\ cache[Leg(t)] = "NONE"
  /\ Move(t, "create")
  /\ UNCHANGED <<orders, trade, row, reservation, book>>

\* The event joins the log.  A replay keeps the latest stamp per key, which
\* may be another thread's where two of them write the same order.
Logged(t, state) ==
  \/ log' = [log EXCEPT ![Leg(t)] = state]
  \/ (\E u \in Threads : u # t) /\ UNCHANGED log

\* CREATED and its key, unless another thread has the key by now.
PersistCreated(t) ==
  /\ At(t, "create")
  /\ IF log[Leg(t)] = "NONE"
       THEN /\ log' = [log EXCEPT ![Leg(t)] = "CREATED"]
            /\ cache' = [cache EXCEPT ![Leg(t)] = "CREATED"]
       ELSE cache' = log /\ UNCHANGED log
  /\ Move(t, "send")
  /\ UNCHANGED <<order, held, trade, row, reservation, book>>

PersistSubmitting(t) ==
  /\ At(t, "send")
  /\ Logged(t, "SUBMITTING")
  /\ cache' = [cache EXCEPT ![Leg(t)] = "SUBMITTING"]
  /\ Move(t, "broker")
  /\ UNCHANGED <<order, held, trade, row, reservation, book>>

\* The paper broker fills or rejects at once, and saves its state.
BrokerAnswers(t) ==
  /\ At(t, "broker")
  /\ order[Leg(t)] = "NONE"
  /\ \E state \in Outcomes :
       /\ order' = [order EXCEPT ![Leg(t)] = state]
       /\ held' = IF state = "FILLED" THEN held \ {Leg(t)} ELSE held
  /\ Move(t, "adopt")
  /\ UNCHANGED <<log, cache, trade, row, reservation, book>>

\* Another plan's order has the key: DuplicateBrokerOrderError.
BrokerRefuses(t) ==
  /\ At(t, "broker")
  /\ order[Leg(t)] # "NONE"
  /\ Raises(t)
  /\ UNCHANGED <<orders, trade, row, reservation, book>>

\* submit of the paper broker.
BrokerSubmits(t) ==
  /\ At(t, "broker")
  /\ IF order[Leg(t)] = "NONE" THEN BrokerAnswers(t) ELSE BrokerRefuses(t)

\* Mutant: the log keeps the broker's own word for the state.
PersistRawStatus(t) ==
  /\ At(t, "adopt")
  /\ Logged(t, "COMPLETE")
  /\ cache' = [cache EXCEPT ![Leg(t)] = order[Leg(t)]]
  /\ AfterLeg(t, order[Leg(t)])
  /\ UNCHANGED <<order, held, trade, row, reservation, book>>

\* The broker's answer is the outcome, in the log before the next leg.
PersistFinal(t) ==
  /\ At(t, "adopt")
  /\ Logged(t, order[Leg(t)])
  /\ cache' = [cache EXCEPT ![Leg(t)] = order[Leg(t)]]
  /\ AfterLeg(t, order[Leg(t)])
  /\ UNCHANGED <<order, held, trade, row, reservation, book>>

-----------------------------------------------------------------------------
\* The events reach the trade: _submit_exit and _adopt_existing_exit_orders.

\* The order ids are durable before any event is applied.
RecordIds(t) ==
  /\ At(t, "record")
  /\ WriteRow(InHand(t))
  /\ Goes(t, [call[t] EXCEPT !.pc = "apply", !.todo = InHand(t)])
  /\ UNCHANGED <<orders, trade, reservation, book>>

Applying(t) == At(t, "apply") /\ call[t].todo # {}

\* The event is done with.
NextEvent(t, stage) ==
  Goes(t, [call[t] EXCEPT !.pc = stage, !.seen[Leg(t)] = Event(t),
                          !.todo = @ \ {Leg(t)}])

\* An order known to be sent starts the closing; when adopting, it is left.
ApplySent(t) ==
  /\ Applying(t)
  /\ Event(t) = "SUBMITTING"
  /\ IF ~call[t].adopting /\ trade.state = "EXIT_PENDING"
       THEN trade' = [trade EXCEPT !.state = "CLOSING"]
       ELSE UNCHANGED trade
  /\ NextEvent(t, "apply")
  /\ UNCHANGED <<orders, row, reservation, book>>

\* A CREATED order, left behind by a crash, moves nothing.
ApplyNothing(t) ==
  /\ Applying(t)
  /\ Event(t) = "CREATED"
  /\ NextEvent(t, "apply")
  /\ UNCHANGED <<orders, trade, row, reservation, book>>

Closing == IF trade.state = "EXIT_PENDING" THEN "CLOSING" ELSE trade.state

\* A filled leg leaves the trade, which stays CLOSING while any leg is left.
ApplyFill(t) ==
  /\ Applying(t)
  /\ Event(t) = "FILLED"
  /\ trade.legs \ {Leg(t)} # {}
  /\ trade' = [state |-> Closing, legs |-> trade.legs \ {Leg(t)}]
  /\ NextEvent(t, "apply")
  /\ UNCHANGED <<orders, row, reservation, book>>

\* The last leg: CLOSED, with the entry's legs for the archive.  A trade that
\* may not close raises TradeManagerError.
ApplyLastFill(t) ==
  /\ Applying(t)
  /\ Event(t) = "FILLED"
  /\ trade.legs \ {Leg(t)} = {}
  /\ IF CanTrade(Closing, "CLOSED", "BROKER_EVENT")
       THEN /\ trade' = [state |-> "CLOSED", legs |-> Legs]
            /\ NextEvent(t, "release")
       ELSE /\ trade' = [trade EXCEPT !.state = Closing]
            /\ Raises(t)
  /\ UNCHANGED <<orders, row, reservation, book>>

\* Mutant: a failed exit is taken for a leg that is gone.
ApplyFailedAsFill(t) ==
  /\ Applying(t)
  /\ Event(t) \in Failed
  /\ IF trade.legs = {Leg(t)}
       THEN /\ trade' = [state |-> "CLOSED", legs |-> Legs]
            /\ NextEvent(t, "release")
       ELSE /\ trade' = [trade EXCEPT !.legs = @ \ {Leg(t)}]
            /\ NextEvent(t, "apply")
  /\ UNCHANGED <<orders, row, reservation, book>>

\* A failed leg puts the trade back to OPEN.
ApplyFailed(t) ==
  /\ Applying(t)
  /\ Event(t) \in Failed
  /\ IF trade.state \in InFlight
       THEN trade' = [trade EXCEPT !.state = "OPEN"]
       ELSE UNCHANGED trade
  /\ NextEvent(t, "apply")
  /\ UNCHANGED <<orders, row, reservation, book>>

\* Mutant: orders adopted from the row release nothing.
ReleaseCapitalOfNewOrders(t) ==
  /\ At(t, "release")
  /\ Move(t, "apply")
  /\ reservation' = IF call[t].adopting THEN reservation ELSE "RELEASED"
  /\ UNCHANGED <<orders, trade, row, book>>

\* The confirmed close releases the capital; releasing it twice raises.
ReleaseCapital(t) ==
  /\ At(t, "release")
  /\ IF CanReservation(reservation, "RELEASED", "BROKER_EVENT")
       THEN reservation' = "RELEASED" /\ Move(t, "apply")
       ELSE Raises(t) /\ UNCHANGED reservation
  /\ UNCHANGED <<orders, trade, row, book>>

AllFailed(t) ==
  InHand(t) # {} /\ \A k \in InHand(t) : call[t].seen[k] \in Failed

\* The last write of the row; ids that all failed are dropped, and a closed
\* trade leaves the open book.
Settle(t) ==
  /\ At(t, "apply") /\ call[t].todo = {}
  /\ WriteRow(IF AllFailed(t) THEN {} ELSE InHand(t))
  /\ book' = (book /\ trade.state # "CLOSED")
  /\ Goes(t, NoCall)
  /\ UNCHANGED <<orders, trade, reservation>>

-----------------------------------------------------------------------------

\* A write of the row between exits: a tightened policy, the end of the day.
SaveBook(t) ==
  /\ At(t, "idle")
  /\ book
  /\ WriteRow(row.ids)
  /\ UNCHANGED <<orders, trade, reservation, book, call>>

\* repair_paper_broker_from_store: when the broker's legs are not those of
\* the row, the row's legs are written over them; others stay.
Repaired == IF row.state = "CLOSED" \/ held = row.legs THEN held ELSE held \cup row.legs

\* The process dies.  The next one replays the log, repairs the broker and
\* restores the trade from its row, unless that is CLOSED.
Crash ==
  /\ cache' = log
  /\ held' = Repaired
  /\ trade' = [state |-> row.state, legs |-> row.legs]
  /\ book' = (row.state # "CLOSED")
  /\ call' = [t \in Threads |-> NoCall]
  /\ UNCHANGED <<log, order, row, reservation>>

\* The steps of a manage_exits call that has begun on an exit.
Step(t) ==
  \/ RequestExit(t) \/ WriteRequest(t) \/ AdoptRecorded(t)
  \/ LookupKnown(t) \/ LookupNew(t) \/ PersistCreated(t) \/ PersistSubmitting(t)
  \/ BrokerSubmits(t) \/ PersistFinal(t)
  \/ RecordIds(t) \/ ApplySent(t) \/ ApplyNothing(t) \/ ApplyFill(t)
  \/ ApplyLastFill(t) \/ ApplyFailed(t) \/ ReleaseCapital(t) \/ Settle(t)

SteadyNext ==
  \E t \in Threads : \/ Judge(t) \/ Resume(t) \/ PlanExit(t) \/ NoPlan(t)
                     \/ Step(t) \/ SaveBook(t)

Next == SteadyNext \/ Crash

Spec == Init /\ [][Next]_vars

\* No process dies.
SteadySpec == Init /\ [][SteadyNext]_vars

\* While a process lives, the session calls manage_exits on every cycle, the
\* call runs to its end, and quotes for every leg keep coming back.
FairSpec ==
  /\ Spec
  /\ \A t \in Threads : WF_vars(Resume(t)) /\ WF_vars(Step(t)) /\ SF_vars(PlanExit(t))

-----------------------------------------------------------------------------

\* The types of the variables; an exit order is in a state of paper trading.
TypeOK ==
  /\ log \in [Legs -> States] /\ cache \in [Legs -> States]
  /\ order \in [Legs -> Outcomes \cup {"NONE"}]
  /\ held \subseteq Legs
  /\ trade \in Trade /\ row \in Row
  /\ reservation \in {"COMMITTED", "RELEASED"}
  /\ book \in BOOLEAN
  /\ call \in [Threads -> CallType]

\* At the broker a short leg is never left while a long that covers it is
\* gone, in any prefix of the exit and of its retries (the comment in
\* submit_plan; liability-first order of _exit_plan).
Covered == held \cap Shorts # {} => Legs \ Shorts \subseteq held

\* What a crash can leave for good: an exit order that the log calls begun and
\* the broker never filled, a leg that the repair brought back at the broker, and
\* capital freed before the close was written.
LeftBehind == \E k \in Legs : log[k] \in {"CREATED", "SUBMITTING"} /\ order[k] # "FILLED"

Phantom == \E k \in held : order[k] = "FILLED"

FreedEarly == reservation = "RELEASED" /\ row.state # "CLOSED"

\* Across crashes these are the only ways to an uncovered short: every other
\* restart goes on buying back shorts before it releases longs.
CoveredUnlessCut == LeftBehind \/ Phantom \/ Covered

\* A closed trade, and freed capital, leave nothing at the broker
\* (SAFETY_INVARIANTS 14 and 16).
ClosedMeansFlat == trade.state = "CLOSED" \/ reservation = "RELEASED" => held = {}

\* Capital is freed, and a leg leaves the trade or its row, only on the
\* broker's own fill of that leg's exit order, across crashes and retries.
ReleasedOnFills ==
  /\ \A k \in Legs : k \notin trade.legs \cap row.legs => order[k] = "FILLED"
  /\ trade.state = "CLOSED" \/ row.state = "CLOSED" \/ reservation = "RELEASED" =>
       \A k \in Legs : order[k] = "FILLED"

\* A row that says CLOSED is of a trade whose capital is free: no crash and no
\* retry path closes the trade and leaks its reservation.
ClosedRowFreesCapital == row.state = "CLOSED" => reservation = "RELEASED"

\* Every exit order id a row names has an event in the log, so adopting it
\* after a restart never finds an order that nobody knows.
RecordedIdsAreLogged == \A k \in row.ids : log[k] # "NONE"

\* Once crashes end, an exit in flight does not stay in flight: it closes
\* durably and frees its capital, or the trade is OPEN again, under its policy
\* (a failed order, a crash before the request was written); only what a crash left behind can hold it up.
ExitSettles ==
  <>[][SteadyNext]_vars =>
    (trade.state \in InFlight ~>
       \/ row.state = "CLOSED" /\ reservation = "RELEASED" /\ ~book
       \/ trade.state = "OPEN" \/ LeftBehind \/ FreedEarly)
=============================================================================
