----------------------------- MODULE RiskGateway ----------------------------
(***************************************************************************)
(* From intents to order plans, for one mode: RiskGateway.evaluate with its *)
(* gates, sizing, limits and reservation under both entry profiles, and     *)
(* OrderPlanner.build.  The intents of a cycle are all judged against the   *)
(* broker snapshot that was taken before the first of them was entered,     *)
(* while the mode's ledger is live.                                         *)
(***************************************************************************)
EXTENDS Sizing

CONSTANTS Requests,      \* what evaluate may be asked: an offer (the intent and its quotes,
                         \* [legs, quotes, stop]), the broker's margin for one lot (0: not
                         \* confirmed) and the gates that the request fails
          Accounts,      \* what the policies and the broker leave the mode
          ShortFutures,  \* allow_stop_bounded_futures_short
          MaxLots,       \* max_lots_per_trade
          Spots,         \* where the underlying may end
          MaxTrades,     \* bound: trades entered
          MaxRefusals    \* bound: plans refused

ASSUME GatewayAssumption ==
  /\ ShortFutures \in BOOLEAN /\ MaxLots \in Nat \ {0} /\ MaxTrades \in 0..4
  /\ MaxRefusals \in Nat /\ Spots \subseteq Int

\* Strategies buy and sell one of each leg, and two of a butterfly's body.  A book
\* has whole prices, and a depth and a delta or not.
ASSUME RequestsAssumption ==
  \A r \in Requests :
    LET legs == r.offer.legs  quotes == r.offer.quotes IN
    /\ Len(legs) \in Nat \ {0} /\ DOMAIN legs = 1..Len(legs) /\ DOMAIN quotes = DOMAIN legs
    /\ \A i \in DOMAIN legs :
         /\ legs[i].kind \in OptionKinds \cup {"FUTURE"} /\ legs[i].side \in Sides
         /\ legs[i].strike \in Nat
         /\ legs[i].ratio = IF Len(legs) = 3 /\ legs[i].side = "SELL" THEN 2 ELSE 1
         /\ quotes[i].bid \in Nat /\ quotes[i].ask \in Nat
         /\ quotes[i].depth \in Nat \cup {None} /\ quotes[i].delta \in Int \cup {None}
    /\ r.offer.stop \in Nat /\ r.preview \in Nat

\* The underlying ends at a price from zero on, every strike being one, and of two
\* options of one kind strategies buy the one and sell the other.
ASSUME SpotsAssumption ==
  /\ Spots \subseteq Nat /\ 0 \in Spots
  /\ \A r \in Requests :
       LET legs == r.offer.legs IN
       /\ \A i \in DOMAIN legs : legs[i].strike \in Spots
       /\ Len(legs) = 2 /\ legs[1].kind = legs[2].kind => legs[1].side # legs[2].side

ASSUME AccountsAssumption ==
  Accounts \subseteq [profile : {"STRICT", "DISCOVERY"}, capital : Nat, trade : Nat, daily : Nat,
                      open : Nat, global : Nat, premium : Nat, concentration : Nat, slots : Nat,
                      headroom : Nat, broker : Nat, guide : Nat, bug : Nat]

VARIABLES
  account,  \* the limits: fixed, with the entry profile
  snap,     \* the cycle's portfolio snapshot: positions and free margin
  held,     \* open risk of the mode: its reservations and its filled margin
  trades,   \* the trades entered: their legs and the margin required
  spent,    \* cycle_margin_acc
  offer,    \* the intent in hand
  decision, \* the RiskDecision on it
  plan,     \* the leg of each planned order, in the order of submission
  refusals

vars == <<account, snap, held, trades, spent, offer, decision, plan, refusals>>

Discovery == account.profile = "DISCOVERY"

NoOffer == [legs |-> <<>>, quotes |-> <<>>, stop |-> 0]

Rejected(reason) == [action |-> "REJECT", reason |-> reason, structure |-> None, order |-> <<>>,
                     lots |-> 0, cost |-> 0, loss |-> 0, margin |-> 0, asked |-> {}, shadow |-> {}]

Init ==
  /\ account \in Accounts
  /\ snap = [positions |-> 0, margin |-> account.broker]
  /\ held = 0
  /\ trades = <<>>
  /\ spent = 0
  /\ offer = NoOffer
  /\ decision = Rejected("NONE")
  /\ plan = <<>>
  /\ refusals = 0

-----------------------------------------------------------------------------

\* _detect_structure; a single SELL option is no structure at all.
Detected(legs) ==
  CASE IsCondor(legs) -> "IRON_CONDOR"
    [] ~IsCondor(legs) /\ IsIronButterfly(legs) -> "IRON_BUTTERFLY"
    [] IsLongButterfly(legs) -> "LONG_BUTTERFLY"
    [] IsStraddle(legs) -> "LONG_STRADDLE"
    [] IsStrangle(legs) -> "LONG_STRANGLE"
    [] IsDebitSpread(legs) -> "DEBIT_SPREAD"
    [] IsCreditSpread(legs) -> "CREDIT_SPREAD"
    [] Len(legs) = 1 /\ legs[1].kind = "FUTURE" -> "COMMODITY_FUTURE"
    [] Len(legs) = 1 /\ legs[1].kind \in OptionKinds /\ legs[1].side = "BUY" -> "LONG_OPTION"
    [] OTHER -> None

\* _short_is_admissible.
Admissible(structure, legs) ==
  \/ Sold(legs) = {} \/ structure \in MultiLeg
  \/ structure = "COMMODITY_FUTURE" /\ ShortFutures

\* The gates in the code's order.  A constraint of the strategy is soft in DISCOVERY.
Gates(structure, legs, flaws) ==
  <<<<"expired" \in flaws, "DECISION_EXPIRED">>,
    <<"snapshot" \in flaws, "SNAPSHOT_MISMATCH">>,
    <<"quality" \in flaws, "DATA_STALE">>,
    <<"constraint" \in flaws /\ ~Discovery, "EVENT_BLACKOUT">>,
    <<"nifty" \in flaws, "NON_NIFTY_EXECUTION_REJECTED">>,
    <<structure = None, "INSTRUMENT_UNKNOWN">>,
    <<"family" \in flaws, "MODE_FAMILY_NOT_PERMITTED">>,
    <<~Admissible(structure, legs), "RISK_LIMIT_TRADE">>,
    <<"wide" \in flaws, "SPREAD_TOO_WIDE">>,
    <<"bundle" \in flaws /\ structure \in MultiLeg, "DATA_STALE">>>>

\* The first gate that a request fails.
Screen(structure, legs, flaws) ==
  LET gates  == Gates(structure, legs, flaws)
      failed == {i \in DOMAIN gates : gates[i][1]}
  IN  IF failed = {} THEN "OK" ELSE gates[Least(failed)][2]

-----------------------------------------------------------------------------

\* ModeLedger.available_capital.
Available == Above(account.capital - held)

\* build_sizing_limits for a mode; the account's terms come from the snapshot, in
\* which every leg takes a slot (open_trade_slots).
Limits == [trade |-> account.trade, daily |-> account.daily,
           allocation |-> Available, margin |-> Available,
           premium |-> account.premium, concentration |-> account.concentration,
           slots |-> Above(account.slots - snap.positions), headroom |-> account.headroom]

\* evaluate_pre_trade_limits: the names of the limits that a loss would breach.
Breached(loss) ==
  {limit \in {"trade", "daily", "allocation", "premium", "concentration"} : loss > Limits[limit]}
  \cup (IF Limits.slots = 0 THEN {"slots"} ELSE {})
  \cup (IF held + loss > account.open THEN {"open"} ELSE {})
  \cup (IF held + loss > account.global THEN {"global"} ELSE {})

\* CapitalReservationLedger.try_reserve with the mode's margin, then FourModeBook's:
\* the first compares what is held with what is left after it is held.
Granted(loss) ==
  IF Discovery THEN held + loss <= Larger(Available, 100 * account.capital)
  ELSE held + loss <= Available /\ loss <= Available /\ held + loss <= account.global

\* Approved legs in the order in which they will be submitted.
\* Mutant: the short leg of a credit spread goes out first.
ShortLegFirst(structure, legs) ==
  IF structure = "CREDIT_SPREAD" THEN <<One(Sold(legs)), One(Bought(legs))>>
  ELSE <<1>>

ApprovedLegs(structure, legs) ==
  CASE structure \in {"DEBIT_SPREAD", "CREDIT_SPREAD"} -> <<One(Bought(legs)), One(Sold(legs))>>
    [] structure = "IRON_CONDOR" -> <<Role(legs, "PUT", "BUY"), Role(legs, "PUT", "SELL"),
                                      Role(legs, "CALL", "BUY"), Role(legs, "CALL", "SELL")>>
    [] structure = "IRON_BUTTERFLY" -> <<Role(legs, "PUT", "BUY"), Role(legs, "CALL", "BUY"),
                                         Role(legs, "PUT", "SELL"), Role(legs, "CALL", "SELL")>>
    [] structure = "LONG_BUTTERFLY" -> Append(Wings(legs), One(Sold(legs)))
    [] structure \in {"LONG_STRADDLE", "LONG_STRANGLE"} ->
         <<Role(legs, "PUT", "BUY"), Role(legs, "CALL", "BUY")>>
    [] OTHER -> <<1>>

\* The legs that the margin was asked of: the engine's, or when DISCOVERY takes one
\* lot where the engine found none, those of the intent (_preview_one_lot_margin).
MarginAsked(legs, sized) ==
  IF Discovery /\ sized.lots = 0 THEN {Asked(i, legs[i].ratio) : i \in DOMAIN legs} ELSE sized.asked

Approved(structure, legs, lots, sized, margin, shadow) ==
  [action |-> "APPROVE", reason |-> "OK", structure |-> structure,
   order |-> ApprovedLegs(structure, legs), lots |-> lots, cost |-> sized.cost,
   loss |-> sized.cost * lots, margin |-> margin, asked |-> MarginAsked(legs, sized),
   shadow |-> shadow]

-----------------------------------------------------------------------------

\* DISCOVERY sizes again, from one lot up: the guide, the open risk, the broker's
\* margin and the lot cap shrink a trade, never below one lot.
GuideLots(cost, margin) == Larger(1, FloorLots(account.guide, Larger(cost, margin)))

Remaining == account.open - held

\* Mutant: the open risk of the mode is not counted.
CappedByBook(lots, cost) ==
  IF cost > account.bug \/ Remaining <= 0 THEN 1
  ELSE Smallest({lots, Larger(1, FloorLots(account.open, cost))})

CapLots(lots, cost) ==
  IF cost > account.bug \/ Remaining <= 0 THEN 1
  ELSE Smallest({lots, Larger(1, FloorLots(Remaining, cost))})

FreeMargin == Above(snap.margin - spent)

MarginLots(lots, margin) ==
  IF margin = 0 THEN 1 ELSE Smallest({lots, Larger(1, FloorLots(FreeMargin, margin))})

\* What an unconfirmed margin is replaced with.
MarginRequired(lots, cost, margin) == IF margin = 0 THEN cost * lots ELSE margin * lots

DiscoveryLots(cost, margin) ==
  Smallest({MarginLots(CapLots(GuideLots(cost, margin), cost), margin), MaxLots})

\* strict_would_block.
Shadow(flaws, lots, cost, margin) ==
  (IF "constraint" \in flaws THEN {"EVENT_BLACKOUT"} ELSE {})
  \cup (IF cost > account.bug THEN {"RISK_LIMIT_TRADE"} ELSE {})
  \cup (IF held + cost * lots > account.open \/ Remaining <= 0 THEN {"RISK_LIMIT_PORTFOLIO"} ELSE {})
  \cup (IF MarginRequired(lots, cost, margin) > FreeMargin THEN {"MARGIN_OVERSUBSCRIBED"} ELSE {})
  \cup Breached(cost * lots)

\* What evaluate does with a sizing: limits, paper requirements, reservation.
Decision(structure, legs, sized, preview, flaws) ==
  LET lots == IF Discovery THEN DiscoveryLots(sized.cost, preview) ELSE sized.lots
      loss == sized.cost * lots
      margin == IF Discovery THEN MarginRequired(lots, sized.cost, preview) ELSE sized.margin
  IN  IF lots = 0 THEN Rejected("MIN_LOT_EXCEEDS_BUDGET")
      ELSE IF ~Discovery /\ Breached(loss) # {} THEN Rejected("RISK_LIMIT_PORTFOLIO")
      ELSE IF "p0" \in flaws THEN Rejected("DATA_GAP")
      ELSE IF ~Granted(loss) THEN Rejected("CAPITAL_UNAVAILABLE")
      ELSE Approved(structure, legs, lots, sized, margin,
                    IF Discovery THEN Shadow(flaws, lots, sized.cost, preview) ELSE {})

\* evaluate: the intent in hand is decided, and its capital reserved.
Judge(o, preview, flaws) ==
  LET structure == Detected(o.legs)
      verdict   == Screen(structure, o.legs, flaws)
      sized     == Sized(structure, o.legs, o.quotes, o.stop, Limits, preview)
  IN  IF verdict # "OK" THEN Rejected(verdict)
      ELSE IF sized = None THEN Rejected("PRICE_UNAVAILABLE")
      ELSE Decision(structure, o.legs, sized, preview, flaws)

Evaluate ==
  /\ offer = NoOffer /\ Len(trades) < MaxTrades
  /\ \E r \in Requests :
       LET d == Judge(r.offer, r.preview, r.flaws) IN
       /\ offer' = r.offer
       /\ decision' = d
       /\ held' = held + d.loss
       /\ spent' = IF Discovery THEN spent + d.margin ELSE spent
  /\ plan' = <<>>
  /\ UNCHANGED <<account, snap, trades, refusals>>

\* The loop of the cycle goes on with the next intent.
NextIntent ==
  /\ decision.action = "REJECT" /\ offer # NoOffer
  /\ offer' = NoOffer /\ decision' = Rejected("NONE")
  /\ UNCHANGED <<account, snap, held, trades, spent, plan, refusals>>

\* The plan's orders, each at the ask or the bid of its leg.
Build ==
  /\ decision.action = "APPROVE" /\ plan = <<>>
  /\ plan' = decision.order
  /\ UNCHANGED <<account, snap, held, trades, spent, offer, decision, refusals>>

\* build_broker_snapshot: a position for every leg; the broker is taken to charge
\* the margin that was required.
Snapshot == [positions |-> Sum([i \in DOMAIN trades |-> trades[i].legs]),
             margin |-> Above(account.broker - Sum([i \in DOMAIN trades |-> trades[i].margin]))]

\* A PlannerError (the decision or the intent has expired, a quote is missing):
\* nothing catches it, so the cycle and the process end; the hold is not released.
PlannerRefuses ==
  /\ decision.action = "APPROVE" /\ plan = <<>> /\ refusals < MaxRefusals
  /\ offer' = NoOffer /\ decision' = Rejected("NONE")
  /\ snap' = Snapshot /\ spent' = 0 /\ refusals' = refusals + 1
  /\ UNCHANGED <<account, held, trades, plan>>

\* The plan is submitted, and the trade is open.
Enter ==
  /\ plan # <<>>
  /\ trades' = Append(trades, [legs |-> Len(plan), margin |-> decision.margin])
  /\ offer' = NoOffer /\ decision' = Rejected("NONE") /\ plan' = <<>>
  /\ UNCHANGED <<account, snap, held, spent, refusals>>

\* The next cycle begins with a new snapshot of the broker.
NextCycle ==
  /\ offer = NoOffer /\ snap # Snapshot
  /\ snap' = Snapshot
  /\ spent' = 0
  /\ UNCHANGED <<account, held, trades, offer, decision, plan, refusals>>

Next == Evaluate \/ NextIntent \/ Build \/ PlannerRefuses \/ Enter \/ NextCycle

Spec == Init /\ [][Next]_vars

-----------------------------------------------------------------------------

\* The legs of the intent in hand at the prices that its orders will carry.
Entered == [i \in DOMAIN offer.legs |->
              [kind |-> offer.legs[i].kind, side |-> offer.legs[i].side,
               strike |-> offer.legs[i].strike, qty |-> offer.legs[i].ratio,
               premium |-> IF offer.legs[i].side = "BUY" THEN Ask(offer.quotes, i) ELSE Bid(offer.quotes, i)]]

\* What an approved option trade can lose at expiry, charges included, is what was
\* reserved for it, wherever the underlying ends (the docstring of the gateway).
LossCovered ==
  decision.action = "APPROVE" /\ decision.structure # "COMMODITY_FUTURE" =>
    \A spot \in Spots :
      (Pnl(spot, Entered) * LotSize - Charges) * decision.lots >= -decision.loss

\* STRICT never passes a limit of the mode, however many intents a cycle has;
\* DISCOVERY passes its guide, its open risk or the broker's margin by one lot.
LimitsKept ==
  /\ ~Discovery => held <= account.open /\ held <= account.global /\ held <= account.capital
  /\ decision.action = "APPROVE" =>
       IF Discovery
         THEN decision.lots > 1 => /\ decision.loss <= account.guide /\ held <= account.open
                                   /\ spent <= snap.margin /\ decision.lots <= MaxLots
         ELSE decision.loss <= account.trade /\ decision.loss <= account.daily

\* Submitted one after the other, the orders of a plan never leave an option sold
\* that no bought option of its kind covers, wherever the submission stops.
PrefixCovered ==
  \A n \in DOMAIN plan, kind \in OptionKinds :
    LET qty(side) == Sum([i \in 1..n |-> LET leg == offer.legs[plan[i]] IN
                            IF leg.kind = kind /\ leg.side = side THEN leg.ratio ELSE 0])
    IN  qty("SELL") <= qty("BUY")

\* What the broker was asked the margin of is what the plan orders: engines, the
\* gateway's own preview and its approved legs each list the legs and ratios anew,
\* and a leg or a ratio left out would approve a trade the account cannot carry.
MarginOfPlan ==
  decision.action = "APPROVE" =>
    decision.asked = {Asked(i, offer.legs[i].ratio) : i \in {decision.order[n] : n \in DOMAIN decision.order}}

\* The payoff report's kinks find the worst outcome of any legs whose loss is
\* bounded, and a family's closed formula differs from them only where it names a
\* negative profit.  The report knows nothing but the intent: the first will do.
PayoffIsWorst ==
  offer # NoOffer /\ trades = <<>> /\ Options(offer.legs) /\ BoundedLoss(Entered) =>
    /\ GenericLoss(Entered, LotSize, Charges)
         = Above(Charges - LotSize * Least({Pnl(spot, Entered) : spot \in Spots}))
    /\ \A family \in Families :
         Status(family, Entered, LotSize, Charges) = "FORMULA_MISMATCH"
           => FormulaProfit(family, Entered, LotSize, Charges) < 0

\* What evaluate_pre_trade_limits says of the account's cap on concurrent trades
\* ("Fail closed when a hard limit would be breached by the proposed trade"); the
\* second intent of a cycle does not see the first.
SlotsKept == Discovery \/ Len(trades) <= account.slots

=============================================================================
