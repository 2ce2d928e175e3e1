------------------------------- MODULE Sizing -------------------------------
(***************************************************************************)
(* The sizing engines of src/trading/risk/sizing: from the legs of an       *)
(* intent, their quotes and the limits to a cost per lot and a number of    *)
(* lots.  The nine engines share one shape and differ in the loss of a      *)
(* unit, the charges and the terms of the portfolio limit.                  *)
(***************************************************************************)
EXTENDS Payoff

CONSTANTS None,
          LotSize,       \* contracts per lot
          Charges,       \* charges_per_lot
          SlippageParts  \* slippage_buffer_fraction is 1 / SlippageParts

ASSUME SizingAssumption ==
  LotSize \in Nat \ {0} /\ Charges \in Nat /\ SlippageParts \in Nat \ {0} /\ None \notin Int

Structures == {"IRON_CONDOR", "IRON_BUTTERFLY", "LONG_BUTTERFLY", "LONG_STRADDLE", "LONG_STRANGLE",
               "DEBIT_SPREAD", "CREDIT_SPREAD", "COMMODITY_FUTURE", "LONG_OPTION"}

MultiLeg == Structures \ {"COMMODITY_FUTURE", "LONG_OPTION"}

\* Legs of an intent have a kind (FUTURE too), a side, a strike and a ratio; the
\* leg's quote has bid, ask, depth and delta (per lot, or None).
Bought(legs) == {i \in DOMAIN legs : legs[i].side = "BUY"}

Sold(legs) == {i \in DOMAIN legs : legs[i].side = "SELL"}

One(S) == CHOOSE i \in S : \A j \in S : i <= j

Role(legs, kind, side) == One({i \in DOMAIN legs : legs[i].kind = kind /\ legs[i].side = side})

Options(legs) == \A i \in DOMAIN legs : legs[i].kind \in OptionKinds

OneEach(legs) == \A kind \in OptionKinds, side \in Sides :
                    Cardinality({i \in DOMAIN legs : legs[i].kind = kind /\ legs[i].side = side}) = 1

IsCondor(legs) ==
  /\ Len(legs) = 4 /\ Options(legs) /\ OneEach(legs)
  /\ LET at(kind, side) == legs[Role(legs, kind, side)].strike IN
     /\ at("PUT", "BUY") < at("PUT", "SELL") /\ at("PUT", "SELL") < at("CALL", "SELL")
     /\ at("CALL", "SELL") < at("CALL", "BUY")
     /\ at("CALL", "BUY") - at("CALL", "SELL") = at("PUT", "SELL") - at("PUT", "BUY")

IsIronButterfly(legs) ==
  /\ Len(legs) = 4 /\ Options(legs) /\ OneEach(legs)
  /\ LET at(kind, side) == legs[Role(legs, kind, side)].strike IN
     /\ at("PUT", "BUY") < at("PUT", "SELL") /\ at("PUT", "SELL") = at("CALL", "SELL")
     /\ at("CALL", "SELL") < at("CALL", "BUY")

Wings(legs) == LET bought == Bought(legs) IN
  <<CHOOSE i \in bought : \A j \in bought : legs[i].strike <= legs[j].strike,
    CHOOSE i \in bought : \A j \in bought : legs[i].strike >= legs[j].strike>>

IsLongButterfly(legs) ==
  /\ Len(legs) = 3 /\ Options(legs) /\ \A i, j \in 1..3 : legs[i].kind = legs[j].kind
  /\ Cardinality(Bought(legs)) = 2 /\ legs[One(Sold(legs))].ratio = 2
  /\ LET low == legs[Wings(legs)[1]].strike  mid == legs[One(Sold(legs))].strike
         high == legs[Wings(legs)[2]].strike
     IN  low < mid /\ mid < high /\ high - mid = mid - low

IsVolatility(legs) ==
  /\ Len(legs) = 2 /\ Options(legs) /\ Sold(legs) = {} /\ legs[1].kind # legs[2].kind

IsStraddle(legs) == IsVolatility(legs) /\ legs[1].strike = legs[2].strike

IsStrangle(legs) ==
  IsVolatility(legs) /\ legs[Role(legs, "PUT", "BUY")].strike < legs[Role(legs, "CALL", "BUY")].strike

\* is_debit_spread and is_credit_spread look at no ratio.
IsVertical(legs) ==
  /\ Len(legs) = 2 /\ Options(legs) /\ Cardinality(Bought(legs)) = 1
  /\ legs[1].kind = legs[2].kind /\ legs[1].strike # legs[2].strike

BuysTheDearer(legs) ==
  LET buy == legs[One(Bought(legs))]  sell == legs[One(Sold(legs))] IN
  IF buy.kind = "CALL" THEN buy.strike < sell.strike ELSE buy.strike > sell.strike

IsDebitSpread(legs) == IsVertical(legs) /\ BuysTheDearer(legs)

IsCreditSpread(legs) == IsVertical(legs) /\ ~BuysTheDearer(legs)

-----------------------------------------------------------------------------

Ask(quotes, i) == quotes[i].ask

Bid(quotes, i) == quotes[i].bid

\* The loss of a unit, or None where an engine raises a ValueError.
IfPositive(n) == IF n > 0 THEN n ELSE None

Distance(legs, i, j) == Larger(legs[i].strike - legs[j].strike, legs[j].strike - legs[i].strike)

DebitLoss(legs, quotes) ==
  LET long == One(Bought(legs))  short == One(Sold(legs))
      net == Ask(quotes, long) - Bid(quotes, short)
  IN  IF net > 0 /\ net < Distance(legs, long, short) THEN net ELSE None

CreditLoss(legs, quotes) ==
  LET long == One(Bought(legs))  short == One(Sold(legs))
      net == Bid(quotes, short) - Ask(quotes, long)
  IN  IF net > 0 THEN IfPositive(Distance(legs, long, short) - net) ELSE None

WingCredit(legs, quotes, kind) ==
  Bid(quotes, Role(legs, kind, "SELL")) - Ask(quotes, Role(legs, kind, "BUY"))

WingWidth(legs, kind) == Distance(legs, Role(legs, kind, "SELL"), Role(legs, kind, "BUY"))

CondorLoss(legs, quotes) ==
  IF WingCredit(legs, quotes, "CALL") <= 0 \/ WingCredit(legs, quotes, "PUT") <= 0 THEN None
  ELSE IfPositive(Larger(WingWidth(legs, "PUT"), WingWidth(legs, "CALL"))
                    - (WingCredit(legs, quotes, "CALL") + WingCredit(legs, quotes, "PUT")))

\* Mutant: the width is the put wing's, as if the wings were equal.
IronButterflyLossOfPuts(legs, quotes) ==
  LET net == WingCredit(legs, quotes, "CALL") + WingCredit(legs, quotes, "PUT") IN
  IF net <= 0 THEN None ELSE IfPositive(WingWidth(legs, "PUT") - net)

IronButterflyLoss(legs, quotes) ==
  LET net == WingCredit(legs, quotes, "CALL") + WingCredit(legs, quotes, "PUT") IN
  IF net <= 0 THEN None
  ELSE IfPositive(Larger(WingWidth(legs, "PUT"), WingWidth(legs, "CALL")) - net)

ButterflyLoss(legs, quotes) ==
  IfPositive(Ask(quotes, Wings(legs)[1]) + Ask(quotes, Wings(legs)[2])
               - 2 * Bid(quotes, One(Sold(legs))))

VolatilityLoss(legs, quotes) == IfPositive(Ask(quotes, 1) + Ask(quotes, 2))

CeilDiv(n, d) == (n + d - 1) \div d

\* cost_per_lot: the loss of a lot, its slippage buffer and the charges, rounded up.
CostPerLot(loss, charges) ==
  loss * LotSize + CeilDiv(loss * LotSize, SlippageParts) + charges

\* Engines of three legs and more, and of volatility, charge a lot twice.
Twice == 2 * Charges

\* floor_divide_money.
FloorLots(budget, cost) == IF cost <= 0 \/ budget <= 0 THEN 0 ELSE budget \div cost

-----------------------------------------------------------------------------

Smallest(S) == CHOOSE m \in S : \A n \in S : m <= n

\* "10_000" in the code: a term that does not bind.
NoBound == 10000

Magnitude(n) == IF n >= 0 THEN n ELSE -n

Known(quotes, i) == IF quotes[i].delta = None THEN 0 ELSE quotes[i].delta

Blind(quotes) == \E i \in DOMAIN quotes : quotes[i].delta = None

\* _delta_limit_lots, from the delta of a lot.
DeltaLots(net, headroom) ==
  IF net = 0 THEN NoBound ELSE Larger(headroom \div Magnitude(net), 0)

PremiumLots(limits, loss, charges) == FloorLots(limits.premium, CostPerLot(loss, charges))

ConcentrationLots(limits, loss) == FloorLots(limits.concentration, loss * LotSize)

\* The lots of a trade are compared with the trades that may still be opened.
WithSlots(limits, terms) == IF limits.slots <= 0 THEN 0 ELSE Smallest(terms \cup {limits.slots})

LiquidityLots(legs, quotes) ==
  IF \E i \in DOMAIN legs : quotes[i].depth = None THEN NoBound
  ELSE Smallest({quotes[i].depth \div legs[i].ratio : i \in DOMAIN legs}) \div LotSize

\* What the broker is asked the margin of: a quantity of contracts for a leg.
Asked(leg, ratio) == [leg |-> leg, qty |-> ratio * LotSize]

-----------------------------------------------------------------------------

\* _portfolio_limit_lots of each engine.  Two of them add the deltas of the legs
\* whatever their side.
DebitPortfolio(legs, quotes, loss, limits) ==
  WithSlots(limits, {PremiumLots(limits, loss, Charges), ConcentrationLots(limits, loss),
                     IF Blind(quotes) THEN NoBound
                     ELSE DeltaLots(Known(quotes, One(Bought(legs))) - Known(quotes, One(Sold(legs))),
                                    limits.headroom)})

CreditPortfolio(quotes, loss, limits) ==
  WithSlots(limits, {PremiumLots(limits, loss, Charges), ConcentrationLots(limits, loss),
                     IF Blind(quotes) THEN NoBound
                     ELSE DeltaLots(Known(quotes, 1) + Known(quotes, 2), limits.headroom)})

CondorPortfolio(quotes, loss, limits) ==
  WithSlots(limits, {PremiumLots(limits, loss, Twice), ConcentrationLots(limits, loss),
                     DeltaLots(Sum([i \in DOMAIN quotes |-> Known(quotes, i)]), limits.headroom)})

IronButterflyPortfolio(loss, limits) ==
  WithSlots(limits, {PremiumLots(limits, loss, Twice), ConcentrationLots(limits, loss)})

ButterflyPortfolio(loss, limits) ==
  WithSlots(limits, {PremiumLots(limits, loss, Twice), ConcentrationLots(limits, loss)})

VolatilityPortfolio(loss, limits) ==
  WithSlots(limits, {PremiumLots(limits, loss, Twice), ConcentrationLots(limits, loss)})

LongOptionPortfolio(quotes, loss, limits) ==
  WithSlots(limits, {PremiumLots(limits, loss, Charges), ConcentrationLots(limits, loss),
                     DeltaLots(Known(quotes, 1), limits.headroom)})

FuturePortfolio(quotes, loss, limits) ==
  WithSlots(limits, {ConcentrationLots(limits, loss), DeltaLots(Known(quotes, 1), limits.headroom)})

-----------------------------------------------------------------------------

\* _margin_lots of each engine: the legs that it asks the margin of.
DebitAsked(legs) == {Asked(One(Bought(legs)), 1), Asked(One(Sold(legs)), 1)}

CreditAsked(legs) == {Asked(One(Sold(legs)), 1), Asked(One(Bought(legs)), 1)}

CondorAsked(legs) == {Asked(Role(legs, kind, side), 1) : kind \in OptionKinds, side \in Sides}

IronButterflyAsked(legs) == {Asked(Role(legs, kind, side), 1) : kind \in OptionKinds, side \in Sides}

\* Mutant: the body is asked for as if it were a wing.
ButterflyAskedEven(legs) ==
  {Asked(Wings(legs)[1], 1), Asked(Wings(legs)[2], 1), Asked(One(Sold(legs)), 1)}

ButterflyAsked(legs) ==
  {Asked(Wings(legs)[1], 1), Asked(Wings(legs)[2], 1),
   Asked(One(Sold(legs)), legs[One(Sold(legs))].ratio)}

VolatilityAsked(legs) == {Asked(Role(legs, kind, "BUY"), 1) : kind \in OptionKinds}

SingleAsked == {Asked(1, 1)}

-----------------------------------------------------------------------------

\* The result of an engine, or None for its ValueError.  limits.trade, daily,
\* allocation and margin are SizingLimits; preview is the broker's margin for
\* one lot, zero when it is not confirmed.
Bounds(legs, quotes, cost, portfolio, limits, preview) ==
  [risk      |-> FloorLots(limits.trade, cost),
   capital   |-> FloorLots(Smallest({limits.allocation, limits.margin, limits.daily}), cost),
   margin    |-> FloorLots(limits.margin, preview),
   portfolio |-> portfolio,
   liquidity |-> LiquidityLots(legs, quotes)]

ApprovedLots(bounds) == Smallest({bounds[term] : term \in DOMAIN bounds})

SizedBy(asked, cost, bounds, preview) ==
  LET lots == ApprovedLots(bounds) IN
  [lots |-> lots, bounds |-> bounds, asked |-> asked, cost |-> cost, loss |-> cost * lots,
   margin |-> IF lots > 0 THEN preview * lots ELSE 0]

SizeDebit(legs, quotes, limits, preview) ==
  LET loss == DebitLoss(legs, quotes)  cost == CostPerLot(loss, Charges) IN
  IF loss = None THEN None
  ELSE SizedBy(DebitAsked(legs), cost,
               Bounds(legs, quotes, cost, DebitPortfolio(legs, quotes, loss, limits), limits, preview),
               preview)

SizeCredit(legs, quotes, limits, preview) ==
  LET loss == CreditLoss(legs, quotes)  cost == CostPerLot(loss, Charges) IN
  IF loss = None THEN None
  ELSE SizedBy(CreditAsked(legs), cost,
               Bounds(legs, quotes, cost, CreditPortfolio(quotes, loss, limits), limits, preview),
               preview)

SizeCondor(legs, quotes, limits, preview) ==
  LET loss == CondorLoss(legs, quotes)  cost == CostPerLot(loss, Twice) IN
  IF loss = None THEN None
  ELSE SizedBy(CondorAsked(legs), cost,
               Bounds(legs, quotes, cost, CondorPortfolio(quotes, loss, limits), limits, preview),
               preview)

SizeIronButterfly(legs, quotes, limits, preview) ==
  LET loss == IronButterflyLoss(legs, quotes)  cost == CostPerLot(loss, Twice) IN
  IF loss = None THEN None
  ELSE SizedBy(IronButterflyAsked(legs), cost,
               Bounds(legs, quotes, cost, IronButterflyPortfolio(loss, limits), limits, preview),
               preview)

SizeButterfly(legs, quotes, limits, preview) ==
  LET loss == ButterflyLoss(legs, quotes)  cost == CostPerLot(loss, Twice) IN
  IF loss = None THEN None
  ELSE SizedBy(ButterflyAsked(legs), cost,
               Bounds(legs, quotes, cost, ButterflyPortfolio(loss, limits), limits, preview),
               preview)

SizeVolatility(legs, quotes, limits, preview) ==
  LET loss == VolatilityLoss(legs, quotes)  cost == CostPerLot(loss, Twice) IN
  IF loss = None THEN None
  ELSE SizedBy(VolatilityAsked(legs), cost,
               Bounds(legs, quotes, cost, VolatilityPortfolio(loss, limits), limits, preview),
               preview)

\* A future's unit loses its stop distance.
SizeFuture(legs, quotes, stop, limits, preview) ==
  LET cost == CostPerLot(stop, Charges) IN
  SizedBy(SingleAsked, cost,
          Bounds(legs, quotes, cost, FuturePortfolio(quotes, stop, limits), limits, preview), preview)

SizeLongOption(legs, quotes, limits, preview) ==
  LET loss == Ask(quotes, 1)  cost == CostPerLot(loss, Charges) IN
  SizedBy(SingleAsked, cost,
          Bounds(legs, quotes, cost, LongOptionPortfolio(quotes, loss, limits), limits, preview), preview)

\* _compute_sizing_outcome, which asks the engine of the structure.
SpreadSized(structure, legs, quotes, limits, preview) ==
  CASE structure = "DEBIT_SPREAD" -> SizeDebit(legs, quotes, limits, preview)
    [] structure = "CREDIT_SPREAD" -> SizeCredit(legs, quotes, limits, preview)
    [] structure = "IRON_CONDOR" -> SizeCondor(legs, quotes, limits, preview)

BasketSized(structure, legs, quotes, limits, preview) ==
  CASE structure = "IRON_BUTTERFLY" -> SizeIronButterfly(legs, quotes, limits, preview)
    [] structure = "LONG_BUTTERFLY" -> SizeButterfly(legs, quotes, limits, preview)
    [] structure \in {"LONG_STRADDLE", "LONG_STRANGLE"} -> SizeVolatility(legs, quotes, limits, preview)

Sized(structure, legs, quotes, stop, limits, preview) ==
  CASE structure = "COMMODITY_FUTURE" -> SizeFuture(legs, quotes, stop, limits, preview)
    [] structure = "LONG_OPTION" -> SizeLongOption(legs, quotes, limits, preview)
    [] structure \in {"DEBIT_SPREAD", "CREDIT_SPREAD", "IRON_CONDOR"} ->
         SpreadSized(structure, legs, quotes, limits, preview)
    [] OTHER -> BasketSized(structure, legs, quotes, limits, preview)

=============================================================================
