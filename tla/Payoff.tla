------------------------------- MODULE Payoff -------------------------------
(***************************************************************************)
(* What an option structure is worth at expiry: the kink and slope          *)
(* analysis of evaluate_same_expiry_payoff and the closed formulas it is    *)
(* cross-checked with.  Amounts are whole ticks, so that the rounding of    *)
(* Money to paise has nothing to round.                                     *)
(***************************************************************************)
EXTENDS Integers, Sequences, FiniteSets

Sides == {"BUY", "SELL"}

OptionKinds == {"CALL", "PUT"}

Legs == [kind : OptionKinds, side : Sides, strike : Nat \ {0}, premium : Nat, qty : Nat \ {0}]

Above(n) == IF n > 0 THEN n ELSE 0

Larger(a, b) == IF a >= b THEN a ELSE b

Least(S) == CHOOSE m \in S : \A n \in S : m <= n

Greatest(S) == CHOOSE m \in S : \A n \in S : n <= m

Signed(leg) == IF leg.side = "BUY" THEN leg.qty ELSE -leg.qty

Intrinsic(spot, leg) ==
  IF leg.kind = "CALL" THEN Above(spot - leg.strike) ELSE Above(leg.strike - spot)

At(values, i) == IF i \in DOMAIN values THEN values[i] ELSE 0

\* Over the legs: no structure of the program has more than four.
Sum(values) == At(values, 1) + At(values, 2) + At(values, 3) + At(values, 4)

LegPnl(spot, leg) == Signed(leg) * (Intrinsic(spot, leg) - leg.premium)

\* _evaluate_pnl_at_spot: the P&L of one unit of the structure.
Pnl(spot, legs) == Sum([i \in DOMAIN legs |-> LegPnl(spot, legs[i])])

\* _compute_tail_slopes.
UpperSlope(legs) == Sum([i \in DOMAIN legs |-> IF legs[i].kind = "CALL" THEN Signed(legs[i]) ELSE 0])

BoundedLoss(legs) == UpperSlope(legs) >= 0

\* Mutant: the spot zero, where puts end, is forgotten.
KinksAtStrikes(legs) == {legs[i].strike : i \in DOMAIN legs}

Kinks(legs) == {0} \cup {legs[i].strike : i \in DOMAIN legs}

Totals(legs, contracts, charges) == {Pnl(s, legs) * contracts - charges : s \in Kinks(legs)}

GenericLoss(legs, contracts, charges) == Above(-Least(Totals(legs, contracts, charges)))

GenericProfit(legs, contracts, charges) == Above(Greatest(Totals(legs, contracts, charges)))

-----------------------------------------------------------------------------

Verticals == {"bull_call_debit", "bear_put_debit", "bull_put_credit", "bear_call_credit"}

Butterflies == {"long_call_butterfly", "long_put_butterfly"}

Condor == "short_iron_condor_defined"

IronButterfly == "short_iron_butterfly_defined"

Families == Verticals \cup Butterflies \cup {Condor, IronButterfly, "long_straddle", "long_strangle"}

\* A formula's answer: not recognised, a ValueError, or a loss and a profit per unit.
Unmatched == [verdict |-> "unmatched", loss |-> 0, profit |-> 0]

Invalid == [verdict |-> "raises", loss |-> 0, profit |-> 0]

Found(loss, profit) == [verdict |-> "matched", loss |-> loss, profit |-> profit]

Of(legs, kind, side) == {i \in DOMAIN legs : legs[i].kind = kind /\ legs[i].side = side}

TheLeg(legs, kind, side) == legs[Least(Of(legs, kind, side))]

\* The four verticals: two legs told apart by the side of the first.
Vertical(family, legs) ==
  LET first == IF family \in {"bull_call_debit", "bear_put_debit"} THEN "BUY" ELSE "SELL"
      one   == IF legs[1].side = first THEN legs[1] ELSE legs[2]
      other == IF legs[1].side = first THEN legs[2] ELSE legs[1]
      buy   == IF first = "BUY" THEN one ELSE other
      sell  == IF first = "BUY" THEN other ELSE one
      kind  == IF family \in {"bull_call_debit", "bear_call_credit"} THEN "CALL" ELSE "PUT"
      width == Larger(buy.strike - sell.strike, sell.strike - buy.strike)
      net   == IF first = "BUY" THEN buy.premium - sell.premium ELSE sell.premium - buy.premium
  IN
  IF ~(buy.kind = kind /\ sell.kind = kind
       /\ IF family \in {"bull_call_debit", "bull_put_credit"}
            THEN buy.strike < sell.strike ELSE buy.strike > sell.strike)
    THEN Unmatched
  ELSE IF net <= 0 \/ net >= width THEN Invalid
  ELSE IF first = "BUY" THEN Found(net, width - net) ELSE Found(width - net, net)

Butterfly(legs) ==
  LET buys == {i \in DOMAIN legs : legs[i].side = "BUY"}
      body == legs[CHOOSE i \in DOMAIN legs : legs[i].side = "SELL"]
      low  == legs[CHOOSE i \in buys : \A j \in buys : legs[i].strike <= legs[j].strike]
      high == legs[CHOOSE i \in buys : \A j \in buys : legs[i].strike >= legs[j].strike]
      net  == low.premium - 2 * body.premium + high.premium
  IN
  IF ~(/\ Len(legs) = 3 /\ Cardinality(buys) = 2 /\ Cardinality({leg.kind : leg \in {legs[i] : i \in 1..3}}) = 1
       /\ body.qty = 2 /\ low.strike < body.strike /\ body.strike < high.strike
       /\ high.strike - body.strike = body.strike - low.strike)
    THEN Unmatched
  ELSE IF net <= 0 THEN Invalid ELSE Found(net, (body.strike - low.strike) - net)

\* Mutant: the narrower wing bounds the loss.
ShieldedByNarrow(family, legs) ==
  LET lp == TheLeg(legs, "PUT", "BUY")   sp == TheLeg(legs, "PUT", "SELL")
      sc == TheLeg(legs, "CALL", "SELL") lc == TheLeg(legs, "CALL", "BUY")
      wing == Least({sp.strike - lp.strike, lc.strike - sc.strike})
      net  == (sp.premium + sc.premium) - (lp.premium + lc.premium)
  IN
  IF ~(/\ \A kind \in OptionKinds, side \in Sides : Cardinality(Of(legs, kind, side)) = 1
       /\ lp.strike < sp.strike /\ sc.strike < lc.strike
       /\ IF family = Condor THEN sp.strike < sc.strike ELSE sp.strike = sc.strike)
    THEN Unmatched
  ELSE IF net <= 0 \/ net >= wing THEN Invalid ELSE Found(wing - net, net)

\* The iron condor and, with one strike in the middle, the iron butterfly.
Shielded(family, legs) ==
  LET lp == TheLeg(legs, "PUT", "BUY")   sp == TheLeg(legs, "PUT", "SELL")
      sc == TheLeg(legs, "CALL", "SELL") lc == TheLeg(legs, "CALL", "BUY")
      wing == Larger(sp.strike - lp.strike, lc.strike - sc.strike)
      net  == (sp.premium + sc.premium) - (lp.premium + lc.premium)
  IN
  IF ~(/\ \A kind \in OptionKinds, side \in Sides : Cardinality(Of(legs, kind, side)) = 1
       /\ lp.strike < sp.strike /\ sc.strike < lc.strike
       /\ IF family = Condor THEN sp.strike < sc.strike ELSE sp.strike = sc.strike)
    THEN Unmatched
  ELSE IF net <= 0 \/ net >= wing THEN Invalid ELSE Found(wing - net, net)

\* The straddle and the strangle; their profit is unbounded and reported as zero.
Volatility(family, legs) ==
  LET call == TheLeg(legs, "CALL", "BUY")  put == TheLeg(legs, "PUT", "BUY") IN
  IF ~(/\ \A kind \in OptionKinds : Cardinality(Of(legs, kind, "BUY")) = 1
       /\ IF family = "long_straddle" THEN call.strike = put.strike ELSE put.strike < call.strike)
    THEN Unmatched
  ELSE IF call.premium + put.premium <= 0 THEN Invalid
  ELSE Found(call.premium + put.premium, 0)

\* _compute_formula_payoff, per unit.
Formula(family, legs) ==
  CASE family \in Verticals /\ Len(legs) = 2 -> Vertical(family, legs)
    [] family \in Butterflies -> Butterfly(legs)
    [] family \in {Condor, IronButterfly} /\ Len(legs) = 4 -> Shielded(family, legs)
    [] family \in {"long_straddle", "long_strangle"} /\ Len(legs) = 2 -> Volatility(family, legs)
    [] OTHER -> Unmatched

FormulaLoss(family, legs, contracts, charges) == Formula(family, legs).loss * contracts + charges

FormulaProfit(family, legs, contracts, charges) ==
  IF family \in {"long_straddle", "long_strangle"} THEN 0
  ELSE Formula(family, legs).profit * contracts - charges

\* The status of the report; a ValueError of the formula leaves evaluate itself.
Status(family, legs, contracts, charges) ==
  LET f == Formula(family, legs)
      agrees == /\ GenericLoss(legs, contracts, charges) = FormulaLoss(family, legs, contracts, charges)
                /\ UpperSlope(legs) > 0 \/ GenericProfit(legs, contracts, charges)
                                            = FormulaProfit(family, legs, contracts, charges)
  IN
  IF f.verdict = "raises" THEN "ValueError"
  ELSE IF ~BoundedLoss(legs) THEN "UNBOUNDED_LOSS"
  ELSE IF f.verdict = "matched" /\ ~agrees THEN "FORMULA_MISMATCH" ELSE "IMPLEMENTED_UNIT"

=============================================================================
