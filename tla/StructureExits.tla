--------------------------- MODULE StructureExits ---------------------------
(***************************************************************************)
(* The exit policy of a structure: built anew at every entry fill          *)
(* (TradeManager._record_full_entry), from the template under STRICT and   *)
(* until the entry is complete, from the premiums paid under DISCOVERY     *)
(* (structure_pnl_bounds), and then held against the marks of the legs     *)
(* that are left (ExitEngine.evaluate).  Time exits, and the trail and the *)
(* break-even rule of one leg, are TradeExits'.  Prices are whole ticks,   *)
(* and sums of money hundredths of one, which makes the fractions exact.   *)
(***************************************************************************)
EXTENDS Payoff

CONSTANTS Structures,             \* sequences of legs, at the planned price, in the plan's order
          Slips,                  \* how far a fill may be from it
          MaxLoss,                \* intent.estimated_max_loss
          StopTicks, TargetTicks, \* of the template
          Confirm,                \* confirm_quotes
          Spots,                  \* where the underlying may end
          None

VARIABLES
  profile, plan,
  legs,    \* per leg of the plan, the position's: its premium is None when it is not there
  state,   \* OPENING, OPEN, EXIT_PENDING, CLOSED, or FAILED: an exception ended the process
  policy,  \* the ExitPolicy; amounts are hundredths
  judged   \* history: the spot of the last evaluations of the whole, and how many there were

vars == <<profile, plan, legs, state, policy, judged>>

-----------------------------------------------------------------------------

Discovery == profile = "DISCOVERY"

Left == {i \in DOMAIN plan : legs[i].premium # None}

Whole == Left = DOMAIN plan

\* The two-leg verticals: one kind, both sides.
TwoLegs(p) ==
  Len(p) = 2 /\ p[1].side # p[2].side /\ p[1].kind = p[2].kind

Distance(p) == Larger(p[1].strike - p[2].strike, p[2].strike - p[1].strike)

\* is_credit_spread
IsCredit(p) ==
  TwoLegs(p) /\ LET s == IF p[1].side = "SELL" THEN 1 ELSE 2 IN
    IF p[s].kind = "CALL" THEN p[s].strike < p[3 - s].strike ELSE p[s].strike > p[3 - s].strike

\* monitor_leg: what a credit spread sells, otherwise what is bought first.
Watched ==
  IF IsCredit(plan) THEN CHOOSE i \in DOMAIN plan : plan[i].side = "SELL"
  ELSE Least({i \in DOMAIN plan : plan[i].side = "BUY"})

-----------------------------------------------------------------------------
\* structure_pnl_bounds, of a position with all of its legs.

Net(p) == Sum([i \in DOMAIN p |-> Signed(p[i]) * p[i].premium])

Capped(p) == IF TwoLegs(p) THEN {Distance(p) * p[1].qty} ELSE {}

\* Mutant: a debit's target is not kept within the width.
DebitUncapped(p) == [stop |-> -Least({35 * Net(p), 100 * MaxLoss}), target |-> 80 * Net(p)]

DebitBounds(p) ==
  [stop |-> -Least({35 * Net(p), 100 * MaxLoss}),
   target |-> Least({80 * Net(p)} \cup {100 * (w - Net(p)) : w \in {v \in Capped(p) : v > Net(p)}})]

\* Mutant: the stop of a credit is not kept below what it can lose.
CreditUncapped(p) == [stop |-> 100 * Net(p), target |-> -60 * Net(p)]

CreditBounds(p) ==
  LET cap == Least({MaxLoss} \cup {w + Net(p) : w \in Capped(p)}) IN
  [stop |-> -Least({-100 * Net(p)} \cup (IF cap > 0 THEN {90 * cap} ELSE {})), target |-> -60 * Net(p)]

Bounds(p) == IF Net(p) >= 0 THEN DebitBounds(p) ELSE CreditBounds(p)

-----------------------------------------------------------------------------
\* The policy of a fill.

Scaled(p) == [scaled |-> TRUE, legStop |-> None, stop |-> Bounds(p).stop, target |-> Bounds(p).target,
              best |-> None, trail |-> None, count |-> 0, pending |-> "NONE"]

\* build_exit_policy: ticks of the watched leg, from its planned price, and the same
\* ticks of the contracts of the leg that was filled.
Ticked(i) ==
  LET w == plan[Watched] IN
  [scaled |-> FALSE, legStop |-> IF w.side = "BUY" THEN w.premium - StopTicks ELSE w.premium + StopTicks,
   stop |-> -100 * StopTicks * plan[i].qty, target |-> 100 * TargetTicks * plan[i].qty,
   best |-> None, trail |-> None, count |-> 0, pending |-> "NONE"]

\* A price below zero is refused with an exception.
Builds == LET w == plan[Watched] IN w.premium >= (IF w.side = "BUY" THEN StopTicks ELSE TargetTicks)

NoPolicy == Ticked(1)

Init ==
  /\ profile \in {"STRICT", "DISCOVERY"}
  /\ plan \in Structures /\ (Len(plan) > 1 \/ Discovery)
  /\ legs = [i \in DOMAIN plan |-> [plan[i] EXCEPT !.premium = None]]
  /\ state = "OPENING" /\ policy = NoPolicy
  /\ judged = [spot |-> None, times |-> 0]

\* _record_full_entry, first with _create_opening, and register_protective_orders.
Fill(i, slip) ==
  /\ state = "OPENING" /\ i = Cardinality(Left) + 1 /\ plan[i].premium + slip >= 0
  /\ legs' = [legs EXCEPT ![i].premium = plan[i].premium + slip]
  /\ policy' = IF Discovery /\ i = Len(plan) THEN Scaled(legs') ELSE Ticked(i)
  /\ state' = IF ~Builds THEN "FAILED" ELSE IF i = Len(plan) THEN "OPEN" ELSE "OPENING"
  /\ UNCHANGED <<profile, plan, judged>>

-----------------------------------------------------------------------------
\* ExitEngine.evaluate, with the underlying at spot and every mark in a spread of
\* twice half.

\* Out of a long at the bid and of a short at the ask; DISCOVERY takes the middle.
Price(i, spot, half) ==
  LET mark == Intrinsic(spot, plan[i]) IN
    IF Discovery THEN mark ELSE IF plan[i].side = "BUY" THEN Above(mark - half) ELSE mark + half

\* structure_unrealized_pnl_mid and strategy_unrealized_pnl: of the legs that are left.
Marked(price) ==
  Sum([i \in DOMAIN plan |-> IF i \in Left THEN 100 * Signed(plan[i]) * (price[i] - legs[i].premium) ELSE 0])

\* _auxiliary_stop_breached: the watched leg alone.
Auxiliary(price) ==
  /\ Watched \in Left
  /\ IF plan[Watched].side = "BUY" THEN price[Watched] <= policy.legStop ELSE price[Watched] >= policy.legStop

\* compute_leg_stop_price, compute_leg_target_price of a single bought leg.
LegKind(price) ==
  IF Len(plan) > 1 THEN "NONE"
  ELSE IF price[1] <= (65 * legs[1].premium) \div 100 THEN "STOP"
  ELSE IF 100 * price[1] >= 180 * legs[1].premium THEN "TARGET" ELSE "NONE"

\* apply_discovery_trailing, on the premium of the legs that are left.
Trailed(pnl) ==
  LET basis == Sum([i \in DOMAIN plan |-> IF i \in Left THEN Signed(plan[i]) * legs[i].premium ELSE 0])
      best == IF policy.best = None THEN pnl ELSE Larger(policy.best, pnl)
      trail == Larger(best \div 2, policy.stop)
  IN  IF basis = 0 \/ pnl < 30 * Larger(basis, -basis) THEN policy
      ELSE [policy EXCEPT !.best = best, !.trail = IF @ = None THEN trail ELSE Larger(@, trail)]

Kind(p, pnl, price) ==
  IF pnl <= p.stop THEN "STOP"
  ELSE IF pnl >= p.target THEN "TARGET"
  ELSE IF p.scaled THEN IF p.trail # None /\ pnl <= p.trail THEN "STOP" ELSE LegKind(price)
  ELSE IF Auxiliary(price) THEN "STOP" ELSE "NONE"

\* evaluate_discovery_confirmation
Counted(p, kind) ==
  IF kind = "NONE" THEN [p EXCEPT !.count = 0, !.pending = "NONE"]
  ELSE [p EXCEPT !.count = IF p.pending = kind THEN Least({@ + 1, Confirm}) ELSE 1, !.pending = kind]

\* manage_exits judges the trade; while a leg that is left has no quote, it leaves all as it is.
Evaluate(spot, half) ==
  LET price == [i \in DOMAIN plan |-> Price(i, spot, half)]
      pnl == Marked(price)
      trailed == IF policy.scaled THEN Trailed(pnl) ELSE policy
      kind == Kind(trailed, pnl, price)
  IN
  /\ state = "OPEN"
  /\ policy' = IF policy.scaled THEN Counted(trailed, kind) ELSE policy
  /\ state' = IF kind # "NONE" /\ (policy.scaled => policy'.count >= Confirm) THEN "EXIT_PENDING" ELSE "OPEN"
  /\ judged' = [spot |-> spot, times |-> IF judged.spot = spot THEN Least({judged.times + 1, Confirm}) ELSE 1]
  /\ UNCHANGED <<profile, plan, legs>>

\* Shorts are bought back first; a refusal opens the trade again, with what is left.
ExitFills ==
  /\ state = "EXIT_PENDING"
  /\ \E i \in Left :
       /\ plan[i].side = "SELL" \/ \A j \in Left : plan[j].side = "BUY"
       /\ legs' = [legs EXCEPT ![i].premium = None]
       /\ state' = IF Left = {i} THEN "CLOSED" ELSE state
  /\ judged' = [spot |-> None, times |-> 0]
  /\ UNCHANGED <<profile, plan, policy>>

ExitRefused ==
  /\ state = "EXIT_PENDING"
  /\ state' = "OPEN" /\ judged' = [spot |-> None, times |-> 0]
  /\ UNCHANGED <<profile, plan, legs, policy>>

Next ==
  \/ \E i \in 1..4, slip \in Slips : i \in DOMAIN plan /\ Fill(i, slip)
  \/ \E spot \in Spots, half \in {0, 1} : Evaluate(spot, half)
  \/ ExitFills \/ ExitRefused

Spec == Init /\ [][Next]_vars

-----------------------------------------------------------------------------

Gains == {Pnl(spot, legs) : spot \in Spots}

\* Evaluated as often as an exit must be confirmed, with a quote of every leg, where
\* the whole structure has lost (gained) the most that it can.
StandsAt(worst) ==
  /\ state = "OPEN" /\ Whole /\ judged.times >= Confirm
  /\ Pnl(judged.spot, legs) = worst

\* Under DISCOVERY no vertical, bought option, straddle or strangle stands where it can
\* lose no more: its stop lies above that, whatever the fills within a vertical's width
\* were (structure_pnl_bounds).
StoppedAtWorst ==
  Discovery /\ Len(plan) <= 2 /\ state = "OPEN" /\ Whole => ~StandsAt(Least(Gains))

\* And no vertical stands where it can gain no more: its target lies within its width.
TakenAtBest ==
  Discovery /\ TwoLegs(plan) /\ state = "OPEN" /\ Whole => ~StandsAt(Greatest(Gains))

\* The stop and the target of a vertical are both within what it can do
\* (structure_pnl_bounds).
BoundsReached == StoppedAtWorst /\ TakenAtBest

\* "multi-leg credit: stop stays below 90% of max loss" (discovery.yaml): not so for
\* four legs, whose loss is not told from the legs.
StopBelowMaxLoss ==
  Discovery /\ state = "OPEN" /\ Whole /\ Net(legs) < 0 => 10 * policy.stop >= 9 * 100 * Least(Gains)

=============================================================================
