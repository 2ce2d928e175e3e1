------------------------------- MODULE Holding -------------------------------
(***************************************************************************)
(* How long one trade is held: the ticks of the session over its days, and *)
(* in each of them, in this order, manage_exits with the time exit, the    *)
(* due positional reviews (ReviewEngine.evaluate) and the carry gate of    *)
(* Mode 2 (trade/carry_gate.py).  What the prices say is any verdict here; *)
(* how the reviews and the gate reach the rows is ReviewDesk's.            *)
(***************************************************************************)
EXTENDS Integers, FiniteSets

CONSTANTS
  Trades,  \* the trades that may be held
  Dtes,    \* days to expiry when one is opened
  Gaps,    \* days from a session to the next
  Sure,    \* the times of a day that find the session alive and the trade priced
  MinDte,  \* min_remaining_dte
  Days,    \* bound: sessions
  None

VARIABLES
  trade,   \* mode, view (what its legs bet on), the setup's trend, whether the risk
           \* asked for fits the overnight budget, exit_before_expiry_days
  eod,     \* m2_eod_mode
  clock,   \* the session and the time in it
  left,    \* days to expiry
  state,   \* TradeState; EXIT_PENDING stands for CLOSING, too: an exit in flight
  timed,   \* intent and policy have a time_exit
  carry,   \* the carry records, by session
  slots,   \* the review slots recorded for the session
  market,  \* _latest_market_state: its session, 0 when there is none, and trend
  inferred, \* history: the sessions whose carry was approved without one
  unfilled \* history: when the session last had an exit in hand that did not fill; 0: never

vars == <<trade, eod, clock, left, state, timed, carry, slots, market, inferred, unfilled>>

Slot == {2, 4}

Cutoff == 5

Flatten == 6

Close == 7

Trends == {"UP", "DOWN", "RANGE"}

NoMarket == [day |-> 0, trend |-> "RANGE"]

M2 == trade.mode = "M2"

Held == state # "CLOSED"

Init ==
  /\ trade \in Trades /\ eod \in {"carry_gate", "positional"}
  /\ left \in Dtes /\ (left >= MinDte \/ trade.mode = "M1")
  /\ clock \in [day : {1}, time : {1, 3, Cutoff}]
  /\ state = "OPEN"
  /\ timed = (trade.mode = "M1" \/ (M2 /\ eod = "carry_gate"))
  /\ carry = [d \in 1..Days |-> "NONE"]
  /\ slots = {s \in Slot : s < clock.time}
  /\ market = NoMarket /\ inferred = {} /\ unfilled = 0

-----------------------------------------------------------------------------
\* The review of a slot.

\* Mutant: only on the day that the template names.
FlattenOnTheDay == trade.flatten # None /\ left = trade.flatten

\* The rule of ReviewEngine that needs no price: near expiry, by the frozen template.
FlattenDue == trade.flatten # None /\ left <= trade.flatten

\* due_review_slots; a slot that is due is recorded, priced or not.
Due == {s \in Slot : s <= clock.time} \ slots

\* _eligible_for_scheduled_review, and positional by its template.
Eligible == /\ ~timed
            /\ trade.mode \in {"M3", "M4"} \/ (M2 /\ \E d \in DOMAIN carry : carry[d] = "APPROVED")

-----------------------------------------------------------------------------
\* The carry gate.

Natural == IF trade.view = "PUT" THEN "DOWN" ELSE "UP"

\* resolve_carry_market: without a market state, the one that the trade was opened in,
\* or the one that it bets on, dated now.
Evidence(m) ==
  IF m.day # 0 THEN m
  ELSE [day |-> clock.day, trend |-> IF trade.setup # None THEN trade.setup ELSE Natural]

\* assess_m2_thesis
Thesis(m) == m.day = clock.day /\ m.trend \in {Natural, "RANGE"}

\* evaluate_m2_carry_gate; the session says that there is no blackout, no block of the
\* portfolio and no daily loss, whatever there is.
Approves(m, healthy) ==
  eod = "positional" \/ (Thesis(Evidence(m)) /\ left >= MinDte /\ trade.fits /\ healthy)

-----------------------------------------------------------------------------
\* A tick: each step may find an exit to be made of an open trade.

\* What comes of an exit (_submit_exit, _adopt_existing_exit_orders): it fills; its
\* orders are refused, and the trade is open again; or it has no plan, or the status
\* of an order is not known, and the next tick resumes it.
Answers == {"CLOSED", "OPEN", "EXIT_PENDING"}

After(before, exit) == IF exit THEN Answers ELSE {before}

\* manage_exits, behind _resume_inflight_exits.
TimeExit(before, priced, hit) ==
  before = "OPEN" /\ priced /\ (hit \/ (timed /\ clock.time >= Flatten))

\* _run_due_reviews
ReviewExit(before, priced) ==
  before = "OPEN" /\ priced /\ Due # {} /\ Eligible /\ FlattenDue

\* run_m2_carry_gate, once in a session; without the days to expiry it decides nothing.
Asked(before, listed) ==
  /\ before = "OPEN" /\ M2 /\ clock.time >= Cutoff /\ carry[clock.day] = "NONE"
  /\ listed \/ eod = "positional"

\* Mutant: a carry that is rejected is recorded, and the trade is left as it is.
GateWithoutExit(asked, approved) == FALSE

GateExit(asked, approved) == asked /\ ~approved

\* priced: a fresh quote of every leg; listed: its contract is among the builder's
\* snapshots; seen: the builder had a market state.
Tick(priced, listed, hit, healthy, seen) ==
  LET m == IF seen = None THEN market ELSE [day |-> clock.day, trend |-> seen] IN
  /\ clock.time < Close /\ left >= 0
  /\ clock.time \in Sure => priced /\ listed
  /\ \E resumed \in After(state, state = "EXIT_PENDING") :
     \E managed \in After(resumed, TimeExit(resumed, priced, hit)) :
     \E reviewed \in After(managed, ReviewExit(managed, priced)) :
       LET asked == Asked(reviewed, listed)
           approved == asked /\ Approves(m, healthy)
       IN
       /\ state' \in After(reviewed, GateExit(asked, approved))
       /\ carry' = IF asked THEN [carry EXCEPT ![clock.day] = IF approved THEN "APPROVED" ELSE "REJECTED"]
                   ELSE carry
       /\ timed' = (timed /\ ~approved)
       /\ inferred' = IF approved /\ eod = "carry_gate" /\ m.day = 0 THEN inferred \cup {clock.day} ELSE inferred
       /\ unfilled' = IF \/ state = "EXIT_PENDING" \/ TimeExit(resumed, priced, hit)
                         \/ ReviewExit(managed, priced) \/ GateExit(asked, approved)
                      THEN clock.time ELSE unfilled
  /\ clock' = [clock EXCEPT !.time = @ + 1]
  /\ market' = m
  /\ slots' = slots \cup Due
  /\ UNCHANGED <<trade, eod, left>>

\* The session is down, and back with what the store has.
Down ==
  /\ clock.time < Close /\ clock.time \notin Sure
  /\ clock' = [clock EXCEPT !.time = @ + 1]
  /\ market' = NoMarket
  /\ UNCHANGED <<trade, eod, left, state, timed, carry, slots, inferred, unfilled>>

\* The next session is a new process; none is passed over before the expiry.
Night(gap) ==
  /\ clock.time = Close /\ clock.day < Days /\ gap <= left
  /\ clock' = [day |-> clock.day + 1, time |-> 1]
  /\ left' = left - gap
  /\ slots' = {} /\ market' = NoMarket /\ unfilled' = 0
  /\ UNCHANGED <<trade, eod, state, timed, carry, inferred>>

Next ==
  \/ \E priced, listed, hit, healthy \in BOOLEAN : \E seen \in Trends \cup {None} :
       Tick(priced, listed, hit, healthy, seen)
  \/ Down
  \/ \E gap \in Gaps : Night(gap)

Spec == Init /\ [][Next]_vars

-----------------------------------------------------------------------------

\* A trade that is held when the session ends is positional, or its carry was
\* approved in this session, or an exit was made at the cutoff or later that did not
\* fill, if the session saw it priced at the time exit: also when an earlier approval
\* has cleared the time exit, which leaves a rejected carry its one exit.
HeldByDecision ==
  clock.time = Close /\ Held /\ Flatten \in Sure =>
    trade.mode \in {"M3", "M4"} \/ (M2 /\ carry[clock.day] = "APPROVED") \/ unfilled >= Cutoff

\* A trade with a flatten rule that is held at the close of its expiry had an exit
\* that did not fill from the slot on that found it priced, over weekends, refused
\* exits and restarts, if the time exit found it priced, too: the time exit, the gate
\* and the reviews together leave no day out.  One of Mode 2 that was leaving when its
\* carry was to be decided is not reviewed: its exit may have been refused before.
NothingExpires ==
  clock.time = Close /\ left = 0 /\ trade.flatten # None /\ Flatten \in Sure /\ Held =>
    \A s \in Sure \cap Slot : unfilled >= s \/ (M2 /\ unfilled > 0)

\* "Requires a fresh thesis" (FOUR_MODE_COMPONENT_CHANGES.md): not so.
CarriedOnFreshThesis == inferred = {}

=============================================================================
