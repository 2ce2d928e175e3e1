------------------------------ MODULE Producers ------------------------------
(***************************************************************************)
(* From a market to the intents that the modes propose: which option chains *)
(* a poll loads, the trend and volatility of the bars, the contracts that a *)
(* family's binder selects, the intent its strategy makes of them, and the  *)
(* check of that intent against the slot it was produced for.               *)
(*                                                                          *)
(* A scene is all that one poll sees:                                       *)
(*   day, profile, late (past the flatten time);                            *)
(*   listed, near, monthly, lost: the expiries listed, the one of the       *)
(*     default chain, the monthly ones, the extra chains that cannot be     *)
(*     fetched and are in no cache;                                         *)
(*   book: the contracts [kind, strike, expiry, chain, bid, ask, delta,     *)
(*     grade] that the chains hold, in the window around the spot;          *)
(*   bars [warm, count, short, long, score, vol]: the returns over 15 and   *)
(*     60 minutes, the trend score in percent, the volatility class;        *)
(*   macro [given, bias, accepted] and technical, the two directional reads.*)
(* A grade tells how a contract fares against the floors on open interest   *)
(* and spread and the data checks: "strict", "loose" (only the floors of    *)
(* DISCOVERY's fallback) or "unfit".  Days count from a Monday.             *)
(***************************************************************************)
EXTENDS Payoff

CONSTANT Policy  \* identification.yaml and DISCOVERY's selection, in percent

NoExpiry == -1

Discovers(s) == s.profile = "DISCOVERY"

Dte(s, c) == Above(c.expiry - s.day)

-----------------------------------------------------------------------------

Monday(day) == day - (day % 7) + 7

\* select_m2_expiry, with its fallback: the Thursday of the following week.
M2Expiry(expiries, day) ==
  LET eligible == {e \in expiries : e - day > 1}
      week     == {e \in eligible : e \in Monday(day)..(Monday(day) + 6)}
      later    == {e \in eligible : e > Monday(day) + 6}
      sooner   == {e \in eligible : e < Monday(day)}
  IN  IF Monday(day) + 3 \in week THEN Monday(day) + 3
      ELSE IF week # {} THEN Least(week)
      ELSE IF later # {} THEN Least(later)
      ELSE IF sooner # {} THEN Greatest(sooner) ELSE NoExpiry

\* Mutant: the first expiry that is not loaded, whether or not the calendar's
\* choice is.
NextUnloaded(s, loaded) ==
  LET next == {e \in s.listed \ loaded : e - s.day > 1}
  IN  IF next = {} THEN NoExpiry ELSE Least(next)

\* following_week_epoch: the calendar's choice or, when that is loaded, the next.
FollowingWeek(s, loaded) ==
  LET pick == M2Expiry(s.listed, s.day)
      next == {e \in s.listed \ loaded : e - s.day > 1}
  IN  IF pick = NoExpiry \/ pick \notin loaded THEN pick
      ELSE IF next = {} THEN NoExpiry ELSE Least(next)

\* monthly_window_epoch: a monthly expiry nearest to the middle of the window.
MonthlyWindow(s, loaded) ==
  LET window == {e \in s.listed : e - s.day \in Policy.month}
      pool   == IF window \cap s.monthly # {} THEN window \cap s.monthly ELSE window
      off(e) == LET d == 2 * (e - s.day) - (Least(Policy.month) + Greatest(Policy.month))
                IN  Larger(d, -d)
      pick   == CHOOSE e \in pool : \A f \in pool : off(e) < off(f) \/ (off(e) = off(f) /\ e <= f)
  IN  IF pool = {} \/ pick \in loaded THEN NoExpiry ELSE pick

\* build_option_candidates of one chain, marked as the loader marks it.
Chain(s, expiry, mark) == {[c EXCEPT !.chain = mark] : c \in {d \in s.book : d.expiry = expiry}}

\* The default chain, the following week's and the month's, each expiry once.
Loaded(s) ==
  LET expiries(rows) == {c.expiry : c \in rows}
      near  == Chain(s, s.near, "near")
      week  == IF "week" \in s.lost THEN {}
               ELSE Chain(s, FollowingWeek(s, expiries(near)), "week")
      month == IF "month" \in s.lost THEN {}
               ELSE Chain(s, MonthlyWindow(s, expiries(near \cup week)), "month")
  IN  near \cup week \cup month

\* _candidates_for_mode.
RowsOf(s, mode) == {c \in Loaded(s) : mode = "M2" => c.chain # "month"}

-----------------------------------------------------------------------------

\* _trend: the returns and the score of the completed bars.
StrictTrend(s) ==
  CASE ~s.bars.warm -> "UNKNOWN"
    [] s.bars.warm /\ s.bars.short > 0 /\ s.bars.long > 0 /\ s.bars.score >= Policy.trend -> "UP"
    [] s.bars.warm /\ s.bars.short < 0 /\ s.bars.long < 0 /\ s.bars.score <= -Policy.trend -> "DOWN"
    [] s.bars.warm /\ s.bars.score \in (-Policy.range)..Policy.range -> "RANGE"
    [] OTHER -> "MIXED"

\* apply_discovery_direction_fallback.
Trend(s) ==
  LET strict == StrictTrend(s) IN
  IF ~Discovers(s) \/ strict \in {"UP", "DOWN"} \/ s.bars.count < Policy.bars THEN strict
  ELSE IF s.bars.short > 0 /\ s.bars.long > 0 /\ s.bars.score >= Policy.fallback THEN "UP"
  ELSE IF s.bars.short < 0 /\ s.bars.long < 0 /\ s.bars.score <= -Policy.fallback THEN "DOWN"
  ELSE strict

\* _volatility.
VolatilityState(s) == IF s.bars.warm THEN s.bars.vol ELSE "UNKNOWN"

\* resolve_direction: a macro read that is fresh, confident and not neutral, or
\* else the move since the close.
Read(s) == IF s.macro.given /\ s.macro.accepted /\ s.macro.bias # "NEUTRAL"
             THEN s.macro.bias ELSE s.technical

\* _direction_type.
DirectionKinds(trend) ==
  CASE trend = "UP" -> {"CALL"} [] trend = "DOWN" -> {"PUT"} [] OTHER -> {}

\* Mutant: the family alone decides.
CreditKindsOfFamily(family, trend) ==
  IF family = "bull_put_credit" THEN {"PUT"} ELSE {"CALL"}

\* _credit_option_type of a family.
CreditKinds(family, trend) ==
  CASE family = "bull_put_credit" /\ trend = "UP" -> {"PUT"}
    [] family = "bear_call_credit" /\ trend = "DOWN" -> {"CALL"}
    [] OTHER -> {}

KindsOfRead(bias) ==
  CASE bias = "BULLISH" -> {"CALL"} [] bias = "BEARISH" -> {"PUT"} [] OTHER -> {}

-----------------------------------------------------------------------------

\* _common_reason and _dte_ok, against the policy.
Eligible(s, rows) == {c \in rows : c.grade = "strict" /\ Dte(s, c) \in Policy.week \cup Policy.month}

OfKind(rows, kinds) == {c \in rows : c.kind \in kinds}

\* _same_expiry.
SameExpiry(items) == Cardinality({items[i].expiry : i \in DOMAIN items}) = 1

\* A binder's answers are the tuples of which its score may rank any first.

\* bind_m2_long_option: of the chosen expiry, the delta closest to 55, in a
\* second pass with the wider limits of DISCOVERY.
M2Survivors(s, rows) ==
  LET pool   == OfKind({c \in rows : c.expiry = M2Expiry({d.expiry : d \in rows}, s.day)},
                       DirectionKinds(Trend(s)))
      strict == {c \in pool : /\ c.grade = "strict" /\ c.delta \in Policy.delta
                              /\ Discovers(s) => Dte(s, c) \in Policy.week}
      wide   == {c \in pool : /\ c.grade # "unfit" /\ c.delta \in Policy.wideDelta
                              /\ Dte(s, c) \in Policy.wideWeek}
  IN  IF strict # {} \/ ~Discovers(s) THEN strict ELSE wide

BindM2(s, rows) ==
  LET off(c) == Larger(c.delta - 55, 55 - c.delta)
      found  == M2Survivors(s, rows)
  IN  {<<c>> : c \in {d \in found : \A e \in found : off(d) <= off(e)}}

\* _valid_debit_pair and _valid_credit_pair, times the lot.
DebitPays(long, short) ==
  LET width == Policy.lot * Larger(long.strike - short.strike, short.strike - long.strike)
      debit == Policy.lot * (long.ask - short.bid) + Policy.cost
  IN  /\ debit > 0 /\ debit < width
      /\ (width - debit) * Policy.reward[2] >= debit * Policy.reward[1]

CreditPays(long, short) ==
  LET width  == Policy.lot * Larger(long.strike - short.strike, short.strike - long.strike)
      credit == Policy.lot * (short.bid - long.ask) - Policy.cost
  IN  credit > 0 /\ credit < width /\ width - credit <= credit * Policy.risk

\* bind_debit_spread: the trend alone gives the type, whatever the family.
BindDebit(s, rows) ==
  LET legs == OfKind(Eligible(s, rows), DirectionKinds(Trend(s))) IN
  {p \in {c \in legs : c.delta \in Policy.long} \X {c \in legs : c.delta \in Policy.short} :
     /\ SameExpiry(p)
     /\ IF p[1].kind = "CALL" THEN p[1].strike < p[2].strike ELSE p[1].strike > p[2].strike
     /\ DebitPays(p[1], p[2])}

\* bind_credit_spread: the long leg, then the short.
BindCredit(s, family, rows) ==
  LET legs == OfKind(Eligible(s, rows), CreditKinds(family, Trend(s))) IN
  {p \in legs \X legs :
     /\ SameExpiry(p)
     /\ IF p[1].kind = "PUT" THEN p[1].strike < p[2].strike ELSE p[1].strike > p[2].strike
     /\ CreditPays(p[1], p[2])}

\* The puts and the calls, in their order, of bind_iron_condor (whose score only
\* frowns on unequal wings) and of bind_short_iron_butterfly.
BindIron(s, family, rows) ==
  LET puts  == OfKind(Eligible(s, rows), {"PUT"})
      calls == OfKind(Eligible(s, rows), {"CALL"})
  IN  IF Trend(s) # "RANGE" THEN {}
      ELSE {q \in {<<p[1], p[2], c[1], c[2]>> : p \in puts \X puts, c \in calls \X calls} :
              /\ q[1].strike < q[2].strike /\ q[3].strike < q[4].strike
              /\ IF family = Condor THEN q[2].strike < q[3].strike ELSE q[2].strike = q[3].strike
              /\ SameExpiry(q)}

\* _bind_long_butterfly; no two rows of a kind and expiry have one strike.
BindButterfly(s, family, rows) ==
  LET kind == IF family = "long_call_butterfly" THEN "CALL" ELSE "PUT"
      options == OfKind(Eligible(s, rows), {kind})
  IN  IF Trend(s) # "RANGE" THEN {}
      ELSE {t \in options \X options \X options :
              /\ t[1].strike < t[2].strike /\ t[3].strike - t[2].strike = t[2].strike - t[1].strike
              /\ SameExpiry(t)}

\* _bind_long_volatility_pair: the put, then the call.
BindVolatility(s, family, rows) ==
  IF VolatilityState(s) = "COMPRESSED" THEN {}
  ELSE {p \in OfKind(Eligible(s, rows), {"PUT"}) \X OfKind(Eligible(s, rows), {"CALL"}) :
          /\ IF family = "long_straddle" THEN p[1].strike = p[2].strike ELSE p[1].strike < p[2].strike
          /\ SameExpiry(p)}

-----------------------------------------------------------------------------

LegOf(c, side, ratio) ==
  [kind |-> c.kind, side |-> side, strike |-> c.strike, ratio |-> ratio, expiry |-> c.expiry]

\* An intent: its declared family, its legs and the contracts they are on.
Intent(family, sides, ratios, items) ==
  [family |-> family, legs |-> [i \in DOMAIN items |-> LegOf(items[i], sides[i], ratios[i])],
   items |-> items]

\* _leg_reason: open interest, spread and days to expiry of every leg.
Passes(s, items, days) == \A i \in DOMAIN items : items[i].grade = "strict" /\ Dte(s, items[i]) >= days

\* LongOptionStrategy.
LongOption(s, items) ==
  IF ~s.late /\ Passes(s, items, 2) /\ items[1].kind \in KindsOfRead(Read(s))
    THEN {Intent(IF items[1].kind = "CALL" THEN "long_call" ELSE "long_put", <<"BUY">>, <<1>>, items)}
    ELSE {}

Ordered(items, up) == IF (items[1].strike < items[2].strike) = up THEN items ELSE <<items[2], items[1]>>

\* DebitSpreadStrategy: the nearer strike is bought.
DebitSpread(s, items) ==
  IF Passes(s, items, 7) /\ {items[1].kind, items[2].kind} = KindsOfRead(Read(s))
    THEN {Intent(IF items[1].kind = "CALL" THEN "bull_call_debit" ELSE "bear_put_debit",
                 <<"BUY", "SELL">>, <<1, 1>>, Ordered(items, items[1].kind = "CALL"))}
    ELSE {}

\* BullPutCreditStrategy and BearCallCreditStrategy: the further strike is bought.
CreditSpread(s, family, items) ==
  LET bias == IF family = "bull_put_credit" THEN "BULLISH" ELSE "BEARISH"
      kind == IF family = "bull_put_credit" THEN "PUT" ELSE "CALL"
  IN  IF Passes(s, items, 7) /\ Read(s) = bias /\ {items[1].kind, items[2].kind} = {kind}
        THEN {Intent(family, <<"BUY", "SELL">>, <<1, 1>>, Ordered(items, kind = "PUT"))}
        ELSE {}

\* The macro gate of the condor and the iron butterfly asks for no freshness.
NeutralMacro(s) == ~s.macro.given \/ s.macro.bias = "NEUTRAL"

\* Mutant: the widths of the wings are not compared.
CondorOfAnyWings(s, items) ==
  IF NeutralMacro(s)
    THEN {Intent(Condor, <<"BUY", "SELL", "SELL", "BUY">>, <<1, 1, 1, 1>>, items)}
    ELSE {}

\* IronCondorStrategy, which drops the best-ranked tuple when its wings differ.
IronCondor(s, items) ==
  IF NeutralMacro(s) /\ items[2].strike - items[1].strike = items[4].strike - items[3].strike
    THEN {Intent(Condor, <<"BUY", "SELL", "SELL", "BUY">>, <<1, 1, 1, 1>>, items)}
    ELSE {}

\* ShortIronButterflyStrategy: both longs go first.
ShortIronButterfly(s, items) ==
  IF NeutralMacro(s)
    THEN {Intent(IronButterfly, <<"BUY", "BUY", "SELL", "SELL">>, <<1, 1, 1, 1>>,
                 <<items[1], items[4], items[2], items[3]>>)}
    ELSE {}

LongButterfly(family, items) == {Intent(family, <<"BUY", "SELL", "BUY">>, <<1, 2, 1>>, items)}

\* LongStraddleStrategy names the call first, LongStrangleStrategy the put.
LongVolatility(family, items) ==
  {Intent(family, <<"BUY", "BUY">>, <<1, 1>>,
          IF family = "long_straddle" THEN <<items[2], items[1]>> ELSE items)}

-----------------------------------------------------------------------------

\* FAMILY_PRODUCER_REGISTRY, M1's event-driven producer aside.
Slots == ({"M2"} \X {"long_call", "long_put"}) \cup ({"M3"} \X Verticals) \cup ({"M4"} \X Families)

\* bind_family, and the strategy of the slot on what was bound.
Intents(s, mode, family) ==
  LET rows == RowsOf(s, mode) IN
  CASE mode = "M2" -> UNION {LongOption(s, b) : b \in BindM2(s, rows)}
    [] family \in {"bull_call_debit", "bear_put_debit"} ->
         UNION {DebitSpread(s, b) : b \in BindDebit(s, rows)}
    [] family \in {"bull_put_credit", "bear_call_credit"} ->
         UNION {CreditSpread(s, family, b) : b \in BindCredit(s, family, rows)}
    [] family = Condor -> UNION {IronCondor(s, b) : b \in BindIron(s, family, rows)}
    [] family = IronButterfly -> UNION {ShortIronButterfly(s, b) : b \in BindIron(s, family, rows)}
    [] family \in Butterflies -> UNION {LongButterfly(family, b) : b \in BindButterfly(s, family, rows)}
    [] OTHER -> UNION {LongVolatility(family, b) : b \in BindVolatility(s, family, rows)}

\* family_executable, with the stances of the four-mode session: a straddle or a
\* strangle is only shadowed under STRICT.
Executable(s, family) == family \in {"long_straddle", "long_strangle"} => Discovers(s)

\* validate_intent_family_alignment: the intent is of the family of its slot.
Aligned(intent, family) == intent.family = family

\* produce_family_requests and _evaluate_strategy of one poll.
Proposals(s) ==
  UNION {{[mode |-> slot[1], scene |-> s, family |-> i.family, legs |-> i.legs, items |-> i.items] :
            i \in {j \in Intents(s, slot[1], slot[2]) : Aligned(j, slot[2])}} :
         slot \in {t \in Slots : Executable(s, t[2])}}
=============================================================================
