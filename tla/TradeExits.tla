----------------------------- MODULE TradeExits -----------------------------
(***************************************************************************)
(* The exit policy of one open trade: how ExitEngine tightens a stop and   *)
(* decides an exit, how TradeManager takes the result over and how it      *)
(* reaches the durable row.  A trade of family PRICE is one bought leg     *)
(* with a trailing stop and a break-even rule; one of family PREMIUM is a  *)
(* premium-scaled structure judged by its P&L, whose exits must be         *)
(* confirmed.  An evaluation, its application and its record are three     *)
(* steps; the session and the protection thread both take them.            *)
(***************************************************************************)
EXTENDS Integers, FiniteSets

CONSTANTS Threads,       \* threads that manage exits
          Reviewer,      \* the one that also reviews and carries: the session
          Prices, Entry, \* prices of the leg, or values of the structure, in ticks
          None,
          StopDistance, TargetDistance, Activation, TrailDistance, BreakEven,
                         \* the template, and the structure's bounds for PREMIUM
          Required,      \* confirm_quotes
          MaxCrashes     \* bound: how often the process is killed

ASSUME TemplateAssumption ==
  /\ StopDistance \in Nat \ {0} /\ TargetDistance \in Nat \ {0}
  /\ Activation \in Nat \ {0} /\ TrailDistance \in Nat \ {0} /\ BreakEven \in Nat \ {0}
  /\ TrailDistance <= StopDistance

\* Of every strategy's template with a trail: it starts beyond the entry.
ASSUME TrailLocksIn == TrailDistance <= Activation

ASSUME PricesAssumption ==
  /\ Prices \subseteq Nat /\ Entry \in Nat /\ None \notin Int
  /\ Required \in Nat \ {0} /\ MaxCrashes \in Nat /\ Reviewer \in Threads

VARIABLES
  family,  \* PRICE or PREMIUM
  state,   \* TradeState of the position in the TradeManager
  policy,  \* its ExitPolicy
  row,     \* the durable record of both
  quote,   \* the quote that an evaluation would see
  late,    \* the time exit's time has come
  thread,  \* per thread, the evaluation in hand
  seen,    \* history: the quotes that were judged
  cut,     \* history: a crash came between an evaluation and its record
  crashes

vars == <<family, state, policy, row, quote, late, thread, seen, cut, crashes>>

-----------------------------------------------------------------------------

\* Quotes are taken relative to the entry: the P&L of a contract.
Quotes == {price - Entry : price \in Prices}

Kinds == {"NONE", "STOP", "TARGET", "TIME"}

States == {"OPEN", "EXIT_PENDING", "CLOSED"}

\* stop: stop_price, relative to the entry; ptrail: pnl_trail_stop; timed: there
\* is a time_exit; best: strategy_pnl_hwm.
Policies == [stop : Int, distance : Nat \ {0}, breakeven : BOOLEAN, trailing : BOOLEAN,
             timed : BOOLEAN, best : Int \cup {None}, ptrail : Int \cup {None},
             count : Nat, pending : Kinds]

Built == [stop |-> -StopDistance, distance |-> StopDistance, breakeven |-> FALSE,
          trailing |-> FALSE, timed |-> TRUE, best |-> None, ptrail |-> None,
          count |-> 0, pending |-> "NONE"]

NoWork == [pc |-> "idle", policy |-> Built, kind |-> "NONE"]

Least(a, b) == IF a <= b THEN a ELSE b

Most(a, b) == IF a >= b THEN a ELSE b

Init ==
  /\ family \in {"PRICE", "PREMIUM"}
  /\ state = "OPEN"
  /\ policy = Built
  /\ row = [state |-> "OPEN", policy |-> Built]
  /\ quote \in Quotes
  /\ late = FALSE
  /\ thread = [p \in Threads |-> NoWork]
  /\ seen = {}
  /\ cut = FALSE
  /\ crashes = 0

-----------------------------------------------------------------------------

\* The rules of tighten_exit_policy.  Each of them compares with the stop that
\* the policy had, not with the one that the other rule has just set.
AtBreakEven(p, q) ==
  IF ~p.breakeven /\ q >= BreakEven /\ 0 > p.stop
  THEN [p EXCEPT !.breakeven = TRUE, !.stop = 0, !.distance = 1] ELSE p

\* Mutant: the trail follows the quote down as well.
TrailedAnyWay(p, old, q) ==
  IF q >= Activation
  THEN [p EXCEPT !.trailing = TRUE, !.stop = q - TrailDistance,
                 !.distance = Least(@, Most(TrailDistance - q, 1))]
  ELSE p

\* Mutant: beyond the entry the distance is not held at one tick.
TrailedUnclamped(p, old, q) ==
  IF q >= Activation /\ q - TrailDistance > old
  THEN [p EXCEPT !.trailing = TRUE, !.stop = q - TrailDistance,
                 !.distance = Least(@, TrailDistance - q)]
  ELSE p

Trailed(p, old, q) ==
  IF q >= Activation /\ q - TrailDistance > old
  THEN [p EXCEPT !.trailing = TRUE, !.stop = q - TrailDistance,
                 !.distance = Least(@, Most(TrailDistance - q, 1))]
  ELSE p

Tightened(p, q) == Trailed(AtBreakEven(p, q), p.stop, q)

\* apply_discovery_trailing: half of the best P&L is kept, never less than the stop.
Kept(pnl) == Most(pnl - pnl \div 2, -StopDistance)

\* Mutant: the high-water mark is the last P&L.
TrailedPnlByLast(p, q) ==
  IF q < Activation THEN p ELSE [p EXCEPT !.best = q, !.ptrail = Kept(q)]

TrailedPnl(p, q) ==
  IF q < Activation THEN p
  ELSE LET best == IF p.best = None THEN q ELSE Most(p.best, q) IN
       [p EXCEPT !.best = best,
                 !.ptrail = IF @ = None THEN Kept(best) ELSE Most(@, Kept(best))]

\* What a policy says of a quote.
PriceKind(p, q) ==
  IF p.timed /\ late THEN "TIME"
  ELSE IF q <= p.stop THEN "STOP"
  ELSE IF q >= TargetDistance THEN "TARGET" ELSE "NONE"

PnlKind(p, q) ==
  IF p.timed /\ late THEN "TIME"
  ELSE IF q <= -StopDistance THEN "STOP"
  ELSE IF q >= TargetDistance THEN "TARGET"
  ELSE IF p.ptrail # None /\ q <= p.ptrail THEN "STOP" ELSE "NONE"

\* evaluate_discovery_confirmation.
Counted(p, kind) ==
  IF kind = "NONE" THEN [p EXCEPT !.count = 0, !.pending = "NONE"]
  ELSE [p EXCEPT !.count = Least(IF p.pending = kind THEN @ + 1 ELSE 1, Required), !.pending = kind]

\* ExitEngine.evaluate: the kind it finds, the policy it returns, the exit it asks for.
Evaluation ==
  IF family = "PRICE"
  THEN LET p == Tightened(policy, quote)
           k == PriceKind(p, quote)
       IN [policy |-> p, kind |-> k]
  ELSE LET p == TrailedPnl(policy, quote)
           k == PnlKind(p, quote)
           c == Counted(p, k)
       IN [policy |-> c, kind |-> IF k # "NONE" /\ c.count >= Required THEN k ELSE "NONE"]

Judged == seen' = seen \cup {quote}

-----------------------------------------------------------------------------

Works(p, pc) == thread[p].pc = pc

QuoteMoves(q) ==
  /\ quote' = q /\ q # quote
  /\ UNCHANGED <<family, state, policy, row, late, thread, seen, cut, crashes>>

TimeComes ==
  /\ ~late /\ late' = TRUE
  /\ UNCHANGED <<family, state, policy, row, quote, thread, seen, cut, crashes>>

Takes(p, e) == thread' = [thread EXCEPT ![p] = [pc |-> "apply", policy |-> e.policy, kind |-> e.kind]]

\* manage_exits judges the trade; with nothing found and nothing changed it goes on.
Manage(p) ==
  /\ Works(p, "idle") /\ state = "OPEN"
  /\ Judged
  /\ IF Evaluation.kind = "NONE" /\ Evaluation.policy = policy /\ family = "PRICE"
       THEN UNCHANGED thread ELSE Takes(p, Evaluation)
  /\ UNCHANGED <<family, state, policy, row, quote, late, cut, crashes>>

\* A review judges it with the same engine.  It takes over an exit, or a stop
\* that is strictly tighter, and drops what else the evaluation has changed.
ReviewTrade(p) ==
  /\ p = Reviewer /\ Works(p, "idle") /\ state = "OPEN"
  /\ Evaluation.kind # "NONE" \/ (family = "PRICE" /\ Evaluation.policy.stop > policy.stop)
  /\ Judged /\ Takes(p, Evaluation)
  /\ UNCHANGED <<family, state, policy, row, quote, late, cut, crashes>>

\* apply_exit_evaluation: the policy is replaced, whatever became of it meanwhile.
Apply(p) ==
  /\ Works(p, "apply")
  /\ policy' = thread[p].policy
  /\ state' = IF thread[p].kind # "NONE" /\ state = "OPEN" THEN "EXIT_PENDING" ELSE state
  /\ thread' = [thread EXCEPT ![p].pc = "write"]
  /\ UNCHANGED <<family, row, quote, late, seen, cut, crashes>>

\* An approved carry drops the time exit (clear_intraday_time_exit).
Carry(p) ==
  /\ p = Reviewer /\ Works(p, "idle") /\ state = "OPEN" /\ policy.timed /\ ~late
  /\ policy' = [policy EXCEPT !.timed = FALSE]
  /\ thread' = [thread EXCEPT ![p].pc = "write"]
  /\ UNCHANGED <<family, state, row, quote, late, seen, cut, crashes>>

\* _write_lifecycle.
Write(p) ==
  /\ Works(p, "write")
  /\ row' = [state |-> state, policy |-> policy]
  /\ thread' = [thread EXCEPT ![p] = NoWork]
  /\ UNCHANGED <<family, state, policy, quote, late, seen, cut, crashes>>

\* The exit's orders are answered: PaperExit says how.  A refusal opens the trade again.
ExitAnswered(p, answer) ==
  /\ Works(p, "idle") /\ state = "EXIT_PENDING"
  /\ state' = answer
  /\ thread' = [thread EXCEPT ![p].pc = "write"]
  /\ UNCHANGED <<family, policy, row, quote, late, seen, cut, crashes>>

\* The process is killed; recover_lifecycle takes the position from its row.
Restart ==
  /\ crashes < MaxCrashes
  /\ crashes' = crashes + 1
  /\ state' = row.state /\ policy' = row.policy
  /\ thread' = [p \in Threads |-> NoWork]
  /\ cut' = (cut \/ \E p \in Threads : ~Works(p, "idle"))
  /\ UNCHANGED <<family, row, quote, late, seen>>

Next ==
  \/ \E q \in Quotes : QuoteMoves(q)
  \/ TimeComes \/ Restart
  \/ \E p \in Threads :
       \/ Manage(p) \/ ReviewTrade(p) \/ Apply(p) \/ Carry(p) \/ Write(p)
       \/ \E answer \in {"OPEN", "CLOSED"} : ExitAnswered(p, answer)

Spec == Init /\ [][Next]_vars

-----------------------------------------------------------------------------

\* The variables have their types.
TypeOK ==
  /\ family \in {"PRICE", "PREMIUM"} /\ state \in States
  /\ policy \in Policies /\ row \in [state : States, policy : Policies]
  /\ quote \in Quotes /\ late \in BOOLEAN
  /\ thread \in [Threads -> [pc : {"idle", "apply", "write"}, policy : Policies, kind : Kinds]]
  /\ seen \subseteq Quotes
  /\ cut \in BOOLEAN /\ crashes \in 0..MaxCrashes

\* Policy b protects at least what policy a does.
Protects(b, a) ==
  /\ b.stop >= a.stop /\ b.distance <= a.distance
  /\ a.ptrail # None => b.ptrail # None /\ b.ptrail >= a.ptrail
  /\ a.trailing => b.trailing
  /\ b.timed => a.timed

\* Invariant 17 of the program, over steps, crashes and refused exits: no step
\* takes back a stop, a trail or an approved carry, neither in the durable row,
\* a restart included, nor in memory, where only a restart falls back on the row.
NothingLoosens ==
  [][/\ Protects(row'.policy, row.policy)
     /\ crashes' = crashes => Protects(policy', policy)]_vars

\* The stop is the one that the best quote ever judged calls for: the trail and
\* the break-even rule, taken one at a time, in any order, never lose it
\* (tighten_exit_policy), and neither does a restart from the row.
BestStop ==
  LET Called == {-StopDistance} \cup {0 : q \in {r \in seen : r >= BreakEven}}
                  \cup {q - TrailDistance : q \in {r \in seen : r >= Activation}}
  IN
  family = "PRICE" /\ ~cut /\ (\A p \in Threads : thread[p].pc # "apply") =>
    policy.stop \in Called /\ \A v \in Called : policy.stop >= v

=============================================================================
