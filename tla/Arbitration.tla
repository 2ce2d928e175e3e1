----------------------------- MODULE Arbitration -----------------------------
(***************************************************************************)
(* Which of the modes' candidates may become trades: the same-day filter,  *)
(* the portfolio arbiter, and the entries of the trading cycles that the   *)
(* poll loop and the M1 quote handler run in one process, beside exits     *)
(* that close, or fail to close, the open trades, and beside crashes.  All *)
(* structures are on one underlying and expiry.  What the risk gateway     *)
(* says of an approved candidate is a choice; its own rules are those of   *)
(* RiskGateway.                                                            *)
(***************************************************************************)
EXTENDS Integers, Sequences, FiniteSets

CONSTANTS Menu,      \* the candidates a strategy may emit
          Cap,       \* max_open_positions of a mode, and M4's under STRICT
          Profiles,  \* the values entry_profile may have
          Threads,   \* who runs cycles: "session", and "protection" for M1
          Batch,     \* bound: executable candidates of a cycle
          MaxTrades, \* bound: trades entered, with which the cycles end
          MaxDay     \* bound: days

Modes == {"M1", "M2", "M3", "M4"}

ASSUME MenuAssumption ==
  \A c \in Menu : c.mode \in Modes /\ c.low \in Int /\ c.high \in Int

ASSUME CapAssumption == Cap \in Nat

ASSUME BoundsAssumption == Batch \in Nat /\ MaxTrades \in Nat /\ MaxDay \in Nat \ {0}

ASSUME ThreadsAssumption == Threads \subseteq {"session", "protection"}

VARIABLES
  profile, \* the entry profile of the session
  trades,  \* the trades entered, in order: in memory, and their durable rows
  holder,  \* m1_holder, the builder's pending M1 event
  cycle,   \* per thread, where its trading cycle is
  day      \* the session date

vars == <<profile, trades, holder, cycle, day>>

Discovery == profile = "DISCOVERY"

States == {"OPEN", "EXIT_PENDING", "CLOSED", "LOST"}

Stages == {"idle", "poll", "event", "look", "weigh", "execute", "write"}

\* written: the trade has a durable row; by: the thread that entered it; back:
\* it was OPEN again after an exit had begun.
TradeType == [item : Menu, day : 1..MaxDay, state : States,
              written : BOOLEAN, by : Threads, back : BOOLEAN]

\* live: the trades that list_positions returned OPEN; todo: the candidates yet
\* to be weighed; approved: those approved and yet to execute.
CycleType == [pc : Stages, m1 : BOOLEAN, live : SUBSET (1..MaxTrades),
              todo : SUBSET Menu, approved : SUBSET Menu]

NoCycle == [pc |-> "idle", m1 |-> FALSE, live |-> {}, todo |-> {}, approved |-> {}]

Trades == DOMAIN trades

At(t, stage) == cycle[t].pc = stage

\* Only a trade that is OPEN is an incumbent: not one whose exit is under way.
Incumbents == {i \in Trades : trades[i].state = "OPEN"}

-----------------------------------------------------------------------------

\* extract_economic_exposure: the thesis of a family, and its strike band.
Thesis(c) ==
  CASE c.family \in {"bull_call_debit", "bull_put_credit", "long_call"} -> "BULLISH"
    [] c.family \in {"bear_put_debit", "bear_call_credit", "long_put"}  -> "BEARISH"
    [] c.family \in {"long_straddle", "long_strangle"}                  -> "VOL_LONG"
    [] c.family \in {"short_iron_condor_defined", "short_iron_butterfly_defined",
                     "long_call_butterfly", "long_put_butterfly"}       -> "NEUTRAL"
    [] OTHER                                                            -> "NONE"

\* economic_keys_overlap: the same thesis on the same band.
Overlaps(c, d) ==
  /\ Thesis(c) = Thesis(d) /\ Thesis(c) \notin {"NEUTRAL", "NONE"}
  /\ c.low = d.low /\ c.high = d.high

\* bands_overlap, both ends included.
BandsMeet(c, d) == ~(c.high < d.low \/ d.high < c.low)

\* directions_conflict.
Opposes(c, d) == {Thesis(c), Thesis(d)} = {"BULLISH", "BEARISH"} /\ BandsMeet(c, d)

\* _duplicate_key: across modes under STRICT.
DuplicateKey(c) == <<IF Discovery THEN c.mode ELSE "ANY", c.legs>>

\* Mutant: as for the thesis, only the candidates of the cycle are compared.
DuplicatesInCycle(t, c) ==
  \E d \in cycle[t].approved : DuplicateKey(d) = DuplicateKey(c)

\* Of the open trades, or of what the cycle has approved.
Duplicates(t, c) ==
  \E d \in {trades[i].item : i \in cycle[t].live} \cup cycle[t].approved :
    DuplicateKey(d) = DuplicateKey(c)

\* Mutant: the cap counts the open trades only.
ModeCountOpenOnly(t, m) == Cardinality({i \in cycle[t].live : trades[i].item.mode = m})

\* count_m4_positions and _initial_mode_open_counts, with the approvals since.
ModeCount(t, m) ==
  Cardinality({i \in cycle[t].live : trades[i].item.mode = m})
    + Cardinality({d \in cycle[t].approved : d.mode = m})

Capped(m) == Discovery \/ m = "M4"

\* Mutant: only an identical thesis is compared.
DisagreesOverlapOnly(t, c) ==
  ~Discovery /\ \E d \in cycle[t].approved : Overlaps(c, d)

\* Overlap and conflict suppress under STRICT.  run_cycle passes positions, which
\* have no intent, so that only the candidates of the cycle are compared.
Disagrees(t, c) ==
  ~Discovery /\ \E d \in cycle[t].approved : Overlaps(c, d) \/ Opposes(c, d)

Suppressed(t, c) ==
  \/ Duplicates(t, c)
  \/ Capped(c.mode) /\ ModeCount(t, c.mode) >= Cap
  \/ Disagrees(t, c)

\* Mutant: a closed trade may be entered again.
EnteredTodayAndOpen(c) ==
  \E i \in Incumbents : /\ trades[i].written /\ trades[i].day = day
                    /\ trades[i].item = c

\* index_same_day_structures: the rows of the day, whatever became of the trade.
\* A candidate of Menu is a mode, a strategy and its legs.
EnteredToday(c) ==
  \E i \in Trades : /\ trades[i].written /\ trades[i].day = day
                    /\ trades[i].item = c

-----------------------------------------------------------------------------

Init ==
  /\ profile \in Profiles
  /\ trades = <<>>
  /\ holder = [event |-> FALSE, keep |-> FALSE]
  /\ cycle = [t \in Threads |-> NoCycle]
  /\ day = 1

Goes(t, c) == cycle' = [cycle EXCEPT ![t] = c]

\* tick, by the session's thread: a pending M1 event is dropped, unless kept.
PollBegins(t) ==
  /\ t = "session" /\ At(t, "idle") /\ Len(trades) < MaxTrades
  /\ holder' = [holder EXCEPT !.event = @ /\ holder.keep]
  /\ Goes(t, [NoCycle EXCEPT !.pc = "poll"])
  /\ UNCHANGED <<profile, trades, day>>

\* submit_m1_event, of the protection scheduler or of the tick's own M1 poll.
EventBegins(t) ==
  /\ At(t, "idle") /\ Len(trades) < MaxTrades
  /\ holder' = [event |-> TRUE, keep |-> TRUE]
  /\ Goes(t, [NoCycle EXCEPT !.pc = "event", !.m1 = TRUE])
  /\ UNCHANGED <<profile, trades, day>>

\* The builder and the strategies: M1 has a candidate while the event is there,
\* and DISCOVERY drops what was entered today.
Evaluate(t, S) ==
  /\ At(t, "poll") \/ At(t, "event")
  /\ Cardinality(S) <= Batch
  /\ \A c \in S : /\ c.mode = "M1" => holder.event
                  /\ At(t, "event") => c.mode = "M1"
  /\ Goes(t, [cycle[t] EXCEPT !.pc = "look",
                              !.todo = {c \in S : ~(Discovery /\ EnteredToday(c))}])
  /\ UNCHANGED <<profile, trades, holder, day>>

\* list_positions, once for the whole arbitration.
Look(t) ==
  /\ At(t, "look")
  /\ Goes(t, [cycle[t] EXCEPT !.pc = "weigh", !.live = Incumbents])
  /\ UNCHANGED <<profile, trades, holder, day>>

\* Candidates are weighed by confidence, loss and id: in any order.
Weigh(t, c) ==
  /\ At(t, "weigh") /\ c \in cycle[t].todo
  /\ IF Suppressed(t, c)
       THEN Goes(t, [cycle[t] EXCEPT !.todo = @ \ {c}])
       ELSE Goes(t, [cycle[t] EXCEPT !.todo = @ \ {c}, !.approved = @ \cup {c}])
  /\ UNCHANGED <<profile, trades, holder, day>>

\* arbitrate returns.
Arbitrated(t) ==
  /\ At(t, "weigh") /\ cycle[t].todo = {}
  /\ Goes(t, [cycle[t] EXCEPT !.pc = "execute", !.live = {}])
  /\ UNCHANGED <<profile, trades, holder, day>>

Executes(t, c) == At(t, "execute") /\ c \in cycle[t].approved

\* The gateway, or the broker, refuses the entry.
Refuse(t, c) ==
  /\ Executes(t, c)
  /\ Goes(t, [cycle[t] EXCEPT !.approved = @ \ {c}])
  /\ UNCHANGED <<profile, trades, holder, day>>

Enter(t, c) ==
  /\ Executes(t, c)
  /\ Len(trades) < MaxTrades
  /\ trades' = Append(trades, [item |-> c, day |-> day, state |-> "OPEN",
                               written |-> FALSE, by |-> t, back |-> FALSE])
  /\ Goes(t, [cycle[t] EXCEPT !.pc = "write", !.approved = @ \ {c}])
  /\ UNCHANGED <<profile, holder, day>>

\* _write_lifecycle of the trade this thread has entered.
WriteRow(t) ==
  /\ At(t, "write")
  /\ trades' = [i \in Trades |->
                  [trades[i] EXCEPT !.written = @ \/ (trades[i].by = t /\ trades[i].state # "LOST")]]
  /\ Goes(t, [cycle[t] EXCEPT !.pc = "execute"])
  /\ UNCHANGED <<profile, holder, day>>

\* The cycle ends; submit_m1_event clears its event, or another thread's.
EndCycle(t) ==
  /\ At(t, "execute") /\ cycle[t].approved = {}
  /\ holder' = IF cycle[t].m1 THEN [event |-> FALSE, keep |-> FALSE] ELSE holder
  /\ Goes(t, NoCycle)
  /\ UNCHANGED <<profile, trades, day>>

-----------------------------------------------------------------------------

Becomes(i, s) == trades' = [trades EXCEPT ![i].state = s]

Undisturbed == UNCHANGED <<profile, holder, cycle, day>>

ExitBegins(i) ==
  /\ trades[i].state = "OPEN" /\ Becomes(i, "EXIT_PENDING")
  /\ Undisturbed

ExitFills(i) ==
  /\ trades[i].state = "EXIT_PENDING" /\ Becomes(i, "CLOSED")
  /\ Undisturbed

\* A failed exit leg puts the trade back to OPEN.
ExitFails(i) ==
  /\ trades[i].state = "EXIT_PENDING"
  /\ trades' = [trades EXCEPT ![i].state = "OPEN", ![i].back = TRUE]
  /\ Undisturbed

\* The process dies: recover_lifecycle restores what has a row.  The writes that
\* go with an exit are those of PaperExit.
Crash ==
  /\ trades' = [i \in Trades |->
                  IF trades[i].written THEN trades[i] ELSE [trades[i] EXCEPT !.state = "LOST"]]
  /\ holder' = [event |-> FALSE, keep |-> FALSE]
  /\ cycle' = [t \in Threads |-> NoCycle]
  /\ UNCHANGED <<profile, day>>

NextDay ==
  /\ day < MaxDay
  /\ \A t \in Threads : At(t, "idle")
  /\ day' = day + 1
  /\ UNCHANGED <<profile, trades, holder, cycle>>

CycleStep(t) ==
  \/ PollBegins(t) \/ EventBegins(t) \/ Look(t) \/ Arbitrated(t) \/ WriteRow(t) \/ EndCycle(t)
  \/ \E S \in SUBSET Menu : Evaluate(t, S)
  \/ \E c \in Menu : Weigh(t, c) \/ Refuse(t, c) \/ Enter(t, c)

Next ==
  \/ \E t \in Threads : CycleStep(t)
  \/ \E i \in Trades : ExitBegins(i) \/ ExitFills(i) \/ ExitFails(i)
  \/ Crash
  \/ NextDay

Spec == Init /\ [][Next]_vars

-----------------------------------------------------------------------------

TypeOK ==
  /\ profile \in Profiles
  /\ trades \in Seq(TradeType) /\ Len(trades) <= MaxTrades
  /\ holder \in [event : BOOLEAN, keep : BOOLEAN]
  /\ cycle \in [Threads -> CycleType]
  /\ day \in 1..MaxDay

\* Two cycles of two threads may enter side by side: what they enter together
\* has a trade of M1, the one mode that the protection thread trades.
Beside(i, j) ==
  trades[i].by # trades[j].by /\ "M1" \in {trades[i].item.mode, trades[j].item.mode}

\* Of two trades OPEN on the same legs (in DISCOVERY: of one mode), the earlier
\* was on its way out when the later was let in, or they were entered by the
\* two threads side by side.
DuplicateFree ==
  \A i, j \in Trades :
    /\ i < j /\ trades[i].state = "OPEN" /\ trades[j].state = "OPEN"
    /\ DuplicateKey(trades[i].item) = DuplicateKey(trades[j].item)
    => trades[i].back \/ Beside(i, j)

\* A mode other than M1 has no more trades than its cap, those aside that came
\* back from an exit: neither a cycle's batch nor a stale look lets in one more.
CapKept ==
  \A m \in Modes \ {"M1"} :
    Capped(m) => Cardinality({i \in Incumbents : trades[i].item.mode = m /\ ~trades[i].back}) <= Cap

\* In DISCOVERY a strategy enters the same legs once a day, closed or not; only
\* a crash between fill and row, or the other thread's M1 cycle, lets it in twice.
OnceADay ==
  Discovery =>
    \A i, j \in Trades :
      i < j /\ trades[i].item = trades[j].item /\ trades[i].day = trades[j].day =>
        trades[i].state = "LOST" \/ Beside(i, j)

\* What one cycle of a STRICT session approves is of one mind.
CycleOfOneMind ==
  ~Discovery => \A t \in Threads : \A c, d \in cycle[t].approved :
                   c # d => ~Overlaps(c, d) /\ ~Opposes(c, d)

\* "Opposing positions proposed without explicit hedge purpose: keep one
\* approved thesis; block the conflicting addition"
\* (docs/plans/NIFTY_FOUR_MODE_CURSOR_REDESIGN.md:493).
OneThesis ==
  ~Discovery => \A i, j \in Incumbents :
                  trades[i].back \/ trades[j].back \/ ~Opposes(trades[i].item, trades[j].item)

\* "The 60-second poll clears any pending event and does not submit M1"
\* (paper_session.py:669).
PollLeavesM1 == \A t \in Threads : ~cycle[t].m1 => \A c \in cycle[t].approved : c.mode # "M1"
=============================================================================
