------------------------------ MODULE Accounts ------------------------------
(***************************************************************************)
(* What the trades of one mode earned: the fills in the order log, the     *)
(* charge rows written beside them, the campaigns that close them, and the *)
(* mode's ledger, which is rebuilt from all of these when the process      *)
(* starts, and only then.  One process a day; it may be killed between any *)
(* two writes.  The order of the steps is _submit_exit's and the entry's;  *)
(* how an exit comes about is PaperExit's, rolls are ReviewDesk's.         *)
(***************************************************************************)
EXTENDS Integers, FiniteSets, FiniteSetsExt

CONSTANTS Trades,
          Profiles,
          Results,          \* gross results of a trade
          Fees,             \* what the charge policy may ask of one fill
          Estimate,         \* charges_per_lot, for each fill of a trade
          Risk,             \* recalculated_max_loss
          Capital,          \* allocated to the mode
          OpenPercent,      \* max_open_loss_cap_fraction of the reference capital
          DayPercent,       \* daily_budget_cap_fraction of it
          Days, MaxCrashes,
          None

VARIABLES
  profile, day, crashes,
  fills,     \* the order log: per trade and side what it cost to fill, or None
  gross,     \* per trade, the cash flow of its fills
  charged,   \* the fills that have a charge row
  row,       \* the lifecycle rows
  campaign,  \* the campaign rows; the process has the same in memory
  ledger,    \* the mode's, in memory
  call       \* what the session thread is at

vars == <<profile, day, crashes, fills, gross, charged, row, campaign, ledger, call>>

durable == <<fills, gross, charged, row, campaign>>

-----------------------------------------------------------------------------

NoRow == [state |-> "NONE", camp |-> None, day |-> 0, next |-> FALSE]

NoCampaign == [closes |-> {}, net |-> 0, estimated |-> 0, high |-> 0, drawdown |-> 0,
               limit |-> 0, blocked |-> FALSE]

Idle == [at |-> "idle", t |-> None, camp |-> None]

At(step) == call.at = step

Goes(step) == call' = [call EXCEPT !.at = step]

Filled(t) == {f \in {"entry", "exit"} : fills[t][f] # None}

\* What a function adds up to over a set (MapThenSumSet, without an operator for its
\* argument: the provers see through this one).
SumOf(f, set) ==
  LET one(s) == CHOOSE x \in s : TRUE
      sum[s \in SUBSET set] == IF s = {} THEN 0 ELSE f[one(s)] + sum[s \ {one(s)}]
  IN  sum[set]

\* trade_confirmed_charges: of the fills that have a row.
Confirmed(t) == SumOf([f \in Filled(t) |-> IF <<t, f>> \in charged THEN fills[t][f] ELSE 0], Filled(t))

\* estimate_trade_charges
Estimated(t) == Estimate * Cardinality(Filled(t))

\* conservative_realized_net
Net(t) == Min({gross[t] - Confirmed(t), gross[t] - Estimated(t)})

Closed == {t \in Trades : row[t].state = "CLOSED"}

Open == {t \in Trades : row[t].state \in {"OPEN", "EXITING"}}

\* _accumulate_positions
Earned(days) == SumOf([t \in Trades |-> Net(t)], {t \in Closed : row[t].day \in days})

\* FourModeBook.reconstruct_from_store: earlier days are in the allocation.
Rebuilt(today) ==
  [allocated |-> Capital + Earned(1..today-1), today |-> Earned({today}), margin |-> Risk * Cardinality(Open)]

-----------------------------------------------------------------------------
\* ModeLedger

Reference == Min({ledger.allocated, ledger.allocated + ledger.today})

OpenCap(capital) == (capital * OpenPercent) \div 100

DayBudget(capital) == (capital * DayPercent) \div 100

\* daily_loss_remaining
DayLeft == Max({DayBudget(Reference) + Min({ledger.today, 0}), 0})

\* evaluate_pre_trade_limits, of the mode.
WithinMode == Risk <= DayLeft /\ ledger.margin + Risk <= OpenCap(Reference)

\* conservative_campaign_net
CampaignNet(c) == Min({c.net, c.estimated})

\* Mutant: what is still to be lost is left out.
BreachedAlready(c, more) == CampaignNet(c) < -c.limit

\* _loss_limit_breached
Breached(c, more) == CampaignNet(c) - more < -c.limit

\* evaluate_campaign_limit
WithinCampaign(c) == c # None => ~(campaign[c].blocked \/ Breached(campaign[c], Risk))

Init ==
  /\ profile \in Profiles
  /\ day = 1 /\ crashes = 0
  /\ fills = [t \in Trades |-> [f \in {"entry", "exit"} |-> None]]
  /\ gross = [t \in Trades |-> 0]
  /\ charged = {}
  /\ row = [t \in Trades |-> NoRow]
  /\ campaign = [t \in Trades |-> NoCampaign]
  /\ ledger = [allocated |-> Capital, today |-> 0, margin |-> 0]
  /\ call = Idle

-----------------------------------------------------------------------------
\* An entry: of a new campaign, or the replacement of a trade that a roll closed.

\* DISCOVERY notes what STRICT would have refused and goes on.
Approve(t, camp) ==
  /\ At("idle") /\ Filled(t) = {}
  /\ profile = "STRICT" => WithinMode /\ WithinCampaign(camp)
  /\ call' = [at |-> "fill", t |-> t, camp |-> camp]
  /\ UNCHANGED <<profile, day, crashes, durable, ledger>>

Enter(t) == Approve(t, None)

\* _stamp_roll_switch_replacement_request: asked for once, by a close that was recorded.
Replace(t, u) ==
  /\ row[t].state = "CLOSED" /\ row[t].next
  /\ Approve(u, row[t].camp)

FillEntry(fee) ==
  /\ At("fill")
  /\ fills' = [fills EXCEPT ![call.t]["entry"] = fee]
  /\ Goes("charge")
  /\ UNCHANGED <<profile, day, crashes, gross, charged, row, campaign, ledger>>

\* record_fill_charge: one row per fill.
ChargeEntry ==
  /\ At("charge")
  /\ charged' = charged \cup {<<call.t, "entry">>}
  /\ Goes("campaign")
  /\ UNCHANGED <<profile, day, crashes, fills, gross, row, campaign, ledger>>

\* _ensure_campaign_on_entry: begin_campaign, or link_trade.  A campaign is named by
\* its first trade.
Begin ==
  /\ At("campaign")
  /\ campaign' = IF call.camp # None THEN campaign
                 ELSE [campaign EXCEPT ![call.t] = [NoCampaign EXCEPT !.limit = OpenCap(Reference)]]
  /\ ledger' = [ledger EXCEPT !.margin = @ + Risk]
  /\ Goes("row")
  /\ UNCHANGED <<profile, day, crashes, fills, gross, charged, row>>

WriteRow ==
  /\ At("row")
  /\ LET camp == IF call.camp = None THEN call.t ELSE call.camp IN
     row' = [t \in Trades |->
               IF t = call.t THEN [NoRow EXCEPT !.state = "OPEN", !.camp = camp]
               ELSE IF row[t].camp = camp THEN [row[t] EXCEPT !.next = FALSE] ELSE row[t]]
  /\ call' = Idle
  /\ UNCHANGED <<profile, day, crashes, fills, gross, charged, campaign, ledger>>

-----------------------------------------------------------------------------
\* _submit_exit

\* submit_plan: an exit that a crash cut off before its ids were written is found by
\* its key, and fills no second time.
FillExit(t, result, fee) ==
  /\ At("idle") /\ row[t].state = "OPEN"
  /\ IF fills[t]["exit"] = None
       THEN /\ fills' = [fills EXCEPT ![t]["exit"] = fee]
            /\ gross' = [gross EXCEPT ![t] = result]
       ELSE UNCHANGED <<fills, gross>>
  /\ call' = [at |-> "ids", t |-> t, camp |-> None]
  /\ UNCHANGED <<profile, day, crashes, charged, row, campaign, ledger>>

WriteIds ==
  /\ At("ids")
  /\ row' = [row EXCEPT ![call.t].state = "EXITING"]
  /\ Goes("chargeExit")
  /\ UNCHANGED <<profile, day, crashes, fills, gross, charged, campaign, ledger>>

ChargeExit ==
  /\ At("chargeExit")
  /\ charged' = charged \cup {<<call.t, "exit">>}
  /\ Goes("close")
  /\ UNCHANGED <<profile, day, crashes, fills, gross, row, campaign, ledger>>

\* The row, and note_mode_close: the ledger loses the margin, and no word of the result.
ClosedIn(t) ==
  /\ row' = [row EXCEPT ![t].state = "CLOSED", ![t].day = day]
  /\ ledger' = [ledger EXCEPT !.margin = Max({@ - Risk, 0})]

WriteClosed ==
  /\ At("close")
  /\ ClosedIn(call.t)
  /\ Goes("record")
  /\ UNCHANGED <<profile, day, crashes, fills, gross, charged, campaign>>

\* CampaignLedger.record_close
Recorded(c, t) ==
  LET net == c.net + gross[t] - Confirmed(t)
      estimated == c.estimated + gross[t] - Estimated(t)
      sums == [c EXCEPT !.closes = @ \cup {t}, !.net = net, !.estimated = estimated,
                        !.high = Max({@, net})]
  IN  IF t \in c.closes THEN c
      ELSE [sums EXCEPT !.drawdown = Max({sums.high - CampaignNet(sums), 0}),
                        !.blocked = @ \/ Breached(sums, 0)]

\* _record_campaign_close, and _advance_roll_switch_after_close of a trade that rolls.
RecordClose(rolls) ==
  /\ At("record")
  /\ campaign' = [campaign EXCEPT ![row[call.t].camp] = Recorded(@, call.t)]
  /\ row' = [row EXCEPT ![call.t].next = rolls]
  /\ call' = Idle
  /\ UNCHANGED <<profile, day, crashes, fills, gross, charged, ledger>>

\* _adopt_existing_exit_orders: neither a charge nor the campaign.
Adopt(t) ==
  /\ At("idle") /\ row[t].state = "EXITING"
  /\ ClosedIn(t)
  /\ UNCHANGED <<profile, day, crashes, fills, gross, charged, campaign, call>>

-----------------------------------------------------------------------------
\* run_paper_session rebuilds the ledger, recover_lifecycle fills in the charges.

\* Mutant: without _backfill_fill_charges.
StartedWithoutCharges(today) ==
  /\ ledger' = Rebuilt(today)
  /\ call' = Idle
  /\ UNCHANGED <<profile, fills, gross, charged, row, campaign>>

Started(today) ==
  /\ ledger' = Rebuilt(today)
  /\ charged' = {x \in Trades \X {"entry", "exit"} : x[2] \in Filled(x[1])}
  /\ call' = Idle
  /\ UNCHANGED <<profile, fills, gross, row, campaign>>

Crash ==
  /\ crashes < MaxCrashes
  /\ crashes' = crashes + 1
  /\ Started(day) /\ UNCHANGED day

\* The session ends with the day, idle.
NextDay ==
  /\ At("idle") /\ day < Days
  /\ day' = day + 1
  /\ Started(day + 1) /\ UNCHANGED crashes

Next ==
  \/ \E t \in Trades : Enter(t) \/ Adopt(t)
  \/ \E t, u \in Trades : Replace(t, u)
  \/ \E fee \in Fees : FillEntry(fee)
  \/ \E t \in Trades, result \in Results, fee \in Fees : FillExit(t, result, fee)
  \/ \E rolls \in BOOLEAN : RecordClose(rolls)
  \/ ChargeEntry \/ Begin \/ WriteRow \/ WriteIds \/ ChargeExit \/ WriteClosed
  \/ Crash \/ NextDay

Spec == Init /\ [][Next]_vars

-----------------------------------------------------------------------------

Of(c) == {t \in Closed : row[t].camp = c}

\* Every fill of a closed trade has its charge row: the order of the writes and the
\* backfill leave no close with the charges of an earlier crash missing, so that the
\* net results count them all (record_fill_charge, backfill_fill_charges).
ClosedIsCharged ==
  \A t \in Closed : \A f \in Filled(t) : <<t, f>> \in charged

\* Under STRICT the trades of a campaign never lose more than its limit together,
\* however many replacements it has, whatever crashes and however its closes are
\* found, as long as each keeps within its own risk (record_close, evaluate_campaign_limit).
CampaignBounded ==
  profile = "STRICT" =>
    \A c \in Trades :
      Of(c) # {} => SumOf([t \in Trades |-> gross[t] - Estimated(t)], Of(c)) >= -campaign[c].limit

\* "Mode daily-loss breach blocks that mode's entries" (FOUR_MODE_LAYER_CHANGE_CRITERIA.md):
\* not so until the process starts again.
DayLossBlocks ==
  profile = "STRICT" /\ At("fill") =>
    -Earned({day}) < DayBudget(Capital)

=============================================================================
