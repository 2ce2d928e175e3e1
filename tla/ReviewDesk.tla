----------------------------- MODULE ReviewDesk -----------------------------
(***************************************************************************)
(* The positional desk of PaperRunner: the review slots of the day, the    *)
(* exits a review asks for (whole, partial, or the close of a roll), the   *)
(* carry gate of Mode 2, the replacement of a rolled trade and the loss    *)
(* account of its campaign.  One session thread; the process may be killed *)
(* between any two of its writes.  Structures have one leg, the only ones  *)
(* that scale out; the steps inside submit_plan are OmsEngine's.           *)
(***************************************************************************)
EXTENDS Integers, Sequences, FiniteSets, FiniteSetsExt

CONSTANTS Trades,      \* trades, open at the start or opened as replacements
          Held,        \* those in the book at the start
          Directional, \* those of Mode 2, which are reviewed once they are carried
          None,        \* no trade, no key
          Lots,        \* contracts of an entry
          Slots,       \* review slots in a day
          Days,        \* bound: session days
          Horizon,     \* bound: the time that the last of them reaches
          MaxCrashes   \* bound: how often the process is killed

ASSUME TradesAssumption == Directional \cup Held \subseteq Trades /\ None \notin Trades

ASSUME BoundsAssumption == Lots \in Nat /\ Slots \in Nat /\ Days \in Nat \ {0}
                       /\ Horizon \in 0..(Slots + 2) /\ MaxCrashes \in Nat

VARIABLES
  clock,    \* the session day and how many of its times have come
  pos,      \* per trade, its state and open quantity in the TradeManager
  row,      \* per trade, its durable PositionLifecycleRecord
  log,      \* per trade, the exit orders in the durable log, by key
  slots,    \* review_slot_runs of the day, durable
  campaign, \* per campaign, its CampaignRecord, durable
  call,     \* what the session thread is doing
  acted,    \* history: the reviews (trade, day, slot) that have asked for an exit
  cut,      \* history: trades with an exit that a crash cut between fill and record
  adopted,  \* history: trades whose exit was taken from recorded ids
  crashes

vars == <<clock, pos, row, log, slots, campaign, call, acted, cut, adopted, crashes>>

history == <<acted, cut, adopted>>

run == <<clock, crashes>>

-----------------------------------------------------------------------------

\* The times of a day: before the first slot, the slots, entry cutoff, EOD.
Cutoff == Slots + 1

Eod == Slots + 2

States == {"NONE", "OPEN", "EXIT_PENDING", "CLOSING", "CLOSED"}

InFlight == {"EXIT_PENDING", "CLOSING"}

Positions == [state : States, qty : 0..Lots]

\* The legs of exit orders, as the idempotency key names them: whole or
\* review-partial, with their quantity.
Keys == [part : BOOLEAN, qty : 1..Lots]

Actions == {"HOLD", "PARTIAL_EXIT", "FULL_EXIT", "PROPOSE_ROLL"}

Executions == {"NOT_APPLICABLE", "CLOSE_SUBMITTED", "REPLACEMENT_PENDING_L2",
               "REPLACEMENT_REJECTED", "ROLL_SWITCH_COMPLETE"}

Transitions == {"NONE", "CLOSE_PENDING", "CLOSE_COMPLETE", "REPLACEMENT_PENDING_L2",
                "REPLACEMENT_REJECTED", "COMPLETE"}

Reviews == [day : 1..Days, slot : 1..Slots, action : Actions, submitted : BOOLEAN, execution : Executions]

Rows == [pos : Positions, ids : Keys \cup {None}, reviews : Seq(Reviews),
         carry : [1..Days -> {"NONE", "APPROVED", "REJECTED"}],
         roll : Transitions, campaign : Trades \cup {None}]

NoPosition == [state |-> "NONE", qty |-> 0]

Opened == [state |-> "OPEN", qty |-> Lots]

NoRow == [pos |-> NoPosition, ids |-> None, reviews |-> <<>>,
          carry |-> [d \in 1..Days |-> "NONE"], roll |-> "NONE", campaign |-> None]

EntryRow(c) == [NoRow EXCEPT !.pos = Opened, !.campaign = c]

Idle == [pc |-> "idle", back |-> "idle", trade |-> None, todo |-> {}, slot |-> 0, covers |-> {},
         action |-> "HOLD", sent |-> FALSE, part |-> 0, key |-> None]

CallType == [pc : {"idle", "review", "request", "submit", "ids", "apply", "settle", "campaign",
                   "advance", "record", "slots", "carried", "replace", "adopt", "adopted"},
             back : {"idle", "record", "carried"}, trade : Trades \cup {None},
             todo : SUBSET Trades, slot : 0..Slots, covers : SUBSET (1..Slots),
             action : Actions, sent : BOOLEAN, part : 0..Lots, key : Keys \cup {None}]

At(pc) == call.pc = pc

Cur == call.trade

Goes(pc) == call' = [call EXCEPT !.pc = pc]

InBook(t) == pos[t].state \notin {"NONE", "CLOSED"}

Last(r) == r.reviews[Len(r.reviews)]

\* The row as _write_lifecycle writes it.
Written(t) == [row[t] EXCEPT !.pos = pos[t]]

Init ==
  /\ clock = [day |-> 1, time |-> 0]
  /\ pos = [t \in Trades |-> IF t \in Held THEN Opened ELSE NoPosition]
  /\ row = [t \in Trades |-> IF t \in Held THEN EntryRow(t) ELSE NoRow]
  /\ log = [t \in Trades |-> [k \in Keys |-> "NONE"]]
  /\ slots = {}
  /\ campaign = [c \in Trades |-> [closes |-> {}, blocked |-> FALSE]]
  /\ call = Idle
  /\ acted = {} /\ cut = {} /\ adopted = {}
  /\ crashes = 0

-----------------------------------------------------------------------------

\* The next time of the day comes; one that comes during a call is seen after it.
Tick ==
  /\ At("idle") /\ clock.time < (IF clock.day = Days THEN Horizon ELSE Eod)
  /\ clock' = [clock EXCEPT !.time = @ + 1]
  /\ UNCHANGED <<pos, row, log, slots, campaign, call, history, crashes>>

\* PositionReviewRecord holds a submitted proposal for invalid unless its
\* execution is CLOSE_SUBMITTED.  Cycle and recovery read every row of the store:
\* one that is invalid raises in each of them.
Readable ==
  \A t \in Trades : \A i \in DOMAIN row[t].reviews :
    LET r == row[t].reviews[i] IN
    r.action = "PROPOSE_ROLL" /\ r.submitted => r.execution = "CLOSE_SUBMITTED"

\* due_review_slots: the slots whose time has come and that are not recorded.
Pending == {s \in 1..Slots : s <= clock.time /\ clock.time < Eod /\ s \notin slots}

\* One slot is run as it is; several as one recovery in the place of the last.
BeginReviews ==
  /\ Readable /\ At("idle") /\ Pending # {}
  /\ call' = [Idle EXCEPT
       !.pc = "review", !.slot = Max(Pending), !.covers = Pending,
       !.todo = {t \in Trades : pos[t].state # "NONE"}]
  /\ UNCHANGED <<pos, row, log, slots, campaign, history, run>>

\* Mutant: a review on another day of the same slot counts.
RecordedOnAnyDay(t) ==
  \E i \in DOMAIN row[t].reviews : row[t].reviews[i].slot \in call.covers

\* Mutant: only a review that submitted its exit counts.
RecordedIfSubmitted(t) ==
  \E i \in DOMAIN row[t].reviews :
    /\ row[t].reviews[i].day = clock.day /\ row[t].reviews[i].slot \in call.covers
    /\ row[t].reviews[i].submitted

\* _review_already_recorded.
Recorded(t) ==
  \E i \in DOMAIN row[t].reviews :
    row[t].reviews[i].day = clock.day /\ row[t].reviews[i].slot \in call.covers

\* _eligible_for_scheduled_review, for what is still in the open book.
Eligible(t) ==
  InBook(t) /\ (t \in Directional => \E d \in 1..Days : row[t].carry[d] = "APPROVED")

SkipReview(t) ==
  /\ At("review") /\ t \in call.todo /\ (~Eligible(t) \/ Recorded(t))
  /\ call' = [call EXCEPT !.todo = @ \ {t}]
  /\ UNCHANGED <<pos, row, log, slots, campaign, history, run>>

\* The quantity a review may scale out: half of what is open, once.
PartialQuantity(t) == pos[t].qty \div 2

MayScaleOut(t) ==
  /\ pos[t].qty >= 2
  /\ \A i \in DOMAIN row[t].reviews : row[t].reviews[i].action # "PARTIAL_EXIT"

\* The frozen policy decides; an exit in flight is left alone.
Decide(t, action) ==
  /\ At("review") /\ t \in call.todo /\ Eligible(t) /\ ~Recorded(t)
  /\ action = "HOLD" \/ pos[t].state = "OPEN"
  /\ action = "PARTIAL_EXIT" => MayScaleOut(t)
  /\ row' = IF action = "PROPOSE_ROLL" THEN [row EXCEPT ![t] = [Written(t) EXCEPT !.roll = "CLOSE_PENDING"]]
                                       ELSE row
  /\ call' = [call EXCEPT !.trade = t, !.todo = @ \ {t}, !.action = action, !.sent = FALSE,
                          !.part = IF action = "PARTIAL_EXIT" THEN PartialQuantity(t) ELSE 0,
                          !.back = "record",
                          !.pc = IF action = "HOLD" THEN "record" ELSE "request"]
  /\ UNCHANGED <<pos, log, slots, campaign, history, run>>

\* apply_exit_evaluation; manage_exits writes the row at once, a review does not.
RequestExit ==
  /\ At("request")
  /\ pos' = [pos EXCEPT ![Cur].state = IF @ = "OPEN" THEN "EXIT_PENDING" ELSE @]
  /\ row' = IF call.back = "idle" THEN [row EXCEPT ![Cur].pos = pos'[Cur]] ELSE row
  /\ acted' = IF call.back = "record" THEN acted \cup {<<Cur, clock.day, call.slot>>} ELSE acted
  /\ Goes("submit")
  /\ UNCHANGED <<log, slots, campaign, cut, adopted, run>>

\* manage_exits finds a reason to exit a trade, or takes up an exit in flight.
ManageExit(t) ==
  /\ Readable /\ At("idle") /\ pos[t].state = "OPEN"
  /\ call' = [Idle EXCEPT !.pc = "request", !.trade = t]
  /\ UNCHANGED <<pos, row, log, slots, campaign, history, run>>

Resume(t) ==
  /\ Readable /\ At("idle") /\ pos[t].state \in InFlight
  /\ call' = [Idle EXCEPT !.pc = "submit", !.trade = t]
  /\ UNCHANGED <<pos, row, log, slots, campaign, history, run>>

\* _submit_exit takes recorded order ids for the exit in flight.
Adopt ==
  /\ At("submit") /\ row[Cur].ids # None
  /\ Goes("adopt")
  /\ adopted' = adopted \cup {Cur}
  /\ UNCHANGED <<pos, row, log, slots, campaign, acted, cut, run>>

\* _exit_plan has no quote for the leg, or not that many contracts.
NoPlan ==
  /\ At("submit") /\ row[Cur].ids = None
  /\ Goes(call.back)
  /\ UNCHANGED <<pos, row, log, slots, campaign, history, run>>

\* submit_plan: a key that is in the log is answered from it, without the broker.
Submit(answer) ==
  LET q == IF call.part > 0 THEN call.part ELSE pos[Cur].qty
      k == [part |-> q # pos[Cur].qty, qty |-> q]
  IN
  /\ At("submit") /\ row[Cur].ids = None
  /\ q > 0 /\ q <= pos[Cur].qty
  /\ log[Cur][k] # "NONE" => answer = log[Cur][k]
  /\ log' = [log EXCEPT ![Cur][k] = answer]
  /\ call' = [call EXCEPT !.pc = "ids", !.sent = TRUE, !.key = k]
  /\ UNCHANGED <<pos, row, slots, campaign, history, run>>

WriteIds ==
  /\ At("ids")
  /\ row' = [row EXCEPT ![Cur] = [Written(Cur) EXCEPT !.ids = call.key]]
  /\ Goes("apply")
  /\ UNCHANGED <<pos, log, slots, campaign, history, run>>

\* Mutant: a filled exit takes the whole position.
AppliedWhole(p, k, stays) == [p EXCEPT !.state = "CLOSED", !.qty = 0]

\* Mutant: the fill is counted with the sign of an entry.
AppliedSigned(p, k, stays) ==
  [state |-> IF stays THEN "OPEN" ELSE "CLOSING", qty |-> p.qty + k.qty]

\* apply_exit_order_event, of a fill.
Applied(p, k, stays) ==
  LET left == p.qty - k.qty IN
  IF left <= 0 THEN [state |-> "CLOSED", qty |-> 0]
               ELSE [state |-> IF stays THEN "OPEN" ELSE "CLOSING", qty |-> left]

Answered(k, stays) ==
  pos' = [pos EXCEPT ![Cur] = IF log[Cur][k] = "FILLED" THEN Applied(pos[Cur], k, stays)
                              ELSE [pos[Cur] EXCEPT !.state = "OPEN"]]

Apply ==
  /\ At("apply")
  /\ Answered(call.key, call.part > 0)
  /\ Goes("settle")
  /\ UNCHANGED <<row, log, slots, campaign, history, run>>

\* The row with the outcome; the ids stay for a whole exit that was not refused.
Kept(k, stays) == IF stays \/ log[Cur][k] = "REJECTED" THEN None ELSE k

Settle ==
  /\ At("settle")
  /\ row' = [row EXCEPT ![Cur] = [Written(Cur) EXCEPT !.ids = Kept(call.key, call.part > 0)]]
  /\ Goes(IF pos[Cur].state = "CLOSED" THEN "campaign" ELSE call.back)
  /\ UNCHANGED <<pos, log, slots, campaign, history, run>>

\* _record_campaign_close: the close enters the campaign once; a loss may
\* exhaust it.
RecordClose(loss) ==
  /\ At("campaign")
  /\ LET c == row[Cur].campaign IN
     campaign' = IF c = None \/ Cur \in campaign[c].closes THEN campaign
                 ELSE [campaign EXCEPT ![c] = [closes |-> @.closes \cup {Cur},
                                               blocked |-> @.blocked \/ loss]]
  /\ Goes("advance")
  /\ UNCHANGED <<pos, row, log, slots, history, run>>

\* The row with its last review marked (patch_last_review_execution).
Patched(r, execution) ==
  IF r.reviews = <<>> THEN r
  ELSE [r EXCEPT !.reviews[Len(r.reviews)].execution = execution]

\* Mutant: the transition is left where it is.
AdvancedOnlyPatched(r) == Patched(r, "REPLACEMENT_PENDING_L2")

\* _advance_roll_switch_after_close, with transition_after_close.
Advanced(r) ==
  IF r.roll = "NONE" THEN r
  ELSE [Patched(r, "REPLACEMENT_PENDING_L2") EXCEPT
          !.roll = IF @ = "CLOSE_PENDING" THEN "CLOSE_COMPLETE" ELSE @]

Advance ==
  /\ At("advance")
  /\ row' = [row EXCEPT ![Cur] = Advanced(Written(Cur))]
  /\ Goes(call.back)
  /\ UNCHANGED <<pos, log, slots, campaign, history, run>>

\* _adopt_existing_exit_orders: the recorded order is applied once more, the row
\* written; neither the campaign nor the transition is looked at.
AdoptApply ==
  /\ At("adopt")
  /\ Answered(row[Cur].ids, call.part > 0)
  /\ Goes("adopted")
  /\ UNCHANGED <<row, log, slots, campaign, history, run>>

AdoptSettle ==
  /\ At("adopted")
  /\ row' = [row EXCEPT ![Cur] = [Written(Cur) EXCEPT !.ids = Kept(row[Cur].ids, call.part > 0)]]
  /\ call' = [call EXCEPT !.pc = call.back, !.sent = TRUE]
  /\ UNCHANGED <<pos, log, slots, campaign, history, run>>

\* The review's record is the last of its writes.
RecordReview ==
  /\ Readable /\ At("record")
  /\ row' = [row EXCEPT ![Cur] = [Written(Cur) EXCEPT !.reviews = Append(@,
       [day |-> clock.day, slot |-> call.slot, action |-> call.action,
        submitted |-> call.sent,
        execution |-> IF call.action = "PROPOSE_ROLL" THEN "CLOSE_SUBMITTED" ELSE "NOT_APPLICABLE"])]]
  /\ call' = [call EXCEPT !.pc = "review", !.trade = None, !.action = "HOLD", !.sent = FALSE,
                          !.part = 0, !.key = None, !.back = "idle"]
  /\ UNCHANGED <<pos, log, slots, campaign, history, run>>

\* When every trade was looked at, each slot that the work stood for is recorded.
EndReviews ==
  /\ At("review") /\ call.todo = {}
  /\ Goes("slots")
  /\ UNCHANGED <<pos, row, log, slots, campaign, history, run>>

RecordSlot ==
  /\ At("slots")
  /\ slots' = slots \cup {Min(call.covers \ slots)}
  /\ call' = IF call.covers \subseteq slots' THEN Idle ELSE call
  /\ UNCHANGED <<pos, row, log, campaign, history, run>>

-----------------------------------------------------------------------------

\* run_m2_carry_gate, past the entry cutoff and once a day for a trade: the carry
\* is approved, or the exit begun.
CarryGate(t, approved) ==
  /\ Readable /\ At("idle") /\ clock.time = Cutoff
  /\ t \in Directional /\ pos[t].state = "OPEN" /\ row[t].carry[clock.day] = "NONE"
  /\ IF approved
       THEN /\ row' = [row EXCEPT ![t] = [Written(t) EXCEPT !.carry[clock.day] = "APPROVED"]]
            /\ UNCHANGED call
       ELSE /\ call' = [Idle EXCEPT !.pc = "request", !.trade = t, !.back = "carried"]
            /\ UNCHANGED row
  /\ UNCHANGED <<pos, log, slots, campaign, history, run>>

RecordCarry ==
  /\ Readable /\ At("carried")
  /\ row' = [row EXCEPT ![Cur] = [Written(Cur) EXCEPT !.carry[clock.day] = "REJECTED"]]
  /\ call' = Idle
  /\ UNCHANGED <<pos, log, slots, campaign, history, run>>

\* submit_roll_switch_replacement.
BeginReplacement(t) ==
  /\ Readable /\ At("idle") /\ clock.time < Cutoff
  /\ row[t].roll \notin {"NONE", "CLOSE_PENDING", "REPLACEMENT_REJECTED"}
  /\ "CLOSED" \in {pos[t].state, row[t].pos.state}
  /\ row' = [row EXCEPT ![t].roll = "REPLACEMENT_PENDING_L2"]
  /\ call' = [Idle EXCEPT !.pc = "replace", !.trade = t]
  /\ UNCHANGED <<pos, log, slots, campaign, history, run>>

\* Layer 2 approves it unless its campaign is exhausted; it joins the campaign.
Replace(u) ==
  /\ At("replace") /\ pos[u].state = "NONE" /\ row[u].pos.state = "NONE"
  /\ row[Cur].campaign # None => ~campaign[row[Cur].campaign].blocked
  /\ pos' = [pos EXCEPT ![u] = Opened]
  /\ row' = [row EXCEPT ![u] = EntryRow(row[Cur].campaign),
                        ![Cur] = [Patched(@, "ROLL_SWITCH_COMPLETE") EXCEPT !.roll = "COMPLETE"]]
  /\ call' = Idle
  /\ UNCHANGED <<log, slots, campaign, history, run>>

RejectReplacement ==
  /\ At("replace")
  /\ row' = [row EXCEPT ![Cur] =
               [Patched(@, "REPLACEMENT_REJECTED") EXCEPT !.roll = "REPLACEMENT_REJECTED"]]
  /\ call' = Idle
  /\ UNCHANGED <<pos, log, slots, campaign, history, run>>

\* recover_lifecycle takes the positions from the rows that are not CLOSED.
Restored(r) == [t \in Trades |-> IF r[t].pos.state = "CLOSED" THEN NoPosition ELSE r[t].pos]

\* The session ends: flush_lifecycle writes every row.  The next one is tomorrow's.
NextDay ==
  /\ Readable /\ At("idle") /\ clock.time = Eod /\ clock.day < Days
  /\ clock' = [day |-> clock.day + 1, time |-> 0]
  /\ row' = [t \in Trades |-> IF InBook(t) THEN Written(t) ELSE row[t]]
  /\ pos' = Restored(row')
  /\ slots' = {}
  /\ UNCHANGED <<log, campaign, call, history, crashes>>

\* Where an exit is filled and not yet recorded as filled.
Open == {"ids", "apply", "settle", "campaign", "advance", "adopted"}

Restart ==
  /\ Readable /\ crashes < MaxCrashes
  /\ crashes' = crashes + 1
  /\ pos' = Restored(row)
  /\ call' = Idle
  /\ cut' = IF call.pc \in Open \/ call.back = "record" THEN cut \cup {Cur} ELSE cut
  /\ UNCHANGED <<clock, row, log, slots, campaign, acted, adopted>>

Exit ==
  \/ RequestExit \/ Adopt \/ NoPlan \/ WriteIds \/ Apply \/ Settle \/ Advance
  \/ AdoptApply \/ AdoptSettle
  \/ \E answer \in {"FILLED", "REJECTED"} : Submit(answer)
  \/ \E loss \in BOOLEAN : RecordClose(loss)
  \/ \E t \in Trades : ManageExit(t) \/ Resume(t)

Review ==
  \/ BeginReviews \/ RecordReview \/ EndReviews \/ RecordSlot
  \/ \E t \in Trades : SkipReview(t) \/ \E action \in Actions : Decide(t, action)

Carry == RecordCarry \/ \E t \in Trades, approved \in BOOLEAN : CarryGate(t, approved)

Replacement ==
  RejectReplacement \/ \E t \in Trades : BeginReplacement(t) \/ Replace(t)

Next == Exit \/ Review \/ Carry \/ Replacement \/ Tick \/ NextDay \/ Restart

Spec == Init /\ [][Next]_vars

-----------------------------------------------------------------------------

\* The variables have their types.
TypeOK ==
  /\ clock \in [day : 1..Days, time : 0..Eod]
  /\ pos \in [Trades -> Positions]
  /\ row \in [Trades -> Rows]
  /\ log \in [Trades -> [Keys -> {"NONE", "FILLED", "REJECTED"}]]
  /\ slots \subseteq 1..Slots
  /\ campaign \in [Trades -> [closes : SUBSET Trades, blocked : BOOLEAN]]
  /\ call \in CallType
  /\ acted \subseteq Trades \X (1..Days) \X (1..Slots)
  /\ cut \subseteq Trades /\ adopted \subseteq Trades
  /\ crashes \in 0..MaxCrashes

\* The contracts that the exits of a trade have sold, by the durable log.
Sold(t) == MapThenSumSet(LAMBDA k : k.qty, {k \in Keys : log[t][k] = "FILLED"})

\* What the book holds of a trade and what its exits have sold are its entry: no
\* fill is missed and none is counted twice, whatever the mix of scale-outs, whole
\* exits, refusals and resumptions (apply_exit_order_event over the answers of
\* submit_plan, which repeats a fill for a key it knows), unless a crash has cut
\* an exit of the trade between its fill and its record.
FillsCounted ==
  \A t \in Trades : pos[t].state \in {"OPEN", "CLOSED"} /\ t \notin cut => Lots = pos[t].qty + Sold(t)

\* A review asks for the exit of a trade once: no slot that is run again, by a
\* recovery or after a restart, begins a second exit for a review that has begun
\* one (_review_already_recorded), unless the crash came between the two.
ActsOnce ==
  [][\A t \in Trades :
       At("request") /\ call'.pc = "submit" /\ call.back = "record" /\ Cur = t
         /\ <<t, clock.day, call.slot>> \in acted => t \in cut]_vars

\* Outside the work of an exit, a closed trade has been settled: its loss is in
\* the account of its campaign, and a roll that waited for it waits no more
\* (_record_campaign_close, _advance_roll_switch_after_close).
ClosedIsSettled ==
  At("idle") => \A t \in Trades :
    row[t].pos.state = "CLOSED" /\ t \notin cut \cup adopted =>
      /\ row[t].roll # "CLOSE_PENDING"
      /\ row[t].campaign # None => t \in campaign[row[t].campaign].closes

\* A slot is recorded as run only when every open trade it was due for has a
\* review of it, also when slots are recovered together and the process dies
\* among the records (run_review_slot, record_review_slot_run).
SlotReviewed ==
  [][\A s \in slots' \ slots : \A t \in Trades :
       Eligible(t) => \E i \in DOMAIN row[t].reviews :
         row[t].reviews[i].day = clock.day
           /\ row[t].reviews[i].slot \in call.covers]_vars

\* Every row can be read back by the next cycle and by the next start: no step
\* writes a record that its own reader refuses (model_copy does not validate what
\* model_validate asks of a PositionReviewRecord).
RowsReadable == Readable

=============================================================================
