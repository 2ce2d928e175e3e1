---------------------------- MODULE MCTradeLife ----------------------------
(***************************************************************************)
(* Parts that share no state, checked in one run: entries beside crashes   *)
(* (the EntryCycle that this module extends), entries of a session that is *)
(* not killed (S), how long one trade is held (H), the bounds of its exit  *)
(* (X), and what trades earn (A).  The first state says which part moves;  *)
(* the others stay as they start.                                          *)
(***************************************************************************)
EXTENDS EntryCycle, Sequences

CONSTANTS Parts,  \* the parts of the run
          HeldTrades, Dtes, Gaps, Sure, MinDte, Sessions,  \* of Holding
          Books, Results, Fees, Estimate, Risk, Funds, OpenPercent, DayPercent, Span, MaxCrashes,  \* of Accounts
          Structures, Slips, MaxLoss, StopTicks, TargetTicks, Confirm, Spots,  \* of StructureExits
          None

ASSUME HoldingAssumption ==
  /\ \A x \in HeldTrades : x.mode \in {"M1", "M2", "M3", "M4"} /\ (x.flatten = None \/ x.flatten \in Nat)
  /\ Dtes \subseteq Nat /\ Gaps \subseteq Nat /\ MinDte \in Nat \ {0} /\ Sessions \in Nat \ {0}

\* The result of a trade, less what its two fills are estimated to cost, is within
\* the risk that it was approved with.
ASSUME AccountsAssumption ==
  /\ IsFiniteSet(Books) /\ None \notin Books /\ Results \subseteq Int /\ Fees \subseteq Int /\ None \notin Fees
  /\ Estimate \in Nat /\ Risk \in Nat /\ Funds \in Int /\ OpenPercent \in Int /\ DayPercent \in Int
  /\ \A r \in Results : r - 2 * Estimate >= -Risk

\* One leg is bought.  Two legs are a vertical, whose fills cost or bring less than its
\* width, or a straddle or a strangle; the underlying may end at each of their strikes.
ASSUME BoundsAssumption ==
  /\ Slips \subseteq Int /\ MaxLoss \in Nat \ {0} /\ StopTicks \in Nat /\ TargetTicks \in Nat
  /\ Confirm \in Nat \ {0} /\ Spots \subseteq Nat /\ None \notin Int
  /\ \A p \in Structures :
       /\ Len(p) \in 1..4 /\ DOMAIN p = 1..Len(p)
       /\ \A i \in DOMAIN p : p[i] \in [kind : {"CALL", "PUT"}, side : {"BUY", "SELL"}, strike : Nat,
                                      premium : Nat, qty : Nat \ {0}]
       /\ Len(p) = 1 => p[1].side = "BUY"
       /\ Len(p) <= 2 => \A i \in DOMAIN p : p[i].strike \in Spots
       /\ Len(p) = 2 /\ p[1].side = p[2].side =>
            \E c \in 1..2 : /\ p[1].side = "BUY" /\ p[c].kind = "CALL" /\ p[3 - c].kind = "PUT"
                           /\ p[3 - c].strike <= p[c].strike
       /\ Len(p) = 2 /\ p[1].side # p[2].side =>
            /\ p[1].kind = p[2].kind /\ p[1].qty = p[2].qty
            /\ \A s, t \in Slips :
                 LET one == p[1].premium + s  two == p[2].premium + t IN
                 one >= 0 /\ two >= 0 =>
                   \E i \in 1..2 : /\ one - two < p[i].strike - p[3 - i].strike
                                  /\ two - one < p[i].strike - p[3 - i].strike

VARIABLES
  part,
  sHold, sKeys, sLedger, sLog, sOrder, sExited, sTrade, sRow, sInBook, sProfile, sAttempts, sCycle, sClosing,
  hTrade, hEod, hClock, hLeft, hState, hTimed, hCarry, hSlots, hMarket, hInferred, hUnfilled,
  xProfile, xPlan, xLegs, xState, xPolicy, xJudged,
  aProfile, aDay, aCrashes, aFills, aGross, aCharged, aRow, aCampaign, aLedger, aCall

crash == vars

steady == <<sHold, sKeys, sLedger, sLog, sOrder, sExited, sTrade, sRow, sInBook, sProfile, sAttempts, sCycle, sClosing>>

holding == <<hTrade, hEod, hClock, hLeft, hState, hTimed, hCarry, hSlots, hMarket, hInferred, hUnfilled>>

exits == <<xProfile, xPlan, xLegs, xState, xPolicy, xJudged>>

accounts == <<aProfile, aDay, aCrashes, aFills, aGross, aCharged, aRow, aCampaign, aLedger, aCall>>

all == <<part, crash, steady, holding, exits, accounts>>

-----------------------------------------------------------------------------

\* Either profile, intents emitted three times, no crash, closes between cycles.
Steadily == INSTANCE EntryCycle WITH
  Spreads <- {x \in Intents : x \notin Spreads}, Recurring <- Intents \ {CHOOSE x \in Intents : x \notin Spreads},
  MaxAttempts <- 3, Batch <- 3, Capital <- 8, GlobalCap <- 2, Profiles <- {"STRICT", "DISCOVERY"},
  Concurrent <- FALSE,
  hold <- sHold, keys <- sKeys, ledger <- sLedger, log <- sLog, order <- sOrder, exited <- sExited,
  trade <- sTrade, row <- sRow, inBook <- sInBook, profile <- sProfile, attempts <- sAttempts,
  cycle <- sCycle, closing <- sClosing

-----------------------------------------------------------------------------

Trade(mode, view, setup, flatten) ==
  [mode |-> mode, view |-> view, setup |-> setup, fits |-> TRUE, flatten |-> flatten]

\* Trades of each mode, with and without the setup that they were opened in, one
\* that asks for more risk than a night may cost, and one without a flatten rule.
MCTrades ==
  {Trade("M1", "CALL", None, 1), Trade("M2", "CALL", "UP", 1), Trade("M2", "PUT", None, 1),
   [Trade("M2", "CALL", "RANGE", 1) EXCEPT !.fits = FALSE],
   Trade("M3", "SPREAD", None, 1), Trade("M4", "SPREAD", None, 2), Trade("M4", "SPREAD", None, None)}

Hold == INSTANCE Holding WITH
  Trades <- HeldTrades, Days <- Sessions,
  trade <- hTrade, eod <- hEod, clock <- hClock, left <- hLeft, state <- hState, timed <- hTimed,
  carry <- hCarry, slots <- hSlots, market <- hMarket, inferred <- hInferred, unfilled <- hUnfilled

-----------------------------------------------------------------------------

OptionLeg(kind, side, strike, premium) ==
  [kind |-> kind, side |-> side, strike |-> strike, premium |-> premium, qty |-> 1]

Twice(s) == [i \in DOMAIN s |-> [s[i] EXCEPT !.qty = 2]]

\* A bought call, a debit and a credit vertical, a strangle, an iron butterfly and a condor.
MCStructures ==
  LET long == <<OptionLeg("CALL", "BUY", 10, 6)>>
      debit == <<OptionLeg("CALL", "BUY", 10, 6), OptionLeg("CALL", "SELL", 18, 3)>>
      credit == <<OptionLeg("PUT", "BUY", 10, 3), OptionLeg("PUT", "SELL", 18, 8)>>
      fly == <<OptionLeg("PUT", "BUY", 10, 2), OptionLeg("CALL", "BUY", 26, 2), OptionLeg("PUT", "SELL", 18, 5), OptionLeg("CALL", "SELL", 18, 5)>>
      strangle == <<OptionLeg("PUT", "BUY", 14, 3), OptionLeg("CALL", "BUY", 18, 2)>>
      condor == <<OptionLeg("PUT", "BUY", 6, 3), OptionLeg("CALL", "BUY", 30, 3), OptionLeg("PUT", "SELL", 14, 4), OptionLeg("CALL", "SELL", 22, 4)>>
  IN  {long, debit, credit, strangle, fly, condor, Twice(long), Twice(debit), Twice(credit), Twice(condor)}

MCSlips == {-1, 0, 1}

Exit == INSTANCE StructureExits WITH
  profile <- xProfile, plan <- xPlan, legs <- xLegs, state <- xState, policy <- xPolicy, judged <- xJudged

-----------------------------------------------------------------------------

\* A loss that the risk of 6 just covers with the estimated costs, and a gain.
MCResults == {-4, 3}

Earn == INSTANCE Accounts WITH
  Trades <- Books, Profiles <- {"STRICT", "DISCOVERY"}, Capital <- Funds, Days <- Span,
  profile <- aProfile, day <- aDay, crashes <- aCrashes, fills <- aFills, gross <- aGross,
  charged <- aCharged, row <- aRow, campaign <- aCampaign, ledger <- aLedger, call <- aCall

-----------------------------------------------------------------------------

Start ==
  /\ part \in Parts
  /\ Init
  /\ Steadily!Init /\ (part = "steady" \/ sProfile = "STRICT")
  /\ Hold!Init /\ (part = "holding" \/ (hTrade.mode = "M1" /\ hEod = "positional" /\ hLeft = 4 /\ hClock.time = 1))
  /\ Exit!Init /\ (part = "bounds" \/ (xProfile = "DISCOVERY" /\ Len(xPlan) = 1 /\ xPlan[1].qty = 1))
  /\ Earn!Init /\ (part = "accounts" \/ aProfile = "STRICT")

Crashing == part = "crash" /\ Next /\ UNCHANGED <<part, steady, holding, exits, accounts>>

Steady == part = "steady" /\ Steadily!SteadyNext /\ UNCHANGED <<part, crash, holding, exits, accounts>>

Days == part = "holding" /\ Hold!Next /\ UNCHANGED <<part, crash, steady, exits, accounts>>

Fills == part = "bounds" /\ Exit!Next /\ UNCHANGED <<part, crash, steady, holding, accounts>>

Earnings == part = "accounts" /\ Earn!Next /\ UNCHANGED <<part, crash, steady, holding, exits>>

TradeLife == Start /\ [][Crashing \/ Steady \/ Days \/ Fills \/ Earnings]_all

-----------------------------------------------------------------------------

\* Between cycles the ledger of a mode is what its durable holds say
\* (ModeLedger against the reservations table).
SteadyLedger == Steadily!LedgerMatchesHolds

\* What is held without a row is of an aborted entry, all else is an open trade.
SteadyHoldings == Steadily!HeldOrAborted

\* What is held overnight is positional, or its carry was approved in this session, or
\* an exit of it at the cutoff or later did not fill (run_m2_carry_gate, manage_exits).
HeldByDecision == Hold!HeldByDecision

\* A trade with a flatten rule is held at the close of its expiry only when its exit
\* did not fill (ReviewEngine.evaluate, with the time exit and the carry gate).
NothingExpires == Hold!NothingExpires

\* The stop and the target of a vertical are both within what it can do
\* (structure_pnl_bounds).
BoundsReached == Exit!BoundsReached

\* No close counts with a charge row missing (record_fill_charge, backfill_fill_charges).
ClosedIsCharged == Earn!ClosedIsCharged

\* Under STRICT a campaign never loses more than its limit (evaluate_campaign_limit).
CampaignBounded == Earn!CampaignBounded

\* "Mode daily-loss breach blocks that mode's entries"
\* (FOUR_MODE_LAYER_CHANGE_CRITERIA.md): not so.
DayLossBlocks == Earn!DayLossBlocks

\* "multi-leg credit: stop stays below 90% of max loss" (discovery.yaml): not so.
StopBelowMaxLoss == Exit!StopBelowMaxLoss

\* "Requires a fresh thesis" (FOUR_MODE_COMPONENT_CHANGES.md): not so.
CarriedOnFreshThesis == Hold!CarriedOnFreshThesis

=============================================================================
