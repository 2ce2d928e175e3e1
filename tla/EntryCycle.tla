----------------------------- MODULE EntryCycle -----------------------------
(***************************************************************************)
(* One mode's entries: a trading cycle (PaperRunner.run_cycle) gated on    *)
(* reconciliation, the risk gateway's two-part capital reservation (the    *)
(* durable hold and the in-memory mode ledger), the submission of an entry *)
(* plan, its fills, its completion or its abort, and the closes that free  *)
(* the capital again, beside crashes.  Every intent risks one unit of      *)
(* capital; an intent has at most one trade that places orders, and an     *)
(* intent names that trade too.  A close is one step here; its own steps   *)
(* are those of PaperExit.                                                 *)
(***************************************************************************)
EXTENDS Integers, FiniteSets, StateMachines

CONSTANTS Intents,     \* the intents of the mode's strategies in a session
          Spreads,     \* the intents of a long leg and a short leg; others are long
          Recurring,   \* intents a strategy emits again under the same id
          MaxAttempts, \* bound: how often a recurring intent is emitted
          Batch,       \* bound: intents that one cycle approves
          Capital,     \* the mode's equity
          GlobalCap,   \* max_global_open_risk
          Profiles,    \* the values entry_profile may have
          Concurrent   \* the protection thread closes trades during a cycle

ASSUME SpreadsAssumption == Spreads \subseteq Intents

ASSUME IntentsAssumption == Intents # {} /\ IsFiniteSet(Intents)

ASSUME CapitalAssumption == Capital \in Nat /\ GlobalCap \in Nat

ASSUME ProfilesAssumption == Profiles \subseteq {"STRICT", "DISCOVERY"}

ASSUME ConcurrentAssumption == Concurrent \in BOOLEAN

VARIABLES
  hold,      \* per intent, its row in the reservations table
  keys,      \* the intents in the registry of idempotency keys
  ledger,    \* the mode's ModeLedger, in memory
  log,       \* per intent and leg, the entry order's latest durable event
  order,     \* per intent and leg, the entry order at the paper broker
  exited,    \* per intent, the legs whose exit has filled
  trade,     \* per intent, its trade in TradeManager._positions
  row,       \* per intent, its trade's durable lifecycle row
  inBook,    \* the intents with a trade in PaperRunner._open_book
  profile,   \* the entry_profile the session was configured with
  attempts,  \* per intent, how often it was emitted
  cycle,     \* where the running cycle is
  closing    \* where the close of a trade is

vars == <<hold, keys, ledger, log, order, exited, trade, row, inBook,
          profile, attempts, cycle, closing>>

orders == <<log, order, exited>>

books == <<trade, row, inBook>>

session == <<profile, attempts>>

-----------------------------------------------------------------------------

Discovery == profile = "DISCOVERY"

Shorts == {2}

Legs(i) == IF i \in Spreads THEN {1, 2} ELSE {1}

States == {"NONE", "SUBMITTING", "FILLED", "REJECTED"}

\* The paper broker fills an order or refuses it.
Outcomes == {"FILLED", "REJECTED"}

Stages == {"idle", "pick", "register", "book", "submit", "broker", "adopt", "apply"}

NoEvents == [k \in {1, 2} |-> "NONE"]

NoTrade == [state |-> "NONE", legs |-> {}]

\* todo: intents the cycle has yet to evaluate; cur: the one in hand; legs: its
\* legs yet to be submitted, and then the fills yet to be applied; seen: the
\* events submit_plan returns; own: the legs this attempt has sent itself.
CycleType == [pc : Stages, todo : SUBSET Intents, cur : Intents,
              legs : SUBSET {1, 2}, seen : [{1, 2} -> States], own : SUBSET {1, 2}]

NoCycle == [pc |-> "idle", todo |-> {}, cur |-> CHOOSE i \in Intents : TRUE,
            legs |-> {}, seen |-> NoEvents, own |-> {}]

NoClose == [pc |-> "idle", cur |-> CHOOSE i \in Intents : TRUE,
            snap |-> [reserved |-> 0, margin |-> 0]]

Sub(a, b) == IF a > b THEN a - b ELSE 0

Holding(S) == {i \in Intents : hold[i] \in S}

Cur == cycle.cur

Leg == CHOOSE k \in cycle.legs : \A j \in cycle.legs : k <= j

At(stage) == cycle.pc = stage

\* The cycle turns to its next intent.
Drop == cycle' = [NoCycle EXCEPT !.pc = "pick", !.todo = cycle.todo]

\* ModeLedger.available_capital.
Available == Sub(Capital, ledger.reserved + ledger.margin)

\* Mutant: only pending holds count.
HeldCapitalPending == Cardinality(Holding({"RESERVED"}))

\* _sum_active_reservation_amount.
HeldCapital == Cardinality(Holding(HoldsCapital))

\* margin_available of the reservation: DISCOVERY oversubscribes.
Limit == IF Discovery THEN 100 * Capital ELSE Available

\* What the paper broker holds for a trade, and what the log makes of it: the
\* net of signed quantities, which says nothing of a spread (_expected_open_trade_ids).
Held(i) == {k \in Legs(i) : order[i][k] = "FILLED"} \ exited[i]

Signed(S) == Cardinality(S \ Shorts) - Cardinality(S \cap Shorts)

Net(i) == Signed({k \in Legs(i) : log[i][k] = "FILLED"}) - Signed(exited[i])

Expected == {i \in Intents : Net(i) # 0}

AtBroker == {i \in Intents : Held(i) # {}}

Dangling == \E i \in Intents, k \in {1, 2} : log[i][k] = "SUBMITTING"

\* Mutant: reconciliation alone decides.
BlockedByReconciler == ~Discovery /\ (Expected # AtBroker \/ Dangling)

\* boot_reconcile and _derived_block_reason, at the start of a cycle:
\* DISCOVERY tolerates every drift between the broker and the store.
Blocked ==
  /\ ~Discovery
  /\ \/ Expected # AtBroker
     \/ Dangling
     \/ \E i \in AtBroker : row[i] # "OPEN"

-----------------------------------------------------------------------------

Init ==
  /\ hold = [i \in Intents |-> "NONE"]
  /\ keys = {}
  /\ ledger = [reserved |-> 0, margin |-> 0]
  /\ log = [i \in Intents |-> NoEvents]
  /\ order = [i \in Intents |-> NoEvents]
  /\ exited = [i \in Intents |-> {}]
  /\ trade = [i \in Intents |-> NoTrade]
  /\ row = [i \in Intents |-> "NONE"]
  /\ inBook = {}
  /\ profile \in Profiles
  /\ attempts = [i \in Intents |-> 0]
  /\ cycle = NoCycle
  /\ closing = NoClose

\* A cycle that is not blocked takes the intents its strategies emit.
BeginCycle(S) ==
  /\ At("idle") /\ (Concurrent \/ closing.pc = "idle")
  /\ ~Blocked
  /\ S # {} /\ Cardinality(S) <= Batch
  /\ \A i \in S : attempts[i] < IF i \in Recurring THEN MaxAttempts ELSE 1
  /\ attempts' = [i \in Intents |-> attempts[i] + IF i \in S THEN 1 ELSE 0]
  /\ cycle' = [NoCycle EXCEPT !.pc = "pick", !.todo = S]
  /\ UNCHANGED <<hold, keys, ledger, orders, books, profile, closing>>

EndCycle ==
  /\ At("pick") /\ cycle.todo = {}
  /\ cycle' = NoCycle
  /\ UNCHANGED <<hold, keys, ledger, orders, books, session, closing>>

\* DISCOVERY refuses an intent id that was approved before.
Duplicate(i) == Discovery /\ i \in keys

\* The cycle takes intent i in hand and goes to the given stage.
Turns(i, stage) ==
  /\ At("pick") /\ i \in cycle.todo
  /\ cycle' = [NoCycle EXCEPT !.pc = stage, !.cur = i, !.todo = cycle.todo \ {i}]
  /\ UNCHANGED <<keys, ledger, orders, books, session, closing>>

\* The durable hold, in one store transaction: a pending hold is returned as it
\* is, an intent whose earlier hold is gone takes its row again.
Reserve(i) ==
  /\ ~Duplicate(i) /\ hold[i] # "COMMITTED"
  /\ hold[i] = "RESERVED" \/ HeldCapital + 1 <= Limit
  /\ hold' = [hold EXCEPT ![i] = "RESERVED"]
  /\ Turns(i, IF Discovery THEN "register" ELSE "book")

ReserveTooMuch(i) ==
  /\ ~Duplicate(i) /\ hold[i] \notin HoldsCapital
  /\ HeldCapital + 1 > Limit
  /\ hold' = [hold EXCEPT ![i] = "REJECTED"]
  /\ Turns(i, "pick")

\* A committed hold is returned as well, and is no approval.
ReserveRefused(i) ==
  /\ Duplicate(i) \/ hold[i] = "COMMITTED"
  /\ UNCHANGED hold
  /\ Turns(i, "pick")

\* DISCOVERY registers the intent id, in a write of its own.
RegisterKey ==
  /\ At("register")
  /\ keys' = keys \cup {Cur}
  /\ cycle' = [cycle EXCEPT !.pc = "book"]
  /\ UNCHANGED <<hold, ledger, orders, books, session, closing>>

\* The mode ledger takes the reservation too, or the hold is released again.
TakeIf(affordable) ==
  /\ At("book")
  /\ IF affordable
       THEN /\ ledger' = [ledger EXCEPT !.reserved = @ + 1]
            /\ cycle' = [cycle EXCEPT !.pc = "submit", !.legs = Legs(Cur)]
            /\ UNCHANGED hold
       ELSE /\ hold' = [hold EXCEPT ![Cur] = "RELEASED"]
            /\ Drop
            /\ UNCHANGED ledger
  /\ UNCHANGED <<keys, orders, books, session, closing>>

\* Mutant: no global envelope.
ReserveInModeOnly == TakeIf(Discovery \/ Available >= 1)

\* FourModeBook.try_reserve, under its lock.
ReserveInBook ==
  TakeIf(\/ Discovery
         \/ Available >= 1 /\ ledger.reserved + ledger.margin + 1 <= GlobalCap)

-----------------------------------------------------------------------------

\* Mutant: the plan goes on past a failed leg.
AfterLegPastFailures(s) ==
  LET seen == [cycle.seen EXCEPT ![Leg] = s]
  IN  IF cycle.legs = {Leg}
        THEN [cycle EXCEPT !.pc = "apply", !.seen = seen,
                           !.legs = {k \in {1, 2} : seen[k] = "FILLED"}]
        ELSE [cycle EXCEPT !.pc = "submit", !.seen = seen, !.legs = @ \ {Leg}]

\* submit_plan stops behind a leg that failed; then the fills are applied.
AfterLeg(s) ==
  LET seen == [cycle.seen EXCEPT ![Leg] = s]
  IN  IF s = "REJECTED" \/ cycle.legs = {Leg}
        THEN [cycle EXCEPT !.pc = "apply", !.seen = seen,
                           !.legs = {k \in {1, 2} : seen[k] = "FILLED"}]
        ELSE [cycle EXCEPT !.pc = "submit", !.seen = seen, !.legs = @ \ {Leg}]

\* An order of an earlier attempt has the same key: its event is returned.
LookupKnown ==
  /\ At("submit")
  /\ log[Cur][Leg] # "NONE"
  /\ cycle' = AfterLeg(log[Cur][Leg])
  /\ UNCHANGED <<hold, keys, ledger, orders, books, session, closing>>

\* CREATED and SUBMITTING are durable before the broker sees the order.
Submit ==
  /\ At("submit")
  /\ log[Cur][Leg] = "NONE"
  /\ log' = [log EXCEPT ![Cur][Leg] = "SUBMITTING"]
  /\ cycle' = [cycle EXCEPT !.pc = "broker", !.own = @ \cup {Leg}]
  /\ UNCHANGED <<hold, keys, ledger, order, exited, books, session, closing>>

BrokerAnswers(s) ==
  /\ At("broker")
  /\ order' = [order EXCEPT ![Cur][Leg] = s]
  /\ cycle' = [cycle EXCEPT !.pc = "adopt"]
  /\ UNCHANGED <<hold, keys, ledger, log, exited, books, session, closing>>

\* Mutant: the broker's answer is logged under a name of its own.
PersistRawStatus ==
  /\ At("adopt")
  /\ log' = [log EXCEPT ![Cur][Leg] = <<order[Cur][Leg]>>]
  /\ cycle' = AfterLeg(order[Cur][Leg])
  /\ UNCHANGED <<hold, keys, ledger, order, exited, books, session, closing>>

PersistAnswer ==
  /\ At("adopt")
  /\ log' = [log EXCEPT ![Cur][Leg] = order[Cur][Leg]]
  /\ cycle' = AfterLeg(order[Cur][Leg])
  /\ UNCHANGED <<hold, keys, ledger, order, exited, books, session, closing>>

\* The trade is in the open book from its first fill on.
Filled == [trade EXCEPT ![Cur] = [state |-> IF @.state = "NONE" THEN "OPEN" ELSE @.state,
                                  legs |-> @.legs \cup {Leg}]]

Completes == Filled[Cur].legs = Legs(Cur)

\* The last fill commits the capital.
ApplyFill ==
  /\ At("apply") /\ cycle.legs # {}
  /\ Leg \in cycle.own
  /\ Completes => CanReservation(hold[Cur], "COMMITTED", "BROKER_EVENT")
  /\ trade' = Filled
  /\ hold' = IF Completes THEN [hold EXCEPT ![Cur] = "COMMITTED"] ELSE hold
  /\ inBook' = inBook \cup {Cur}
  /\ cycle' = [cycle EXCEPT !.legs = @ \ {Leg}]
  /\ UNCHANGED <<keys, ledger, orders, row, session, closing>>

Applied == At("apply") /\ cycle.legs = {}

Opened == cycle.own # {} /\ trade[Cur].state = "OPEN" /\ trade[Cur].legs = Legs(Cur)

AnyFailed == \E k \in {1, 2} : cycle.seen[k] = "REJECTED"

\* Mutant: the row is left to the next write of the book.
FinishUnwritten ==
  /\ Applied /\ Opened
  /\ ledger' = [reserved |-> Sub(ledger.reserved, 1), margin |-> ledger.margin + 1]
  /\ Drop
  /\ UNCHANGED <<hold, keys, orders, books, session, closing>>

\* note_mode_fill, then the first lifecycle row.
Finish ==
  /\ Applied /\ Opened
  /\ ledger' = [reserved |-> Sub(ledger.reserved, 1), margin |-> ledger.margin + 1]
  /\ row' = [row EXCEPT ![Cur] = "OPEN"]
  /\ Drop
  /\ UNCHANGED <<hold, keys, orders, trade, inBook, session, closing>>

\* Mutant: the ledger keeps the reservation of an aborted entry.
AbortDurablyOnly ==
  /\ Applied /\ ~Opened /\ AnyFailed
  /\ hold' = IF CanReservation(hold[Cur], "RELEASED", "LOCAL_COMMAND")
               THEN [hold EXCEPT ![Cur] = "RELEASED"] ELSE hold
  /\ inBook' = inBook \ {Cur}
  /\ Drop
  /\ UNCHANGED <<keys, ledger, orders, trade, row, session, closing>>

\* _abort_incomplete_entry: the capital is released whatever has filled; a
\* release that fails is only logged, and no row is written.
Abort ==
  /\ Applied /\ ~Opened /\ AnyFailed
  /\ hold' = IF CanReservation(hold[Cur], "RELEASED", "LOCAL_COMMAND")
               THEN [hold EXCEPT ![Cur] = "RELEASED"] ELSE hold
  /\ ledger' = [ledger EXCEPT !.reserved = Sub(@, 1)]
  /\ inBook' = inBook \ {Cur}
  /\ Drop
  /\ UNCHANGED <<keys, orders, trade, row, session, closing>>

-----------------------------------------------------------------------------

\* manage_exits closes a trade of the open book, on the legs it has by then:
\* the exits fill, the trade is CLOSED, its capital released, its row written.
Close(i) ==
  /\ closing.pc = "idle" /\ (Concurrent \/ At("idle"))
  /\ i \in inBook /\ trade[i].state = "OPEN"
  /\ CanReservation(hold[i], "RELEASED", "BROKER_EVENT")
  /\ exited' = [exited EXCEPT ![i] = trade[i].legs]
  /\ trade' = [trade EXCEPT ![i].state = "CLOSED"]
  /\ hold' = [hold EXCEPT ![i] = "RELEASED"]
  /\ row' = [row EXCEPT ![i] = "CLOSED"]
  /\ closing' = [NoClose EXCEPT !.pc = "closed", !.cur = i]
  /\ UNCHANGED <<keys, ledger, log, order, inBook, session, cycle>>

\* release_open_risk reads the ledger, and then writes it, without the lock.
ReadLedger ==
  /\ closing.pc = "closed"
  /\ closing' = [closing EXCEPT !.pc = "read", !.snap = ledger]
  /\ UNCHANGED <<hold, keys, ledger, orders, books, session, cycle>>

WriteLedger ==
  /\ closing.pc = "read"
  /\ ledger' = IF closing.snap.margin > 0
                 THEN [closing.snap EXCEPT !.margin = @ - 1]
                 ELSE [closing.snap EXCEPT !.reserved = Sub(@, 1)]
  /\ inBook' = inBook \ {closing.cur}
  /\ closing' = NoClose
  /\ UNCHANGED <<hold, keys, orders, trade, row, session, cycle>>

\* The next process rebuilds its ledger from pending holds and open rows, and
\* its trades from the open rows.
Restart ==
  LET open == {i \in Intents : row[i] = "OPEN"}
  IN  /\ ledger' = [reserved |-> Cardinality(Holding({"RESERVED"})),
                    margin |-> Cardinality(open)]
      /\ trade' = [i \in Intents |-> IF i \in open
                                       THEN [state |-> "OPEN", legs |-> Legs(i)]
                                       ELSE NoTrade]
      /\ inBook' = open
      /\ cycle' = NoCycle
      /\ closing' = NoClose
      /\ UNCHANGED <<hold, keys, orders, row, session>>

\* An exception that _run_loop does not catch ends the process: the hold to commit
\* is gone, or the fill is of an earlier attempt, whose trade id is another and whose
\* pending entry is gone (_planned_entry_price).
ApplyRaises ==
  /\ At("apply") /\ cycle.legs # {}
  /\ Leg \in cycle.own => Completes /\ ~CanReservation(hold[Cur], "COMMITTED", "BROKER_EVENT")
  /\ Restart

Crash == Restart

SteadyNext ==
  \/ \E S \in SUBSET Intents : BeginCycle(S)
  \/ EndCycle
  \/ \E i \in Intents : Reserve(i) \/ ReserveTooMuch(i) \/ ReserveRefused(i) \/ Close(i)
  \/ RegisterKey \/ ReserveInBook \/ LookupKnown \/ Submit
  \/ \E s \in Outcomes : BrokerAnswers(s)
  \/ PersistAnswer \/ ApplyFill \/ ApplyRaises
  \/ Finish \/ Abort
  \/ ReadLedger \/ WriteLedger

Next == SteadyNext \/ Crash

Spec == Init /\ [][Next]_vars

\* No process is killed.
SteadySpec == Init /\ [][SteadyNext]_vars

-----------------------------------------------------------------------------

\* The types of the variables.
TypeOK ==
  /\ hold \in [Intents -> {"NONE", "RESERVED", "COMMITTED", "RELEASED", "REJECTED"}]
  /\ keys \subseteq Intents
  /\ ledger \in [reserved : Nat, margin : Nat]
  /\ log \in [Intents -> [{1, 2} -> States]]
  /\ order \in [Intents -> [{1, 2} -> Outcomes \cup {"NONE"}]]
  /\ exited \in [Intents -> SUBSET {1, 2}]
  /\ trade \in [Intents -> [state : {"NONE", "OPEN", "CLOSED"}, legs : SUBSET {1, 2}]]
  /\ row \in [Intents -> {"NONE", "OPEN", "CLOSED"}]
  /\ inBook \subseteq Intents
  /\ profile \in Profiles
  /\ attempts \in [Intents -> Nat]
  /\ cycle \in CycleType
  /\ closing \in [pc : {"idle", "closed", "read"}, cur : Intents,
                  snap : [reserved : Nat, margin : Nat]]

Quiet == At("idle") /\ closing.pc = "idle"

\* STRICT has no memory of the intents it approved: one is emitted a third time,
\* after the second has ended its process and left its hold pending.
EmittedThrice == ~Discovery /\ \E i \in Intents : attempts[i] > 2

\* Between cycles the mode ledger says what the durable holds say, also when an
\* intent is emitted again after its trade and the process ends on its old fills:
\* margin is the committed holds, and reserved never less than the pending ones, nor
\* more (Invariant 14; FOUR_MODE_LAYER_CHANGE_CRITERIA: "never both"), unless an
\* intent comes a third time, whose hold may then be released and not its entry.
LedgerMatchesHolds ==
  Quiet =>
    /\ ledger.margin = Cardinality(Holding({"COMMITTED"}))
    /\ ledger.reserved >= Cardinality(Holding({"RESERVED"}))
    /\ EmittedThrice \/ ledger.reserved = Cardinality(Holding({"RESERVED"}))

\* The holds that both halves of the reservation have granted.
Granted == Holding(HoldsCapital) \ (IF cycle.pc \in {"register", "book"} THEN {Cur} ELSE {})

\* Under STRICT the capital that intents were granted and hold never exceeds
\* the global open-risk envelope (the docstring of try_reserve).
GlobalCapKept == ~Discovery => Cardinality(Granted) <= GlobalCap

\* Under STRICT the durable holds of a mode never exceed its equity, whatever
\* the threads and the crashes do.
HoldsFit == ~Discovery => Cardinality(Holding(HoldsCapital)) <= Capital

\* What is held without capital and without a row is of an aborted entry; all
\* else that is held is an open trade whose capital is committed.
HeldOrAborted ==
  Quiet => \A i \in AtBroker :
             \/ Held(i) = Legs(i) /\ row[i] = "OPEN" /\ hold[i] = "COMMITTED" /\ i \in inBook
             \/ \E k \in Legs(i) : log[i][k] = "REJECTED"

\* At the broker, no prefix of an entry is a short without its long.
EntryCovered == \A i \in Intents : Held(i) \cap Shorts # {} => Legs(i) \subseteq Held(i)

\* Under STRICT no entry order is begun while the broker holds a position that
\* no open row accounts for (Invariant 6).
NoEntryBesideOrphan ==
  [][\A i \in Intents :
       /\ ~Discovery
       /\ log'[i] # log[i] /\ (\E k \in {1, 2} : log'[i][k] = "SUBMITTING")
       => \A j \in AtBroker \ {i} : row[j] = "OPEN"]_vars

\* When every held position is whole, in an open row and nothing is in flight, cycles
\* are not blocked.
HealthyBookTrades ==
  /\ ~Dangling
  /\ \A i \in AtBroker : Held(i) = Legs(i) /\ row[i] = "OPEN"
  /\ \A i \in Intents : row[i] = "OPEN" => i \in AtBroker
  => ~(Quiet /\ Blocked)
=============================================================================
