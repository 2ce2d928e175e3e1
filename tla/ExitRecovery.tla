---------------------------- MODULE ExitRecovery ----------------------------
(***************************************************************************)
(* The operator's commands over the exits of PaperExit: retry_stuck_paper_   *)
(* exits (src/trading/ops/paper_exit_recovery.py) and reset_paper_portfolio   *)
(* (src/trading/ops/paper_portfolio_reset.py).  A command is a process of its *)
(* own: it opens the files that the session left, repairs the broker, drops   *)
(* the exit orders that failed with their idempotency keys, and submits the   *)
(* exit again.  Either process may die between two steps; one runs at a time. *)
(***************************************************************************)
EXTENDS PaperExit

CONSTANT Books  \* the legs that the operator's quotes may be of

VARIABLES
  process, \* the session or the command that runs, and where it is
  file,    \* broker_state.json; order and held are the broker in memory
  keys,    \* the legs whose exit order has its idempotency key registered
  failed,  \* the legs with a failed exit order somewhere in the log
  fills    \* per leg, how often its exit was filled at the broker

all == <<vars, process, file, keys, failed, fills>>

\* clean: the command took the trade up with a quote for every leg, and no order of
\* it failed; told: whether the command says that entries are released.
Process == [pc |-> "session", reset |-> FALSE, quoted |-> {}, clean |-> FALSE, told |-> FALSE]

Runs(pc) == process.pc = pc

Goto(pc) == process' = [process EXCEPT !.pc = pc]

Broker == [order |-> order, held |-> held]

Persisted == file' = [order |-> order', held |-> held']

Gone(f, S) == [k \in Legs |-> IF k \in S THEN "NONE" ELSE f[k]]

-----------------------------------------------------------------------------
\* An exit, by the session or by the command.

\* The key is registered with CREATED.
Create(t) ==
  /\ At(t, "create")
  /\ IF Leg(t) \notin keys
       THEN /\ log' = [log EXCEPT ![Leg(t)] = "CREATED"]
            /\ cache' = [cache EXCEPT ![Leg(t)] = "CREATED"]
            /\ keys' = keys \cup {Leg(t)}
       ELSE cache' = log /\ UNCHANGED <<log, keys>>
  /\ Move(t, "send")
  /\ UNCHANGED <<order, held, trade, row, reservation, book, file, failed, fills>>

\* submit of the paper broker saves its state.
Answer(t) ==
  /\ BrokerAnswers(t)
  /\ Persisted
  /\ fills' = IF order'[Leg(t)] = "FILLED" THEN [fills EXCEPT ![Leg(t)] = @ + 1] ELSE fills
  /\ UNCHANGED <<keys, failed>>

Finish(t) ==
  /\ PersistFinal(t)
  /\ failed' = failed \cup {k \in {Leg(t)} : order[k] \in Failed}
  /\ UNCHANGED <<keys, file, fills>>

Submits(t) ==
  \/ Create(t) \/ Answer(t) \/ Finish(t)
  \/ /\ LookupKnown(t) \/ LookupNew(t) \/ PersistSubmitting(t) \/ RecordIds(t)
        \/ ApplySent(t) \/ ApplyNothing(t) \/ ApplyFill(t) \/ ApplyFailed(t)
     /\ UNCHANGED <<keys, file, failed, fills>>

\* Steps that may raise out of the caller.
MayRaise(t) ==
  /\ BrokerRefuses(t) \/ ApplyLastFill(t) \/ ReleaseCapital(t)
  /\ UNCHANGED <<keys, file, failed, fills>>

Kept == UNCHANGED <<keys, file, failed, fills>>

Session(t) ==
  /\ Runs("session")
  /\ \/ Submits(t) \/ MayRaise(t)
     \/ (Judge(t) \/ RequestExit(t) \/ WriteRequest(t) \/ Resume(t) \/ AdoptRecorded(t)
          \/ PlanExit(t) \/ NoPlan(t) \/ Settle(t)) /\ Kept
  /\ UNCHANGED process

-----------------------------------------------------------------------------
\* A process starts on what the last one left.

\* repair_paper_broker_from_store, and recover_lifecycle.
Opens ==
  LET found == file.held
      legs == IF row.state = "CLOSED" \/ found = row.legs THEN found ELSE found \cup row.legs
  IN
  /\ order' = file.order /\ held' = legs
  /\ IF legs = found THEN UNCHANGED file ELSE Persisted
  /\ cache' = log
  /\ trade' = [state |-> row.state, legs |-> row.legs]
  /\ book' = (row.state # "CLOSED")
  /\ call' = [t \in Threads |-> NoCall]
  /\ UNCHANGED <<log, row, reservation, keys, failed, fills>>

StartSession == Opens /\ process' = Process

\* _is_stuck_exit_record; a trade that the operator names is taken up in any case,
\* and the reset takes up every trade that is not closed.
Stuck == failed # {} \/ \E k \in Legs : file.order[k] \in Failed

StartCommand(reset, named, quoted) ==
  /\ Opens
  /\ LET taken == row.state # "CLOSED" /\ (reset \/ named \/ Stuck)
         snapshots == quoted \cap row.legs IN
     process' = [Process EXCEPT !.reset = reset, !.quoted = quoted,
                                !.clean = taken /\ row.legs \subseteq quoted,
                                !.pc = IF taken /\ snapshots # {} THEN "purge" ELSE "close"]

-----------------------------------------------------------------------------
\* retry_stuck_paper_exits

\* Mutant: only the keys of failed orders.
FailedKeys == failed \cup {k \in Legs : order[k] \in Failed}

\* _exit_idempotency_keys_for_trade: of the ids in the row, of the legs, of all that
\* failed in the log or at the broker.
PurgedKeys == row.ids \cup row.legs \cup failed \cup {k \in Legs : order[k] \in Failed}

\* The keys leave OmsEngine and the store; the events stay in the log.
PurgeKeys ==
  /\ Runs("purge")
  /\ cache' = Gone(cache, PurgedKeys)
  /\ keys' = keys \ PurgedKeys
  /\ Goto("drop")
  /\ UNCHANGED <<log, order, held, trade, row, reservation, book, call, file, failed, fills>>

\* Mutant: every exit order of the trade is dropped.
PurgeAllOrders(t) ==
  /\ Runs("drop")
  /\ order' = NoEvents
  /\ WriteRow({})
  /\ trade' = IF trade.state = "OPEN" THEN [trade EXCEPT !.state = "EXIT_PENDING"] ELSE trade
  /\ Starts(t, "choose", trade.legs \cap process.quoted, FALSE)
  /\ Goto("exit")
  /\ UNCHANGED <<log, cache, held, reservation, book, keys, file, failed, fills>>

\* The failed orders leave the broker, in memory only, and the ids the row; an open
\* trade is to be exited.  The plan is of the legs with a quote.
PurgeOrders(t) ==
  /\ Runs("drop")
  /\ order' = Gone(order, {k \in Legs : order[k] \in Failed})
  /\ WriteRow({})
  /\ trade' = IF trade.state = "OPEN" THEN [trade EXCEPT !.state = "EXIT_PENDING"] ELSE trade
  /\ Starts(t, "choose", trade.legs \cap process.quoted, FALSE)
  /\ Goto("exit")
  /\ UNCHANGED <<log, cache, held, reservation, book, keys, file, failed, fills>>

\* _submit_exit; what raises ends the command.
CommandExits(t) ==
  /\ Runs("exit")
  /\ \/ Submits(t) /\ UNCHANGED process
     \/ MayRaise(t) /\ IF call'[t].pc = "idle" THEN Goto("dead") ELSE UNCHANGED process
     \/ PlanExit(t) /\ Kept /\ UNCHANGED process
     \/ /\ Settle(t) /\ Kept
        /\ process' = [process EXCEPT !.pc = "close",
                         !.clean = @ /\ \A k \in InHand(t) : call[t].seen[k] \notin Failed]

-----------------------------------------------------------------------------
\* reset_paper_portfolio, after the retry

\* _administrative_close of a trade that is not closed; the broker's legs in memory.
AdministrativeClose ==
  /\ Runs("close") /\ process.reset
  /\ IF row.state = "CLOSED" THEN UNCHANGED <<row, held>>
     ELSE row' = [state |-> "CLOSED", legs |-> row.legs, ids |-> {}] /\ held' = {}
  /\ Goto("exposure")
  /\ UNCHANGED <<log, cache, order, trade, reservation, book, call, keys, file, failed, fills>>

\* _purge_broker_exposure, in memory, and _clear_reservations.
PurgeExposure ==
  /\ Runs("exposure")
  /\ order' = NoEvents /\ held' = {}
  /\ reservation' = "DELETED"
  /\ Goto("boot")
  /\ UNCHANGED <<log, cache, trade, row, book, call, keys, file, failed, fills>>

\* The net quantity that the log says is held: every leg was filled at the entry.
Expected ==
  LET of(S) == {k \in S : log[k] # "FILLED"} IN
  Cardinality(of(Legs \ Shorts)) # Cardinality(of(Shorts))

\* boot_reconcile as both commands call it, with the strict profile: positions by
\* trade, and orders that are in the log at work and not at the broker.
Blocked ==
  \/ Expected # (held # {})
  \/ \E k \in Legs : log[k] \in {"CREATED", "SUBMITTING"}

\* Mutant: the command ends without persist_state.
BootUnsaved ==
  /\ Runs("boot") \/ (Runs("close") /\ ~process.reset)
  /\ process' = [process EXCEPT !.pc = "done", !.told = ~Blocked]
  /\ UNCHANGED <<vars, keys, file, failed, fills>>

Boot ==
  /\ Runs("boot") \/ (Runs("close") /\ ~process.reset)
  /\ file' = Broker
  /\ process' = [process EXCEPT !.pc = "done", !.told = ~Blocked]
  /\ UNCHANGED <<vars, keys, failed, fills>>

Command == \/ PurgeKeys \/ AdministrativeClose \/ PurgeExposure \/ Boot
           \/ \E t \in Threads : PurgeOrders(t) \/ CommandExits(t)

-----------------------------------------------------------------------------

RecoveryInit ==
  /\ Init
  /\ process = Process
  /\ file = Broker
  /\ keys = {} /\ failed = {}
  /\ fills = [k \in Legs |-> 0]

\* A process dies, and the next one starts.
Restarts ==
  \/ StartSession
  \/ \E quoted \in Books : \/ \E named \in BOOLEAN : StartCommand(FALSE, named, quoted)
                         \/ StartCommand(TRUE, FALSE, quoted)

RecoveryNext == Command \/ Restarts \/ \E t \in Threads : Session(t)

RecoverySpec == RecoveryInit /\ [][RecoveryNext]_all

-----------------------------------------------------------------------------

\* No leg is exited twice at the broker, though the keys that keep the OMS from it
\* are purged, the repair brings closed legs back and the commands are repeated.
ExitedOnce == \A k \in Legs : fills[k] <= 1

\* "Force-retry at those quotes" (OPERATIONS_RUNBOOK.md): a retry that gets through,
\* of a trade with a quote for every leg and no order that failed, has closed it and
\* freed its capital, and every leg was exited at the broker.
RetryCloses ==
  Runs("done") /\ ~process.reset /\ process.clean =>
    row.state = "CLOSED" /\ reservation = "RELEASED" /\ \A k \in Legs : fills[k] = 1

\* A reset that gets through leaves nothing, in memory or in a file, whatever
\* processes died before it.
ResetIsFlat ==
  Runs("done") /\ process.reset =>
    row.state = "CLOSED" /\ reservation # "COMMITTED" /\ held = {} /\ file.held = {}

\* Not so: a command gets through.
CommandsSurvive == ~Runs("dead")

\* Not so: a reset releases the entries.
ResetReleases == Runs("done") /\ process.reset => process.told

\* Not so: the retry buys back the shorts before it releases their longs.
RetryCovers == Runs("done") /\ ~process.reset => Covered

=============================================================================
