----------------------------- MODULE EntryGate ------------------------------
(***************************************************************************)
(* Who may open a trade: PaperRunner's entry gate over the protection      *)
(* marks of the open positions, the SafetyControls in memory and the       *)
(* durable entry freeze.  The session thread runs a cycle, then            *)
(* manage_exits; the protection scheduler runs manage_exits on its quotes. *)
(* manage_exits works on the positions as they were when its loop began:   *)
(* PositionState is immutable, and restore_position writes a copy back.    *)
(***************************************************************************)
EXTENDS Naturals

CONSTANTS Trades,     \* the trades that a session may open
          Beside,     \* bound: those it opens when the scheduler runs beside it
          MaxCrashes  \* bound: how often the process is killed

VARIABLES
  pos,      \* per trade, its PositionState in TradeManager._positions
  row,      \* per trade, the position in its durable lifecycle row
  prot,     \* per trade, its durable ProtectionStateRecord
  controls, \* SafetyControls.state, in memory
  latch,    \* entries_blocked of the durable EntryFreezeRecord
  quote,    \* per trade, the quotes of its legs as manage_exits will find them
  judged,   \* history: per trade, whether the last look a thread finished found it well
  crossed,  \* history: per trade, whether the last write of a captured copy crossed another's
  scheduler, \* whether the session was configured with a ProtectionCoordinator
  thread,   \* per thread, where it is and what it has captured
  crashes

vars == <<pos, row, prot, controls, latch, quote, judged, crossed,
          scheduler, thread, crashes>>

memory == <<pos, controls>>

store == <<row, prot, latch>>

history == <<judged, crossed>>

run == <<scheduler, crashes>>

Threads == {"session", "protection"}

-----------------------------------------------------------------------------

States == {"NONE", "OPEN", "EXIT_PENDING", "CLOSING", "CLOSED"}

\* protection_degraded, software_stop_unavailable, unprotected_reason: all set,
\* the last two set, none set.
Marks == {"none", "unavailable", "degraded"}

Positions == [state : States, mark : Marks]

NoPosition == [state |-> "NONE", mark |-> "none"]

\* _ProtectionKind of _diagnose_protection.
Verdicts == {"OK", "STALE", "MISSING_MONITOR"}

MarkOf(verdict) == CASE verdict = "OK" -> "none"
                     [] verdict = "STALE" -> "degraded"
                     [] verdict = "MISSING_MONITOR" -> "unavailable"

Idle == [pc |-> "idle", copy |-> [t \in Trades |-> NoPosition], todo |-> {},
         cur |-> CHOOSE t \in Trades : TRUE, verdict |-> "OK",
         back |-> "idle"]

\* back: where _maybe_release_entry_freeze returns to.
ThreadType == [pc : {"idle", "loop", "memory", "row", "latch", "evaluate", "pending",
                     "derive", "release", "after", "cycle", "gate", "enter"},
               back : {"evaluate", "idle", "gate"}, copy : [Trades -> Positions],
               todo : SUBSET Trades, cur : Trades, verdict : Verdicts]

At(p, pc) == thread[p].pc = pc

Cur(p) == thread[p].cur

Goes(p, pc) == thread' = [thread EXCEPT ![p].pc = pc]

\* _maybe_release_entry_freeze returns.
Returns(p) == thread' = [thread EXCEPT ![p].pc = thread[p].back, ![p].back = "idle"]

\* A thread calls _maybe_release_entry_freeze.
Releases(p, back) == thread' = [thread EXCEPT ![p].pc = "derive", ![p].back = back]

\* The loop of manage_exits turns to its next position.
Turns(p) ==
  thread' = [thread EXCEPT ![p] = [Idle EXCEPT
    !.pc = "loop", !.todo = thread[p].todo,
    !.copy = [t \in Trades |-> IF t \in thread[p].todo THEN thread[p].copy[t] ELSE NoPosition]]]

Live(x) == x.state \notin {"NONE", "CLOSED"}

\* _derived_block_reason # None: in memory the mark of a closed trade counts, too, and
\* an exit that is partly filled (CLOSING) does not.
Derived ==
  \E t \in Trades :
    \/ pos[t].mark # "none" \/ pos[t].state = "EXIT_PENDING"
    \/ Live(row[t]) /\ (row[t].mark = "degraded" \/ row[t].state = "EXIT_PENDING")

\* SafetyControls.blocks_entry, of the controls the session itself operates.
BlocksEntry == controls.frozen \/ controls.degraded

\* _entries_are_blocked, short of the reconciler's own verdict.
Blocked == latch \/ Derived \/ BlocksEntry

\* PaperRunner.protection_degraded.
ProtectionDegraded ==
  controls.degraded \/ \E t \in Trades : Live(pos[t]) /\ pos[t].mark # "none"

\* _ensure_entries_blocked: the control is set if no control blocks, the record always.
EnsureBlocked ==
  /\ controls' = [controls EXCEPT !.frozen = @ \/ ~BlocksEntry]
  /\ latch' = TRUE

Init ==
  /\ pos = [t \in Trades |-> NoPosition]
  /\ row = [t \in Trades |-> NoPosition]
  /\ prot = [t \in Trades |-> "NONE"]
  /\ controls = [frozen |-> FALSE, degraded |-> FALSE]
  /\ latch = FALSE
  /\ quote = [t \in Trades |-> "OK"]
  /\ judged = [t \in Trades |-> TRUE]
  /\ crossed = [t \in Trades |-> FALSE]
  /\ scheduler \in BOOLEAN
  /\ thread = [p \in Threads |-> Idle]
  /\ crashes = 0

-----------------------------------------------------------------------------

\* A quote of a held leg goes stale, is lost or comes back.
QuoteChanges(t, q) ==
  /\ Live(pos[t]) /\ quote[t] # q
  /\ quote' = [quote EXCEPT ![t] = q]
  /\ UNCHANGED <<memory, store, history, thread, run>>

\* manage_exits takes the positions as they are now.
BeginExits(p) ==
  /\ At(p, "idle") /\ (p = "session" \/ scheduler)
  /\ thread' = [thread EXCEPT ![p] = [Idle EXCEPT
       !.pc = "loop", !.todo = {t \in Trades : pos[t].state = "OPEN"},
       !.copy = [t \in Trades |-> IF pos[t].state = "OPEN" THEN pos[t] ELSE NoPosition]]]
  /\ UNCHANGED <<memory, store, quote, history, run>>

\* A trade that left the open book since then is passed over.
Skip(p, t) ==
  /\ At(p, "loop") /\ t \in thread[p].todo /\ pos[t].state = "CLOSED"
  /\ thread' = [thread EXCEPT ![p].todo = @ \ {t}]
  /\ UNCHANGED <<memory, store, quote, history, run>>

\* _clear_protection_degraded returns early for a position without a mark.
NeedsClearing(x) == x.mark # "none"

\* Whether the look ends in a write of the captured position.
Puts(p, t) == quote[t] # "OK" \/ NeedsClearing(thread[p].copy[t])

\* _diagnose_protection, of the captured position.
Diagnose(p, t) ==
  /\ At(p, "loop") /\ t \in thread[p].todo /\ pos[t].state # "CLOSED"
  /\ thread' = [thread EXCEPT ![p] = [thread[p] EXCEPT
       !.pc = IF Puts(p, t) THEN "memory" ELSE "evaluate",
       !.copy[t] = IF Puts(p, t) THEN thread[p].copy[t] ELSE NoPosition,
       !.todo = thread[p].todo \ {t}, !.cur = t, !.verdict = quote[t]]]
  /\ UNCHANGED <<memory, store, quote, history, run>>

\* A thread has put its copy back and is not through with the rest.
Marking(p) == thread[p].pc \in {"row", "latch"}

\* _mark_protection and _clear_protection_degraded put the captured position
\* back, with its mark changed (restore_position) ...
MarkPosition(p) ==
  /\ At(p, "memory")
  /\ pos' = [pos EXCEPT ![Cur(p)] =
                [thread[p].copy[Cur(p)] EXCEPT !.mark = MarkOf(thread[p].verdict)]]
  /\ crossed' = [crossed EXCEPT ![Cur(p)] =
                    \/ thread[p].copy[Cur(p)] # pos[Cur(p)]
                    \/ \E q \in Threads \ {p} : Cur(q) = Cur(p) /\ Marking(q)]
  /\ judged' = [judged EXCEPT ![Cur(p)] = @ \/ thread[p].verdict = "OK"]
  /\ thread' = [thread EXCEPT ![p].pc = "row", ![p].copy[Cur(p)] = NoPosition]
  /\ UNCHANGED <<controls, store, quote, run>>

\* ... write the row of what the manager then has (_write_lifecycle), and set
\* the one control of the session by this one position ...
ControlAfter(p) == [controls EXCEPT !.degraded = (thread[p].verdict = "STALE")]

WriteMark(p) ==
  /\ At(p, "row")
  /\ row' = [row EXCEPT ![Cur(p)] = pos[Cur(p)]]
  /\ controls' = ControlAfter(p)
  /\ prot' = IF thread[p].verdict = "OK" THEN prot
             ELSE [prot EXCEPT ![Cur(p)] = IF thread[p].verdict = "STALE"
                                             THEN "DEGRADED" ELSE "ACTIVE"]
  /\ IF thread[p].verdict = "OK" THEN Releases(p, "evaluate") ELSE Goes(p, "latch")
  /\ UNCHANGED <<pos, latch, quote, history, run>>

\* ... and freeze entries, or ask whether they can be released.
Latch(p) ==
  /\ At(p, "latch")
  /\ EnsureBlocked
  /\ judged' = [judged EXCEPT ![Cur(p)] = FALSE]
  /\ IF thread[p].verdict = "STALE" THEN Turns(p) ELSE Goes(p, "pending")
  /\ UNCHANGED <<pos, row, prot, quote, crossed, run>>

\* missing_monitor_resolution, where legs without the monitor can be closed: it
\* leaves the position, or flattens what is quoted.
LeaveUnmonitored(p) ==
  /\ At(p, "pending")
  /\ Turns(p)
  /\ UNCHANGED <<memory, store, quote, history, run>>

\* _maybe_release_entry_freeze asks for a reason to block ...
Derive(p) ==
  /\ At(p, "derive")
  /\ IF Derived THEN EnsureBlocked /\ Returns(p)
                ELSE UNCHANGED <<controls, latch>> /\ Goes(p, "release")
  /\ UNCHANGED <<pos, row, prot, quote, history, run>>

\* Mutant: the degraded control is left to the next position that is cleared.
LiftedFreezeOnly == controls' = [controls EXCEPT !.frozen = FALSE] /\ latch' = FALSE

\* ... and lifts the freeze and both controls, whoever has set them.
Lifted == controls' = [frozen |-> FALSE, degraded |-> FALSE] /\ latch' = FALSE

Release(p) ==
  /\ At(p, "release")
  /\ Lifted
  /\ Returns(p)
  /\ UNCHANGED <<pos, row, prot, quote, history, run>>

\* evaluate_exit finds nothing to do.
Hold(p) ==
  /\ At(p, "evaluate")
  /\ judged' = [judged EXCEPT ![Cur(p)] = TRUE]
  /\ Turns(p)
  /\ UNCHANGED <<memory, store, quote, crossed, run>>

\* Mutant: the exit of a position is requested whatever became of it.
RequestedAnyway(x) == [x EXCEPT !.state = "EXIT_PENDING"]

\* apply_exit_evaluation: a position that is no longer OPEN is left as it is.
Requested(x) == IF x.state = "OPEN" THEN [x EXCEPT !.state = "EXIT_PENDING"] ELSE x

\* It is asked for the position the manager has by now.
RequestExit(p) ==
  /\ At(p, "evaluate") \/ At(p, "pending")
  /\ pos' = [pos EXCEPT ![Cur(p)] = Requested(@)]
  /\ row' = [row EXCEPT ![Cur(p)] = pos'[Cur(p)]]
  /\ judged' = [judged EXCEPT ![Cur(p)] = @ \/ At(p, "evaluate")]
  /\ Turns(p)
  /\ UNCHANGED <<controls, prot, latch, quote, crossed, run>>

\* An exit order is filled or refused, found by whichever thread comes by (_submit_exit,
\* _resume_inflight_exits): some legs are left, all are gone, or the trade is open again.
\* While legs are left the row may yet be the old one: it is written after the last
\* order, and not when the status of one is not known.  Their steps are PaperExit's.
\* Nobody asks for the quotes of a closed trade: they count as fresh.
ExitAnswered(p, t, s) ==
  /\ At(p, "loop") /\ pos[t].state \in {"EXIT_PENDING", "CLOSING"} \ {s}
  /\ pos' = [pos EXCEPT ![t].state = s]
  /\ row' = [row EXCEPT ![t] = pos'[t]] \/ (s = "CLOSING" /\ UNCHANGED row)
  /\ quote' = [quote EXCEPT ![t] = IF s = "CLOSED" THEN "OK" ELSE @]
  /\ UNCHANGED <<controls, prot, latch, history, thread, run>>

\* The loop is through: the session's tick goes on to a cycle, the scheduler's, or
\* the session's own call of it, to after_protection_quote_update.
EndExits(p, next) ==
  /\ At(p, "loop") /\ thread[p].todo = {}
  /\ next = "after" \/ p = "session"
  /\ thread' = [thread EXCEPT ![p] = [Idle EXCEPT !.pc = next]]
  /\ UNCHANGED <<memory, store, quote, history, run>>

AfterQuoteUpdate(p) ==
  /\ At(p, "after")
  /\ IF ProtectionDegraded THEN Goes(p, "idle") ELSE Releases(p, "idle")
  /\ UNCHANGED <<memory, store, quote, history, run>>

-----------------------------------------------------------------------------

\* run_cycle: a cycle that reconciliation blocks opens nothing; another first
\* releases the freeze if it may.
BeginCycle(p, reconcileBlocked) ==
  /\ At(p, "cycle")
  /\ IF reconcileBlocked THEN Goes(p, "idle") ELSE Releases(p, "gate")
  /\ UNCHANGED <<memory, store, quote, history, run>>

\* _entries_are_blocked is asked once, for all requests of the cycle.
Gate(p) ==
  /\ At(p, "gate")
  /\ IF Blocked THEN thread' = [thread EXCEPT ![p] = Idle] ELSE Goes(p, "enter")
  /\ UNCHANGED <<memory, store, quote, history, run>>

Enter(p, t) ==
  /\ At(p, "enter")
  /\ pos[t].state = "NONE" /\ row[t].state = "NONE"
  /\ scheduler => t \in Beside
  /\ pos' = [pos EXCEPT ![t].state = "OPEN"]
  /\ row' = [row EXCEPT ![t].state = "OPEN"]
  /\ thread' = [thread EXCEPT ![p] = Idle]
  /\ UNCHANGED <<controls, prot, latch, quote, history, run>>

NoEntry(p) ==
  /\ At(p, "enter")
  /\ thread' = [thread EXCEPT ![p] = Idle]
  /\ UNCHANGED <<memory, store, quote, history, run>>

\* Mutant: a restart forgets the marks of the positions.
RestoredUnmarked(t) ==
  IF Live(row[t]) THEN [row[t] EXCEPT !.mark = "none"] ELSE NoPosition

Restored(t) == IF Live(row[t]) THEN row[t] ELSE NoPosition

\* What recover_lifecycle raises a blocking alert for.
Alerts == \E t \in Trades :
            Live(row[t]) /\ (row[t].mark = "degraded" \/ row[t].state = "EXIT_PENDING")

\* The process is killed; the next one recovers: the freeze, the open rows, a
\* record that says DEGRADED (it may be older than the row), then the alerts.
Restart ==
  /\ crashes < MaxCrashes
  /\ crashes' = crashes + 1
  /\ pos' = [t \in Trades |-> Restored(t)]
  /\ controls' = LET degraded == \E t \in Trades : Live(row[t]) /\ prot[t] = "DEGRADED"
                 IN  [frozen |-> latch \/ (Alerts /\ ~degraded), degraded |-> degraded]
  /\ latch' = (latch \/ Alerts)
  /\ thread' = [p \in Threads |-> Idle]
  /\ UNCHANGED <<row, prot, quote, history, scheduler>>

Exits(p) ==
  \/ BeginExits(p) \/ MarkPosition(p) \/ WriteMark(p)
  \/ Latch(p) \/ LeaveUnmonitored(p) \/ Hold(p) \/ RequestExit(p) \/ AfterQuoteUpdate(p)
  \/ \E next \in {"cycle", "after"} : EndExits(p, next)
  \/ \E t \in Trades : Skip(p, t) \/ Diagnose(p, t)
                       \/ \E s \in {"OPEN", "CLOSING", "CLOSED"} : ExitAnswered(p, t, s)

Cycle(p) ==
  \/ \E b \in BOOLEAN : BeginCycle(p, b)
  \/ Gate(p) \/ NoEntry(p)
  \/ \E t \in Trades : Enter(p, t)

Steps(p) == Exits(p) \/ Cycle(p) \/ Derive(p) \/ Release(p)

Next ==
  \/ \E p \in Threads : Steps(p)
  \/ \E t \in Trades, q \in Verdicts : QuoteChanges(t, q)
  \/ Restart

Spec == Init /\ [][Next]_vars

\* The session loop goes on, and reconciliation does not block every cycle.
Fairness ==
  /\ \A p \in Threads : WF_vars(Steps(p))
  /\ SF_vars(EndExits("session", "cycle")) /\ SF_vars(BeginCycle("session", FALSE))

LiveSpec == Spec /\ Fairness

-----------------------------------------------------------------------------

\* The types of the variables.
TypeOK ==
  /\ pos \in [Trades -> Positions]
  /\ row \in [Trades -> Positions]
  /\ prot \in [Trades -> {"NONE", "ACTIVE", "DEGRADED"}]
  /\ controls \in [frozen : BOOLEAN, degraded : BOOLEAN]
  /\ latch \in BOOLEAN
  /\ quote \in [Trades -> Verdicts]
  /\ judged \in [Trades -> BOOLEAN]
  /\ crossed \in [Trades -> BOOLEAN]
  /\ scheduler \in BOOLEAN
  /\ thread \in [Threads -> ThreadType]
  /\ crashes \in 0..MaxCrashes

\* The gate lets a cycle through only if the last look at each open trade, a partly
\* closed one included, found that its software stop can be evaluated (Invariant 5),
\* whichever marks were set, cleared or lost in a crash: the control in memory is one
\* for all trades, and the freeze is lifted on any trade's recovery.  Only a thread
\* that put back the copy it had captured can have crossed the mark of another.
GateSeesVerdicts ==
  [][\A p \in Threads : At(p, "gate") /\ thread'[p].pc = "enter" =>
       \A t \in Trades : Live(pos[t]) /\ ~crossed[t] => judged[t]]_vars

\* Its quotes are fresh, and manage_exits looks at it again, or it blocks nothing.
Settled(t) ==
  /\ quote[t] = "OK"
  /\ \/ pos[t].state = "OPEN"
     \/ pos[t].mark = "none" /\ "EXIT_PENDING" \notin {pos[t].state, row[t].state}

\* Once every trade is settled, entries are possible again, also where a restart found a
\* record of protection that the recovery never resets.  A trade that was flattened
\* without a monitor is never settled: its mark is not cleared, and blocks for the
\* rest of the session.
Reopens == <>[](\A t \in Trades : Settled(t)) => []<>~Blocked

\* A trade that both threads work on is not live again once one of them has closed
\* it, CLOSED being terminal in TRADE_MACHINE, but by a thread that puts back the
\* copy it captured before the close (restore_position checks no state).
ReopenedByCapture ==
  [][\A t \in Trades : pos[t].state = "CLOSED" /\ Live(pos'[t]) => crossed'[t]]_vars

=============================================================================
