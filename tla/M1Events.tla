------------------------------ MODULE M1Events ------------------------------
(***************************************************************************)
(* Mode 1 enters on quotes, not on the poll: the ingress takes a quote for  *)
(* an event, the session builds its requests with the event in the holder,  *)
(* the gate of each M1 slot spends an attempt of the day and of the episode *)
(* in m1_episodes.json, and the runner is given what the gate lets through. *)
(* The session's thread feeds the quote that its poll has chosen, the       *)
(* scheduler's those that the protection coordinator caches; submit_m1_event*)
(* takes an event of any other caller too (tests/test_m1_paper_session_...).*)
(* All share the holder, the counter of the day and the file.  The process  *)
(* may be killed between any two steps.                                     *)
(***************************************************************************)
EXTENDS Integers, Sequences, FiniteSets

CONSTANTS Threads,    \* threads that submit events
          Session,    \* the one that polls as well
          Scenes,     \* what a build may find: [trend, options, bias, pressure, edge]
  Stamped,    \* whether a MarketQuote tells its time: it has no such field
          None,
          Gap,        \* min_interval_ms of the ingress
          Horizon,    \* bound: how long is watched
          MaxAttempts,\* max_attempts_per_session
          RetryLimit, \* episode_retry_limit
          MaxCrashes  \* bound: how often the process is killed

VARIABLES
  profile,
  now,
  last,     \* _last_submit_at of the ingress
  holder,   \* m1_holder: the pending event and whether a build is to keep it
  attempts, \* cas_attempts_today, in memory
  ledger,   \* m1_episodes.json of the day: attempts per episode; torn while it is written
  work,     \* per thread, the build or the cycle in hand
  runs,     \* history: per slot, the requests that the runner was given
  inRun,    \* history: how many of them this process gave
  bought,   \* history: the slots and trends with which something was entered
  crashes

vars == <<profile, now, last, holder, attempts, ledger, work, runs, inRun, bought, crashes>>

-----------------------------------------------------------------------------

\* The M1 slots, in the order of the registry; a slot's family is its episode,
\* since no ingress names one.
Slots == <<"long_call", "long_put">>

Families == {"long_call", "long_put"}

Unused == [f \in Families |-> 0]

Blank == [trend |-> "NONE", options |-> {}, bias |-> "NEUTRAL", pressure |-> 0, edge |-> 0]

NoWork == [pc |-> "idle", via |-> "poll", event |-> None, scene |-> Blank, slot |-> 0,
           copy |-> Unused, requests |-> {}]

At(p, pc) == work[p].pc = pc

Goes(p, pc) == work' = [work EXCEPT ![p].pc = pc]

Discovery == profile = "DISCOVERY"

-----------------------------------------------------------------------------

\* bind_m1_cas_option: of the trend's options that pass, the best by score; ties go
\* by symbol, which a scene's scores do not have.  An option has a type, a delta
\* and an ask, its score and whether it passes _common_reason (fit).
Kind(trend) == CASE trend = "UP" -> "CALL" [] trend = "DOWN" -> "PUT" [] OTHER -> None

InRange(option) ==
  LET range == IF Discovery THEN 10..50 ELSE 20..40 IN option.delta \in range

Candidates(scene) ==
  {o \in scene.options : o.type = Kind(scene.trend) /\ o.fit /\ o.dte > 0 /\ InRange(o)}

Bind(scene) ==
  IF Candidates(scene) = {} THEN None
  ELSE CHOOSE o \in Candidates(scene) : \A c \in Candidates(scene) : o.score >= c.score

\* explain_m1_strike: the one selected is in the band, and no other one of the chain
\* that is in it, of either type, has more delta for its ask.
Band == 15..40

Explained(selected, options) ==
  /\ selected.delta \in Band /\ selected.ask > 0
  /\ \A o \in options \ {selected} :
       o.ask > 0 /\ o.delta \in Band => o.delta * selected.ask <= selected.delta * o.ask

\* evaluate_cas_event_trigger, of the quote_only profile: the age of the quote when
\* it came in; a book that is seen out of balance must have the edge.
Triggered(event, selected) == event.fresh /\ (selected.balanced \/ selected.edge)

\* ledger_block_reason, whose SETUP_COOLDOWN is soft for DISCOVERY.
\* Mutant: the limit is taken for the number of retries after the first attempt.
SpentByRetries(family) == ledger.count[family] > RetryLimit

Spent(family) == ledger.count[family] >= RetryLimit

\* evaluate_m1_provider_event and cas_event_paper_permitted, for one slot.
Executes(event, scene, family) ==
  LET selected == Bind(scene) IN
  /\ event # None /\ event.observed
  /\ Discovery \/ ~Spent(family)
  /\ attempts < MaxAttempts
  /\ selected # None
  /\ Explained(selected, scene.options) /\ Triggered(event, selected)

\* CasMicrostructureStrategy.evaluate on the option that is bound: the auction's
\* pressure and the microprice point the way of the bias that was resolved.
Confirmed(scene) ==
  CASE scene.bias = "BULLISH" -> scene.pressure >= 1 /\ scene.edge >= 0
    [] scene.bias = "BEARISH" -> scene.pressure <= -1 /\ scene.edge <= 0
    [] OTHER -> FALSE

Proposes(scene) ==
  /\ Confirmed(scene)
  /\ Bind(scene).type = (IF scene.bias = "BULLISH" THEN "CALL" ELSE "PUT")

\* The slot's family must be the one of the option (FAMILY_ID_MISMATCH).
FamilyOf(type) == IF type = "CALL" THEN "long_call" ELSE "long_put"

-----------------------------------------------------------------------------

Init ==
  /\ profile \in {"STRICT", "DISCOVERY"}
  /\ now = 0 /\ last = None
  /\ holder = [event |-> None, keep |-> FALSE]
  /\ attempts = 0
  /\ ledger = [torn |-> FALSE, count |-> Unused]
  /\ work = [p \in Threads |-> NoWork]
  /\ runs = Unused /\ inRun = 0
  /\ bought = {}
  /\ crashes = 0

Pass ==
  /\ now < Horizon
  /\ now' = now + 1
  /\ UNCHANGED <<profile, last, holder, attempts, ledger, work, runs, inRun, bought, crashes>>

\* tick: a pending event is dropped, unless an event's build is under way.
Poll(p) ==
  /\ p = Session /\ At(p, "idle")
  /\ holder' = IF holder.keep THEN holder ELSE [holder EXCEPT !.event = None]
  /\ work' = [work EXCEPT ![p] = [NoWork EXCEPT !.pc = "build"]]
  /\ UNCHANGED <<profile, now, last, attempts, ledger, runs, inRun, bought, crashes>>

Submits(p, event) ==
  /\ holder' = [event |-> event, keep |-> TRUE]
  /\ work' = [work EXCEPT ![p] = [NoWork EXCEPT !.pc = "build", !.via = "event"]]
  /\ UNCHANGED <<profile, now, attempts, ledger, runs, inRun, bought, crashes>>

Ripe == last # None => now - last >= Gap

\* The coordinator hands a quote to on_quote.
OnQuote(p, fresh) ==
  /\ p # Session /\ At(p, "idle")
  /\ Ripe /\ last' = now
  /\ Submits(p, [fresh |-> fresh, observed |-> Stamped])

\* _select_m1_poll_snapshot: the most delta for its ask among the trend's options
\* in the band.
Watched(scene) ==
  LET near == {o \in scene.options : o.type = Kind(scene.trend) /\ o.delta \in Band /\ o.ask > 0} IN
  IF near = {} THEN None
  ELSE CHOOSE o \in near : \A c \in near : o.delta * c.ask >= c.delta * o.ask

\* feed_m1_poll_provider_event, after the poll's cycle: a quote without a time is
\* no event.
Feed(p, fresh) ==
  /\ At(p, "polled")
  /\ IF Watched(work[p].scene) # None /\ Stamped /\ Ripe
       THEN last' = now /\ Submits(p, [fresh |-> fresh, observed |-> TRUE])
       ELSE /\ Goes(p, "idle")
            /\ UNCHANGED <<profile, now, last, holder, attempts, ledger, runs, inRun, bought, crashes>>

\* submit_m1_event of an event that another caller has stamped.
Submit(p, fresh) ==
  /\ At(p, "idle")
  /\ UNCHANGED last
  /\ Submits(p, [fresh |-> fresh, observed |-> TRUE])

\* The builder has fetched and produced; it takes what the holder then has.
Build(p, scene) ==
  /\ At(p, "build")
  /\ work' = [work EXCEPT ![p] = [@ EXCEPT !.pc = "slots", !.scene = scene,
                                          !.event = holder.event, !.slot = 1]]
  /\ UNCHANGED <<profile, now, last, holder, attempts, ledger, runs, inRun, bought, crashes>>

\* A failed fetch, or a file that cannot be read, ends the build without requests.
Fails(p) == Goes(p, IF work[p].via = "event" THEN "finally" ELSE "idle")

FetchFails(p) ==
  /\ At(p, "build")
  /\ Fails(p)
  /\ UNCHANGED <<profile, now, last, holder, attempts, ledger, runs, inRun, bought, crashes>>

Slot(p) == Slots[work[p].slot]

\* The gate of one slot.  The attempt is counted before it is recorded.
Gate(p) ==
  /\ At(p, "slots") /\ work[p].slot <= Len(Slots)
  /\ IF work[p].event # None /\ work[p].event.observed /\ ledger.torn
       THEN Fails(p) /\ UNCHANGED attempts
     ELSE IF Executes(work[p].event, work[p].scene, Slot(p))
       THEN attempts' = attempts + 1 /\ Goes(p, "read")
       ELSE work' = [work EXCEPT ![p].slot = @ + 1] /\ UNCHANGED attempts
  /\ UNCHANGED <<profile, now, last, holder, ledger, runs, inRun, bought, crashes>>

\* record_episode_attempt reads the file, and writes it anew in place.
ReadLedger(p) ==
  /\ At(p, "read")
  /\ IF ledger.torn THEN Fails(p)
     ELSE work' = [work EXCEPT ![p] = [@ EXCEPT !.pc = "truncate", !.copy = ledger.count]]
  /\ UNCHANGED <<profile, now, last, holder, attempts, ledger, runs, inRun, bought, crashes>>

Truncate(p) ==
  /\ At(p, "truncate")
  /\ ledger' = [ledger EXCEPT !.torn = TRUE]
  /\ Goes(p, "write")
  /\ UNCHANGED <<profile, now, last, holder, attempts, runs, inRun, bought, crashes>>

WriteLedger(p) ==
  /\ At(p, "write")
  /\ ledger' = [torn |-> FALSE, count |-> [work[p].copy EXCEPT ![Slot(p)] = @ + 1]]
  /\ work' = [work EXCEPT ![p] = [work[p] EXCEPT !.pc = "slots", !.slot = @ + 1, !.copy = Unused,
                                                !.requests = @ \cup {Slot(p)}]]
  /\ UNCHANGED <<profile, now, last, holder, attempts, runs, inRun, bought, crashes>>

\* run_cycle with the requests of the slots that execute.
Run(p) ==
  LET w == work[p] IN
  /\ At(p, "slots") /\ w.slot > Len(Slots)
  /\ runs' = [f \in Families |-> runs[f] + (IF f \in w.requests THEN 1 ELSE 0)]
  /\ inRun' = inRun + Cardinality(w.requests)
  /\ bought' = bought \cup
       {[slot |-> f, trend |-> w.scene.trend] :
         f \in {g \in w.requests : Proposes(w.scene) /\ g = FamilyOf(Bind(w.scene).type)}}
  /\ Goes(p, IF w.via = "event" THEN "finally" ELSE "polled")
  /\ UNCHANGED <<profile, now, last, holder, attempts, ledger, crashes>>

Finally(p) ==
  /\ At(p, "finally")
  /\ holder' = [event |-> None, keep |-> FALSE]
  /\ Goes(p, "idle")
  /\ UNCHANGED <<profile, now, last, attempts, ledger, runs, inRun, bought, crashes>>

\* The process is killed and started again: the file is all that is left.
Restart ==
  /\ crashes < MaxCrashes
  /\ crashes' = crashes + 1
  /\ last' = None /\ holder' = [event |-> None, keep |-> FALSE]
  /\ attempts' = 0 /\ inRun' = 0
  /\ work' = [p \in Threads |-> NoWork]
  /\ UNCHANGED <<profile, now, ledger, runs, bought>>

Next ==
  \/ Pass \/ Restart
  \/ \E p \in Threads :
       \/ Poll(p) \/ FetchFails(p) \/ Gate(p)
       \/ ReadLedger(p) \/ Truncate(p) \/ WriteLedger(p) \/ Run(p) \/ Finally(p)
       \/ \E fresh \in BOOLEAN : OnQuote(p, fresh) \/ Feed(p, fresh) \/ Submit(p, fresh)
       \/ \E scene \in Scenes : Build(p, scene)

Spec == Init /\ [][Next]_vars

-----------------------------------------------------------------------------

\* The budget of M1 holds over retries, failed builds and restarts: every request
\* that the runner is given has its attempt in the file, so that a restart still
\* sees it (record_episode_attempt), a STRICT episode is tried no more often than
\* its limit, and a process gives no more than the day's attempts.  Nothing else
\* enters: the poll invents no M1 entry.
AttemptsBounded ==
  /\ ~ledger.torn => \A f \in Families : runs[f] <= ledger.count[f]
  /\ ~Discovery => \A f \in Families : runs[f] <= RetryLimit
  /\ inRun <= attempts /\ attempts <= MaxAttempts
  /\ \A p \in Threads : work[p].via = "poll" => work[p].requests = {}

\* "Submit one M1 event from the latest poll snapshots" (feed_m1_poll_provider_event):
\* a poll that has an option to watch, and no event just before it, submits one.
PollFeeds ==
  [][\A p \in Threads :
       At(p, "polled") /\ work'[p].pc = "idle" /\ crashes' = crashes
         => Watched(work[p].scene) = None \/ ~Ripe]_vars

\* An episode is used up by an attempt at it: one that the trend's option is for.
EpisodeNotWasted ==
  \A p \in Threads : work[p].requests \subseteq {FamilyOf(Kind(work[p].scene.trend))}

=============================================================================
