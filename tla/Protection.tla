----------------------------- MODULE Protection -----------------------------
(***************************************************************************)
(* How a quote of a held symbol reaches the exit policy: the REST monitor  *)
(* (src/trading/runtime/rest_quote_monitor.py), the WebSocket callback and *)
(* ProtectionCoordinator (src/trading/runtime/protection.py), which two    *)
(* threads tick without a lock.  Every write of what the threads share is  *)
(* a step of its own; the two reads that begin a delivery loop are one.    *)
(* manage_exits is one step here, the reading of the cached snapshots; its *)
(* own steps are those of PaperExit.  Time is a choice: an interval, a     *)
(* floor or a second may be over or not.                                   *)
(***************************************************************************)
EXTENDS Naturals

CONSTANTS K,       \* the monitored symbols are 1..K, in the order of sorted()
          Tickers, \* the threads that call ProtectionCoordinator.tick
          Guarded, \* those whose loop catches what a tick raises
          Sockets, \* the WebSocket threads
          Subscribed \* the symbols they subscribed to when they connected

ASSUME SymbolsAssumption == K \in Nat \ {0} /\ Subscribed \subseteq 1..K

ASSUME ThreadsAssumption == Guarded \subseteq Tickers /\ Tickers \cap Sockets = {}

VARIABLES
  snap,    \* per symbol, its quote in PaperRunner._protection_snapshots
  seen,    \* per symbol, its entry in _dedupe
  dirty,   \* _quotes_dirty
  m1,      \* _pending_m1
  carry,   \* _rest_carry_index
  pending, \* RestQuoteMonitor._pending_quotes
  index,   \* RestQuoteMonitor._pending_index
  call,    \* per thread, where its tick or callback is
  ended,   \* an exception has ended the session
  judged,  \* the symbols whose adverse quote manage_exits has read (history)
  done,    \* the symbols delivered of the last REST snapshot (history)
  raced    \* two threads were at work at once (history)

vars == <<snap, seen, dirty, m1, carry, pending, index, call, ended,
          judged, done, raced>>

cached == <<snap, seen, dirty, m1>>

rest == <<pending, index>>

histories == <<judged, done, raced>>

-----------------------------------------------------------------------------

Symbols == 1..K

Threads == Tickers \cup Sockets

\* A quote on which the policy of the symbol's position exits, or not.
Quotes == {"calm", "adverse"}

\* _pending_quotes is None, or a dict without entries.
NoSnapshot == [s \in Symbols |-> "none"]

EmptySnapshot == [s \in Symbols |-> "empty"]

Snapshots == [Symbols -> Quotes] \cup {NoSnapshot, EmptySnapshot}

Stages == {"idle", "poll", "fetch", "index", "open", "loop", "quote", "cache",
           "flag", "m1", "clear", "return", "work", "clean", "handover"}

\* carry: the carry index read or returned; last and next: the length of the
\* snapshot in hand and how far it is delivered; symbol and quote: what the
\* handler was called with.
CallType == [pc : Stages, carry : 0..K, last : {0, K}, next : 0..K,
             symbol : Symbols, quote : Quotes]

NoCall == [pc |-> "idle", carry |-> 0, last |-> 0, next |-> 0, symbol |-> 1,
           quote |-> "calm"]

\* Where _on_quote is.
Handling == {"quote", "cache", "flag", "m1"}

At(t, stage) == call[t].pc = stage

Goes(t, c) == call' = [call EXCEPT ![t] = c]

Move(t, stage) == Goes(t, [call[t] EXCEPT !.pc = stage])

\* RestQuoteMonitor.tick returns i, and its locals are gone.
Answers(t, i) == Goes(t, [NoCall EXCEPT !.pc = "return", !.carry = i])

Working(t) == call[t].pc # "idle"

\* Thread t begins a call; the history notes whether another one is at work.
Begins(t, c) ==
  /\ ~ended /\ At(t, "idle")
  /\ Goes(t, c)
  /\ raced' = (raced \/ \E u \in Threads \ {t} : Working(u))

\* tick raises: the scheduler logs it, the session loop does not catch it.
Raises(t) ==
  /\ Goes(t, NoCall)
  /\ ended' = (t \notin Guarded)

Init ==
  /\ snap = [s \in Symbols |-> "calm"]
  /\ seen = [s \in Symbols |-> "none"]
  /\ dirty = FALSE /\ m1 = FALSE
  /\ carry = 0
  /\ pending = NoSnapshot /\ index = 0
  /\ call = [t \in Threads |-> NoCall]
  /\ ended = FALSE
  /\ judged = {} /\ done = {} /\ raced = FALSE

-----------------------------------------------------------------------------
\* RestQuoteMonitor.tick.

BeginTick(t) ==
  /\ Begins(t, [NoCall EXCEPT !.pc = "poll", !.carry = carry])
  /\ UNCHANGED <<cached, carry, rest, ended, judged, done>>

\* A snapshot is left over from an earlier tick.
PollPending(t) ==
  /\ At(t, "poll") /\ pending # NoSnapshot
  /\ Move(t, "open")
  /\ UNCHANGED <<cached, carry, rest, ended, histories>>

\* Within the poll interval, or the backoff, which stands beside a snapshot
\* only when another thread has run into it.
PollTooEarly(t) ==
  /\ At(t, "poll") /\ (pending = NoSnapshot \/ Tickers # {t})
  /\ Answers(t, call[t].carry)
  /\ UNCHANGED <<cached, carry, rest, ended, histories>>

Poll(t) ==
  /\ At(t, "poll") /\ pending = NoSnapshot
  /\ Move(t, "fetch")
  /\ UNCHANGED <<cached, carry, pending, index, ended, histories>>

\* RestQuoteRateLimitError: no poll before the backoff is over.
RateLimited(t) ==
  /\ At(t, "fetch")
  /\ Answers(t, call[t].carry)
  /\ UNCHANGED <<cached, carry, pending, index, ended, histories>>

\* The provider's answer; on any other provider error it is empty.
Fetch(t, answer) ==
  /\ At(t, "fetch")
  /\ pending' = answer
  /\ done' = {}
  /\ Move(t, "index")
  /\ UNCHANGED <<cached, carry, index, ended, judged, raced>>

SetIndex(t) ==
  /\ At(t, "index")
  /\ index' = call[t].carry
  /\ Move(t, "open")
  /\ UNCHANGED <<cached, carry, pending, ended, histories>>

\* sorted() of the pending quotes, which another thread may have put away.
Open(t) ==
  /\ At(t, "open")
  /\ IF pending = NoSnapshot
       THEN Raises(t)
       ELSE /\ Goes(t, [NoCall EXCEPT !.pc = "loop", !.next = index,
                          !.last = IF pending = EmptySnapshot THEN 0 ELSE K])
            /\ UNCHANGED ended
  /\ UNCHANGED <<cached, carry, rest, histories>>

\* Mutant: the symbol at which the tick stopped counts as delivered.
InterruptPastSymbol(t) ==
  /\ At(t, "loop") /\ call[t].next < call[t].last
  /\ index' = call[t].next + 1
  /\ Answers(t, call[t].next)
  /\ UNCHANGED <<cached, carry, pending, ended, histories>>

\* Mutant: the index moves on before the tick asks for its time, also at the end.
InterruptPastEnd(t) ==
  /\ At(t, "loop") /\ call[t].next <= call[t].last
  /\ index' = call[t].next + 1
  /\ Answers(t, call[t].next)
  /\ UNCHANGED <<cached, carry, pending, ended, histories>>

\* should_stop: the tick's time is up, or the session's.
Interrupt(t) ==
  /\ At(t, "loop") /\ call[t].next < call[t].last
  /\ index' = call[t].next
  /\ Answers(t, call[t].next)
  /\ UNCHANGED <<cached, carry, pending, ended, histories>>

\* The next quote of the snapshot, which may be gone or another one by now.
TakeQuote(t) ==
  /\ At(t, "loop") /\ call[t].next < call[t].last
  /\ LET s == call[t].next + 1
     IN  IF pending[s] \in Quotes
           THEN /\ Goes(t, [call[t] EXCEPT !.pc = "quote", !.symbol = s,
                                           !.quote = pending[s]])
                /\ UNCHANGED ended
           ELSE Raises(t)
  /\ UNCHANGED <<cached, carry, rest, histories>>

Finish(t) ==
  /\ At(t, "loop") /\ call[t].next >= call[t].last
  /\ pending' = NoSnapshot
  /\ Goes(t, [NoCall EXCEPT !.pc = "clear"])
  /\ UNCHANGED <<cached, carry, index, ended, histories>>

ClearIndex(t) ==
  /\ At(t, "clear")
  /\ index' = 0
  /\ Answers(t, 0)
  /\ UNCHANGED <<cached, carry, pending, ended, histories>>

-----------------------------------------------------------------------------
\* ProtectionCoordinator._on_quote, called by a tick or by the WebSocket.

Push(t, s, quote) ==
  /\ Begins(t, [NoCall EXCEPT !.pc = "quote", !.symbol = s, !.quote = quote])
  /\ UNCHANGED <<cached, carry, rest, ended, judged, done>>

\* The handler returns, to the loop of the tick or to the socket.
Returns(t) ==
  IF t \in Tickers
    THEN /\ Goes(t, [NoCall EXCEPT !.pc = "loop", !.next = call[t].symbol,
                          !.last = call[t].last])
         /\ done' = done \cup {call[t].symbol}
    ELSE Goes(t, NoCall) /\ UNCHANGED done

\* Its fingerprint is the last one of its symbol, in the same second.
Repeated(t) ==
  /\ At(t, "quote") /\ seen[call[t].symbol] = call[t].quote
  /\ Returns(t)
  /\ UNCHANGED <<cached, carry, rest, ended, judged, raced>>

\* Mutant: an unchanged quote is never news, in no later second.
AcceptOnlyChanges(t) ==
  /\ At(t, "quote") /\ seen[call[t].symbol] # call[t].quote
  /\ seen' = [seen EXCEPT ![call[t].symbol] = call[t].quote]
  /\ Move(t, "cache")
  /\ UNCHANGED <<snap, dirty, m1, carry, rest, ended, histories>>

\* Another fingerprint, or the same one in another second.
Accept(t) ==
  /\ At(t, "quote")
  /\ seen' = [seen EXCEPT ![call[t].symbol] = call[t].quote]
  /\ Move(t, "cache")
  /\ UNCHANGED <<snap, dirty, m1, carry, rest, ended, histories>>

\* cache_quote_updates: whichever thread comes last wins.
Cache(t) ==
  /\ At(t, "cache")
  /\ snap' = [snap EXCEPT ![call[t].symbol] = call[t].quote]
  /\ Move(t, "flag")
  /\ UNCHANGED <<seen, dirty, m1, carry, rest, ended, histories>>

MarkDirty(t) ==
  /\ At(t, "flag")
  /\ dirty' = TRUE
  /\ Move(t, "m1")
  /\ UNCHANGED <<snap, seen, m1, carry, rest, ended, histories>>

MarkM1(t) ==
  /\ At(t, "m1")
  /\ m1' = TRUE
  /\ Returns(t)
  /\ UNCHANGED <<snap, seen, dirty, carry, rest, ended, judged, raced>>

-----------------------------------------------------------------------------
\* The end of the tick: the carry index and _run_deferred_work.

Return(t) ==
  /\ At(t, "return")
  /\ carry' = call[t].carry
  /\ Goes(t, [NoCall EXCEPT !.pc = "work"])
  /\ UNCHANGED <<cached, rest, ended, histories>>

\* Mutant: a tick within the floor drops the flag all the same.
NotYetButClean(t) ==
  /\ At(t, "work")
  /\ dirty' = FALSE
  /\ Goes(t, NoCall)
  /\ UNCHANGED <<snap, seen, m1, carry, rest, ended, histories>>

\* Within deferred_work_floor_seconds of the last work, or nothing to do.
NotYet(t) ==
  /\ At(t, "work")
  /\ Goes(t, NoCall)
  /\ UNCHANGED <<cached, carry, rest, ended, histories>>

\* manage_exits on a copy of the cached snapshots.
Judge(t) ==
  /\ At(t, "work") /\ dirty
  /\ judged' = judged \cup {s \in Symbols : snap[s] = "adverse"}
  /\ Move(t, "clean")
  /\ UNCHANGED <<cached, carry, rest, ended, done, raced>>

\* The flag is dropped when manage_exits has returned.
Clean(t) ==
  /\ At(t, "clean")
  /\ dirty' = FALSE
  /\ Move(t, "handover")
  /\ UNCHANGED <<snap, seen, m1, carry, rest, ended, histories>>

OnlyM1(t) ==
  /\ At(t, "work") /\ ~dirty /\ m1
  /\ Move(t, "handover")
  /\ UNCHANGED <<cached, carry, rest, ended, histories>>

\* The quote goes to the M1 ingress.
HandOver(t) ==
  /\ At(t, "handover")
  /\ m1' = FALSE
  /\ Goes(t, NoCall)
  /\ UNCHANGED <<snap, seen, dirty, carry, rest, ended, histories>>

\* The steps of a tick or a callback, once begun.
Step(t) ==
  \/ PollPending(t) \/ PollTooEarly(t) \/ Poll(t) \/ RateLimited(t)
  \/ (\E answer \in Snapshots \ {NoSnapshot} : Fetch(t, answer))
  \/ SetIndex(t) \/ Open(t)
  \/ Interrupt(t) \/ TakeQuote(t) \/ Finish(t) \/ ClearIndex(t)
  \/ Repeated(t) \/ Accept(t) \/ Cache(t) \/ MarkDirty(t) \/ MarkM1(t)
  \/ Return(t) \/ NotYet(t) \/ Judge(t) \/ Clean(t) \/ OnlyM1(t) \/ HandOver(t)

Runs(t) == ~ended /\ Step(t)

Next ==
  \/ \E t \in Tickers : BeginTick(t)
  \/ \E t \in Sockets, s \in Subscribed, quote \in Quotes : Push(t, s, quote)
  \/ \E t \in Threads : Runs(t)

Spec == Init /\ [][Next]_vars

\* The scheduler ticks on its own cadence and a tick runs to its end.  Time
\* passes: an interval, a floor or a second that a step waits for is over again
\* and again.  The provider answers again and again, and a tick is not stopped
\* before its first quote every time.  Nothing is assumed of the session's own
\* thread between ticks.
FairSpec ==
  /\ Spec
  /\ \A t \in Guarded : WF_vars(BeginTick(t))
  /\ \A t \in Threads : WF_vars(Runs(t))
  /\ \A t \in Tickers : /\ SF_vars(~ended /\ Poll(t))
                        /\ SF_vars(~ended /\ \E answer \in [Symbols -> Quotes] : Fetch(t, answer))
                        /\ SF_vars(~ended /\ TakeQuote(t))
                        /\ SF_vars(~ended /\ Judge(t))
  /\ \A t \in Tickers, s \in Symbols :
       SF_vars(~ended /\ call[t].symbol = s /\ Accept(t))

-----------------------------------------------------------------------------

\* The types of the variables.
TypeOK ==
  /\ snap \in [Symbols -> Quotes]
  /\ seen \in [Symbols -> Quotes \cup {"none"}]
  /\ dirty \in BOOLEAN /\ m1 \in BOOLEAN
  /\ carry \in 0..K /\ index \in 0..K
  /\ pending \in Snapshots
  /\ call \in [Threads -> CallType]
  /\ ended \in BOOLEAN
  /\ judged \subseteq Symbols /\ done \subseteq Symbols /\ raced \in BOOLEAN

\* No tick ends the session: protection stays up while positions are open
\* (SAFETY_INVARIANTS 16; paper_session.yaml on the background thread).
TickLives == ~ended

\* With one thread that ticks, a REST snapshot is put away only when each of its
\* symbols has been delivered, in however many ticks (the carry-over of
\* RestQuoteMonitor.tick and _rest_carry_index).
SnapshotDelivered ==
  [][(pending \in [Symbols -> Quotes] /\ pending' # pending) => done = Symbols]_vars

\* As long as no two threads are at work at once, an adverse quote that is
\* cached and was never judged keeps the flag up until the next judgement.
NothingForgotten ==
  ~raced /\ (\A t \in Threads : ~Working(t)) =>
    \A s \in Symbols : snap[s] = "adverse" => s \in judged \/ dirty

\* The quotes of symbol s that are on their way.
Received(s) ==
  ({pending[s]} \cap Quotes) \cup
    {call[t].quote : t \in {u \in Threads : call[u].pc \in Handling /\ call[u].symbol = s}}

\* With one thread that ticks, and whatever the sockets do to it, a symbol of
\* which only adverse quotes come in is judged: a flag that is lost is set again
\* by a later poll, and the symbols that no socket knows are polled.
AdverseIsJudged ==
  \A s \in Symbols :
    <>[](Received(s) \subseteq {"adverse"}) => <>(s \in judged)
=============================================================================
