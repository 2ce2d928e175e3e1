-------------------------- MODULE Protection_proofs --------------------------
(***************************************************************************)
(* Theorems about Protection: its types for any number of threads, and     *)
(* that no adverse quote is forgotten while nothing races.  And about the  *)
(* EntryGate that reads its marks: what it knows when it opens.            *)
(***************************************************************************)
EXTENDS MCProtection, TLAPS

\* There is a symbol, and the bounds of the index are in its range.
LEMMA Range ==
  /\ K \in Nat /\ 1 \in Symbols
  /\ 0 \in 0..K /\ K \in 0..K /\ Symbols \subseteq 0..K
  /\ Subscribed \subseteq Symbols
  BY SymbolsAssumption DEF Symbols

\* A call that has not begun is well-formed.
LEMMA NoCallTyped == NoCall \in CallType
  BY Range DEF NoCall, CallType, Stages, Quotes

\* A step of one thread leaves a well-formed call, and the others alone.
LEMMA GoesMade ==
  ASSUME call \in [Threads -> CallType], NEW t \in Threads, NEW c \in CallType, Goes(t, c)
  PROVE  /\ call' \in [Threads -> CallType] /\ call'[t] = c
         /\ \A u \in Threads \ {t} : call'[u] = call[u]
  BY DEF Goes

\* Move changes the stage of one call.
LEMMA MoveMade ==
  ASSUME call \in [Threads -> CallType], NEW t \in Threads, NEW stage \in Stages,
         Move(t, stage)
  PROVE  /\ call' \in [Threads -> CallType]
         /\ \A u \in Threads \ {t} : call'[u] = call[u]
         /\ call'[t].pc = stage /\ call'[t].carry = call[t].carry
         /\ call'[t].last = call[t].last /\ call'[t].next = call[t].next
         /\ call'[t].symbol = call[t].symbol /\ call'[t].quote = call[t].quote
  <1>1. [call[t] EXCEPT !.pc = stage] \in CallType
    BY DEF CallType
  <1>2. call'[t] = [call[t] EXCEPT !.pc = stage]
    BY <1>1, GoesMade DEF Move
  <1>3. call[t] \in CallType
    OBVIOUS
  <1>4. /\ [call[t] EXCEPT !.pc = stage].pc = stage
        /\ [call[t] EXCEPT !.pc = stage].carry = call[t].carry
        /\ [call[t] EXCEPT !.pc = stage].last = call[t].last
        /\ [call[t] EXCEPT !.pc = stage].next = call[t].next
        /\ [call[t] EXCEPT !.pc = stage].symbol = call[t].symbol
        /\ [call[t] EXCEPT !.pc = stage].quote = call[t].quote
    BY <1>3 DEF CallType
  <1>. QED BY <1>1, <1>2, <1>4, GoesMade DEF Move

\* A new call in the given stage, with a carry index.
LEMMA NewMade ==
  ASSUME call \in [Threads -> CallType], NEW t \in Threads, NEW stage \in Stages,
         NEW i \in 0..K, Goes(t, [NoCall EXCEPT !.pc = stage, !.carry = i])
  PROVE  /\ call' \in [Threads -> CallType]
         /\ \A u \in Threads \ {t} : call'[u] = call[u]
         /\ call'[t].pc = stage /\ call'[t].carry = i
  <1>. DEFINE c == [NoCall EXCEPT !.pc = stage, !.carry = i]
  <1>1. c \in CallType
    BY NoCallTyped DEF CallType
  <1>2. c.pc = stage /\ c.carry = i
    BY NoCallTyped DEF CallType
  <1>3. call'[t] = c /\ call' \in [Threads -> CallType]
        /\ \A u \in Threads \ {t} : call'[u] = call[u]
    BY <1>1, GoesMade
  <1>. QED BY <1>2, <1>3

\* RestQuoteMonitor.tick has returned a carry index.
LEMMA AnswersMade ==
  ASSUME call \in [Threads -> CallType], NEW t \in Threads, NEW i \in 0..K, Answers(t, i)
  PROVE  /\ call' \in [Threads -> CallType]
         /\ \A u \in Threads \ {t} : call'[u] = call[u]
         /\ call'[t].pc = "return" /\ call'[t].carry = i
  <1>1. "return" \in Stages
    BY DEF Stages
  <1>. QED BY <1>1, NewMade DEF Answers

\* A thread that is between its calls.
LEMMA EndMade ==
  ASSUME call \in [Threads -> CallType], NEW t \in Threads, Goes(t, NoCall)
  PROVE  /\ call' \in [Threads -> CallType]
         /\ \A u \in Threads \ {t} : call'[u] = call[u]
         /\ call'[t].pc = "idle"
  <1>1. NoCall.pc = "idle"
    BY DEF NoCall
  <1>. QED BY <1>1, NoCallTyped, GoesMade

\* The loop of a tick, at a position of a snapshot of a length.
LEMMA LoopMade ==
  ASSUME call \in [Threads -> CallType], NEW t \in Threads, NEW i \in 0..K,
         NEW n \in {0, K}, Goes(t, [NoCall EXCEPT !.pc = "loop", !.next = i, !.last = n])
  PROVE  /\ call' \in [Threads -> CallType]
         /\ \A u \in Threads \ {t} : call'[u] = call[u]
         /\ call'[t].pc = "loop" /\ call'[t].next = i /\ call'[t].last = n
  <1>. DEFINE c == [NoCall EXCEPT !.pc = "loop", !.next = i, !.last = n]
  <1>1. c \in CallType
    BY NoCallTyped DEF CallType, Stages
  <1>2. c.pc = "loop" /\ c.next = i /\ c.last = n
    BY NoCallTyped DEF CallType
  <1>3. call'[t] = c /\ call' \in [Threads -> CallType]
        /\ \A u \in Threads \ {t} : call'[u] = call[u]
    BY <1>1, GoesMade
  <1>. QED BY <1>2, <1>3

\* The handler is called by a tick, which keeps its place in the snapshot.
LEMMA TakenMade ==
  ASSUME call \in [Threads -> CallType], NEW t \in Threads, NEW s \in Symbols,
         NEW q \in Quotes,
         Goes(t, [call[t] EXCEPT !.pc = "quote", !.symbol = s, !.quote = q])
  PROVE  /\ call' \in [Threads -> CallType]
         /\ \A u \in Threads \ {t} : call'[u] = call[u]
         /\ call'[t].pc = "quote" /\ call'[t].symbol = s /\ call'[t].last = call[t].last
  <1>. DEFINE c == [call[t] EXCEPT !.pc = "quote", !.symbol = s, !.quote = q]
  <1>0. call[t] \in CallType
    OBVIOUS
  <1>1. c \in CallType
    BY <1>0 DEF CallType, Stages
  <1>2. c.pc = "quote" /\ c.symbol = s /\ c.last = call[t].last
    BY <1>0 DEF CallType
  <1>3. call'[t] = c /\ call' \in [Threads -> CallType]
        /\ \A u \in Threads \ {t} : call'[u] = call[u]
    BY <1>1, GoesMade
  <1>. QED BY <1>2, <1>3

\* The handler is called by a socket.
LEMMA PushedMade ==
  ASSUME call \in [Threads -> CallType], NEW t \in Threads, NEW s \in Symbols,
         NEW q \in Quotes,
         Goes(t, [NoCall EXCEPT !.pc = "quote", !.symbol = s, !.quote = q])
  PROVE  /\ call' \in [Threads -> CallType]
         /\ \A u \in Threads \ {t} : call'[u] = call[u]
         /\ call'[t].pc = "quote"
  <1>. DEFINE c == [NoCall EXCEPT !.pc = "quote", !.symbol = s, !.quote = q]
  <1>1. c \in CallType
    BY NoCallTyped DEF CallType, Stages
  <1>2. c.pc = "quote"
    BY NoCallTyped DEF CallType
  <1>3. call'[t] = c /\ call' \in [Threads -> CallType]
        /\ \A u \in Threads \ {t} : call'[u] = call[u]
    BY <1>1, GoesMade
  <1>. QED BY <1>2, <1>3

\* A new call in the given stage and nothing else.
LEMMA StageMade ==
  ASSUME call \in [Threads -> CallType], NEW t \in Threads, NEW stage \in Stages,
         Goes(t, [NoCall EXCEPT !.pc = stage])
  PROVE  /\ call' \in [Threads -> CallType]
         /\ \A u \in Threads \ {t} : call'[u] = call[u]
         /\ call'[t].pc = stage
  <1>. DEFINE c == [NoCall EXCEPT !.pc = stage]
  <1>1. c \in CallType
    BY NoCallTyped DEF CallType
  <1>2. c.pc = stage
    BY NoCallTyped DEF CallType
  <1>3. call'[t] = c /\ call' \in [Threads -> CallType]
        /\ \A u \in Threads \ {t} : call'[u] = call[u]
    BY <1>1, GoesMade
  <1>. QED BY <1>2, <1>3

\* The handler returns to the loop or to the socket.
LEMMA ReturnsMade ==
  ASSUME TypeOK, NEW t \in Threads, Returns(t)
  PROVE  /\ call' \in [Threads -> CallType]
         /\ \A u \in Threads \ {t} : call'[u] = call[u]
         /\ done' \subseteq Symbols
         /\ t \in Tickers =>
              /\ call'[t].pc = "loop" /\ call'[t].next = call[t].symbol
              /\ call'[t].last = call[t].last /\ done' = done \cup {call[t].symbol}
         /\ t \notin Tickers => call'[t].pc = "idle" /\ done' = done
  <1>1. /\ call \in [Threads -> CallType] /\ call[t].symbol \in Symbols
        /\ call[t].symbol \in 0..K /\ call[t].last \in {0, K} /\ done \subseteq Symbols
    BY Range DEF TypeOK, CallType
  <1>2. CASE t \in Tickers
    <2>1. done' = done \cup {call[t].symbol}
      BY <1>2 DEF Returns
    <2>. QED BY <1>1, <1>2, <2>1, LoopMade DEF Returns
  <1>3. CASE t \notin Tickers
    BY <1>1, <1>3, EndMade DEF Returns
  <1>. QED BY <1>2, <1>3

-----------------------------------------------------------------------------

\* The threads are the tickers and the sockets.
LEMMA TheThreads ==
  /\ Tickers \subseteq Threads /\ Sockets \subseteq Threads
  /\ \A t \in Sockets : t \notin Tickers
  BY ThreadsAssumption DEF Threads

\* The types are kept by every step.
LEMMA TypeKept ==
  ASSUME TypeOK, [Next]_vars
  PROVE  TypeOK'
  <1>. USE DEF TypeOK, cached, rest, histories
  <1>0. /\ call \in [Threads -> CallType]
        /\ \A t \in Threads :
             /\ call[t].carry \in 0..K /\ call[t].last \in {0, K} /\ call[t].next \in 0..K
             /\ call[t].symbol \in Symbols /\ call[t].quote \in Quotes
    BY DEF CallType
  <1>1. ASSUME NEW t \in Tickers, BeginTick(t) PROVE TypeOK'
    <2>1. call' \in [Threads -> CallType]
      BY <1>0, <1>1, TheThreads, NewMade, Range DEF BeginTick, Begins, Stages
    <2>2. raced' \in BOOLEAN
      BY <1>1 DEF BeginTick, Begins
    <2>. QED BY <1>1, <2>1, <2>2 DEF BeginTick, Begins
  <1>2. ASSUME NEW t \in Threads, PollPending(t) PROVE TypeOK'
    <2>1. call' \in [Threads -> CallType]
      BY <1>0, <1>2, MoveMade DEF PollPending, Stages
    <2>. QED BY <1>2, <2>1 DEF PollPending
  <1>3. ASSUME NEW t \in Threads, PollTooEarly(t) PROVE TypeOK'
    <2>1. call' \in [Threads -> CallType]
      BY <1>0, <1>3, AnswersMade DEF PollTooEarly
    <2>. QED BY <1>3, <2>1 DEF PollTooEarly
  <1>4. ASSUME NEW t \in Threads, Poll(t) PROVE TypeOK'
    <2>1. call' \in [Threads -> CallType]
      BY <1>0, <1>4, MoveMade DEF Poll, Stages
    <2>. QED BY <1>4, <2>1 DEF Poll
  <1>5. ASSUME NEW t \in Threads, RateLimited(t) PROVE TypeOK'
    <2>1. call' \in [Threads -> CallType]
      BY <1>0, <1>5, AnswersMade DEF RateLimited
    <2>. QED BY <1>5, <2>1 DEF RateLimited
  <1>6. ASSUME NEW t \in Threads, NEW answer \in Snapshots, Fetch(t, answer) PROVE TypeOK'
    <2>1. call' \in [Threads -> CallType]
      BY <1>0, <1>6, MoveMade DEF Fetch, Stages
    <2>. QED BY <1>6, <2>1 DEF Fetch
  <1>7. ASSUME NEW t \in Threads, SetIndex(t) PROVE TypeOK'
    <2>1. call' \in [Threads -> CallType]
      BY <1>0, <1>7, MoveMade DEF SetIndex, Stages
    <2>2. index' \in 0..K
      BY <1>0, <1>7 DEF SetIndex
    <2>. QED BY <1>7, <2>1, <2>2 DEF SetIndex
  <1>8. ASSUME NEW t \in Threads, Open(t) PROVE TypeOK'
    <2>1. call' \in [Threads -> CallType]
      BY <1>0, <1>8, LoopMade, EndMade, Range DEF Open, Raises
    <2>. QED BY <1>8, <2>1 DEF Open, Raises
  <1>9. ASSUME NEW t \in Threads, Interrupt(t) PROVE TypeOK'
    <2>1. call' \in [Threads -> CallType]
      BY <1>0, <1>9, AnswersMade DEF Interrupt
    <2>2. index' \in 0..K
      BY <1>0, <1>9 DEF Interrupt
    <2>. QED BY <1>9, <2>1, <2>2 DEF Interrupt
  <1>10. ASSUME NEW t \in Threads, TakeQuote(t) PROVE TypeOK'
    <2>1. call[t].next + 1 \in Symbols
      BY <1>0, <1>10, Range DEF TakeQuote, Symbols
    <2>2. call' \in [Threads -> CallType] /\ ended' \in BOOLEAN
      BY <1>0, <1>10, <2>1, TakenMade, EndMade DEF TakeQuote, Raises
    <2>. QED BY <1>10, <2>2 DEF TakeQuote
  <1>11. ASSUME NEW t \in Threads, Finish(t) PROVE TypeOK'
    <2>1. call' \in [Threads -> CallType]
      BY <1>0, <1>11, StageMade DEF Finish, Stages
    <2>. QED BY <1>11, <2>1 DEF Finish, Snapshots
  <1>12. ASSUME NEW t \in Threads, ClearIndex(t) PROVE TypeOK'
    <2>1. call' \in [Threads -> CallType]
      BY <1>0, <1>12, AnswersMade, Range DEF ClearIndex
    <2>. QED BY <1>12, <2>1, Range DEF ClearIndex
  <1>13. ASSUME NEW t \in Sockets, NEW s \in Subscribed, NEW quote \in Quotes, Push(t, s, quote) PROVE TypeOK'
    <2>1. call' \in [Threads -> CallType]
      BY <1>0, <1>13, TheThreads, PushedMade, Range DEF Push, Begins
    <2>2. raced' \in BOOLEAN
      BY <1>13 DEF Push, Begins
    <2>. QED BY <1>13, <2>1, <2>2 DEF Push, Begins
  <1>14. ASSUME NEW t \in Threads, Repeated(t) PROVE TypeOK'
    <2>1. call' \in [Threads -> CallType]
      BY <1>14, ReturnsMade DEF Repeated
    <2>2. done' \subseteq Symbols
      BY <1>14, ReturnsMade DEF Repeated
    <2>. QED BY <1>14, <2>1, <2>2 DEF Repeated
  <1>15. ASSUME NEW t \in Threads, Accept(t) PROVE TypeOK'
    <2>1. call' \in [Threads -> CallType]
      BY <1>0, <1>15, MoveMade DEF Accept, Stages
    <2>2. seen' \in [Symbols -> Quotes \cup {"none"}]
      BY <1>0, <1>15 DEF Accept
    <2>. QED BY <1>15, <2>1, <2>2 DEF Accept
  <1>16. ASSUME NEW t \in Threads, Cache(t) PROVE TypeOK'
    <2>1. call' \in [Threads -> CallType]
      BY <1>0, <1>16, MoveMade DEF Cache, Stages
    <2>2. snap' \in [Symbols -> Quotes]
      BY <1>0, <1>16 DEF Cache
    <2>. QED BY <1>16, <2>1, <2>2 DEF Cache
  <1>17. ASSUME NEW t \in Threads, MarkDirty(t) PROVE TypeOK'
    <2>1. call' \in [Threads -> CallType]
      BY <1>0, <1>17, MoveMade DEF MarkDirty, Stages
    <2>. QED BY <1>17, <2>1 DEF MarkDirty
  <1>18. ASSUME NEW t \in Threads, MarkM1(t) PROVE TypeOK'
    <2>1. call' \in [Threads -> CallType]
      BY <1>18, ReturnsMade DEF MarkM1
    <2>2. done' \subseteq Symbols
      BY <1>18, ReturnsMade DEF MarkM1
    <2>. QED BY <1>18, <2>1, <2>2 DEF MarkM1
  <1>19. ASSUME NEW t \in Threads, Return(t) PROVE TypeOK'
    <2>1. call' \in [Threads -> CallType]
      BY <1>0, <1>19, StageMade DEF Return, Stages
    <2>2. carry' \in 0..K
      BY <1>0, <1>19 DEF Return
    <2>. QED BY <1>19, <2>1, <2>2 DEF Return
  <1>20. ASSUME NEW t \in Threads, NotYet(t) PROVE TypeOK'
    <2>1. call' \in [Threads -> CallType]
      BY <1>0, <1>20, EndMade DEF NotYet
    <2>. QED BY <1>20, <2>1 DEF NotYet
  <1>21. ASSUME NEW t \in Threads, Judge(t) PROVE TypeOK'
    <2>1. call' \in [Threads -> CallType]
      BY <1>0, <1>21, MoveMade DEF Judge, Stages
    <2>. QED BY <1>21, <2>1 DEF Judge
  <1>22. ASSUME NEW t \in Threads, Clean(t) PROVE TypeOK'
    <2>1. call' \in [Threads -> CallType]
      BY <1>0, <1>22, MoveMade DEF Clean, Stages
    <2>. QED BY <1>22, <2>1 DEF Clean
  <1>23. ASSUME NEW t \in Threads, OnlyM1(t) PROVE TypeOK'
    <2>1. call' \in [Threads -> CallType]
      BY <1>0, <1>23, MoveMade DEF OnlyM1, Stages
    <2>. QED BY <1>23, <2>1 DEF OnlyM1
  <1>24. ASSUME NEW t \in Threads, HandOver(t) PROVE TypeOK'
    <2>1. call' \in [Threads -> CallType]
      BY <1>0, <1>24, EndMade DEF HandOver
    <2>. QED BY <1>24, <2>1 DEF HandOver
  <1>25. CASE UNCHANGED vars
    BY <1>25 DEF vars
  <1>. QED BY <1>1, <1>2, <1>3, <1>4, <1>5, <1>6, <1>7, <1>8, <1>9, <1>10, <1>11, <1>12, <1>13, <1>14, <1>15, <1>16, <1>17, <1>18, <1>19, <1>20, <1>21, <1>22, <1>23, <1>24, <1>25 DEF Next, Runs, Step

\* The initial state is typed.
LEMMA TypeInit == Init => TypeOK
  BY Range, NoCallTyped DEF Init, TypeOK, Snapshots, Quotes

\* Every reachable state is typed, for any symbols, tickers and sockets.
THEOREM TypeCorrect == Spec => []TypeOK
  BY TypeInit, TypeKept, PTL DEF Spec

-----------------------------------------------------------------------------

\* As long as nothing has raced at most one thread is at work, and an adverse
\* quote that was never judged has the flag, or is about to set it; the flag is
\* dropped when everything adverse has been judged.
Unraced ==
  ~raced =>
    /\ \A t, u \in Threads : Working(t) /\ Working(u) => t = u
    /\ \A s \in Symbols : snap[s] = "adverse" =>
         s \in judged \/ dirty \/ \E t \in Threads : call[t].pc = "flag"
    /\ \A t \in Threads : call[t].pc = "clean" =>
         \A s \in Symbols : snap[s] = "adverse" => s \in judged

\* A step that neither caches, nor judges, nor touches the flag.
LEMMA UnracedStep ==
  ASSUME Unraced, NEW t \in Threads, UNCHANGED <<snap, dirty, judged, raced>>,
         \A u \in Threads \ {t} : call'[u] = call[u],
         Working(t), call[t].pc # "flag", call'[t].pc \notin {"flag", "clean"}
  PROVE  Unraced'
  <1>1. \A u \in Threads : call'[u].pc \in {"flag", "clean"} => call'[u] = call[u]
    OBVIOUS
  <1>2. \A u \in Threads : call[u].pc = "flag" => call'[u].pc = "flag"
    OBVIOUS
  <1>3. \A u \in Threads : Working(u)' => Working(u)
    BY DEF Working
  <1>. QED BY <1>1, <1>2, <1>3 DEF Unraced

\* A thread that begins alone leaves the others idle.
LEMMA UnracedBegins ==
  ASSUME Unraced, NEW t \in Threads, UNCHANGED <<snap, dirty, judged>>, At(t, "idle"),
         raced' = (raced \/ \E u \in Threads \ {t} : Working(u)),
         \A u \in Threads \ {t} : call'[u] = call[u],
         call'[t].pc \notin {"flag", "clean"}
  PROVE  Unraced'
  <1>. SUFFICES ASSUME ~raced' PROVE Unraced'
    BY DEF Unraced
  <1>1. ~raced /\ \A u \in Threads : call[u].pc = "idle"
    BY DEF At, Working
  <1>2. \A u \in Threads : call'[u].pc \notin {"flag", "clean"} /\ (Working(u)' => u = t)
    BY <1>1 DEF Working
  <1>. QED BY <1>1, <1>2 DEF Unraced

\* No unjudged adverse quote loses its flag, from step to step.
LEMMA UnracedKept ==
  ASSUME TypeOK, Unraced, [Next]_vars
  PROVE  Unraced'
  <1>. USE DEF cached, rest, histories
  <1>0. /\ call \in [Threads -> CallType] /\ carry \in 0..K /\ index \in 0..K
        /\ snap \in [Symbols -> Quotes]
        /\ \A t \in Threads :
             /\ call[t].carry \in 0..K /\ call[t].last \in {0, K} /\ call[t].next \in 0..K
             /\ call[t].symbol \in Symbols /\ call[t].quote \in Quotes
    BY DEF TypeOK, CallType
  <1>1. ASSUME NEW t \in Tickers, BeginTick(t) PROVE Unraced'
    <2>1. /\ t \in Threads /\ \A u \in Threads \ {t} : call'[u] = call[u]
          /\ call'[t].pc = "poll"
      BY <1>0, <1>1, TheThreads, NewMade DEF BeginTick, Begins, Stages
    <2>. QED BY <1>1, <2>1, UnracedBegins DEF BeginTick, Begins
  <1>2. ASSUME NEW t \in Threads, PollPending(t) PROVE Unraced'
    <2>1. /\ \A u \in Threads \ {t} : call'[u] = call[u]
          /\ call'[t].pc = "open"
      BY <1>0, <1>2, MoveMade DEF PollPending, Stages
    <2>. QED BY <1>2, <2>1, UnracedStep DEF PollPending, At, Working
  <1>3. ASSUME NEW t \in Threads, PollTooEarly(t) PROVE Unraced'
    <2>1. /\ \A u \in Threads \ {t} : call'[u] = call[u]
          /\ call'[t].pc = "return"
      BY <1>0, <1>3, AnswersMade DEF PollTooEarly
    <2>. QED BY <1>3, <2>1, UnracedStep DEF PollTooEarly, At, Working
  <1>4. ASSUME NEW t \in Threads, Poll(t) PROVE Unraced'
    <2>1. /\ \A u \in Threads \ {t} : call'[u] = call[u]
          /\ call'[t].pc = "fetch"
      BY <1>0, <1>4, MoveMade DEF Poll, Stages
    <2>. QED BY <1>4, <2>1, UnracedStep DEF Poll, At, Working
  <1>5. ASSUME NEW t \in Threads, RateLimited(t) PROVE Unraced'
    <2>1. /\ \A u \in Threads \ {t} : call'[u] = call[u]
          /\ call'[t].pc = "return"
      BY <1>0, <1>5, AnswersMade DEF RateLimited
    <2>. QED BY <1>5, <2>1, UnracedStep DEF RateLimited, At, Working
  <1>6. ASSUME NEW t \in Threads, NEW answer \in Snapshots, Fetch(t, answer) PROVE Unraced'
    <2>1. /\ \A u \in Threads \ {t} : call'[u] = call[u]
          /\ call'[t].pc = "index"
      BY <1>0, <1>6, MoveMade DEF Fetch, Stages
    <2>. QED BY <1>6, <2>1, UnracedStep DEF Fetch, At, Working
  <1>7. ASSUME NEW t \in Threads, SetIndex(t) PROVE Unraced'
    <2>1. /\ \A u \in Threads \ {t} : call'[u] = call[u]
          /\ call'[t].pc = "open"
      BY <1>0, <1>7, MoveMade DEF SetIndex, Stages
    <2>. QED BY <1>7, <2>1, UnracedStep DEF SetIndex, At, Working
  <1>8. ASSUME NEW t \in Threads, Open(t) PROVE Unraced'
    <2>1. /\ \A u \in Threads \ {t} : call'[u] = call[u]
          /\ call'[t].pc \in {"loop", "idle"}
      BY <1>0, <1>8, LoopMade, EndMade, Range DEF Open, Raises
    <2>. QED BY <1>8, <2>1, UnracedStep DEF Open, At, Working
  <1>9. ASSUME NEW t \in Threads, Interrupt(t) PROVE Unraced'
    <2>1. /\ \A u \in Threads \ {t} : call'[u] = call[u]
          /\ call'[t].pc = "return"
      BY <1>0, <1>9, AnswersMade DEF Interrupt
    <2>. QED BY <1>9, <2>1, UnracedStep DEF Interrupt, At, Working
  <1>10. ASSUME NEW t \in Threads, TakeQuote(t) PROVE Unraced'
    <2>1. call[t].next + 1 \in Symbols
      BY <1>0, <1>10, Range DEF TakeQuote, Symbols
    <2>2. /\ \A u \in Threads \ {t} : call'[u] = call[u]
          /\ call'[t].pc \in {"quote", "idle"}
      BY <1>0, <1>10, <2>1, TakenMade, EndMade DEF TakeQuote, Raises
    <2>. QED BY <1>10, <2>2, UnracedStep DEF TakeQuote, At, Working
  <1>11. ASSUME NEW t \in Threads, Finish(t) PROVE Unraced'
    <2>1. /\ \A u \in Threads \ {t} : call'[u] = call[u]
          /\ call'[t].pc = "clear"
      BY <1>0, <1>11, StageMade DEF Finish, Stages
    <2>. QED BY <1>11, <2>1, UnracedStep DEF Finish, At, Working
  <1>12. ASSUME NEW t \in Threads, ClearIndex(t) PROVE Unraced'
    <2>1. /\ \A u \in Threads \ {t} : call'[u] = call[u]
          /\ call'[t].pc = "return"
      BY <1>0, <1>12, AnswersMade, Range DEF ClearIndex
    <2>. QED BY <1>12, <2>1, UnracedStep DEF ClearIndex, At, Working
  <1>13. ASSUME NEW t \in Sockets, NEW x \in Subscribed, NEW quote \in Quotes,
               Push(t, x, quote)
        PROVE  Unraced'
    <2>1. /\ t \in Threads /\ \A u \in Threads \ {t} : call'[u] = call[u]
          /\ call'[t].pc = "quote"
      BY <1>0, <1>13, TheThreads, PushedMade, Range DEF Push, Begins
    <2>. QED BY <1>13, <2>1, UnracedBegins DEF Push, Begins
  <1>14. ASSUME NEW t \in Threads, Repeated(t) PROVE Unraced'
    <2>1. /\ \A u \in Threads \ {t} : call'[u] = call[u]
          /\ call'[t].pc \in {"loop", "idle"}
      BY <1>0, <1>14, ReturnsMade DEF Repeated
    <2>. QED BY <1>14, <2>1, UnracedStep DEF Repeated, At, Working
  <1>15. ASSUME NEW t \in Threads, Accept(t) PROVE Unraced'
    <2>1. /\ \A u \in Threads \ {t} : call'[u] = call[u]
          /\ call'[t].pc = "cache"
      BY <1>0, <1>15, MoveMade DEF Accept, Stages
    <2>. QED BY <1>15, <2>1, UnracedStep DEF Accept, At, Working
  <1>16. ASSUME NEW t \in Threads, Cache(t) PROVE Unraced'
    <2>1. /\ \A u \in Threads \ {t} : call'[u] = call[u]
          /\ call'[t].pc = "flag" /\ call[t].pc = "cache" /\ raced' = raced
      BY <1>0, <1>16, MoveMade DEF Cache, At, Stages
    <2>2. \A u \in Threads : Working(u)' => Working(u)
      BY <2>1 DEF Working
    <2>3. ~raced => \A u \in Threads : call'[u].pc # "clean"
      BY <2>1 DEF Unraced, Working
    <2>. QED BY <2>1, <2>2, <2>3 DEF Unraced
  <1>17. ASSUME NEW t \in Threads, MarkDirty(t) PROVE Unraced'
    <2>1. /\ \A u \in Threads \ {t} : call'[u] = call[u]
          /\ call'[t].pc = "m1" /\ call[t].pc = "flag"
      BY <1>0, <1>17, MoveMade DEF MarkDirty, At, Stages
    <2>2. \A u \in Threads : Working(u)' => Working(u)
      BY <2>1 DEF Working
    <2>. QED BY <1>17, <2>1, <2>2 DEF MarkDirty, Unraced
  <1>18. ASSUME NEW t \in Threads, MarkM1(t) PROVE Unraced'
    <2>1. /\ \A u \in Threads \ {t} : call'[u] = call[u]
          /\ call'[t].pc \in {"loop", "idle"}
      BY <1>0, <1>18, ReturnsMade DEF MarkM1
    <2>. QED BY <1>18, <2>1, UnracedStep DEF MarkM1, At, Working
  <1>19. ASSUME NEW t \in Threads, Return(t) PROVE Unraced'
    <2>1. /\ \A u \in Threads \ {t} : call'[u] = call[u]
          /\ call'[t].pc = "work"
      BY <1>0, <1>19, StageMade DEF Return, Stages
    <2>. QED BY <1>19, <2>1, UnracedStep DEF Return, At, Working
  <1>20. ASSUME NEW t \in Threads, NotYet(t) PROVE Unraced'
    <2>1. /\ \A u \in Threads \ {t} : call'[u] = call[u]
          /\ call'[t].pc = "idle"
      BY <1>0, <1>20, EndMade DEF NotYet
    <2>. QED BY <1>20, <2>1, UnracedStep DEF NotYet, At, Working
  <1>21. ASSUME NEW t \in Threads, Judge(t) PROVE Unraced'
    <2>1. /\ \A u \in Threads \ {t} : call'[u] = call[u]
          /\ call'[t].pc = "clean" /\ call[t].pc = "work"
      BY <1>0, <1>21, MoveMade DEF Judge, At, Stages
    <2>2. \A u \in Threads : Working(u)' => Working(u)
      BY <2>1 DEF Working
    <2>3. \A s \in Symbols : snap'[s] = "adverse" => s \in judged'
      BY <1>21 DEF Judge
    <2>. QED BY <1>21, <2>2, <2>3 DEF Judge, Unraced
  <1>22. ASSUME NEW t \in Threads, Clean(t) PROVE Unraced'
    <2>1. /\ \A u \in Threads \ {t} : call'[u] = call[u]
          /\ call'[t].pc = "handover" /\ call[t].pc = "clean"
      BY <1>0, <1>22, MoveMade DEF Clean, At, Stages
    <2>2. \A u \in Threads : Working(u)' => Working(u)
      BY <2>1 DEF Working
    <2>3. ~raced => \A s \in Symbols : snap[s] = "adverse" => s \in judged
      BY <2>1 DEF Unraced
    <2>. QED BY <1>22, <2>2, <2>3 DEF Clean, Unraced
  <1>23. ASSUME NEW t \in Threads, OnlyM1(t) PROVE Unraced'
    <2>1. /\ \A u \in Threads \ {t} : call'[u] = call[u]
          /\ call'[t].pc = "handover"
      BY <1>0, <1>23, MoveMade DEF OnlyM1, Stages
    <2>. QED BY <1>23, <2>1, UnracedStep DEF OnlyM1, At, Working
  <1>24. ASSUME NEW t \in Threads, HandOver(t) PROVE Unraced'
    <2>1. /\ \A u \in Threads \ {t} : call'[u] = call[u]
          /\ call'[t].pc = "idle"
      BY <1>0, <1>24, EndMade DEF HandOver
    <2>. QED BY <1>24, <2>1, UnracedStep DEF HandOver, At, Working
  <1>25. CASE UNCHANGED vars
    BY <1>25 DEF vars, Unraced, Working
  <1>. QED BY <1>1, <1>2, <1>3, <1>4, <1>5, <1>6, <1>7, <1>8, <1>9, <1>10, <1>11, <1>12, <1>13, <1>14, <1>15,
              <1>16, <1>17, <1>18, <1>19, <1>20, <1>21, <1>22, <1>23, <1>24, <1>25 DEF Next, Runs, Step

\* Nothing is adverse and nobody is at work at the start.
LEMMA UnracedInit == Init => Unraced
  BY DEF Init, Unraced, Working, NoCall

\* As long as no two threads are at work at once, no adverse quote is cached,
\* unjudged and without its flag when the threads are idle, for any number of
\* symbols, tickers and sockets.
THEOREM NoQuoteForgotten == Spec => []NothingForgotten
  <1>1. Init => TypeOK /\ Unraced
    BY TypeInit, UnracedInit
  <1>2. TypeOK /\ Unraced /\ [Next]_vars => (TypeOK /\ Unraced)'
    BY TypeKept, UnracedKept
  <1>3. Unraced => NothingForgotten
    BY DEF Unraced, NothingForgotten, Working
  <1>. QED BY <1>1, <1>2, <1>3, PTL DEF Spec

-----------------------------------------------------------------------------
\* EntryGate: what the gate knows of the marks that two threads set and clear.

\* What a thread of the gate has in hand.
GateStages == {"idle", "loop", "memory", "row", "latch", "evaluate", "pending",
               "derive", "release", "after", "cycle", "gate", "enter"}

GateBacks == {"evaluate", "idle", "gate"}

\* A thread has come to a stage, with what it holds.
Has(r, pc, back, copy, todo, cur, verdict) ==
  /\ r \in G!ThreadType
  /\ r.pc = pc /\ r.back = back /\ r.copy = copy /\ r.todo = todo
  /\ r.cur = cur /\ r.verdict = verdict

\* What a hand is made of.
LEMMA Fields ==
  ASSUME NEW r \in G!ThreadType
  PROVE  /\ r.pc \in GateStages /\ r.back \in GateBacks /\ r.copy \in [Trades -> G!Positions]
         /\ r.todo \subseteq Trades /\ r.cur \in Trades /\ r.verdict \in G!Verdicts
  BY DEF G!ThreadType, GateStages, GateBacks

\* An empty hand, and one that begins a loop.
LEMMA IdleHas ==
  ASSUME NEW pc \in GateStages, NEW copy \in [Trades -> G!Positions], NEW todo \in SUBSET Trades
  PROVE  /\ G!Idle \in G!ThreadType /\ G!Idle.cur \in Trades /\ G!Idle.back = "idle" /\ G!Idle.pc = "idle"
         /\ G!Idle.todo = {}
         /\ Has([G!Idle EXCEPT !.pc = pc], pc, "idle", G!Idle.copy, {}, G!Idle.cur, "OK")
         /\ Has([G!Idle EXCEPT !.pc = pc, !.todo = todo, !.copy = copy], pc, "idle", copy, todo, G!Idle.cur, "OK")
         /\ Has([G!Idle EXCEPT !.pc = pc, !.copy = copy, !.todo = todo], pc, "idle", copy, todo, G!Idle.cur, "OK")
<1>1. (CHOOSE t \in Trades : TRUE) \in Trades
  BY BesideAssumption
<1>2. PICK c \in Trades : c = CHOOSE t \in Trades : TRUE
  BY <1>1
<1>3. PICK none : none = [t \in Trades |-> G!NoPosition]
  OBVIOUS
<1>4. none \in [Trades -> G!Positions]
  BY <1>3 DEF G!NoPosition, G!Positions, G!States, G!Marks
<1>5. G!Idle = [pc |-> "idle", copy |-> none, todo |-> {}, cur |-> c, verdict |-> "OK", back |-> "idle"]
  BY <1>2, <1>3 DEF G!Idle
<1> QED
  BY <1>4, <1>5 DEF Has, G!ThreadType, GateStages, G!Verdicts

\* A hand comes to another stage.
LEMMA ComesTo ==
  ASSUME NEW r \in G!ThreadType, NEW pc \in GateStages, NEW back \in GateBacks
  PROVE  /\ Has([r EXCEPT !.pc = pc], pc, r.back, r.copy, r.todo, r.cur, r.verdict)
         /\ Has([r EXCEPT !.pc = pc, !.back = back], pc, back, r.copy, r.todo, r.cur, r.verdict)
  BY DEF Has, G!ThreadType, GateStages, GateBacks

\* A hand has one trade less to look at.
LEMMA Drops ==
  ASSUME NEW r \in G!ThreadType, NEW todo \in SUBSET Trades
  PROVE  Has([r EXCEPT !.todo = todo], r.pc, r.back, r.copy, todo, r.cur, r.verdict)
  BY DEF Has, G!ThreadType

\* It puts a copy back.
LEMMA Copies ==
  ASSUME NEW r \in G!ThreadType, NEW pc \in GateStages, NEW copy \in [Trades -> G!Positions]
  PROVE  Has([r EXCEPT !.pc = pc, !.copy = copy], pc, r.back, copy, r.todo, r.cur, r.verdict)
  BY DEF Has, G!ThreadType, GateStages

\* It turns to a trade.
LEMMA Looks ==
  ASSUME NEW r \in G!ThreadType, NEW pc \in GateStages, NEW copy \in [Trades -> G!Positions],
         NEW todo \in SUBSET Trades, NEW cur \in Trades, NEW verdict \in G!Verdicts
  PROVE  Has([r EXCEPT !.pc = pc, !.copy = copy, !.todo = todo, !.cur = cur, !.verdict = verdict],
             pc, r.back, copy, todo, cur, verdict)
  BY DEF Has, G!ThreadType, GateStages

\* What a position is made of.
LEMMA PosFields ==
  ASSUME NEW x \in G!Positions, NEW s \in G!States, NEW m \in G!Marks
  PROVE  /\ x.state \in G!States /\ x.mark \in G!Marks
         /\ [x EXCEPT !.state = s] \in G!Positions /\ [x EXCEPT !.state = s].state = s /\ [x EXCEPT !.state = s].mark = x.mark
         /\ [x EXCEPT !.mark = m] \in G!Positions /\ [x EXCEPT !.mark = m].state = x.state /\ [x EXCEPT !.mark = m].mark = m
         /\ G!NoPosition \in G!Positions /\ G!NoPosition.state = "NONE" /\ G!NoPosition.mark = "none"
  BY DEF G!Positions, G!NoPosition, G!States, G!Marks

\* A position in another state.
LEMMA WithState ==
  ASSUME NEW x \in G!Positions, NEW s \in G!States
  PROVE  \E y \in G!Positions : y = [x EXCEPT !.state = s] /\ y.mark = x.mark /\ y.state = s
<1>1. PICK y : y = [x EXCEPT !.state = s]
  OBVIOUS
<1>2. y \in G!Positions /\ y.mark = x.mark /\ y.state = s
  BY <1>1 DEF G!Positions
<1> QED
  BY <1>1, <1>2

\* One thread has moved, and the other has not.
Moved(p, r) ==
  /\ gThread' \in [G!Threads -> G!ThreadType]
  /\ gThread'[p] = r
  /\ \A u \in G!Threads : u # p => gThread'[u] = gThread[u]

\* An update of one hand moves one thread.
LEMMA Moves ==
  ASSUME gThread \in [G!Threads -> G!ThreadType], NEW p \in G!Threads, NEW r \in G!ThreadType,
         gThread' = [gThread EXCEPT ![p] = r]
  PROVE  Moved(p, r)
  BY DEF Moved

\* A trade whose last look was bad shows it, unless copies crossed.
Told(t) == G!Live(gPos[t]) /\ ~gCrossed[t] /\ ~gJudged[t] => gPos[t].mark # "none"

\* A thread is at the position of its hand.
OnTrade(r) ==
  \/ r.pc \in {"memory", "row", "latch", "evaluate", "pending"}
  \/ r.pc \in {"derive", "release"} /\ r.back = "evaluate"

\* What its loop has still to look at, or looks at.
InHand(r, t) ==
  \/ (r.pc = "loop" \/ OnTrade(r)) /\ t \in r.todo
  \/ OnTrade(r) /\ t = r.cur

\* It is in the loop, or on its way from there to the entry.
Looking(r) ==
  \/ r.pc = "loop" \/ OnTrade(r) \/ r.pc \in {"cycle", "gate"}
  \/ r.pc \in {"derive", "release"} /\ r.back = "gate"

\* What one thread holds.
CopiesOpen(r) == \A t \in Trades :
  InHand(r, t) /\ (t \in r.todo \/ r.pc = "memory") => r.copy[t].state = "OPEN"

HandsKnown(r) == \A t \in Trades :
  InHand(r, t) => gPos[t].state # "NONE" /\ gRow[t].state # "NONE"

Holds(p, r) ==
  /\ CopiesOpen(r) /\ HandsKnown(r)
  /\ p = "protection" => r.pc \notin {"cycle", "gate", "enter"} /\ r.back # "gate"
  /\ r.pc = "latch" => r.verdict # "OK"
  /\ r.pc \in {"row", "latch"} /\ r.verdict # "OK" => gCrossed[r.cur] \/ gPos[r.cur].mark # "none"
  /\ r.pc = "pending" => Told(r.cur)
  /\ OnTrade(r) => r.cur \notin r.todo

ThreadsHold == \A p \in G!Threads : Holds(p, gThread[p])

\* Two threads that mark one trade have crossed.
MarkersCross == \A p, q \in G!Threads :
  p # q /\ G!Marking(p) /\ G!Marking(q) /\ G!Cur(p) = G!Cur(q) => gCrossed[G!Cur(p)]

\* The row of a trade is its position, but where a thread is about to write it, or an
\* exit is filled in part and its row not written.
RowOf(t) ==
  \/ gRow[t] = gPos[t]
  \/ gRow[t].mark = gPos[t].mark /\ gRow[t].state = "EXIT_PENDING" /\ gPos[t].state = "CLOSING"
  \/ ~G!Live(gRow[t]) /\ gPos[t].state = "NONE"
  \/ \E p \in G!Threads : gThread[p].pc = "row" /\ gThread[p].cur = t

\* An exit is in flight.
Leaving == {"EXIT_PENDING", "CLOSING"}

TradeHolds(t) ==
  /\ gRow[t].state = "NONE" => gPos[t] = G!NoPosition /\ gRow[t] = G!NoPosition /\ gJudged[t]
  /\ RowOf(t)
  /\ gPos[t].state \in Leaving => Told(t)
  /\ gRow[t].state \in Leaving /\ ~gCrossed[t] /\ ~gJudged[t] => gRow[t].mark # "none"

TradesHold == \A t \in Trades : TradeHolds(t)

\* The session has looked at every trade that is not in its hand.
LookedAt(r) == Looking(r) => \A t \in Trades : InHand(r, t) \/ Told(t)

GateInv ==
  /\ G!TypeOK /\ ThreadsHold /\ MarkersCross /\ TradesHold
  /\ LookedAt(gThread["session"])

\* The hands are typed.
LEMMA ThreadsTyped ==
  ASSUME G!TypeOK, NEW p \in G!Threads
  PROVE  gThread \in [G!Threads -> G!ThreadType] /\ gThread[p] \in G!ThreadType
  BY DEF G!TypeOK

\* And so is what is kept of a trade.
LEMMA Typed ==
  ASSUME G!TypeOK, NEW p \in G!Threads, NEW t \in Trades
  PROVE  /\ gThread \in [G!Threads -> G!ThreadType] /\ gThread[p] \in G!ThreadType
         /\ gPos \in [Trades -> G!Positions] /\ gRow \in [Trades -> G!Positions]
         /\ gPos[t] \in G!Positions /\ gRow[t] \in G!Positions
         /\ gJudged \in [Trades -> BOOLEAN] /\ gCrossed \in [Trades -> BOOLEAN]
         /\ "session" \in G!Threads
  BY DEF G!TypeOK, G!Threads

\* Rows, positions and histories stay: what is new is in the hand of one thread.
LEMMA HandMoves ==
  ASSUME GateInv, NEW p \in G!Threads, NEW r \in G!ThreadType, Moved(p, r), G!TypeOK',
         UNCHANGED <<gPos, gRow, gJudged, gCrossed>>,
         gThread[p].pc \notin {"row", "latch"}, r.pc \notin {"row", "latch"},
         Holds(p, r), p = "session" => LookedAt(r)
  PROVE  GateInv'
<1> USE DEF GateInv
<1>1. ASSUME NEW t \in Trades PROVE Told(t)' <=> Told(t)
  BY DEF Told, G!Live
<1>2. ASSUME NEW u \in G!Threads, NEW v \in G!ThreadType PROVE Holds(u, v) => Holds(u, v)'
  <2>1. v.cur \in Trades
    BY Fields
  <2> QED
    BY <1>1, <2>1 DEF Holds, CopiesOpen, HandsKnown
<1>3. ThreadsHold'
  <2>1. ASSUME NEW u \in G!Threads PROVE Holds(u, gThread[u])'
    <3>1. PICK v : v = gThread'[u]
      OBVIOUS
    <3>2. v \in G!ThreadType /\ Holds(u, v)
      <4>1. CASE u = p
        BY <3>1, <4>1 DEF Moved
      <4>2. CASE u # p
        BY <3>1, <4>2, Typed DEF Moved, ThreadsHold, G!TypeOK
      <4> QED
        BY <4>1, <4>2
    <3>3. Holds(u, v)'
      BY <1>2, <3>2
    <3> QED
      BY <3>1, <3>3
  <2> QED
    BY <2>1 DEF ThreadsHold
<1>4. MarkersCross'
  BY DEF MarkersCross, Moved, G!Marking, G!Cur
<1>5. TradesHold'
  <2>1. ASSUME NEW t \in Trades PROVE RowOf(t)'
    BY DEF RowOf, Moved, G!Live, TradesHold, TradeHolds
  <2> QED
    BY <1>1, <2>1 DEF TradesHold, TradeHolds
<1>6. LookedAt(gThread["session"])'
  <2>1. PICK v : v = gThread'["session"]
    OBVIOUS
  <2>2. LookedAt(v)
    BY <2>1, Typed DEF Moved, G!Threads
  <2>3. LookedAt(v)'
    BY <2>2, <1>1 DEF LookedAt
  <2> QED
    BY <2>1, <2>3
<1> QED
  BY <1>3, <1>4, <1>5, <1>6

\* One thread's step leaves the types when only its own hand changes.
LEMMA HandTyped ==
  ASSUME G!TypeOK, NEW p \in G!Threads, NEW r \in G!ThreadType, Moved(p, r),
         UNCHANGED <<gPos, gRow, gJudged, gCrossed, gProt, gQuote, gScheduler, gCrashes>>,
         gControls' \in [frozen : BOOLEAN, degraded : BOOLEAN], gLatch' \in BOOLEAN
  PROVE  G!TypeOK'
  BY DEF G!TypeOK, Moved

\* The steps of a thread, one by one.
LEMMA BeginsExits ==
  ASSUME GateInv, NEW p \in G!Threads, G!BeginExits(p)
  PROVE  GateInv'
<1> USE DEF GateInv
<1>1. PICK todo \in SUBSET Trades : todo = {t \in Trades : gPos[t].state = "OPEN"}
  OBVIOUS
<1>a. PICK copy : copy = [t \in Trades |-> IF gPos[t].state = "OPEN" THEN gPos[t] ELSE G!NoPosition]
  OBVIOUS
<1>b. copy \in [Trades -> G!Positions] /\ \A t \in todo : copy[t].state = "OPEN"
  BY <1>1, <1>a DEF G!TypeOK, G!NoPosition, G!Positions, G!States, G!Marks
<1>2. PICK r : r = [G!Idle EXCEPT !.pc = "loop", !.todo = todo, !.copy = copy]
  OBVIOUS
<1>3. Has(r, "loop", "idle", copy, todo, G!Idle.cur, "OK") /\ r \in G!ThreadType
  <2>1. "loop" \in GateStages
    BY DEF GateStages
  <2>2. Has(r, "loop", "idle", copy, todo, G!Idle.cur, "OK")
    BY <1>b, <1>2, <2>1, IdleHas
  <2> QED
    BY <2>2 DEF Has
<1>4. Moved(p, r) /\ gThread[p].pc = "idle" /\ UNCHANGED <<gPos, gRow, gJudged, gCrossed, gProt, gQuote, gScheduler, gCrashes, gControls, gLatch>>
  BY <1>1, <1>a, <1>2, <1>3, Moves DEF G!BeginExits, G!TypeOK, G!At, G!memory, G!store, G!history, G!run
<1>5. \A t \in Trades : InHand(r, t) <=> gPos[t].state = "OPEN"
  BY <1>1, <1>3 DEF Has, InHand, OnTrade
<1>6. Holds(p, r)
  BY <1>b, <1>3, <1>5 DEF Has, OnTrade, Holds, CopiesOpen, HandsKnown, InHand, TradesHold, TradeHolds
<1>7. LookedAt(r)
  BY <1>5 DEF LookedAt, TradesHold, TradeHolds, Leaving, Told, G!Live, G!TypeOK, G!Positions, G!States
<1> QED
  BY <1>3, <1>4, <1>6, <1>7, HandTyped, HandMoves DEF Has, G!TypeOK

LEMMA Skips ==
  ASSUME GateInv, NEW p \in G!Threads, NEW t \in Trades, G!Skip(p, t)
  PROVE  GateInv'
<1> USE DEF GateInv
<1>0. PICK c : c = gThread[p]
  OBVIOUS
<1>1. c \in G!ThreadType /\ Holds(p, c) /\ c.pc = "loop" /\ gPos[t].state = "CLOSED" /\ (p = "session" => LookedAt(c))
  BY <1>0, Typed DEF G!Skip, G!At, ThreadsHold
<1>2. PICK r : r = [c EXCEPT !.todo = c.todo \ {t}]
  OBVIOUS
<1>3. Has(r, "loop", c.back, c.copy, c.todo \ {t}, c.cur, c.verdict) /\ r \in G!ThreadType
  BY <1>1, <1>2, Drops, Fields DEF Has
<1>4. Moved(p, r) /\ UNCHANGED <<gPos, gRow, gJudged, gCrossed, gProt, gQuote, gScheduler, gCrashes, gControls, gLatch>>
  BY <1>0, <1>2, <1>3, Moves DEF G!Skip, G!TypeOK, G!At, G!memory, G!store, G!history, G!run
<1>5. \A u \in Trades : InHand(r, u) <=> InHand(c, u) /\ u # t
  BY <1>1, <1>3 DEF Has, InHand, OnTrade
<1>6. Holds(p, r)
  BY <1>1, <1>3, <1>5 DEF Has, OnTrade, Holds, CopiesOpen, HandsKnown
<1>7. p = "session" => LookedAt(r)
  BY <1>1, <1>3, <1>5 DEF LookedAt, Looking, OnTrade, Has, Told, G!Live
<1> QED
  BY <1>0, <1>1, <1>3, <1>4, <1>6, <1>7, HandTyped, HandMoves DEF Has, G!TypeOK

LEMMA Diagnoses ==
  ASSUME GateInv, NEW p \in G!Threads, NEW t \in Trades, G!Diagnose(p, t)
  PROVE  GateInv'
<1> USE DEF GateInv
<1>0. PICK c : c = gThread[p]
  OBVIOUS
<1>1. c \in G!ThreadType /\ Holds(p, c) /\ c.pc = "loop" /\ t \in c.todo /\ (p = "session" => LookedAt(c))
  BY <1>0, Typed DEF G!Diagnose, G!At, ThreadsHold
<1>2. PICK pc \in {"memory", "evaluate"} : pc = IF G!Puts(p, t) THEN "memory" ELSE "evaluate"
  OBVIOUS
<1>3. PICK copy : copy = [c.copy EXCEPT ![t] = IF G!Puts(p, t) THEN c.copy[t] ELSE G!NoPosition]
  OBVIOUS
<1>4. copy \in [Trades -> G!Positions] /\ (pc = "memory" => copy = c.copy) /\ \A u \in Trades \ {t} : copy[u] = c.copy[u]
  BY <1>1, <1>2, <1>3, Fields DEF G!NoPosition, G!Positions, G!States, G!Marks
<1>5. gQuote[t] \in G!Verdicts
  BY DEF G!TypeOK
<1>6. PICK r : r = [c EXCEPT !.pc = pc, !.copy = copy, !.todo = c.todo \ {t}, !.cur = t, !.verdict = gQuote[t]]
  OBVIOUS
<1>7. Has(r, pc, c.back, copy, c.todo \ {t}, t, gQuote[t]) /\ r \in G!ThreadType
  <2>1. pc \in GateStages /\ c.todo \ {t} \in SUBSET Trades
    BY <1>1, <1>2, Fields DEF GateStages
  <2>2. Has(r, pc, c.back, copy, c.todo \ {t}, t, gQuote[t])
    BY <1>1, <1>4, <1>5, <1>6, <2>1, Looks
  <2> QED
    BY <2>2 DEF Has
<1>8. gThread' = [gThread EXCEPT ![p] = r]
  <2>1. gThread' = [gThread EXCEPT ![p] = [gThread[p] EXCEPT
           !.pc = IF G!Puts(p, t) THEN "memory" ELSE "evaluate",
           !.copy[t] = IF G!Puts(p, t) THEN gThread[p].copy[t] ELSE G!NoPosition,
           !.todo = gThread[p].todo \ {t}, !.cur = t, !.verdict = gQuote[t]]]
    BY DEF G!Diagnose
  <2>2. [c EXCEPT
           !.pc = IF G!Puts(p, t) THEN "memory" ELSE "evaluate",
           !.copy[t] = IF G!Puts(p, t) THEN c.copy[t] ELSE G!NoPosition,
           !.todo = c.todo \ {t}, !.cur = t, !.verdict = gQuote[t]] = r
    BY <1>1, <1>2, <1>3, <1>6 DEF G!ThreadType
  <2> QED
    BY <1>0, <2>1, <2>2
<1>9. Moved(p, r) /\ UNCHANGED <<gPos, gRow, gJudged, gCrossed, gProt, gQuote, gScheduler, gCrashes, gControls, gLatch>>
  BY <1>7, <1>8, Moves DEF G!Diagnose, G!TypeOK, G!memory, G!store, G!history, G!run
<1>10. \A u \in Trades : InHand(r, u) <=> InHand(c, u)
  BY <1>1, <1>2, <1>7 DEF Has, InHand, OnTrade
<1>11. Holds(p, r)
  BY <1>1, <1>2, <1>4, <1>7, <1>10 DEF Has, OnTrade, Holds, CopiesOpen, HandsKnown, InHand, OnTrade
<1>12. p = "session" => LookedAt(r)
  BY <1>1, <1>10 DEF LookedAt, Looking
<1> QED
  BY <1>0, <1>1, <1>2, <1>7, <1>9, <1>11, <1>12, HandTyped, HandMoves DEF Has, G!TypeOK

\* Whatever a thread has come to, when it turns to its next position.
Turned(p, r) ==
  /\ r \in G!ThreadType /\ Moved(p, r)
  /\ r.pc = "loop" /\ r.back = "idle" /\ r.todo = gThread[p].todo
  /\ \A u \in r.todo : r.copy[u] = gThread[p].copy[u]

\* Turning to the next position leaves the rest of the loop in hand.
LEMMA Turning ==
  ASSUME G!TypeOK, NEW p \in G!Threads, G!Turns(p)
  PROVE  \E r \in G!ThreadType : Turned(p, r)
<1>0. PICK c \in G!ThreadType : c = gThread[p]
  BY ThreadsTyped
<1>1. PICK copy : copy = [t \in Trades |-> IF t \in c.todo THEN c.copy[t] ELSE G!NoPosition]
  OBVIOUS
<1>2. copy \in [Trades -> G!Positions] /\ \A u \in c.todo : copy[u] = c.copy[u]
  BY <1>1, Fields DEF G!NoPosition, G!Positions, G!States, G!Marks
<1>3. PICK r : r = [G!Idle EXCEPT !.pc = "loop", !.todo = c.todo, !.copy = copy]
  OBVIOUS
<1>4. Has(r, "loop", "idle", copy, c.todo, G!Idle.cur, "OK") /\ r \in G!ThreadType
  <2>1. "loop" \in GateStages /\ c.todo \in SUBSET Trades
    BY Fields DEF GateStages
  <2>2. Has(r, "loop", "idle", copy, c.todo, G!Idle.cur, "OK")
    BY <1>2, <1>3, <2>1, IdleHas
  <2> QED
    BY <2>2 DEF Has
<1>5. gThread' = [gThread EXCEPT ![p] = r]
  BY <1>0, <1>1, <1>3 DEF G!Turns
<1>6. Moved(p, r)
  BY <1>4, <1>5, Moves, ThreadsTyped DEF G!TypeOK
<1> QED
  BY <1>0, <1>2, <1>4, <1>6 DEF Has, Turned

\* What it then holds, once the trade of its hand is known.
LEMMA TurnHolds ==
  ASSUME G!TypeOK, NEW p \in G!Threads, Holds(p, gThread[p]), OnTrade(gThread[p]),
         p = "session" => LookedAt(gThread[p]), NEW r \in G!ThreadType, Turned(p, r)
  PROVE  /\ Holds(p, r) /\ \A t \in Trades : InHand(r, t) => InHand(gThread[p], t)
         /\ r.pc \notin {"row", "latch"}
         /\ p = "session" /\ Told(gThread[p].cur) => LookedAt(r)
<1>0. PICK c \in G!ThreadType : c = gThread[p]
  BY ThreadsTyped
<1>1. /\ \A t \in Trades : InHand(r, t) <=> t \in c.todo
      /\ \A t \in Trades : InHand(c, t) <=> t \in c.todo \/ t = c.cur
      /\ \A u \in r.todo : r.copy[u] = c.copy[u]
      /\ r.pc = "loop" /\ r.back = "idle" /\ r.todo = c.todo /\ Looking(c)
  BY <1>0 DEF Turned, InHand, OnTrade, Looking
<1>2. Holds(p, r)
  BY <1>0, <1>1 DEF OnTrade, Turned, Holds, CopiesOpen, HandsKnown
<1> QED
  BY <1>0, <1>1, <1>2 DEF LookedAt

LEMMA Leaves ==
  ASSUME GateInv, NEW p \in G!Threads, G!LeaveUnmonitored(p)
  PROVE  GateInv'
<1>0. Holds(p, gThread[p]) /\ OnTrade(gThread[p]) /\ gThread[p].pc = "pending" /\ G!TypeOK
      /\ (p = "session" => LookedAt(gThread[p])) /\ Told(gThread[p].cur)
  BY DEF GateInv, G!LeaveUnmonitored, G!At, ThreadsHold, OnTrade, Holds
<1>1. PICK r \in G!ThreadType : Turned(p, r)
  BY <1>0, Turning DEF G!LeaveUnmonitored
<1>2. Holds(p, r) /\ r.pc \notin {"row", "latch"} /\ (p = "session" => LookedAt(r)) /\ Moved(p, r)
  BY <1>0, <1>1, TurnHolds DEF Turned
<1>3. UNCHANGED <<gPos, gRow, gJudged, gCrossed, gProt, gQuote, gScheduler, gCrashes, gControls, gLatch>>
  BY DEF G!LeaveUnmonitored, G!memory, G!store, G!history, G!run
<1>4. G!TypeOK'
  BY <1>0, <1>2, <1>3, HandTyped DEF G!TypeOK
<1> QED
  BY <1>0, <1>2, <1>3, <1>4, HandMoves

\* A thread comes to another stage of the same work.
LEMMA Coming ==
  ASSUME G!TypeOK, NEW p \in G!Threads, NEW pc \in GateStages, NEW back \in GateBacks,
         \/ gThread' = [gThread EXCEPT ![p].pc = pc] /\ back = gThread[p].back
         \/ gThread' = [gThread EXCEPT ![p].pc = pc, ![p].back = back]
  PROVE  \E r \in G!ThreadType :
           /\ Has(r, pc, back, gThread[p].copy, gThread[p].todo, gThread[p].cur, gThread[p].verdict)
           /\ Moved(p, r)
<1>0. PICK c \in G!ThreadType : c = gThread[p]
  BY ThreadsTyped
<1>1. CASE gThread' = [gThread EXCEPT ![p].pc = pc] /\ back = gThread[p].back
  <2>1. PICK r : r = [c EXCEPT !.pc = pc]
    OBVIOUS
  <2>2. Has(r, pc, back, c.copy, c.todo, c.cur, c.verdict) /\ r \in G!ThreadType
    <3>1. Has(r, pc, c.back, c.copy, c.todo, c.cur, c.verdict)
      BY <2>1, ComesTo
    <3> QED
      BY <1>0, <1>1, <3>1 DEF Has
  <2>3. Moved(p, r)
    BY <1>0, <1>1, <2>1, <2>2, Moves, ThreadsTyped
  <2> QED
    BY <1>0, <2>2, <2>3
<1>2. CASE gThread' = [gThread EXCEPT ![p].pc = pc, ![p].back = back]
  <2>1. PICK r : r = [c EXCEPT !.pc = pc, !.back = back]
    OBVIOUS
  <2>2. Has(r, pc, back, c.copy, c.todo, c.cur, c.verdict) /\ r \in G!ThreadType
    <3>1. Has(r, pc, back, c.copy, c.todo, c.cur, c.verdict)
      BY <2>1, ComesTo
    <3> QED
      BY <3>1 DEF Has
  <2>3. gThread' = [gThread EXCEPT ![p] = r]
    BY <1>0, <1>2, <2>1, ThreadsTyped DEF G!ThreadType
  <2>4. Moved(p, r)
    BY <2>2, <2>3, Moves, ThreadsTyped
  <2> QED
    BY <1>0, <2>2, <2>4
<1> QED
  BY <1>1, <1>2

\* The same, of the hand c: to another stage, or to another stage and another return.
LEMMA Comes ==
  ASSUME G!TypeOK, NEW p \in G!Threads, NEW c, c = gThread[p], c.back \in GateBacks, NEW pc \in GateStages,
         gThread' = [gThread EXCEPT ![p].pc = pc]
  PROVE  \E r \in G!ThreadType : Has(r, pc, c.back, c.copy, c.todo, c.cur, c.verdict) /\ Moved(p, r)
<1>1. PICK back \in GateBacks : back = gThread[p].back
  OBVIOUS
<1>2. \E r \in G!ThreadType :
        /\ Has(r, pc, back, gThread[p].copy, gThread[p].todo, gThread[p].cur, gThread[p].verdict)
        /\ Moved(p, r)
  BY <1>1, Coming
<1> QED
  BY <1>1, <1>2

LEMMA ComesBack ==
  ASSUME G!TypeOK, NEW p \in G!Threads, NEW c, c = gThread[p], NEW pc \in GateStages, NEW back \in GateBacks,
         gThread' = [gThread EXCEPT ![p].pc = pc, ![p].back = back]
  PROVE  \E r \in G!ThreadType : Has(r, pc, back, c.copy, c.todo, c.cur, c.verdict) /\ Moved(p, r)
<1>1. \E r \in G!ThreadType :
        /\ Has(r, pc, back, gThread[p].copy, gThread[p].todo, gThread[p].cur, gThread[p].verdict)
        /\ Moved(p, r)
  BY Coming
<1> QED
  BY <1>1

\* An empty hand is idle.
LEMMA IdleSame == G!Idle = [G!Idle EXCEPT !.pc = "idle"]
<1>1. PICK c : c = CHOOSE t \in Trades : TRUE
  OBVIOUS
<1>2. PICK none : none = [t \in Trades |-> G!NoPosition]
  OBVIOUS
<1> QED
  BY <1>1, <1>2 DEF G!Idle

\* It ends its cycle, or its loop.
LEMMA Idling ==
  ASSUME G!TypeOK, NEW p \in G!Threads, NEW pc \in GateStages,
         gThread' = [gThread EXCEPT ![p] = [G!Idle EXCEPT !.pc = pc]]
  PROVE  \E r \in G!ThreadType : r.pc = pc /\ r.back = "idle" /\ r.todo = {} /\ Moved(p, r)
<1>1. PICK r : r = [G!Idle EXCEPT !.pc = pc]
  OBVIOUS
<1>2. PICK copy \in [Trades -> G!Positions] : copy = [t \in Trades |-> G!NoPosition]
  BY DEF G!NoPosition, G!Positions, G!States, G!Marks
<1>3. Has(r, pc, "idle", G!Idle.copy, {}, G!Idle.cur, "OK")
  BY <1>1, <1>2, IdleHas
<1> QED
  BY <1>1, <1>3, Moves, ThreadsTyped DEF Has

\* It stays with its cycle, or begins or ends one.
LEMMA Cycling ==
  ASSUME GateInv, NEW p \in G!Threads, NEW r \in G!ThreadType, Moved(p, r),
         UNCHANGED <<gPos, gRow, gJudged, gCrossed, gProt, gQuote, gScheduler, gCrashes>>,
         gControls' \in [frozen : BOOLEAN, degraded : BOOLEAN], gLatch' \in BOOLEAN,
         gThread[p].pc \notin {"row", "latch"}, r.pc \notin {"row", "latch", "pending", "memory"},
         \A t \in Trades : InHand(r, t) <=> InHand(gThread[p], t),
         \A t \in Trades : InHand(r, t) => r.todo = gThread[p].todo /\ r.copy = gThread[p].copy,
         p = "session" /\ Looking(r) => Looking(gThread[p]),
         OnTrade(r) => OnTrade(gThread[p]) /\ r.cur = gThread[p].cur /\ r.todo = gThread[p].todo,
         p = "protection" => r.pc \notin {"cycle", "gate", "enter"} /\ r.back # "gate"
  PROVE  GateInv'
<1>0. Holds(p, gThread[p]) /\ G!TypeOK /\ (p = "session" => LookedAt(gThread[p]))
  BY DEF GateInv, ThreadsHold
<1>1. Holds(p, r)
  BY <1>0 DEF Holds, CopiesOpen, HandsKnown
<1>2. p = "session" => LookedAt(r)
  BY <1>0 DEF LookedAt
<1>3. G!TypeOK'
  BY <1>0, HandTyped
<1> QED
  BY <1>1, <1>2, <1>3, HandMoves

\* The steps that come to another stage, by name.

LEMMA EndsExits ==
  ASSUME GateInv, NEW p \in G!Threads, NEW n \in {"cycle", "after"}, G!EndExits(p, n)
  PROVE  GateInv'
<1>0. PICK c \in G!ThreadType : c = gThread[p]
  BY ThreadsTyped DEF GateInv
<1>1. Holds(p, c) /\ c.pc = "loop" /\ G!TypeOK /\ c.back \in GateBacks
      /\ UNCHANGED <<gPos, gRow, gJudged, gCrossed, gProt, gQuote, gScheduler, gCrashes>>
      /\ gControls' \in [frozen : BOOLEAN, degraded : BOOLEAN] /\ gLatch' \in BOOLEAN
  BY <1>0, Fields DEF GateInv, ThreadsHold, G!EndExits, G!At, G!memory, G!store, G!history, G!run, G!TypeOK
<1>2. CASE TRUE
  <2>1. PICK r \in G!ThreadType : r.pc = n /\ r.back = "idle" /\ r.todo = {} /\ Moved(p, r)
    <3>1. n \in GateStages /\ gThread' = [gThread EXCEPT ![p] = [G!Idle EXCEPT !.pc = n]]
      BY DEF G!EndExits, GateStages
    <3> QED
      BY <1>1, <3>1, Idling
  <2> QED
    BY <1>0, <1>1, <1>2, <2>1, Cycling DEF InHand, OnTrade, Looking, G!EndExits, G!At
<1> QED
  BY <1>2 DEF G!EndExits, G!Goes, G!Releases, G!Returns, G!At

LEMMA AfterUpdates ==
  ASSUME GateInv, NEW p \in G!Threads, G!AfterQuoteUpdate(p)
  PROVE  GateInv'
<1>0. PICK c \in G!ThreadType : c = gThread[p]
  BY ThreadsTyped DEF GateInv
<1>1. Holds(p, c) /\ c.pc = "after" /\ G!TypeOK /\ c.back \in GateBacks
      /\ UNCHANGED <<gPos, gRow, gJudged, gCrossed, gProt, gQuote, gScheduler, gCrashes>>
      /\ gControls' \in [frozen : BOOLEAN, degraded : BOOLEAN] /\ gLatch' \in BOOLEAN
  BY <1>0, Fields DEF GateInv, ThreadsHold, G!AfterQuoteUpdate, G!At, G!memory, G!store, G!history, G!run, G!TypeOK
<1>2. CASE G!ProtectionDegraded
  <2>1. PICK r \in G!ThreadType : Has(r, "idle", c.back, c.copy, c.todo, c.cur, c.verdict) /\ Moved(p, r)
    BY <1>0, <1>1, <1>2, Coming DEF G!AfterQuoteUpdate, G!Goes, G!Releases, G!Returns, GateStages, GateBacks
  <2> QED
    BY <1>0, <1>1, <1>2, <2>1, Cycling DEF Has, InHand, OnTrade, Looking, Holds, GateBacks, G!AfterQuoteUpdate, G!At
<1>3. CASE ~G!ProtectionDegraded
  <2>1. PICK r \in G!ThreadType : Has(r, "derive", "idle", c.copy, c.todo, c.cur, c.verdict) /\ Moved(p, r)
    BY <1>0, <1>1, <1>3, Coming DEF G!AfterQuoteUpdate, G!Goes, G!Releases, G!Returns, GateStages, GateBacks
  <2> QED
    BY <1>0, <1>1, <1>3, <2>1, Cycling DEF Has, InHand, OnTrade, Looking, Holds, GateBacks, G!AfterQuoteUpdate, G!At
<1> QED
  BY <1>2, <1>3 DEF G!AfterQuoteUpdate, G!Goes, G!Releases, G!Returns, G!At

LEMMA BeginsCycle ==
  ASSUME GateInv, NEW p \in G!Threads, NEW b \in BOOLEAN, G!BeginCycle(p, b)
  PROVE  GateInv'
<1>0. PICK c \in G!ThreadType : c = gThread[p]
  BY ThreadsTyped DEF GateInv
<1>1. Holds(p, c) /\ c.pc = "cycle" /\ G!TypeOK /\ c.back \in GateBacks
      /\ UNCHANGED <<gPos, gRow, gJudged, gCrossed, gProt, gQuote, gScheduler, gCrashes>>
      /\ gControls' \in [frozen : BOOLEAN, degraded : BOOLEAN] /\ gLatch' \in BOOLEAN
  BY <1>0, Fields DEF GateInv, ThreadsHold, G!BeginCycle, G!At, G!memory, G!store, G!history, G!run, G!TypeOK
<1>2. CASE b
  <2>1. PICK r \in G!ThreadType : Has(r, "idle", c.back, c.copy, c.todo, c.cur, c.verdict) /\ Moved(p, r)
    BY <1>0, <1>1, <1>2, Coming DEF G!BeginCycle, G!Goes, G!Releases, G!Returns, GateStages, GateBacks
  <2> QED
    BY <1>0, <1>1, <1>2, <2>1, Cycling DEF Has, InHand, OnTrade, Looking, Holds, GateBacks, G!BeginCycle, G!At
<1>3. CASE ~b
  <2>1. PICK r \in G!ThreadType : Has(r, "derive", "gate", c.copy, c.todo, c.cur, c.verdict) /\ Moved(p, r)
    BY <1>0, <1>1, <1>3, Coming DEF G!BeginCycle, G!Goes, G!Releases, G!Returns, GateStages, GateBacks
  <2> QED
    BY <1>0, <1>1, <1>3, <2>1, Cycling DEF Has, InHand, OnTrade, Looking, Holds, GateBacks, G!BeginCycle, G!At
<1> QED
  BY <1>2, <1>3 DEF G!BeginCycle, G!Goes, G!Releases, G!Returns, G!At

LEMMA Gates ==
  ASSUME GateInv, NEW p \in G!Threads, G!Gate(p)
  PROVE  GateInv'
<1>0. PICK c \in G!ThreadType : c = gThread[p]
  BY ThreadsTyped DEF GateInv
<1>1. Holds(p, c) /\ c.pc = "gate" /\ G!TypeOK /\ c.back \in GateBacks
      /\ UNCHANGED <<gPos, gRow, gJudged, gCrossed, gProt, gQuote, gScheduler, gCrashes>>
      /\ gControls' \in [frozen : BOOLEAN, degraded : BOOLEAN] /\ gLatch' \in BOOLEAN
  BY <1>0, Fields DEF GateInv, ThreadsHold, G!Gate, G!At, G!memory, G!store, G!history, G!run, G!TypeOK
<1>2. CASE ~G!Blocked
  <2>1. PICK r \in G!ThreadType : Has(r, "enter", c.back, c.copy, c.todo, c.cur, c.verdict) /\ Moved(p, r)
    BY <1>0, <1>1, <1>2, Coming DEF G!Gate, G!Goes, G!Releases, G!Returns, GateStages, GateBacks
  <2> QED
    BY <1>0, <1>1, <1>2, <2>1, Cycling DEF Has, InHand, OnTrade, Looking, Holds, GateBacks, G!Gate, G!At
<1>3. CASE G!Blocked
  <2>1. PICK r \in G!ThreadType : r.pc = "idle" /\ r.back = "idle" /\ r.todo = {} /\ Moved(p, r)
    BY <1>0, <1>1, <1>3, Idling, IdleSame DEF G!Gate, GateStages
  <2> QED
    BY <1>0, <1>1, <1>3, <2>1, Cycling DEF InHand, OnTrade, Looking, G!Gate, G!At
<1> QED
  BY <1>2, <1>3 DEF G!Gate, G!Goes, G!Releases, G!Returns, G!At

LEMMA NotEntered ==
  ASSUME GateInv, NEW p \in G!Threads, G!NoEntry(p)
  PROVE  GateInv'
<1>0. PICK c \in G!ThreadType : c = gThread[p]
  BY ThreadsTyped DEF GateInv
<1>1. Holds(p, c) /\ c.pc = "enter" /\ G!TypeOK /\ c.back \in GateBacks
      /\ UNCHANGED <<gPos, gRow, gJudged, gCrossed, gProt, gQuote, gScheduler, gCrashes>>
      /\ gControls' \in [frozen : BOOLEAN, degraded : BOOLEAN] /\ gLatch' \in BOOLEAN
  BY <1>0, Fields DEF GateInv, ThreadsHold, G!NoEntry, G!At, G!memory, G!store, G!history, G!run, G!TypeOK
<1>2. CASE TRUE
  <2>1. PICK r \in G!ThreadType : r.pc = "idle" /\ r.back = "idle" /\ r.todo = {} /\ Moved(p, r)
    BY <1>0, <1>1, <1>2, Idling, IdleSame DEF G!NoEntry, GateStages
  <2> QED
    BY <1>0, <1>1, <1>2, <2>1, Cycling DEF InHand, OnTrade, Looking, G!NoEntry, G!At
<1> QED
  BY <1>2 DEF G!NoEntry, G!Goes, G!Releases, G!Returns, G!At

LEMMA Derives ==
  ASSUME GateInv, NEW p \in G!Threads, G!Derive(p)
  PROVE  GateInv'
<1>0. PICK c \in G!ThreadType : c = gThread[p]
  BY ThreadsTyped DEF GateInv
<1>1. Holds(p, c) /\ c.pc = "derive" /\ G!TypeOK /\ c.back \in GateBacks
      /\ UNCHANGED <<gPos, gRow, gJudged, gCrossed, gProt, gQuote, gScheduler, gCrashes>>
      /\ gControls' \in [frozen : BOOLEAN, degraded : BOOLEAN] /\ gLatch' \in BOOLEAN
  BY <1>0, Fields DEF GateInv, ThreadsHold, G!Derive, G!At, G!memory, G!store, G!history, G!run, G!TypeOK, G!EnsureBlocked, G!BlocksEntry, G!Returns, G!Goes
<1>2. CASE G!Derived
  <2>1. PICK r \in G!ThreadType : Has(r, c.back, "idle", c.copy, c.todo, c.cur, c.verdict) /\ Moved(p, r)
    <3>1. gThread' = [gThread EXCEPT ![p].pc = c.back, ![p].back = "idle"]
      BY <1>0, <1>2 DEF G!Derive, G!Returns
    <3>2. c.back \in GateStages /\ "idle" \in GateBacks
      BY <1>1 DEF GateStages, GateBacks
    <3> QED
      BY <1>0, <1>1, <3>1, <3>2, ComesBack
  <2> QED
    BY <1>0, <1>1, <1>2, <2>1, Cycling DEF Has, InHand, OnTrade, Looking, Holds, GateBacks, G!Derive, G!At
<1>3. CASE ~G!Derived
  <2>1. PICK r \in G!ThreadType : Has(r, "release", c.back, c.copy, c.todo, c.cur, c.verdict) /\ Moved(p, r)
    <3>1. gThread' = [gThread EXCEPT ![p].pc = "release"] /\ "release" \in GateStages
      BY <1>3 DEF G!Derive, G!Goes, GateStages
    <3> QED
      BY <1>0, <1>1, <3>1, Comes
  <2> QED
    BY <1>0, <1>1, <1>3, <2>1, Cycling DEF Has, InHand, OnTrade, Looking, Holds, GateBacks, G!Derive, G!At
<1> QED
  BY <1>2, <1>3 DEF G!Derive, G!Goes, G!Releases, G!Returns, G!At

LEMMA ReleasesFreeze ==
  ASSUME GateInv, NEW p \in G!Threads, G!Release(p)
  PROVE  GateInv'
<1>0. PICK c \in G!ThreadType : c = gThread[p]
  BY ThreadsTyped DEF GateInv
<1>1. Holds(p, c) /\ c.pc = "release" /\ G!TypeOK /\ c.back \in GateBacks
      /\ UNCHANGED <<gPos, gRow, gJudged, gCrossed, gProt, gQuote, gScheduler, gCrashes>>
      /\ gControls' \in [frozen : BOOLEAN, degraded : BOOLEAN] /\ gLatch' \in BOOLEAN
  BY <1>0, Fields DEF GateInv, ThreadsHold, G!Release, G!At, G!memory, G!store, G!history, G!run, G!TypeOK, G!Lifted
<1>2. CASE TRUE
  <2>1. PICK r \in G!ThreadType : Has(r, c.back, "idle", c.copy, c.todo, c.cur, c.verdict) /\ Moved(p, r)
    <3>1. gThread' = [gThread EXCEPT ![p].pc = c.back, ![p].back = "idle"]
      BY <1>0 DEF G!Release, G!Returns
    <3>2. c.back \in GateStages /\ "idle" \in GateBacks
      BY <1>1 DEF GateStages, GateBacks
    <3> QED
      BY <1>0, <1>1, <3>1, <3>2, ComesBack
  <2> QED
    BY <1>0, <1>1, <1>2, <2>1, Cycling DEF Has, InHand, OnTrade, Looking, Holds, GateBacks, G!Release, G!At
<1> QED
  BY <1>2 DEF G!Release, G!Goes, G!Releases, G!Returns, G!At

\* A step of which a thread's hand, and what it says of the trades, follow.
LEMMA HandStays ==
  ASSUME NEW p \in G!Threads, NEW r \in G!ThreadType, Holds(p, r),
         gPos \in [Trades -> G!Positions], gRow \in [Trades -> G!Positions],
         \A t \in Trades : Told(t) => Told(t)',
         \A t \in Trades : gPos[t].state # "NONE" => gPos'[t].state # "NONE",
         \A t \in Trades : InHand(r, t) /\ gRow[t].state # "NONE" => gRow'[t].state # "NONE",
         \A t \in Trades : t = r.cur /\ r.pc \in {"row", "latch"} /\ (gCrossed[t] \/ gPos[t].mark # "none")
                              => gCrossed'[t] \/ gPos'[t].mark # "none"
  PROVE  Holds(p, r)'
<1>1. r.cur \in Trades
  BY Fields
<1>2. CopiesOpen(r)' /\ HandsKnown(r)'
  BY DEF Holds, CopiesOpen, HandsKnown
<1> QED
  BY <1>1, <1>2 DEF Holds

LEMMA LookStays ==
  ASSUME NEW r \in G!ThreadType, LookedAt(r), \A t \in Trades : Told(t) => Told(t)'
  PROVE  LookedAt(r)'
  BY DEF LookedAt

\* The thread that moves has a new hand, the other keeps its own.
LEMMA HandsFollow ==
  ASSUME GateInv, NEW p \in G!Threads, NEW r \in G!ThreadType, Moved(p, r),
         Holds(p, r)', p = "session" => LookedAt(r)',
         \A t \in Trades : Told(t) => Told(t)',
         \A t \in Trades : gPos[t].state # "NONE" => gPos'[t].state # "NONE",
         \A t \in Trades, u \in G!Threads \ {p} :
            InHand(gThread[u], t) /\ gRow[t].state # "NONE" => gRow'[t].state # "NONE",
         \A t \in Trades, u \in G!Threads \ {p} :
            t = gThread[u].cur /\ gThread[u].pc \in {"row", "latch"} /\ (gCrossed[t] \/ gPos[t].mark # "none")
               => gCrossed'[t] \/ gPos'[t].mark # "none"
  PROVE  ThreadsHold' /\ LookedAt(gThread["session"])'
<1>1. ASSUME NEW u \in G!Threads
      PROVE  Holds(u, gThread[u])' /\ (u = "session" => LookedAt(gThread[u])')
  <2>1. PICK v : v = gThread'[u]
    OBVIOUS
  <2>2. CASE u = p
    <3>1. Holds(u, v)' /\ (u = "session" => LookedAt(v)')
      BY <2>1, <2>2 DEF Moved
    <3> QED
      BY <2>1, <3>1
  <2>3. CASE u # p
    <3>1. v = gThread[u] /\ v \in G!ThreadType /\ Holds(u, v) /\ (u = "session" => LookedAt(v))
      BY <2>1, <2>3, ThreadsTyped DEF Moved, GateInv, ThreadsHold
    <3>2. Holds(u, v)'
      BY <2>3, <3>1, HandStays DEF GateInv, G!TypeOK
    <3>3. u = "session" => LookedAt(v)'
      BY <3>1, LookStays
    <3> QED
      BY <2>1, <3>2, <3>3
  <2> QED
    BY <2>2, <2>3
<1> QED
  BY <1>1 DEF ThreadsHold, G!Threads

\* Putting a marked copy back: what another thread wrote since then is crossed.
LEMMA MarksPosition ==
  ASSUME GateInv, NEW p \in G!Threads, G!MarkPosition(p)
  PROVE  GateInv'
<1>0. PICK c \in G!ThreadType : c = gThread[p]
  BY ThreadsTyped DEF GateInv
<1> DEFINE x == c.cur
<1>1. /\ Holds(p, c) /\ c.pc = "memory" /\ G!TypeOK /\ x \in Trades /\ InHand(c, x)
      /\ gPos \in [Trades -> G!Positions] /\ gRow \in [Trades -> G!Positions] /\ c.verdict \in G!Verdicts
      /\ gJudged \in [Trades -> BOOLEAN] /\ gCrossed \in [Trades -> BOOLEAN]
      /\ c.copy[x] \in G!Positions /\ c.copy[x].state = "OPEN"
      /\ gPos[x].state # "NONE" /\ gRow[x].state # "NONE"
  BY <1>0, Fields DEF GateInv, ThreadsHold, G!MarkPosition, G!At, G!TypeOK, Holds, CopiesOpen, HandsKnown, InHand, OnTrade
<1>2. PICK m : m = G!MarkOf(c.verdict)
  OBVIOUS
<1>3. m \in G!Marks /\ (m = "none" <=> c.verdict = "OK")
  BY <1>1, <1>2 DEF G!MarkOf, G!Verdicts, G!Marks
<1>4. PICK y : y = [c.copy[x] EXCEPT !.mark = m]
  OBVIOUS
<1>5. y \in G!Positions /\ y.state = "OPEN" /\ y.mark = m
  BY <1>1, <1>3, <1>4 DEF G!Positions
<1>6. /\ gPos' \in [Trades -> G!Positions] /\ gPos'[x] = y /\ \A t \in Trades \ {x} : gPos'[t] = gPos[t]
      /\ UNCHANGED <<gRow, gControls, gProt, gLatch, gQuote, gScheduler, gCrashes>>
  BY <1>0, <1>1, <1>2, <1>4, <1>5 DEF G!MarkPosition, G!Cur, G!store, G!run
<1>7. /\ gJudged' \in [Trades -> BOOLEAN] /\ gJudged'[x] = (gJudged[x] \/ c.verdict = "OK")
      /\ \A t \in Trades \ {x} : gJudged'[t] = gJudged[t]
  BY <1>0, <1>1 DEF G!MarkPosition, G!Cur
<1>8. /\ gCrossed' \in [Trades -> BOOLEAN]
      /\ ~gCrossed'[x] => c.copy[x] = gPos[x] /\ \A q \in G!Threads \ {p} : gThread[q].pc \in {"row", "latch"} => gThread[q].cur # x
      /\ \A t \in Trades \ {x} : gCrossed'[t] = gCrossed[t]
  BY <1>0, <1>1 DEF G!MarkPosition, G!Cur, G!Marking
<1>9. PICK copy : copy = [c.copy EXCEPT ![x] = G!NoPosition]
  OBVIOUS
<1>10. copy \in [Trades -> G!Positions] /\ \A t \in Trades \ {x} : copy[t] = c.copy[t]
  BY <1>1, <1>9, Fields DEF G!NoPosition, G!Positions, G!States, G!Marks
<1>11. PICK r : r = [c EXCEPT !.pc = "row", !.copy = copy]
  OBVIOUS
<1>12. Has(r, "row", c.back, copy, c.todo, x, c.verdict) /\ r \in G!ThreadType
  <2>1. Has(r, "row", c.back, copy, c.todo, x, c.verdict)
    BY <1>10, <1>11, Copies DEF GateStages
  <2> QED
    BY <2>1 DEF Has
<1>13. Moved(p, r)
  <2>1. gThread' = [gThread EXCEPT ![p] = r]
    BY <1>0, <1>1, <1>9, <1>11, ThreadsTyped DEF G!MarkPosition, G!Cur, G!ThreadType
  <2> QED
    BY <1>1, <1>12, <2>1, Moves DEF G!TypeOK
<1> HIDE DEF x
<1>14. G!TypeOK'
  BY <1>1, <1>6, <1>7, <1>8, <1>13 DEF G!TypeOK, Moved
<1>15. ASSUME NEW t \in Trades PROVE Told(t) => Told(t)'
  BY <1>3, <1>5, <1>6, <1>7, <1>8 DEF Told, G!Live
<1>16. \A t \in Trades : InHand(r, t) <=> InHand(c, t)
  BY <1>1, <1>12 DEF InHand, OnTrade, Has, x
<1>17. Holds(p, r)'
  <2>0. /\ r.pc = "row" /\ r.cur = x /\ r.todo = c.todo /\ r.copy = copy /\ r.back = c.back /\ r.verdict = c.verdict
        /\ OnTrade(c) /\ x \notin c.todo
    BY <1>1, <1>12 DEF OnTrade, Holds, Has, x
  <2>1. CopiesOpen(r)'
    BY <2>0, <1>1, <1>10, <1>16 DEF Holds, CopiesOpen
  <2>2. HandsKnown(r)'
    BY <1>1, <1>5, <1>6, <1>16 DEF Holds, HandsKnown
  <2> QED
    BY <2>0, <2>1, <2>2, <1>1, <1>3, <1>5, <1>6 DEF OnTrade, Holds
<1>18. p = "session" => LookedAt(r)'
  <2>1. p = "session" => LookedAt(r)
    BY <1>0, <1>1, <1>16 DEF GateInv, LookedAt, Looking, OnTrade
  <2> QED
    BY <2>1, <1>12, <1>15, LookStays
<1>19. ThreadsHold' /\ LookedAt(gThread["session"])'
  BY <1>3, <1>5, <1>6, <1>8, <1>12, <1>13, <1>15, <1>17, <1>18, HandsFollow
<1>20. MarkersCross'
  <2>1. \A q \in G!Threads : gThread[q].cur \in Trades
    BY <1>1, ThreadsTyped, Fields
  <2>2. gThread'[p].cur = x /\ \A q \in G!Threads \ {p} : gThread'[q] = gThread[q]
    BY <1>12, <1>13 DEF Has, Moved
  <2>3. \A q \in G!Threads \ {p} : gThread[q].cur = x /\ gThread[q].pc \in {"row", "latch"} => gCrossed'[x]
    BY <1>8
  <2>4. \A a, b \in G!Threads \ {p} : a # b /\ gThread[a].pc \in {"row", "latch"} /\ gThread[b].pc \in {"row", "latch"}
           /\ gThread[a].cur = gThread[b].cur => gCrossed'[gThread[a].cur]
    BY <1>8, <2>1, <2>3 DEF GateInv, MarkersCross, G!Marking, G!Cur
  <2> QED
    BY <2>2, <2>3, <2>4 DEF MarkersCross, G!Marking, G!Cur
<1>21. TradesHold'
  <2>1. ASSUME NEW t \in Trades, t # x PROVE TradeHolds(t)'
    <3>1. RowOf(t)'
      BY <2>1, <1>0, <1>1, <1>6, <1>12, <1>13 DEF RowOf, GateInv, TradesHold, TradeHolds, Has, Moved, G!Live
    <3> QED
      BY <2>1, <3>1, <1>6, <1>7, <1>8, <1>15 DEF TradeHolds, GateInv, TradesHold
  <2>2. RowOf(x)'
    BY <1>12, <1>13 DEF RowOf, Has, Moved
  <2>3. gRow[x].state \in Leaving => gCrossed'[x]
    BY <1>0, <1>1, <1>8 DEF GateInv, TradesHold, TradeHolds, RowOf, G!Live, Leaving
  <2>4. TradeHolds(x)'
    BY <2>2, <2>3, <1>1, <1>5, <1>6 DEF TradeHolds, Leaving
  <2> QED
    BY <2>1, <2>4 DEF TradesHold
<1> QED
  BY <1>14, <1>19, <1>20, <1>21 DEF GateInv

\* Writing the row of what the manager then has.
LEMMA WritesMark ==
  ASSUME GateInv, NEW p \in G!Threads, G!WriteMark(p)
  PROVE  GateInv'
<1>0. PICK c \in G!ThreadType : c = gThread[p]
  BY ThreadsTyped DEF GateInv
<1> DEFINE x == c.cur
<1>1. /\ Holds(p, c) /\ c.pc = "row" /\ G!TypeOK /\ x \in Trades /\ InHand(c, x)
      /\ gPos \in [Trades -> G!Positions] /\ gRow \in [Trades -> G!Positions] /\ c.verdict \in G!Verdicts
      /\ gPos[x].state # "NONE" /\ gRow[x].state # "NONE" /\ gPos[x] \in G!Positions
  BY <1>0, Fields DEF GateInv, ThreadsHold, G!WriteMark, G!At, G!TypeOK, Holds, HandsKnown, InHand, OnTrade
<1>2. /\ gRow' \in [Trades -> G!Positions] /\ gRow'[x] = gPos[x] /\ \A t \in Trades \ {x} : gRow'[t] = gRow[t]
      /\ UNCHANGED <<gPos, gLatch, gQuote, gJudged, gCrossed, gScheduler, gCrashes>>
  BY <1>0, <1>1 DEF G!WriteMark, G!Cur, G!history, G!run
<1>3. PICK r \in G!ThreadType :
        /\ Has(r, IF c.verdict = "OK" THEN "derive" ELSE "latch", IF c.verdict = "OK" THEN "evaluate" ELSE c.back,
               c.copy, c.todo, x, c.verdict)
        /\ Moved(p, r)
  <2>1. CASE c.verdict = "OK"
    <3>1. gThread' = [gThread EXCEPT ![p].pc = "derive", ![p].back = "evaluate"] /\ "derive" \in GateStages /\ "evaluate" \in GateBacks
      BY <1>0, <2>1 DEF G!WriteMark, G!Releases, GateStages, GateBacks
    <3>2. \E r \in G!ThreadType : Has(r, "derive", "evaluate", c.copy, c.todo, x, c.verdict) /\ Moved(p, r)
      BY <1>0, <1>1, <3>1, ComesBack
    <3> QED
      BY <2>1, <3>2
  <2>2. CASE c.verdict # "OK"
    <3>1. c.back \in GateBacks
      BY Fields
    <3> QED
      <4>1. gThread' = [gThread EXCEPT ![p].pc = "latch"] /\ "latch" \in GateStages
        BY <1>0, <2>2 DEF G!WriteMark, G!Goes, GateStages
      <4>2. \E r \in G!ThreadType : Has(r, "latch", c.back, c.copy, c.todo, x, c.verdict) /\ Moved(p, r)
        BY <1>0, <1>1, <3>1, <4>1, Comes
      <4> QED
        BY <2>2, <4>2
  <2> QED
    BY <2>1, <2>2
<1>4. G!TypeOK'
  <2>1. gProt' \in [Trades -> {"NONE", "ACTIVE", "DEGRADED"}] /\ gControls' \in [frozen : BOOLEAN, degraded : BOOLEAN]
    BY <1>0, <1>1 DEF G!WriteMark, G!Cur, G!ControlAfter, G!TypeOK
  <2> QED
    BY <1>1, <1>2, <1>3, <2>1 DEF G!TypeOK, Moved
<1> HIDE DEF x
<1>5. ASSUME NEW t \in Trades PROVE Told(t) => Told(t)'
  BY <1>2 DEF Told, G!Live
<1>6. \A t \in Trades : InHand(r, t) <=> InHand(c, t)
  BY <1>1, <1>3 DEF InHand, OnTrade, Has, x
<1>7. Holds(p, r)'
  BY <1>1, <1>2, <1>3, <1>6 DEF OnTrade, Holds, CopiesOpen, HandsKnown, Has, x
<1>8. p = "session" => LookedAt(r)'
  <2>1. p = "session" => LookedAt(r)
    BY <1>0, <1>1, <1>6 DEF GateInv, LookedAt, Looking, OnTrade
  <2> QED
    BY <2>1, <1>5, LookStays
<1>9. ThreadsHold' /\ LookedAt(gThread["session"])'
  BY <1>1, <1>2, <1>3, <1>5, <1>7, <1>8, HandsFollow
<1>10. MarkersCross'
  BY <1>0, <1>1, <1>2, <1>3 DEF Has, Moved, MarkersCross, G!Marking, G!Cur, GateInv, x
<1>11. TradesHold'
  <2>1. ASSUME NEW t \in Trades PROVE RowOf(t)'
    BY <2>1, <1>0, <1>1, <1>2, <1>3 DEF RowOf, GateInv, TradesHold, TradeHolds, Has, Moved, G!Live, x
  <2>2. ASSUME NEW t \in Trades PROVE TradeHolds(t)'
    BY <2>1, <2>2, <1>1, <1>2, <1>5 DEF TradeHolds, GateInv, TradesHold, Told, G!Live, Leaving
  <2> QED
    BY <2>2 DEF TradesHold
<1> QED
  BY <1>4, <1>9, <1>10, <1>11 DEF GateInv

\* A bad verdict is on record when the position shows it.
LEMMA Latches ==
  ASSUME GateInv, NEW p \in G!Threads, G!Latch(p)
  PROVE  GateInv'
<1>0. PICK c \in G!ThreadType : c = gThread[p]
  BY ThreadsTyped DEF GateInv
<1> DEFINE x == c.cur
<1>1. /\ Holds(p, c) /\ c.pc = "latch" /\ G!TypeOK /\ x \in Trades /\ InHand(c, x) /\ OnTrade(c) /\ c.back \in GateBacks
      /\ gPos \in [Trades -> G!Positions] /\ gRow \in [Trades -> G!Positions] /\ c.verdict # "OK"
      /\ gJudged \in [Trades -> BOOLEAN] /\ gPos[x].state # "NONE" /\ gRow[x].state # "NONE"
      /\ (gCrossed[x] \/ gPos[x].mark # "none") /\ (p = "session" => LookedAt(c))
  BY <1>0, Fields DEF GateInv, ThreadsHold, G!Latch, G!At, G!TypeOK, Holds, HandsKnown, InHand, OnTrade
<1>2. /\ gJudged' \in [Trades -> BOOLEAN] /\ gJudged'[x] = FALSE /\ \A t \in Trades \ {x} : gJudged'[t] = gJudged[t]
      /\ UNCHANGED <<gPos, gRow, gProt, gQuote, gCrossed, gScheduler, gCrashes>>
  BY <1>0, <1>1 DEF G!Latch, G!Cur, G!run
<1>3. G!TypeOK' /\ UNCHANGED gRow
  <2>1. gControls' \in [frozen : BOOLEAN, degraded : BOOLEAN] /\ gLatch' \in BOOLEAN
    BY <1>1 DEF G!Latch, G!EnsureBlocked, G!BlocksEntry, G!TypeOK
  <2>2. \E r \in G!ThreadType : Moved(p, r)
    <3>1. CASE c.verdict = "STALE"
      BY <1>0, <1>1, <3>1, Turning DEF G!Latch, Turned
    <3>2. CASE c.verdict # "STALE"
      BY <1>0, <1>1, <3>2, Coming DEF G!Latch, G!Goes, GateStages
    <3> QED
      BY <3>1, <3>2
  <2> QED
    BY <1>1, <1>2, <2>1, <2>2 DEF G!TypeOK, Moved
<1> HIDE DEF x
<1>4. Told(x)' /\ \A t \in Trades : Told(t) => Told(t)'
  BY <1>1, <1>2 DEF Told, G!Live
<1>5. \E r \in G!ThreadType : Moved(p, r) /\ Holds(p, r)' /\ (p = "session" => LookedAt(r)') /\ r.pc \notin {"row", "latch"}
  <2>1. CASE c.verdict = "STALE"
    <3>1. PICK r \in G!ThreadType : Turned(p, r)
      BY <1>0, <1>1, <2>1, Turning DEF G!Latch
    <3>2. Holds(p, r) /\ r.pc \notin {"row", "latch"} /\ r.pc = "loop" /\ \A t \in Trades : InHand(r, t) <=> t \in c.todo
      BY <1>0, <1>1, <3>1, TurnHolds DEF Turned, InHand, OnTrade
    <3>3. Holds(p, r)'
      BY <1>1, <1>2, <1>4, <3>1, <3>2, HandStays
    <3>4. p = "session" => LookedAt(r)'
      BY <1>1, <1>4, <3>2 DEF LookedAt, Looking, InHand, OnTrade, x
    <3> QED
      BY <3>1, <3>2, <3>3, <3>4 DEF Turned
  <2>2. CASE c.verdict # "STALE"
    <3>1. PICK r \in G!ThreadType : Has(r, "pending", c.back, c.copy, c.todo, x, c.verdict) /\ Moved(p, r)
      BY <1>0, <1>1, <2>2, Coming DEF G!Latch, G!Goes, GateStages, x
    <3>2. \A t \in Trades : InHand(r, t) <=> InHand(c, t)
      BY <1>1, <3>1 DEF InHand, OnTrade, Has, x
    <3>3. Holds(p, r)'
      <4>0. /\ r.pc = "pending" /\ r.cur = x /\ r.todo = c.todo /\ r.copy = c.copy /\ r.back = c.back
            /\ OnTrade(c) /\ x \notin c.todo
        BY <1>1, <3>1 DEF Holds, Has, x
      <4>1. CopiesOpen(r)' /\ HandsKnown(r)'
        BY <4>0, <1>1, <1>2, <3>2 DEF Holds, CopiesOpen, HandsKnown, InHand
      <4> QED
        BY <4>0, <4>1, <1>1, <1>4 DEF Holds
    <3>4. p = "session" => LookedAt(r)'
      BY <1>1, <1>4, <3>2 DEF LookedAt, Looking, OnTrade
    <3> QED
      BY <3>1, <3>3, <3>4 DEF Has
  <2> QED
    BY <2>1, <2>2
<1>6. PICK r \in G!ThreadType : Moved(p, r) /\ Holds(p, r)' /\ (p = "session" => LookedAt(r)') /\ r.pc \notin {"row", "latch"}
  BY <1>5
<1>7. ThreadsHold' /\ LookedAt(gThread["session"])'
  BY <1>2, <1>4, <1>6, HandsFollow
<1>8. MarkersCross'
  BY <1>0, <1>1, <1>2, <1>6 DEF Moved, MarkersCross, G!Marking, G!Cur, GateInv
<1>9. TradesHold'
  <2>1. ASSUME NEW t \in Trades PROVE RowOf(t)'
    BY <2>1, <1>0, <1>1, <1>2, <1>6 DEF RowOf, GateInv, TradesHold, TradeHolds, Moved, G!Live
  <2>2. ASSUME NEW t \in Trades, t # x PROVE TradeHolds(t)'
    BY <2>1, <2>2, <1>2, <1>4 DEF TradeHolds, GateInv, TradesHold
  <2>3. ~gCrossed[x] => gRow[x].mark = gPos[x].mark
    BY <1>0, <1>1 DEF GateInv, TradesHold, TradeHolds, RowOf, MarkersCross, G!Marking, G!Cur, x
  <2>4. TradeHolds(x)'
    BY <1>1, <1>2, <1>4, <2>1, <2>3 DEF TradeHolds
  <2> QED
    BY <2>2, <2>4 DEF TradesHold
<1> QED
  BY <1>3, <1>7, <1>8, <1>9 DEF GateInv

\* A look that ends well.
LEMMA HoldsOn ==
  ASSUME GateInv, NEW p \in G!Threads, G!Hold(p)
  PROVE  GateInv'
<1>0. PICK c \in G!ThreadType : c = gThread[p]
  BY ThreadsTyped DEF GateInv
<1> DEFINE x == c.cur
<1>1. /\ Holds(p, c) /\ c.pc = "evaluate" /\ G!TypeOK /\ x \in Trades /\ OnTrade(c)
      /\ gPos \in [Trades -> G!Positions] /\ gRow \in [Trades -> G!Positions] /\ gJudged \in [Trades -> BOOLEAN]
      /\ (p = "session" => LookedAt(c))
  BY <1>0, Fields DEF GateInv, ThreadsHold, G!Hold, G!At, G!TypeOK, OnTrade
<1>2. /\ gJudged' \in [Trades -> BOOLEAN] /\ gJudged'[x] = TRUE /\ \A t \in Trades \ {x} : gJudged'[t] = gJudged[t]
      /\ UNCHANGED <<gPos, gRow, gProt, gQuote, gControls, gLatch, gCrossed, gScheduler, gCrashes>>
  BY <1>0, <1>1 DEF G!Hold, G!Cur, G!run, G!memory, G!store
<1>3. PICK r \in G!ThreadType : Turned(p, r)
  BY <1>1, Turning DEF G!Hold
<1>4. G!TypeOK'
  BY <1>1, <1>2, <1>3 DEF G!TypeOK, Turned, Moved
<1> HIDE DEF x
<1>5. Told(x)' /\ \A t \in Trades : Told(t) => Told(t)'
  BY <1>1, <1>2 DEF Told
<1>6. /\ Holds(p, r) /\ r.pc = "loop" /\ \A t \in Trades : InHand(r, t) <=> t \in c.todo
  BY <1>0, <1>1, <1>3, TurnHolds DEF Turned, InHand, OnTrade
<1>7. Holds(p, r)'
  BY <1>1, <1>2, <1>5, <1>6, HandStays
<1>8. p = "session" => LookedAt(r)'
  BY <1>1, <1>5, <1>6 DEF LookedAt, Looking, InHand, OnTrade, x
<1>9. ThreadsHold' /\ LookedAt(gThread["session"])'
  BY <1>2, <1>3, <1>5, <1>7, <1>8, HandsFollow DEF Turned
<1>10. MarkersCross'
  BY <1>0, <1>2, <1>3, <1>6 DEF Turned, Moved, MarkersCross, G!Marking, G!Cur, GateInv
<1>11. TradesHold'
  <2>1. ASSUME NEW t \in Trades PROVE RowOf(t)'
    BY <2>1, <1>0, <1>1, <1>2, <1>3 DEF RowOf, GateInv, TradesHold, TradeHolds, Turned, Moved, G!Live
  <2>2. ASSUME NEW t \in Trades PROVE TradeHolds(t)'
    BY <2>1, <2>2, <1>1, <1>2, <1>5 DEF TradeHolds, GateInv, TradesHold
  <2> QED
    BY <2>2 DEF TradesHold
<1> QED
  BY <1>4, <1>9, <1>10, <1>11 DEF GateInv

\* A request is written to position and row.
LEMMA RequestsExit ==
  ASSUME GateInv, NEW p \in G!Threads, G!RequestExit(p)
  PROVE  GateInv'
<1>0. PICK c \in G!ThreadType : c = gThread[p]
  BY ThreadsTyped DEF GateInv
<1> DEFINE x == c.cur
<1>1. /\ Holds(p, c) /\ c.pc \in {"evaluate", "pending"} /\ G!TypeOK /\ x \in Trades /\ OnTrade(c) /\ InHand(c, x)
      /\ gPos \in [Trades -> G!Positions] /\ gRow \in [Trades -> G!Positions] /\ gJudged \in [Trades -> BOOLEAN]
      /\ (p = "session" => LookedAt(c)) /\ gPos[x].state # "NONE" /\ (c.pc = "pending" => Told(x))
      /\ gPos[x] \in G!Positions
  BY <1>0, Fields DEF GateInv, ThreadsHold, G!RequestExit, G!At, G!TypeOK, OnTrade, InHand, Holds, HandsKnown
<1>2. PICK y \in G!Positions : y = G!Requested(gPos[x]) /\ y.mark = gPos[x].mark
        /\ y.state = IF gPos[x].state = "OPEN" THEN "EXIT_PENDING" ELSE gPos[x].state
  <2>1. CASE gPos[x].state = "OPEN"
    <3>1. PICK y \in G!Positions : y = [gPos[x] EXCEPT !.state = "EXIT_PENDING"] /\ y.mark = gPos[x].mark /\ y.state = "EXIT_PENDING"
      BY <1>1, WithState DEF G!States
    <3> QED
      BY <2>1, <3>1 DEF G!Requested
  <2>2. CASE gPos[x].state # "OPEN"
    BY <1>1, <2>2 DEF G!Requested
  <2> QED
    BY <2>1, <2>2
<1>3. /\ gJudged' \in [Trades -> BOOLEAN] /\ gJudged'[x] = (gJudged[x] \/ c.pc = "evaluate")
      /\ \A t \in Trades \ {x} : gJudged'[t] = gJudged[t]
      /\ UNCHANGED <<gProt, gQuote, gControls, gLatch, gCrossed, gScheduler, gCrashes>>
  BY <1>0, <1>1 DEF G!RequestExit, G!Cur, G!At, G!run
<1>4. /\ gPos' \in [Trades -> G!Positions] /\ gPos'[x] = y /\ \A t \in Trades \ {x} : gPos'[t] = gPos[t]
      /\ gRow' \in [Trades -> G!Positions] /\ gRow'[x] = y /\ \A t \in Trades \ {x} : gRow'[t] = gRow[t]
  BY <1>0, <1>1, <1>2 DEF G!RequestExit, G!Cur
<1>5. PICK r \in G!ThreadType : Turned(p, r)
  BY <1>1, Turning DEF G!RequestExit
<1>6. G!TypeOK'
  BY <1>1, <1>3, <1>4, <1>5 DEF G!TypeOK, Turned, Moved
<1> HIDE DEF x
<1>7. Told(x)' /\ \A t \in Trades : Told(t) => Told(t)'
  BY <1>1, <1>2, <1>3, <1>4 DEF Told, G!Live
<1>8. /\ Holds(p, r) /\ r.pc = "loop" /\ \A t \in Trades : InHand(r, t) <=> t \in c.todo
  BY <1>0, <1>1, <1>5, TurnHolds DEF Turned, InHand, OnTrade
<1>9. \A t \in Trades : (gPos[t].state # "NONE" => gPos'[t].state # "NONE") /\ (gRow[t].state # "NONE" => gRow'[t].state # "NONE")
        /\ (gPos[t].mark # "none" => gPos'[t].mark # "none")
  BY <1>1, <1>2, <1>4
<1>10. Holds(p, r)'
  BY <1>1, <1>3, <1>7, <1>8, <1>9, HandStays
<1>11. p = "session" => LookedAt(r)'
  BY <1>1, <1>7, <1>8 DEF LookedAt, Looking, InHand, OnTrade, x
<1>12. ThreadsHold' /\ LookedAt(gThread["session"])'
  BY <1>3, <1>5, <1>7, <1>9, <1>10, <1>11, HandsFollow DEF Turned
<1>13. MarkersCross'
  BY <1>0, <1>3, <1>5, <1>8 DEF Turned, Moved, MarkersCross, G!Marking, G!Cur, GateInv
<1>14. TradesHold'
  <2>1. ASSUME NEW t \in Trades, t # x PROVE TradeHolds(t)'
    <3>1. RowOf(t)'
      BY <2>1, <1>0, <1>1, <1>4, <1>5 DEF RowOf, GateInv, TradesHold, TradeHolds, Turned, Moved, G!Live
    <3> QED
      BY <2>1, <3>1, <1>3, <1>4, <1>7 DEF TradeHolds, GateInv, TradesHold
  <2>2. TradeHolds(x)'
    BY <1>1, <1>2, <1>3, <1>4, <1>7 DEF TradeHolds, RowOf, Told, G!Live, Leaving
  <2> QED
    BY <2>1, <2>2 DEF TradesHold
<1> QED
  BY <1>6, <1>12, <1>13, <1>14 DEF GateInv

\* The position and the row of a trade change together, but where only some legs of an
\* exit are filled.
Together(t) ==
  /\ gPos'[t].state # "NONE" /\ gPos'[t].state # "EXIT_PENDING"
  /\ gPos'[t].mark = gPos[t].mark /\ Told(t)'
  /\ \/ gRow'[t] = gPos'[t]
     \/ gRow'[t] = gRow[t] /\ gPos[t].state = "EXIT_PENDING" /\ gPos'[t].state = "CLOSING"

\* Positions and rows change together, and no hand does.
LEMMA BothChange ==
  ASSUME GateInv, G!TypeOK', UNCHANGED <<gThread, gJudged, gCrossed>>,
         \A t \in Trades : (gPos'[t] = gPos[t] /\ gRow'[t] = gRow[t]) \/ Together(t),
         \A t \in Trades : Told(t) => Told(t)'
  PROVE  ThreadsHold' /\ MarkersCross' /\ TradesHold' /\ LookedAt(gThread["session"])'
<1>1. ASSUME NEW u \in G!Threads PROVE Holds(u, gThread[u])' /\ (u = "session" => LookedAt(gThread[u])')
  <2>1. PICK v \in G!ThreadType : v = gThread[u] /\ v = gThread'[u]
    BY ThreadsTyped DEF GateInv
  <2>2. Holds(u, v) /\ (u = "session" => LookedAt(v))
    BY <2>1 DEF GateInv, ThreadsHold
  <2>3. Holds(u, v)' /\ (u = "session" => LookedAt(v)')
    BY <2>2, HandStays, LookStays DEF GateInv, G!TypeOK, Together
  <2> QED
    BY <2>1, <2>3
<1>2. MarkersCross'
  BY DEF MarkersCross, G!Marking, G!Cur, GateInv
<1>3. TradesHold'
  <2>1. ASSUME NEW t \in Trades PROVE RowOf(t)'
    BY <2>1 DEF RowOf, GateInv, TradesHold, TradeHolds, G!Live, Together
  <2>2. ASSUME NEW t \in Trades PROVE TradeHolds(t)'
    <3>1. CASE gPos'[t] = gPos[t] /\ gRow'[t] = gRow[t]
      BY <2>1, <2>2, <3>1 DEF TradeHolds, GateInv, TradesHold
    <3>2. CASE Together(t) /\ gRow'[t] = gPos'[t]
      BY <2>1, <2>2, <3>2 DEF TradeHolds, GateInv, TradesHold, Together, Told, G!Live, Leaving
    <3>3. CASE Together(t) /\ gRow'[t] = gRow[t] /\ gPos[t].state = "EXIT_PENDING"
      BY <2>1, <2>2, <3>3 DEF TradeHolds, GateInv, TradesHold, Together, G!NoPosition
    <3> QED
      BY <2>2, <3>1, <3>2, <3>3 DEF Together
  <2> QED
    BY <2>2 DEF TradesHold
<1> QED
  BY <1>1, <1>2, <1>3 DEF ThreadsHold, G!Threads

\* An answered exit opens the trade again, or closes it, or some of its legs.
LEMMA Answered ==
  ASSUME GateInv, NEW p \in G!Threads, NEW t \in Trades, NEW s \in {"OPEN", "CLOSING", "CLOSED"}, G!ExitAnswered(p, t, s)
  PROVE  GateInv'
<1>1. /\ G!TypeOK /\ gPos \in [Trades -> G!Positions] /\ gRow \in [Trades -> G!Positions] /\ gPos[t] \in G!Positions
      /\ gPos[t].state \in Leaving \ {s} /\ Told(t)
      /\ UNCHANGED <<gThread, gJudged, gCrossed, gProt, gControls, gLatch, gScheduler, gCrashes>>
  BY DEF GateInv, G!TypeOK, G!ExitAnswered, TradesHold, TradeHolds, Leaving, G!history, G!run
<1>2. PICK y \in G!Positions : y = [gPos[t] EXCEPT !.state = s] /\ y.mark = gPos[t].mark /\ y.state = s
  <2>1. s \in G!States
    BY DEF G!States
  <2> QED
    BY <1>1, <2>1, WithState
<1>3. gPos' = [gPos EXCEPT ![t] = y]
  BY <1>1, <1>2 DEF G!ExitAnswered
<1>4. gRow' = [gRow EXCEPT ![t] = y] \/ (s = "CLOSING" /\ gRow' = gRow)
  BY <1>1, <1>3 DEF G!ExitAnswered
<1>5. G!TypeOK'
  <2>1. gQuote' \in [Trades -> G!Verdicts]
    BY <1>1 DEF G!ExitAnswered, G!TypeOK, G!Verdicts
  <2>2. gPos' \in [Trades -> G!Positions] /\ gRow' \in [Trades -> G!Positions]
    BY <1>1, <1>3, <1>4
  <2> QED
    BY <1>1, <2>1, <2>2 DEF G!TypeOK
<1>6. Told(t)' /\ \A u \in Trades : Told(u) => Told(u)'
  BY <1>1, <1>2, <1>3 DEF Told, G!Live, Leaving
<1>7. \A u \in Trades \ {t} : gPos'[u] = gPos[u] /\ gRow'[u] = gRow[u]
  BY <1>1, <1>3, <1>4
<1>8. gPos'[t] = y /\ (gRow'[t] = y \/ (s = "CLOSING" /\ gRow'[t] = gRow[t]))
  BY <1>1, <1>3, <1>4
<1>9. \A u \in Trades : (gPos'[u] = gPos[u] /\ gRow'[u] = gRow[u]) \/ Together(u)
  <2>1. Together(t)
    BY <1>1, <1>2, <1>6, <1>8 DEF Together, Leaving
  <2> QED
    BY <1>7, <2>1
<1>10. UNCHANGED <<gThread, gJudged, gCrossed>>
  BY <1>1
<1>11. ThreadsHold' /\ MarkersCross' /\ TradesHold' /\ LookedAt(gThread["session"])'
  BY <1>5, <1>6, <1>9, <1>10, BothChange
<1> QED
  BY <1>5, <1>11 DEF GateInv

\* An entry is of a trade that was never judged.
LEMMA Enters ==
  ASSUME GateInv, NEW p \in G!Threads, NEW t \in Trades, G!Enter(p, t)
  PROVE  GateInv'
<1>1. /\ G!TypeOK /\ gPos \in [Trades -> G!Positions] /\ gRow \in [Trades -> G!Positions] /\ gPos[t] \in G!Positions
      /\ gRow[t] \in G!Positions /\ gPos[t].state = "NONE" /\ gRow[t] = gPos[t] /\ gJudged[t] = TRUE
      /\ UNCHANGED <<gJudged, gCrossed, gProt, gQuote, gControls, gLatch, gScheduler, gCrashes>>
      /\ gThread[p].pc = "enter" /\ p = "session" /\ gJudged \in [Trades -> BOOLEAN]
  BY DEF GateInv, G!TypeOK, G!Enter, TradesHold, TradeHolds, G!history, G!run, ThreadsHold, Holds, G!Threads, G!At
<1>2. PICK y \in G!Positions, z \in G!Positions :
         /\ y = [gPos[t] EXCEPT !.state = "OPEN"] /\ y.mark = gPos[t].mark /\ y.state = "OPEN"
         /\ z = [gRow[t] EXCEPT !.state = "OPEN"] /\ z.mark = gRow[t].mark /\ z.state = "OPEN"
         /\ y = z
  <2>1. "OPEN" \in G!States
    BY DEF G!States
  <2> QED
    BY <1>1, <2>1, WithState
<1>3. gPos' = [gPos EXCEPT ![t] = y] /\ gRow' = [gRow EXCEPT ![t] = z]
  BY <1>1, <1>2 DEF G!Enter
<1>4. PICK r \in G!ThreadType : r.pc = "idle" /\ r.back = "idle" /\ r.todo = {} /\ Moved(p, r)
  BY <1>1, Idling, IdleSame DEF G!Enter, GateStages
<1>5. G!TypeOK'
  BY <1>1, <1>3, <1>4 DEF G!TypeOK, Moved
<1>6. \A u \in Trades : Told(u) => Told(u)'
  BY <1>1, <1>2, <1>3 DEF Told, G!Live
<1>7. /\ \A u \in Trades \ {t} : gPos'[u] = gPos[u] /\ gRow'[u] = gRow[u]
      /\ gPos'[t] = y /\ gRow'[t] = z
  BY <1>1, <1>3
<1>8. Holds(p, r)' /\ LookedAt(r)'
  BY <1>1, <1>4 DEF Holds, CopiesOpen, HandsKnown, InHand, OnTrade, LookedAt, Looking
<1>9. ThreadsHold' /\ LookedAt(gThread["session"])'
  <2>0. y.state = "OPEN" /\ y.mark = gPos[t].mark /\ z.state = "OPEN"
    BY <1>2
  <2>1. \A u \in Trades : (gPos[u].state # "NONE" => gPos'[u].state # "NONE") /\ (gRow[u].state # "NONE" => gRow'[u].state # "NONE")
          /\ (gPos[u].mark # "none" => gPos'[u].mark # "none")
    <3> TAKE u \in Trades
    <3>1. CASE u = t
      BY <1>7, <2>0, <3>1
    <3>2. CASE u # t
      BY <1>7, <3>2
    <3> QED
      BY <3>1, <3>2
  <2>2. \A u \in Trades : gPos[u].state # "NONE" => gPos'[u].state # "NONE"
    BY <2>1
  <2>3. \A u \in Trades, v \in G!Threads \ {p} :
           InHand(gThread[v], u) /\ gRow[u].state # "NONE" => gRow'[u].state # "NONE"
    BY <2>1
  <2>4. \A u \in Trades, v \in G!Threads \ {p} :
           u = gThread[v].cur /\ gThread[v].pc \in {"row", "latch"} /\ (gCrossed[u] \/ gPos[u].mark # "none")
              => gCrossed'[u] \/ gPos'[u].mark # "none"
    BY <1>1, <2>1
  <2> QED
    BY <1>4, <1>6, <1>8, <2>2, <2>3, <2>4, HandsFollow
<1>10. MarkersCross'
  BY <1>1, <1>4 DEF MarkersCross, Moved, G!Marking, G!Cur, GateInv
<1>11. TradesHold'
  <2>1. ASSUME NEW u \in Trades, u # t PROVE TradeHolds(u)'
    <3>1. RowOf(u)'
      <4>1. RowOf(u) /\ gPos'[u] = gPos[u] /\ gRow'[u] = gRow[u]
        BY <2>1, <1>7 DEF GateInv, TradesHold, TradeHolds
      <4>2. CASE \E v \in G!Threads : gThread[v].pc = "row" /\ gThread[v].cur = u
        <5>1. PICK v \in G!Threads : gThread[v].pc = "row" /\ gThread[v].cur = u
          BY <4>2
        <5>2. gThread'[v].pc = "row" /\ gThread'[v].cur = u
          BY <5>1, <1>1, <1>4, <2>1 DEF Moved
        <5> QED
          BY <5>1, <5>2 DEF RowOf
      <4>3. CASE ~ \E v \in G!Threads : gThread[v].pc = "row" /\ gThread[v].cur = u
        BY <4>1, <4>3 DEF RowOf, G!Live
      <4> QED
        BY <4>2, <4>3
    <3>2. gPos'[u] = gPos[u] /\ gRow'[u] = gRow[u] /\ gJudged'[u] = gJudged[u] /\ gCrossed'[u] = gCrossed[u]
      BY <2>1, <1>1, <1>7
    <3>3. TradeHolds(u) /\ (Told(u) => Told(u)')
      BY <1>6 DEF GateInv, TradesHold
    <3> QED
      BY <3>1, <3>2, <3>3 DEF TradeHolds
  <2>2. RowOf(t)'
    BY <1>1, <1>2, <1>4, <1>7 DEF RowOf
  <2>3. TradeHolds(t)'
    BY <2>2, <1>1, <1>2, <1>7 DEF TradeHolds, Leaving
  <2> QED
    BY <2>1, <2>3 DEF TradesHold
<1> QED
  BY <1>5, <1>9, <1>10, <1>11 DEF GateInv

\* Quotes disturb nothing.
LEMMA QuotesChange ==
  ASSUME GateInv, NEW t \in Trades, NEW q \in G!Verdicts, G!QuoteChanges(t, q)
  PROVE  GateInv'
<1>1. /\ G!TypeOK'
      /\ UNCHANGED <<gThread, gJudged, gCrossed, gPos, gRow>>
  BY DEF GateInv, G!TypeOK, G!QuoteChanges, G!memory, G!store, G!history, G!run
<1>2. \A u \in Trades : Told(u) => Told(u)'
  BY <1>1 DEF Told, G!Live
<1>3. ThreadsHold' /\ MarkersCross' /\ TradesHold' /\ LookedAt(gThread["session"])'
  <2>1. \A u \in Trades : gPos'[u] = gPos[u] /\ gRow'[u] = gRow[u]
    BY <1>1
  <2> QED
    BY <1>1, <1>2, <2>1, BothChange
<1> QED
  BY <1>1, <1>3 DEF GateInv

\* The hands of a new process are empty.
LEMMA EmptyHands ==
  ASSUME NEW p \in G!Threads
  PROVE  Holds(p, G!Idle) /\ LookedAt(G!Idle) /\ G!Idle \in G!ThreadType
<1>1. PICK copy \in [Trades -> G!Positions] : copy = [t \in Trades |-> G!NoPosition]
  BY DEF G!NoPosition, G!Positions, G!States, G!Marks
<1>2. G!Idle \in G!ThreadType /\ G!Idle.pc = "idle" /\ G!Idle.back = "idle" /\ G!Idle.todo = {}
  BY <1>1, IdleHas DEF GateStages
<1> QED
  BY <1>2 DEF Holds, CopiesOpen, HandsKnown, InHand, OnTrade, LookedAt, Looking

\* A new process takes the positions from the rows.
LEMMA Restarts ==
  ASSUME GateInv, G!Restart
  PROVE  GateInv'
<1>1. /\ G!TypeOK /\ gPos \in [Trades -> G!Positions] /\ gRow \in [Trades -> G!Positions]
      /\ UNCHANGED <<gRow, gJudged, gCrossed, gProt, gQuote, gScheduler>>
      /\ gPos' = [t \in Trades |-> G!Restored(t)]
      /\ gThread' = [p \in G!Threads |-> G!Idle]
  BY DEF GateInv, G!TypeOK, G!Restart, G!history
<1>2. \A t \in Trades : gPos'[t] = IF G!Live(gRow[t]) THEN gRow[t] ELSE G!NoPosition
  BY <1>1 DEF G!Restored
<1>3. gPos' \in [Trades -> G!Positions]
  <2>1. \A t \in Trades : G!Restored(t) \in G!Positions
    BY <1>1 DEF G!Restored, G!NoPosition, G!Positions, G!States, G!Marks
  <2> QED
    BY <1>1, <2>1
<1>4. G!TypeOK'
  <2>1. G!Idle \in G!ThreadType
    BY EmptyHands DEF G!Threads
  <2>2. gControls' \in [frozen : BOOLEAN, degraded : BOOLEAN] /\ gLatch' \in BOOLEAN /\ gCrashes' \in 0..MaxCrashes
    <3>1. gCrashes' \in 0..MaxCrashes
      BY <1>1, BesideAssumption DEF G!Restart, G!TypeOK
    <3>2. gLatch' \in BOOLEAN
      BY <1>1 DEF G!Restart, G!TypeOK, G!Alerts
    <3>3. gControls' \in [frozen : BOOLEAN, degraded : BOOLEAN]
      <4>1. PICK d \in BOOLEAN : d = \E t \in Trades : G!Live(gRow[t]) /\ gProt[t] = "DEGRADED"
        OBVIOUS
      <4>2. PICK f \in BOOLEAN : f = (gLatch \/ (G!Alerts /\ ~d))
        OBVIOUS
      <4>3. gControls' = [frozen |-> f, degraded |-> d]
        BY <4>1, <4>2 DEF G!Restart
      <4> QED
        BY <4>3
    <3> QED
      BY <3>1, <3>2, <3>3
  <2> QED
    BY <1>1, <1>3, <2>1, <2>2 DEF G!TypeOK
<1>5. \A p \in G!Threads : gThread'[p] = G!Idle
  BY <1>1
<1>6. ThreadsHold' /\ LookedAt(gThread["session"])'
  <2>1. PICK v : v = G!Idle /\ v.pc = "idle" /\ v.todo = {} /\ v.back = "idle"
    <3>1. PICK copy \in [Trades -> G!Positions] : copy = [t \in Trades |-> G!NoPosition]
      BY DEF G!NoPosition, G!Positions, G!States, G!Marks
    <3> QED
      BY <3>1, IdleHas DEF GateStages
  <2>2. ASSUME NEW p \in G!Threads PROVE Holds(p, v)' /\ LookedAt(v)'
    BY <2>1 DEF Holds, CopiesOpen, HandsKnown, InHand, OnTrade, LookedAt, Looking
  <2>3. ASSUME NEW p \in G!Threads PROVE Holds(p, gThread[p])' /\ LookedAt(gThread[p])'
    <3>1. gThread'[p] = v
      BY <1>5, <2>1
    <3> QED
      BY <3>1, <2>2
  <2> QED
    BY <2>3 DEF ThreadsHold, G!Threads
<1>7. MarkersCross'
  <2>1. G!Idle.pc = "idle"
    BY DEF G!Idle
  <2> QED
    BY <1>5, <2>1 DEF MarkersCross, G!Marking
<1>8. TradesHold'
  <2>1. ASSUME NEW t \in Trades PROVE TradeHolds(t)'
    BY <1>1, <1>2 DEF GateInv, TradesHold, TradeHolds, RowOf, Told, G!Live, G!NoPosition, Leaving
  <2> QED
    BY <2>1 DEF TradesHold
<1> QED
  BY <1>4, <1>6, <1>7, <1>8 DEF GateInv

\* The invariant holds at first, and is kept.
LEMMA GateStarts == G!Init => GateInv
<1> SUFFICES ASSUME G!Init PROVE GateInv
  OBVIOUS
<1>1. /\ gPos = [t \in Trades |-> G!NoPosition] /\ gRow = [t \in Trades |-> G!NoPosition]
      /\ gThread = [p \in G!Threads |-> G!Idle] /\ gJudged = [t \in Trades |-> TRUE]
  BY DEF G!Init
<1>2. G!NoPosition \in G!Positions /\ G!NoPosition.state = "NONE" /\ G!NoPosition.mark = "none" /\ G!Idle.pc = "idle"
  BY DEF G!NoPosition, G!Positions, G!States, G!Marks, G!Idle
<1>3. \A p \in G!Threads : Holds(p, G!Idle) /\ LookedAt(G!Idle) /\ G!Idle \in G!ThreadType
  BY EmptyHands
<1>4. G!TypeOK
  <2>1. /\ gPos \in [Trades -> G!Positions] /\ gRow \in [Trades -> G!Positions]
        /\ gThread \in [G!Threads -> G!ThreadType] /\ gJudged \in [Trades -> BOOLEAN]
    BY <1>1, <1>2, <1>3
  <2>2. /\ gProt \in [Trades -> {"NONE", "ACTIVE", "DEGRADED"}] /\ gCrossed \in [Trades -> BOOLEAN]
        /\ gQuote \in [Trades -> G!Verdicts] /\ gLatch \in BOOLEAN /\ gScheduler \in BOOLEAN
        /\ gControls \in [frozen : BOOLEAN, degraded : BOOLEAN] /\ gCrashes \in 0..MaxCrashes
    <3>1. gCrashes \in 0..MaxCrashes
      BY BesideAssumption DEF G!Init
    <3>2. gProt \in [Trades -> {"NONE", "ACTIVE", "DEGRADED"}] /\ gCrossed \in [Trades -> BOOLEAN]
          /\ gQuote \in [Trades -> G!Verdicts]
      BY DEF G!Init, G!Verdicts
    <3>3. gLatch \in BOOLEAN /\ gScheduler \in BOOLEAN /\ gControls \in [frozen : BOOLEAN, degraded : BOOLEAN]
      BY DEF G!Init
    <3> QED
      BY <3>1, <3>2, <3>3
  <2> QED
    BY <2>1, <2>2 DEF G!TypeOK
<1>5. ThreadsHold /\ LookedAt(gThread["session"])
  BY <1>1, <1>3 DEF ThreadsHold, G!Threads
<1>6. MarkersCross
  BY <1>1, <1>2 DEF MarkersCross, G!Marking
<1>7. TradesHold
  BY <1>1, <1>2 DEF TradesHold, TradeHolds, RowOf, G!Live, Leaving
<1> QED
  BY <1>4, <1>5, <1>6, <1>7 DEF GateInv

LEMMA GateStays ==
  ASSUME GateInv, [G!Next /\ UNCHANGED vars]_<<gate, vars>>
  PROVE  GateInv'
<1>1. CASE UNCHANGED gate
  <2>1. UNCHANGED <<gPos, gRow, gProt, gControls, gLatch, gQuote, gJudged, gCrossed, gScheduler, gThread, gCrashes>>
    BY <1>1 DEF gate
  <2>2. G!TypeOK' /\ \A u \in Trades : Told(u) => Told(u)'
    BY <2>1 DEF GateInv, G!TypeOK, Told, G!Live
  <2>3. ThreadsHold' /\ MarkersCross' /\ TradesHold' /\ LookedAt(gThread["session"])'
    <3>1. \A u \in Trades : gPos'[u] = gPos[u] /\ gRow'[u] = gRow[u]
      BY <2>1
    <3> QED
      BY <2>1, <2>2, <3>1, BothChange
  <2> QED
    BY <2>2, <2>3 DEF GateInv
<1>2. CASE G!Restart
  BY <1>2, Restarts
<1>3. ASSUME NEW t \in Trades, NEW q \in G!Verdicts, G!QuoteChanges(t, q) PROVE GateInv'
  BY <1>3, QuotesChange
<1>4. ASSUME NEW p \in G!Threads, G!Exits(p) PROVE GateInv'
  <2>1. CASE \/ G!BeginExits(p) \/ G!MarkPosition(p) \/ G!WriteMark(p)
             \/ G!Latch(p) \/ G!LeaveUnmonitored(p) \/ G!Hold(p) \/ G!RequestExit(p) \/ G!AfterQuoteUpdate(p)
    BY <2>1, BeginsExits, MarksPosition, WritesMark, Latches, Leaves, HoldsOn, RequestsExit, AfterUpdates
  <2>2. CASE \E n \in {"cycle", "after"} : G!EndExits(p, n)
    BY <2>2, EndsExits
  <2>3. CASE \E t \in Trades : G!Skip(p, t) \/ G!Diagnose(p, t)
    BY <2>3, Skips, Diagnoses
  <2>4. CASE \E t \in Trades, s \in {"OPEN", "CLOSING", "CLOSED"} : G!ExitAnswered(p, t, s)
    BY <2>4, Answered
  <2> QED
    BY <1>4, <2>1, <2>2, <2>3, <2>4 DEF G!Exits
<1>5. ASSUME NEW p \in G!Threads, G!Cycle(p) PROVE GateInv'
  BY <1>5, BeginsCycle, Gates, NotEntered, Enters DEF G!Cycle
<1>6. ASSUME NEW p \in G!Threads, G!Derive(p) \/ G!Release(p) PROVE GateInv'
  BY <1>6, Derives, ReleasesFreeze
<1> QED
  BY <1>1, <1>2, <1>3, <1>4, <1>5, <1>6 DEF G!Next, G!Steps, gate

\* What the session has looked at bears no mark when the gate opens.
LEMMA GatePasses ==
  ASSUME GateInv, [G!Next /\ UNCHANGED vars]_<<gate, vars>>,
         NEW p \in G!Threads, G!At(p, "gate"), gThread'[p].pc = "enter",
         NEW t \in Trades, G!Live(gPos[t]), ~gCrossed[t]
  PROVE  gJudged[t]
<1>1. p = "session" /\ G!TypeOK
  BY DEF GateInv, ThreadsHold, Holds, G!Threads, G!At
<1>2. ~G!Derived
  <2>1. gThread' # gThread
    BY DEF G!At
  <2>2. G!Gate(p)
    <3>1. ASSUME NEW u \in G!Threads, u # p, G!Steps(u) PROVE gThread'[p] = gThread[p]
      BY <3>1, ThreadsTyped, <1>1 DEF G!Steps, G!Exits, G!Cycle, G!BeginExits, G!MarkPosition, G!WriteMark, G!Latch,
         G!LeaveUnmonitored, G!Hold, G!RequestExit, G!AfterQuoteUpdate, G!EndExits, G!Skip, G!Diagnose, G!ExitAnswered,
         G!BeginCycle, G!Gate, G!NoEntry, G!Enter, G!Derive, G!Release, G!Goes, G!Turns, G!Returns, G!Releases
    <3>2. ASSUME G!Steps(p), ~G!Gate(p) PROVE gThread' = gThread
      BY <3>2 DEF G!At, G!Steps, G!Exits, G!Cycle, G!BeginExits, G!MarkPosition, G!WriteMark, G!Latch,
         G!LeaveUnmonitored, G!Hold, G!RequestExit, G!AfterQuoteUpdate, G!EndExits, G!Skip, G!Diagnose, G!ExitAnswered,
         G!BeginCycle, G!NoEntry, G!Enter, G!Derive, G!Release
    <3>3. ~G!Restart
      BY DEF G!Restart, G!Idle
    <3>4. (\E v \in Trades, q \in G!Verdicts : G!QuoteChanges(v, q)) => gThread' = gThread
      BY DEF G!QuoteChanges
    <3>5. gThread'[p] # gThread[p]
      BY DEF G!At
    <3> QED
      BY <2>1, <3>1, <3>2, <3>3, <3>4, <3>5 DEF G!Next, gate
  <2>3. gThread' # [gThread EXCEPT ![p] = G!Idle]
    <3>1. G!Idle.pc = "idle"
      BY DEF G!Idle
    <3> QED
      BY <1>1, <3>1 DEF G!TypeOK
  <2> QED
    BY <2>2, <2>3 DEF G!Gate, G!Blocked
<1>3. Told(t)
  BY <1>1 DEF GateInv, LookedAt, Looking, InHand, OnTrade, G!At
<1> QED
  BY <1>1, <1>2, <1>3 DEF G!Derived, Told, G!TypeOK

\* The gate lets a cycle through only if the last look at each open trade found that
\* its stop can be evaluated, also when its exit is filled in part: for any trades,
\* quotes, interleavings of the two threads and restarts (_entries_are_blocked,
\* manage_exits, _maybe_release_entry_freeze).
THEOREM GateSees == GateSpec => GateSeesVerdicts
<1>1. GateInv /\ [G!Next /\ UNCHANGED vars]_<<gate, vars>> => GateInv'
  BY GateStays
<1>2. GateInv /\ [G!Next /\ UNCHANGED vars]_<<gate, vars>>
        => [\A p \in G!Threads : G!At(p, "gate") /\ gThread'[p].pc = "enter" =>
              \A t \in Trades : G!Live(gPos[t]) /\ ~gCrossed[t] => gJudged[t]]_gate
  BY GatePasses
<1> QED
  BY <1>1, <1>2, GateStarts, PTL DEF GateSpec, GateSeesVerdicts, G!GateSeesVerdicts, G!vars, gate

=============================================================================
