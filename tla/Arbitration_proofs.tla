-------------------------- MODULE Arbitration_proofs --------------------------
(***************************************************************************)
(* Theorems about Arbitration, for every menu, cap, profile and number of  *)
(* trades: its types, that a cycle is of one mind, that duplicates are let *)
(* in only side by side or behind an exit that failed, that the caps are   *)
(* kept, and that a candidate is entered once a day.                       *)
(***************************************************************************)
EXTENDS Arbitration, FiniteSetTheorems, TLAPS

\* A cycle record stays one under the updates that the actions make.
LEMMA CycleUpdate ==
  ASSUME NEW c \in CycleType
  PROVE  /\ \A pc \in Stages : [c EXCEPT !.pc = pc] \in CycleType
         /\ \A S \in SUBSET Menu : [c EXCEPT !.todo = S] \in CycleType
         /\ \A S, A \in SUBSET Menu : [c EXCEPT !.todo = S, !.approved = A] \in CycleType
         /\ \A A \in SUBSET Menu : [c EXCEPT !.approved = A] \in CycleType
         /\ \A pc \in Stages, A \in SUBSET Menu : [c EXCEPT !.pc = pc, !.approved = A] \in CycleType
         /\ \A pc \in Stages, S \in SUBSET Menu : [c EXCEPT !.pc = pc, !.todo = S] \in CycleType
         /\ \A pc \in Stages, L \in SUBSET (1..MaxTrades) : [c EXCEPT !.pc = pc, !.live = L] \in CycleType
         /\ \A pc \in Stages, b \in BOOLEAN : [c EXCEPT !.pc = pc, !.m1 = b] \in CycleType
  BY DEF CycleType

LEMMA IdleCycle == NoCycle \in CycleType
  BY DEF NoCycle, CycleType, Stages

\* A thread's cycle is replaced by one of the type.
LEMMA GoesType ==
  ASSUME TypeOK, NEW t \in Threads, NEW c \in CycleType, Goes(t, c)
  PROVE  /\ cycle' \in [Threads -> CycleType]
         /\ cycle'[t] = c
         /\ \A u \in Threads : u # t => cycle'[u] = cycle[u]
  BY DEF TypeOK, Goes

LEMMA TradesFinite ==
  ASSUME TypeOK
  PROVE  /\ Len(trades) \in Nat /\ Trades = 1..Len(trades)
         /\ Trades \subseteq 1..MaxTrades
         /\ \A i \in Trades : trades[i] \in TradeType
  BY BoundsAssumption DEF TypeOK, Trades

\* What each action of a cycle leaves in its thread's record.
LEMMA CycleKept ==
  ASSUME TypeOK, NEW t \in Threads, CycleStep(t)
  PROVE  cycle' \in [Threads -> CycleType]
<1>0. cycle[t] \in CycleType
  BY DEF TypeOK
<1>1. CASE PollBegins(t)
  <2>1. [NoCycle EXCEPT !.pc = "poll"] \in CycleType
    BY IdleCycle, CycleUpdate DEF Stages
  <2> QED BY <1>1, <2>1, GoesType DEF PollBegins
<1>2. CASE EventBegins(t)
  <2>1. [NoCycle EXCEPT !.pc = "event", !.m1 = TRUE] \in CycleType
    BY IdleCycle, CycleUpdate DEF Stages
  <2> QED BY <1>2, <2>1, GoesType DEF EventBegins
<1>3. ASSUME NEW S \in SUBSET Menu, Evaluate(t, S)
      PROVE  cycle' \in [Threads -> CycleType]
  <2> DEFINE T == {c \in S : ~(Discovery /\ EnteredToday(c))}
  <2>1. T \in SUBSET Menu
    OBVIOUS
  <2>2. [cycle[t] EXCEPT !.pc = "look", !.todo = T] \in CycleType
    BY <1>0, <2>1, CycleUpdate DEF Stages
  <2>3. Goes(t, [cycle[t] EXCEPT !.pc = "look", !.todo = T])
    BY <1>3 DEF Evaluate
  <2> QED BY <2>2, <2>3, GoesType
<1>4. CASE Look(t)
  <2>1. Incumbents \in SUBSET (1..MaxTrades)
    BY TradesFinite DEF Incumbents
  <2>2. [cycle[t] EXCEPT !.pc = "weigh", !.live = Incumbents] \in CycleType
    BY <1>0, <2>1, CycleUpdate DEF Stages
  <2> QED BY <1>4, <2>2, GoesType DEF Look
<1>5. ASSUME NEW c \in Menu, Weigh(t, c)
      PROVE  cycle' \in [Threads -> CycleType]
  <2>1. cycle[t].todo \in SUBSET Menu /\ cycle[t].approved \in SUBSET Menu
    BY <1>0 DEF CycleType
  <2>2. /\ [cycle[t] EXCEPT !.todo = @ \ {c}] \in CycleType
        /\ [cycle[t] EXCEPT !.todo = @ \ {c}, !.approved = @ \cup {c}] \in CycleType
    BY <1>0, <2>1, CycleUpdate
  <2> QED BY <1>5, <2>2, GoesType DEF Weigh
<1>6. CASE Arbitrated(t)
  <2>1. [cycle[t] EXCEPT !.pc = "execute", !.live = {}] \in CycleType
    BY <1>0, CycleUpdate DEF Stages
  <2> QED BY <1>6, <2>1, GoesType DEF Arbitrated
<1>7. ASSUME NEW c \in Menu, Refuse(t, c) \/ Enter(t, c)
      PROVE  cycle' \in [Threads -> CycleType]
  <2>1. cycle[t].approved \ {c} \in SUBSET Menu
    BY <1>0 DEF CycleType
  <2>2. /\ [cycle[t] EXCEPT !.approved = @ \ {c}] \in CycleType
        /\ [cycle[t] EXCEPT !.pc = "write", !.approved = @ \ {c}] \in CycleType
    BY <1>0, <2>1, CycleUpdate DEF Stages
  <2> QED BY <1>7, <2>2, GoesType DEF Refuse, Enter
<1>8. CASE WriteRow(t)
  <2>1. [cycle[t] EXCEPT !.pc = "execute"] \in CycleType
    BY <1>0, CycleUpdate DEF Stages
  <2> QED BY <1>8, <2>1, GoesType DEF WriteRow
<1>9. CASE EndCycle(t)
  BY <1>9, IdleCycle, GoesType DEF EndCycle
<1> QED BY <1>1, <1>2, <1>3, <1>4, <1>5, <1>6, <1>7, <1>8, <1>9 DEF CycleStep

\* A trade record stays one under the updates that the actions make.
LEMMA TradeUpdate ==
  ASSUME NEW r \in TradeType
  PROVE  /\ \A s \in States : [r EXCEPT !.state = s] \in TradeType
         /\ \A s \in States : [r EXCEPT !.state = s, !.back = TRUE] \in TradeType
         /\ \A b \in BOOLEAN : [r EXCEPT !.written = b] \in TradeType
  BY DEF TradeType

\* A function on the indices of the trades is again a sequence of trades.
LEMMA TradesAgain ==
  ASSUME TypeOK, DOMAIN trades' = Trades, trades' = [i \in Trades |-> trades'[i]],
         \A i \in Trades : trades'[i] \in TradeType
  PROVE  trades' \in Seq(TradeType) /\ Len(trades') = Len(trades)
<1>1. Trades = 1..Len(trades) /\ Len(trades) \in Nat
  BY TradesFinite
<1>2. trades' \in [1..Len(trades) -> TradeType]
  BY <1>1
<1> QED BY <1>1, <1>2

\* The exits, the rows and the crash change a trade in its place.
LEMMA InPlace ==
  ASSUME TypeOK,
         \/ \E t \in Threads : WriteRow(t)
         \/ \E i \in Trades : ExitBegins(i) \/ ExitFills(i) \/ ExitFails(i)
         \/ Crash
  PROVE  /\ Trades' = Trades
         /\ trades' \in Seq(TradeType) /\ Len(trades') = Len(trades)
         /\ \A i \in Trades : /\ trades'[i].item = trades[i].item
                              /\ trades'[i].by = trades[i].by
                              /\ trades'[i].state = "OPEN" /\ ~trades'[i].back
                                   => trades[i].state = "OPEN" /\ ~trades[i].back
<1> USE TradesFinite
<1>1. ASSUME NEW t \in Threads, WriteRow(t)
      PROVE  /\ trades' = [i \in Trades |-> trades'[i]]
             /\ \A i \in Trades : /\ trades'[i] \in TradeType
                                  /\ trades'[i].item = trades[i].item /\ trades'[i].by = trades[i].by
                                  /\ trades'[i].state = trades[i].state /\ trades'[i].back = trades[i].back
  <2>1. \A i \in Trades : trades'[i] = [trades[i] EXCEPT !.written = @ \/ (trades[i].by = t /\ trades[i].state # "LOST")]
    BY <1>1 DEF WriteRow
  <2> QED BY <1>1, <2>1 DEF WriteRow, TradeType
<1>2. ASSUME NEW k \in Trades, ExitBegins(k) \/ ExitFills(k) \/ ExitFails(k)
      PROVE  /\ trades' = [i \in Trades |-> trades'[i]]
             /\ \A i \in Trades : /\ trades'[i] \in TradeType
                                  /\ trades'[i].item = trades[i].item /\ trades'[i].by = trades[i].by
                                  /\ trades'[i].state = "OPEN" /\ ~trades'[i].back
                                       => trades[i].state = "OPEN" /\ ~trades[i].back
  <2>1. DOMAIN trades = Trades
    BY DEF Trades
  <2>2. CASE ExitBegins(k)
    <3>1. trades' = [trades EXCEPT ![k] = [trades[k] EXCEPT !.state = "EXIT_PENDING"]]
      BY <2>2 DEF ExitBegins, Becomes
    <3>2. [trades[k] EXCEPT !.state = "EXIT_PENDING"] \in TradeType
      BY TradeUpdate DEF States
    <3> QED BY <2>1, <3>1, <3>2 DEF TradeType
  <2>3. CASE ExitFills(k)
    <3>1. trades' = [trades EXCEPT ![k] = [trades[k] EXCEPT !.state = "CLOSED"]]
      BY <2>3 DEF ExitFills, Becomes
    <3>2. [trades[k] EXCEPT !.state = "CLOSED"] \in TradeType
      BY TradeUpdate DEF States
    <3> QED BY <2>1, <3>1, <3>2 DEF TradeType
  <2>4. CASE ExitFails(k)
    <3>1. trades' = [trades EXCEPT ![k] = [trades[k] EXCEPT !.state = "OPEN", !.back = TRUE]]
      BY <2>1, <2>4 DEF ExitFails
    <3>2. [trades[k] EXCEPT !.state = "OPEN", !.back = TRUE] \in TradeType
      BY TradeUpdate DEF States
    <3> QED BY <2>1, <3>1, <3>2 DEF TradeType
  <2> QED BY <1>2, <2>2, <2>3, <2>4
<1>3. ASSUME Crash
      PROVE  /\ trades' = [i \in Trades |-> trades'[i]]
             /\ \A i \in Trades : /\ trades'[i] \in TradeType
                                  /\ trades'[i].item = trades[i].item /\ trades'[i].by = trades[i].by
                                  /\ trades'[i].state = "OPEN" /\ ~trades'[i].back
                                       => trades[i].state = "OPEN" /\ ~trades[i].back
  <2>1. \A i \in Trades : trades'[i] = IF trades[i].written THEN trades[i] ELSE [trades[i] EXCEPT !.state = "LOST"]
    BY <1>3 DEF Crash
  <2>2. \A i \in Trades : [trades[i] EXCEPT !.state = "LOST"] \in TradeType
    BY TradeUpdate DEF States
  <2> QED BY <1>3, <2>1, <2>2 DEF Crash, TradeType
<1>4. /\ trades' = [i \in Trades |-> trades'[i]]
      /\ \A i \in Trades : /\ trades'[i] \in TradeType
                           /\ trades'[i].item = trades[i].item /\ trades'[i].by = trades[i].by
                           /\ trades'[i].state = "OPEN" /\ ~trades'[i].back
                                => trades[i].state = "OPEN" /\ ~trades[i].back
  BY <1>1, <1>2, <1>3
<1>5. DOMAIN trades' = Trades
  BY <1>4
<1>6. trades' \in Seq(TradeType) /\ Len(trades') = Len(trades)
  BY <1>4, <1>5, TradesAgain
<1> QED BY <1>4, <1>5, <1>6 DEF Trades

-----------------------------------------------------------------------------

LEMMA InitTypes == Init => TypeOK
<1> SUFFICES ASSUME Init PROVE TypeOK
  OBVIOUS
<1>1. trades \in Seq(TradeType) /\ Len(trades) = 0
  BY DEF Init
<1>2. cycle \in [Threads -> CycleType]
  BY IdleCycle DEF Init
<1> QED BY <1>1, <1>2, BoundsAssumption DEF Init, TypeOK

\* A new trade goes to the end.
LEMMA EnterTrade ==
  ASSUME TypeOK, NEW t \in Threads, NEW c \in Menu, Enter(t, c)
  PROVE  /\ trades' \in Seq(TradeType) /\ Len(trades') = Len(trades) + 1
         /\ Len(trades') <= MaxTrades
         /\ Trades' = Trades \cup {Len(trades) + 1}
         /\ \A i \in Trades : trades'[i] = trades[i]
         /\ trades'[Len(trades) + 1] = [item |-> c, day |-> day, state |-> "OPEN",
                                       written |-> FALSE, by |-> t, back |-> FALSE]
<1> DEFINE r == [item |-> c, day |-> day, state |-> "OPEN",
                 written |-> FALSE, by |-> t, back |-> FALSE]
<1>1. r \in TradeType
  BY DEF TypeOK, TradeType, States
<1>2. trades' = Append(trades, r) /\ Len(trades) < MaxTrades
  BY DEF Enter
<1> HIDE DEF r
<1>3. trades \in Seq(TradeType) /\ Len(trades) \in Nat
  BY DEF TypeOK
<1>4. /\ trades' \in Seq(TradeType) /\ Len(trades') = Len(trades) + 1
      /\ \A i \in 1..Len(trades) : trades'[i] = trades[i]
      /\ trades'[Len(trades) + 1] = r
  BY <1>1, <1>2, <1>3
<1>5. Trades' = 1..(Len(trades) + 1) /\ Trades = 1..Len(trades)
  BY <1>3, <1>4 DEF Trades
<1>6. Len(trades') <= MaxTrades
  BY <1>2, <1>3, <1>4, BoundsAssumption
<1> QED BY <1>3, <1>4, <1>5, <1>6 DEF r

LEMMA StepTypes == TypeOK /\ [Next]_vars => TypeOK'
<1> SUFFICES ASSUME TypeOK, [Next]_vars PROVE TypeOK'
  OBVIOUS
<1>1. ASSUME NEW t \in Threads, CycleStep(t) PROVE TypeOK'
  <2>1. cycle' \in [Threads -> CycleType]
    BY <1>1, CycleKept
  <2>2. profile' = profile /\ day' = day /\ holder' \in [event : BOOLEAN, keep : BOOLEAN]
    <3>1. \/ holder' = holder \/ holder' = [event |-> TRUE, keep |-> TRUE]
          \/ holder' = [event |-> FALSE, keep |-> FALSE]
          \/ holder' = [holder EXCEPT !.event = @ /\ holder.keep]
      BY <1>1, Zenon DEF CycleStep, PollBegins, EventBegins, Evaluate, Look, Weigh, Arbitrated, Refuse,
                  Enter, WriteRow, EndCycle
    <3>2. profile' = profile /\ day' = day
      BY <1>1 DEF CycleStep, PollBegins, EventBegins, Evaluate, Look, Weigh, Arbitrated, Refuse,
                  Enter, WriteRow, EndCycle
    <3>3. (holder.event /\ holder.keep) \in BOOLEAN
      OBVIOUS
    <3>4. \A b \in BOOLEAN : [holder EXCEPT !.event = b] \in [event : BOOLEAN, keep : BOOLEAN]
      BY DEF TypeOK
    <3>5. [holder EXCEPT !.event = @ /\ holder.keep] \in [event : BOOLEAN, keep : BOOLEAN]
      BY <3>3, <3>4, Zenon
    <3>6. /\ holder \in [event : BOOLEAN, keep : BOOLEAN]
          /\ [event |-> TRUE, keep |-> TRUE] \in [event : BOOLEAN, keep : BOOLEAN]
          /\ [event |-> FALSE, keep |-> FALSE] \in [event : BOOLEAN, keep : BOOLEAN]
      BY DEF TypeOK
    <3> QED BY <3>1, <3>2, <3>5, <3>6, Zenon
  <2>3. trades' \in Seq(TradeType) /\ Len(trades') <= MaxTrades
    <3>1. CASE trades' = trades
      BY <3>1 DEF TypeOK
    <3>2. CASE WriteRow(t)
      BY <3>2, InPlace DEF TypeOK
    <3>3. ASSUME NEW c \in Menu, Enter(t, c)
          PROVE  trades' \in Seq(TradeType) /\ Len(trades') <= MaxTrades
      BY <3>3, EnterTrade
    <3> QED BY <1>1, <3>1, <3>2, <3>3 DEF CycleStep, PollBegins, EventBegins, Evaluate, Look,
                                          Weigh, Arbitrated, Refuse, EndCycle
  <2> QED BY <2>1, <2>2, <2>3 DEF TypeOK
<1>2. ASSUME NEW i \in Trades, ExitBegins(i) \/ ExitFills(i) \/ ExitFails(i) PROVE TypeOK'
  <2>1. trades' \in Seq(TradeType) /\ Len(trades') = Len(trades)
    BY <1>2, InPlace
  <2>2. UNCHANGED <<profile, holder, cycle, day>>
    BY <1>2 DEF ExitBegins, ExitFills, ExitFails, Undisturbed
  <2> QED BY <2>1, <2>2 DEF TypeOK
<1>3. CASE Crash
  <2>1. trades' \in Seq(TradeType) /\ Len(trades') = Len(trades)
    BY <1>3, InPlace
  <2>2. cycle' \in [Threads -> CycleType] /\ UNCHANGED <<profile, day>>
        /\ holder' = [event |-> FALSE, keep |-> FALSE]
    BY <1>3, IdleCycle DEF Crash
  <2> QED BY <2>1, <2>2 DEF TypeOK
<1>4. CASE NextDay
  BY <1>4, BoundsAssumption DEF NextDay, TypeOK
<1>5. CASE UNCHANGED vars
  BY <1>5 DEF vars, TypeOK
<1> QED BY <1>1, <1>2, <1>3, <1>4, <1>5 DEF Next

\* Every variable keeps its type: trades are a sequence of trade records within
\* the bound, and the cycle of each thread is a cycle record.
THEOREM TypeCorrect == Spec => []TypeOK
<1>1. Init => TypeOK
  BY InitTypes
<1>2. TypeOK /\ [Next]_vars => TypeOK'
  BY StepTypes
<1> QED BY <1>1, <1>2, PTL DEF Spec

-----------------------------------------------------------------------------

\* Only the weighing adds to what a cycle has approved.
LEMMA ApprovedGrows ==
  ASSUME TypeOK, [Next]_vars, NEW t \in Threads,
         \A c \in Menu : ~(Weigh(t, c) /\ ~Suppressed(t, c))
  PROVE  cycle'[t].approved \subseteq cycle[t].approved
<1>0. cycle \in [Threads -> CycleType]
  BY DEF TypeOK
<1>1. ASSUME NEW u \in Threads, CycleStep(u) PROVE cycle'[t].approved \subseteq cycle[t].approved
  <2>1. CASE u # t
    <3>1. \E r : Goes(u, r)
      BY <1>1, Zenon DEF CycleStep, PollBegins, EventBegins, Evaluate, Look, Weigh, Arbitrated,
                         Refuse, Enter, WriteRow, EndCycle
    <3>2. cycle'[t] = cycle[t]
      BY <1>0, <2>1, <3>1 DEF Goes
    <3> QED BY <3>2
  <2>2. CASE u = t
    <3>1. CASE PollBegins(t) \/ EventBegins(t) \/ EndCycle(t)
      <4>1. cycle'[t].approved = {}
        <5>1. CASE PollBegins(t)
          BY <1>0, <5>1 DEF PollBegins, Goes, NoCycle
        <5>2. CASE EventBegins(t)
          BY <1>0, <5>2 DEF EventBegins, Goes, NoCycle
        <5>3. CASE EndCycle(t)
          BY <1>0, <5>3 DEF EndCycle, Goes, NoCycle
        <5> QED BY <3>1, <5>1, <5>2, <5>3
      <4> QED BY <4>1
    <3>2. CASE Look(t) \/ Arbitrated(t) \/ WriteRow(t)
      BY ZenonT(60), <1>0, <3>2 DEF Look, Arbitrated, WriteRow, Goes, CycleType
    <3>3. ASSUME NEW S \in SUBSET Menu, Evaluate(t, S)
          PROVE  cycle'[t].approved \subseteq cycle[t].approved
      BY <1>0, <3>3 DEF Evaluate, Goes, CycleType
    <3>4. ASSUME NEW c \in Menu, Weigh(t, c)
          PROVE  cycle'[t].approved \subseteq cycle[t].approved
      BY <1>0, <3>4 DEF Weigh, Goes, CycleType
    <3>5. ASSUME NEW c \in Menu, Refuse(t, c) \/ Enter(t, c)
          PROVE  cycle'[t].approved \subseteq cycle[t].approved
      <4>1. CASE Refuse(t, c)
        BY <1>0, <4>1 DEF Refuse, Goes, CycleType
      <4>2. CASE Enter(t, c)
        BY <1>0, <4>2 DEF Enter, Goes, CycleType
      <4> QED BY <3>5, <4>1, <4>2
    <3> QED BY <1>1, <2>2, <3>1, <3>2, <3>3, <3>4, <3>5 DEF CycleStep
  <2> QED BY <2>1, <2>2
<1>2. CASE Crash
  BY <1>2 DEF Crash, NoCycle
<1>3. CASE UNCHANGED cycle
  BY <1>3
<1> QED BY <1>1, <1>2, <1>3 DEF Next, NextDay, ExitBegins, ExitFills, ExitFails, Undisturbed, vars

\* What the weighing that approves leaves in its thread's record.
LEMMA Approves ==
  ASSUME TypeOK, NEW t \in Threads, NEW c \in Menu, Weigh(t, c), ~Suppressed(t, c)
  PROVE  /\ cycle'[t].approved = cycle[t].approved \cup {c}
         /\ \A u \in Threads : u # t => cycle'[u] = cycle[u]
         /\ UNCHANGED <<profile, trades>>
  BY DEF TypeOK, CycleType, Weigh, Goes

LEMMA ProfileStays == [Next]_vars => profile' = profile
  BY DEF Next, vars, CycleStep, PollBegins, EventBegins, Evaluate, Look, Weigh, Arbitrated, Refuse,
         Enter, WriteRow, EndCycle, ExitBegins, ExitFills, ExitFails, Undisturbed, Crash, NextDay

LEMMA Symmetry ==
  ASSUME NEW c \in Menu, NEW d \in Menu
  PROVE  (Overlaps(c, d) <=> Overlaps(d, c)) /\ (Opposes(c, d) <=> Opposes(d, c))
<1>1. Overlaps(c, d) <=> Overlaps(d, c)
  BY DEF Overlaps
<1>2. BandsMeet(c, d) <=> BandsMeet(d, c)
  BY DEF BandsMeet
<1>3. {Thesis(c), Thesis(d)} = {Thesis(d), Thesis(c)}
  OBVIOUS
<1> QED BY <1>1, <1>2, <1>3 DEF Opposes

\* Of the candidates that one cycle of a STRICT session has approved, no two have
\* one thesis on one band or opposite theses on bands that meet.
THEOREM OneMind == Spec => []CycleOfOneMind
<1>1. Init => CycleOfOneMind
  BY DEF Init, CycleOfOneMind, NoCycle
<1>2. TypeOK /\ CycleOfOneMind /\ [Next]_vars => CycleOfOneMind'
  <2> SUFFICES ASSUME TypeOK, CycleOfOneMind, [Next]_vars, ~Discovery',
                      NEW t \in Threads, NEW c \in cycle'[t].approved, NEW d \in cycle'[t].approved,
                      c # d
               PROVE  ~Overlaps(c, d) /\ ~Opposes(c, d)
    BY DEF CycleOfOneMind
  <2>1. ~Discovery
    BY ProfileStays DEF Discovery
  <2>2. \A a, b \in cycle[t].approved : a # b => ~Overlaps(a, b) /\ ~Opposes(a, b)
    BY <2>1 DEF CycleOfOneMind
  <2>3. CASE \A e \in Menu : ~(Weigh(t, e) /\ ~Suppressed(t, e))
    BY <2>2, <2>3, ApprovedGrows
  <2>4. ASSUME NEW e \in Menu, Weigh(t, e), ~Suppressed(t, e)
        PROVE  ~Overlaps(c, d) /\ ~Opposes(c, d)
    <3>1. cycle'[t].approved = cycle[t].approved \cup {e}
      BY <2>4, Approves
    <3>2. \A a \in cycle[t].approved : ~Overlaps(e, a) /\ ~Opposes(e, a)
      BY <2>1, <2>4 DEF Suppressed, Disagrees
    <3>3. cycle[t].approved \subseteq Menu
      BY DEF TypeOK, CycleType
    <3>4. \A a \in cycle[t].approved : ~Overlaps(a, e) /\ ~Opposes(a, e)
      BY <3>2, <3>3, Symmetry
    <3> QED BY <2>2, <3>1, <3>2, <3>4
  <2> QED BY <2>3, <2>4
<1> QED BY <1>1, <1>2, TypeCorrect, PTL DEF Spec

-----------------------------------------------------------------------------

\* A trade that has been OPEN since it was entered.
Bare(i) == trades[i].state = "OPEN" /\ ~trades[i].back

SameKey(c, d) == DuplicateKey(c) = DuplicateKey(d)

\* What the protection thread enters, or is about to, is of M1.
OfM1 ==
  /\ \A i \in Trades : trades[i].by # "session" => trades[i].item.mode = "M1"
  /\ \A t \in Threads : t # "session" =>
       ~At(t, "poll") /\ \A c \in cycle[t].todo \cup cycle[t].approved : c.mode = "M1"

\* No two candidates that a cycle has approved are on the same legs.
KeysApart ==
  \A t \in Threads : \A c, d \in cycle[t].approved : c # d => ~SameKey(c, d)

\* A thread that weighs has seen every trade of its own that is still OPEN.
LiveSeen ==
  \A t \in Threads : At(t, "weigh") =>
    \A i \in Trades : Bare(i) /\ trades[i].by = t => i \in cycle[t].live

\* None of a thread's own trades that are still OPEN is on approved legs.
NotYetOpen ==
  \A t \in Threads : \A c \in cycle[t].approved : \A i \in Trades :
    Bare(i) /\ trades[i].by = t => ~SameKey(trades[i].item, c)

\* A trade let in behind one that is still OPEN, whatever became of it since.
Earlier ==
  \A i, j \in Trades :
    i < j /\ Bare(i) /\ SameKey(trades[i].item, trades[j].item) => Beside(i, j)

DuplicateInv == OfM1 /\ KeysApart /\ LiveSeen /\ NotYetOpen /\ Earlier

\* A step leaves every trade its candidate and its thread, and none is OPEN
\* again, or it enters one.
Kept ==
  /\ Trades' = Trades
  /\ \A i \in Trades : /\ trades'[i].item = trades[i].item /\ trades'[i].by = trades[i].by
                       /\ Bare(i)' => Bare(i)

LEMMA TradeSteps ==
  ASSUME TypeOK, [Next]_vars
  PROVE  Kept \/ \E t \in Threads, c \in Menu : Enter(t, c)
<1>1. CASE trades' = trades
  BY <1>1 DEF Kept, Trades, Bare
<1>2. CASE \/ \E t \in Threads : WriteRow(t)
           \/ \E i \in Trades : ExitBegins(i) \/ ExitFills(i) \/ ExitFails(i)
           \/ Crash
  BY <1>2, InPlace DEF Kept, Bare
<1>3. CASE \E t \in Threads, c \in Menu : Enter(t, c)
  BY <1>3
<1> QED BY <1>1, <1>2, <1>3 DEF Next, NextDay, vars, CycleStep, PollBegins, EventBegins, Evaluate, Look,
                                Weigh, Arbitrated, Refuse, EndCycle

\* The ways in which a step leaves a thread's record.
Restarts(t) ==
  /\ cycle'[t].todo = {} /\ cycle'[t].approved = {}
  /\ cycle'[t].pc \in {"idle", "event"} \/ (cycle'[t].pc = "poll" /\ t = "session")

Collects(t) ==
  /\ At(t, "poll") \/ At(t, "event")
  /\ UNCHANGED <<trades, day>>
  /\ cycle'[t].pc = "look" /\ cycle'[t].approved = cycle[t].approved
  /\ Discovery => \A c \in cycle'[t].todo : ~EnteredToday(c)
  /\ \A c \in cycle'[t].todo : At(t, "poll") \/ c.mode = "M1"

Looks(t) ==
  /\ cycle'[t].live = Incumbents /\ UNCHANGED trades
  /\ cycle'[t].pc = "weigh"
  /\ cycle'[t].todo = cycle[t].todo /\ cycle'[t].approved = cycle[t].approved

Weighs(t) ==
  /\ UNCHANGED trades
  /\ At(t, "weigh") /\ cycle'[t].live = cycle[t].live /\ cycle'[t].pc = "weigh"
  /\ cycle'[t].todo \subseteq cycle[t].todo
  /\ \/ cycle'[t].approved = cycle[t].approved
     \/ \E c \in cycle[t].todo : /\ ~Suppressed(t, c)
                                 /\ cycle'[t].approved = cycle[t].approved \cup {c}

Proceeds(t) ==
  /\ At(t, "execute") \/ At(t, "write") \/ cycle[t].todo = {}
  /\ cycle'[t].pc \in {"execute", "write"}
  /\ cycle'[t].todo = cycle[t].todo /\ cycle'[t].approved \subseteq cycle[t].approved

LEMMA CycleSteps ==
  ASSUME TypeOK, [Next]_vars, NEW t \in Threads
  PROVE  cycle'[t] = cycle[t] \/ Restarts(t) \/ Collects(t) \/ Looks(t) \/ Weighs(t) \/ Proceeds(t)
<1>0. cycle \in [Threads -> CycleType]
  BY DEF TypeOK
<1>1. ASSUME NEW u \in Threads, CycleStep(u), u # t PROVE cycle'[t] = cycle[t]
  <2>1. \E r : Goes(u, r)
    BY <1>1, Zenon DEF CycleStep, PollBegins, EventBegins, Evaluate, Look, Weigh, Arbitrated,
                       Refuse, Enter, WriteRow, EndCycle
  <2> QED BY <1>0, <1>1, <2>1 DEF Goes
<1>2. CASE PollBegins(t)
  BY <1>0, <1>2 DEF PollBegins, Goes, NoCycle, Restarts
<1>3. CASE EventBegins(t)
  BY <1>0, <1>3 DEF EventBegins, Goes, NoCycle, Restarts
<1>4. CASE EndCycle(t)
  BY <1>0, <1>4 DEF EndCycle, Goes, NoCycle, Restarts
<1>5. CASE Crash
  BY <1>5 DEF Crash, NoCycle, Restarts
<1>6. ASSUME NEW S \in SUBSET Menu, Evaluate(t, S) PROVE Collects(t)
  BY <1>0, <1>6 DEF Evaluate, Goes, CycleType, Collects, At
<1>7. CASE Look(t)
  BY <1>0, <1>7 DEF Look, Goes, CycleType, Looks
<1>8. ASSUME NEW c \in Menu, Weigh(t, c) PROVE Weighs(t)
  <2>1. CASE Suppressed(t, c)
    BY <1>0, <1>8, <2>1 DEF Weigh, Goes, CycleType, Weighs, At
  <2>2. CASE ~Suppressed(t, c)
    BY ZenonT(60), <1>0, <1>8, <2>2 DEF Weigh, Goes, CycleType, Weighs, At
  <2> QED BY <2>1, <2>2
<1>9. CASE Arbitrated(t)
  BY <1>0, <1>9 DEF Arbitrated, Goes, CycleType, Proceeds, At
<1>10. CASE WriteRow(t)
  BY <1>0, <1>10 DEF WriteRow, Goes, CycleType, Proceeds, At
<1>11. ASSUME NEW c \in Menu, Refuse(t, c) PROVE Proceeds(t)
  BY <1>0, <1>11 DEF Refuse, Executes, At, Goes, CycleType, Proceeds
<1>12. ASSUME NEW c \in Menu, Enter(t, c) PROVE Proceeds(t)
  BY <1>0, <1>12 DEF Enter, Executes, Goes, CycleType, Proceeds, At
<1>13. CASE UNCHANGED cycle
  BY <1>13
<1>14. ASSUME CycleStep(t)
       PROVE  cycle'[t] = cycle[t] \/ Restarts(t) \/ Collects(t) \/ Looks(t) \/ Weighs(t) \/ Proceeds(t)
  <2>1. CASE \E S \in SUBSET Menu : Evaluate(t, S)
    BY <1>6, <2>1
  <2>2. CASE \E c \in Menu : Weigh(t, c) \/ Refuse(t, c) \/ Enter(t, c)
    BY <1>8, <1>11, <1>12, <2>2
  <2>3. CASE PollBegins(t) \/ EventBegins(t) \/ Look(t) \/ Arbitrated(t) \/ WriteRow(t) \/ EndCycle(t)
    BY <1>2, <1>3, <1>4, <1>7, <1>9, <1>10, <2>3
  <2> QED BY <1>14, <2>1, <2>2, <2>3 DEF CycleStep
<1> QED BY <1>1, <1>5, <1>13, <1>14 DEF Next, NextDay, ExitBegins, ExitFills, ExitFails, Undisturbed, vars

\* What entering a trade does to it, to its thread, and to the others.
LEMMA Enters ==
  ASSUME TypeOK, NEW t \in Threads, NEW c \in Menu, Enter(t, c)
  PROVE  /\ c \in cycle[t].approved /\ cycle'[t].approved = cycle[t].approved \ {c}
         /\ cycle'[t].pc = "write"
         /\ \A u \in Threads : u # t => cycle'[u] = cycle[u]
         /\ Len(trades) \in Nat /\ Trades = 1..Len(trades)
         /\ Trades' = Trades \cup {Len(trades) + 1}
         /\ \A i \in Trades : trades'[i] = trades[i] /\ (Bare(i)' <=> Bare(i))
         /\ trades'[Len(trades) + 1].item = c /\ trades'[Len(trades) + 1].by = t
<1>1. \A i \in Trades : trades'[i] = trades[i]
  BY EnterTrade
<1>2. trades'[Len(trades) + 1].item = c /\ trades'[Len(trades) + 1].by = t
  <2>1. trades'[Len(trades) + 1] = [item |-> c, day |-> day, state |-> "OPEN",
                                    written |-> FALSE, by |-> t, back |-> FALSE]
    BY EnterTrade
  <2> QED BY <2>1
<1>3. cycle \in [Threads -> CycleType]
  BY DEF TypeOK
<1>4. /\ cycle'[t].approved = cycle[t].approved \ {c} /\ cycle'[t].pc = "write"
      /\ \A u \in Threads : u # t => cycle'[u] = cycle[u]
  BY <1>3 DEF Enter, Goes, CycleType
<1>5. Trades' = Trades \cup {Len(trades) + 1}
  BY EnterTrade
<1> QED BY <1>1, <1>2, <1>4, <1>5, TradesFinite DEF Enter, Executes, Bare

-----------------------------------------------------------------------------

LEMMA InitDuplicates == Init => DuplicateInv
<1> SUFFICES ASSUME Init PROVE DuplicateInv
  OBVIOUS
<1>1. Trades = {}
  BY DEF Init, Trades
<1>2. \A t \in Threads : cycle[t].todo = {} /\ cycle[t].approved = {} /\ cycle[t].pc = "idle"
  BY DEF Init, NoCycle
<1> QED BY <1>1, <1>2 DEF DuplicateInv, OfM1, KeysApart, LiveSeen, NotYetOpen, Earlier, At

LEMMA OfM1Kept == TypeOK /\ OfM1 /\ [Next]_vars => OfM1'
<1> SUFFICES ASSUME TypeOK, OfM1, [Next]_vars PROVE OfM1'
  OBVIOUS
<1>1. \A i \in Trades' : trades'[i].by # "session" => trades'[i].item.mode = "M1"
  <2>1. CASE Kept
    BY <2>1 DEF Kept, OfM1
  <2>2. ASSUME NEW t \in Threads, NEW c \in Menu, Enter(t, c)
        PROVE  \A i \in Trades' : trades'[i].by # "session" => trades'[i].item.mode = "M1"
    BY <2>2, Enters DEF OfM1
  <2> QED BY <2>1, <2>2, TradeSteps
<1>2. ASSUME NEW t \in Threads, t # "session"
      PROVE  cycle'[t].pc # "poll" /\ \A c \in cycle'[t].todo \cup cycle'[t].approved : c.mode = "M1"
  <2>1. cycle[t].pc # "poll" /\ \A c \in cycle[t].todo \cup cycle[t].approved : c.mode = "M1"
    BY <1>2 DEF OfM1, At
  <2>2. CASE cycle'[t] = cycle[t]
    BY <2>1, <2>2
  <2>3. CASE Restarts(t)
    BY <1>2, <2>3 DEF Restarts
  <2>4. CASE Collects(t)
    BY <2>1, <2>4 DEF Collects, At
  <2>5. CASE Looks(t)
    BY <2>1, <2>5 DEF Looks
  <2>6. CASE Weighs(t)
    BY <2>1, <2>6 DEF Weighs
  <2>7. CASE Proceeds(t)
    BY <2>1, <2>7 DEF Proceeds
  <2> QED BY <2>2, <2>3, <2>4, <2>5, <2>6, <2>7, CycleSteps
<1> QED BY <1>1, <1>2 DEF OfM1, At

LEMMA KeysApartKept == TypeOK /\ KeysApart /\ [Next]_vars => KeysApart'
<1> SUFFICES ASSUME TypeOK, KeysApart, [Next]_vars, NEW t \in Threads,
                    NEW c \in cycle'[t].approved, NEW d \in cycle'[t].approved, c # d
             PROVE  ~SameKey(c, d)'
  BY DEF KeysApart
<1>0. \A a, b : SameKey(a, b)' <=> SameKey(a, b)
  BY ProfileStays DEF SameKey, DuplicateKey, Discovery
<1>1. \A a, b \in cycle[t].approved : a # b => ~SameKey(a, b)
  BY DEF KeysApart
<1>2. CASE cycle'[t].approved \subseteq cycle[t].approved
  BY <1>0, <1>1, <1>2
<1>3. ASSUME NEW e \in cycle[t].todo, ~Suppressed(t, e), cycle'[t].approved = cycle[t].approved \cup {e}
      PROVE  ~SameKey(c, d)
  <2>1. \A a \in cycle[t].approved : ~SameKey(a, e) /\ ~SameKey(e, a)
    BY <1>3 DEF Suppressed, Duplicates, SameKey
  <2> QED BY <1>1, <1>3, <2>1
<1> QED BY <1>0, <1>2, <1>3, CycleSteps DEF Restarts, Collects, Looks, Weighs, Proceeds

LEMMA LiveSeenKept == TypeOK /\ LiveSeen /\ [Next]_vars => LiveSeen'
<1> SUFFICES ASSUME TypeOK, LiveSeen, [Next]_vars, NEW t \in Threads, cycle'[t].pc = "weigh",
                    NEW i \in Trades', Bare(i)', trades'[i].by = t
             PROVE  i \in cycle'[t].live
  BY DEF LiveSeen, At
<1>1. CASE Looks(t)
  BY <1>1 DEF Looks, Incumbents, Bare, Trades
<1>2. CASE Weighs(t)
  BY <1>2 DEF Weighs, LiveSeen, Bare, Trades
<1>3. CASE cycle'[t] = cycle[t]
  <2>1. CASE Kept
    BY <1>3, <2>1 DEF Kept, LiveSeen, At
  <2>2. ASSUME NEW u \in Threads, NEW c \in Menu, Enter(u, c)
        PROVE  i \in cycle'[t].live
    <3>1. u # t
      BY <2>2, Enters
    <3>2. i \in Trades /\ Bare(i) /\ trades[i].by = t
      BY <2>2, <3>1, Enters
    <3> QED BY <1>3, <3>2 DEF LiveSeen, At
  <2> QED BY <2>1, <2>2, TradeSteps
<1> QED BY <1>1, <1>2, <1>3, CycleSteps DEF Restarts, Collects, Proceeds

LEMMA NotYetOpenKept ==
  TypeOK /\ KeysApart /\ LiveSeen /\ NotYetOpen /\ [Next]_vars => NotYetOpen'
<1> SUFFICES ASSUME TypeOK, KeysApart, LiveSeen, NotYetOpen, [Next]_vars,
                    NEW t \in Threads, NEW c \in cycle'[t].approved,
                    NEW i \in Trades', Bare(i)', trades'[i].by = t
             PROVE  ~SameKey(trades[i].item, c)'
  BY DEF NotYetOpen
<1>0. \A a, b : SameKey(a, b)' <=> SameKey(a, b)
  BY ProfileStays DEF SameKey, DuplicateKey, Discovery
<1>1. ASSUME i \in Trades, trades'[i].item = trades[i].item, Bare(i), trades[i].by = t
      PROVE  ~SameKey(trades'[i].item, c)
  <2>1. CASE c \in cycle[t].approved
    BY <1>1, <2>1 DEF NotYetOpen
  <2>2. CASE c \notin cycle[t].approved
    <3>1. Weighs(t)
      BY <2>2, CycleSteps DEF Restarts, Collects, Looks, Proceeds
    <3>2. At(t, "weigh") /\ ~Duplicates(t, c)
      BY <2>2, <3>1 DEF Weighs, Suppressed
    <3>3. i \in cycle[t].live
      BY <1>1, <3>2 DEF LiveSeen
    <3> QED BY <1>1, <3>2, <3>3 DEF Duplicates, SameKey
  <2> QED BY <2>1, <2>2
<1>2. CASE Kept
  <2>1. i \in Trades /\ trades'[i].item = trades[i].item /\ Bare(i) /\ trades[i].by = t
    BY <1>2 DEF Kept
  <2> QED BY <1>0, <1>1, <2>1
<1>3. ASSUME NEW u \in Threads, NEW e \in Menu, Enter(u, e)
      PROVE  ~SameKey(trades'[i].item, c)
  <2>1. CASE i \in Trades
    BY <1>1, <1>3, <2>1, Enters
  <2>2. CASE i \notin Trades
    <3>1. i = Len(trades) + 1
      BY <1>3, <2>2, Enters
    <3>2. t = u /\ trades'[i].item = e
      BY <1>3, <3>1, Enters
    <3>3. c \in cycle[t].approved /\ c # e /\ e \in cycle[t].approved
      BY <1>3, <3>2, Enters
    <3> QED BY <3>2, <3>3 DEF KeysApart
  <2> QED BY <2>1, <2>2
<1> QED BY <1>0, <1>2, <1>3, TradeSteps

LEMMA EarlierKept ==
  TypeOK /\ OfM1 /\ NotYetOpen /\ Earlier /\ [Next]_vars => Earlier'
<1> SUFFICES ASSUME TypeOK, OfM1, NotYetOpen, Earlier, [Next]_vars,
                    NEW i \in Trades', NEW j \in Trades', i < j, Bare(i)',
                    SameKey(trades[i].item, trades[j].item)'
             PROVE  Beside(i, j)'
  BY DEF Earlier
<1>0. \A a, b : SameKey(a, b)' <=> SameKey(a, b)
  BY ProfileStays DEF SameKey, DuplicateKey, Discovery
<1>00. SameKey(trades'[i].item, trades'[j].item)
  BY <1>0
<1>1. CASE Kept
  BY <1>1, <1>00 DEF Kept, Earlier, Beside
<1>2. ASSUME NEW t \in Threads, NEW c \in Menu, Enter(t, c)
      PROVE  Beside(i, j)'
  <2>0. Trades' = 1..(Len(trades) + 1) /\ Trades = 1..Len(trades) /\ Len(trades) \in Nat
    <3>1. Trades' = Trades \cup {Len(trades) + 1} /\ Trades = 1..Len(trades) /\ Len(trades) \in Nat
      BY <1>2, Enters
    <3>2. \A n \in Nat : (1..n) \cup {n + 1} = 1..(n + 1)
      OBVIOUS
    <3> QED BY <3>1, <3>2
  <2>1. i \in Trades
    BY <2>0
  <2>2. Bare(i) /\ trades'[i] = trades[i]
    BY <1>2, <2>1, Enters
  <2>3. CASE j \in Trades
    <3>1. trades'[j] = trades[j]
      BY <1>2, <2>3, Enters
    <3> QED BY <1>00, <2>1, <2>2, <2>3, <3>1 DEF Earlier, Beside
  <2>4. CASE j \notin Trades
    <3>1. j = Len(trades) + 1
      BY <2>0, <2>4
    <3>2. trades'[j].item = c /\ trades'[j].by = t /\ c \in cycle[t].approved
      BY <1>2, <3>1, Enters
    <3>3. trades[i].by # t
      BY <1>00, <2>1, <2>2, <3>2 DEF NotYetOpen
    <3>4. trades[i].by # "session" => trades[i].item.mode = "M1"
      BY <2>1 DEF OfM1
    <3>5. t # "session" => c.mode = "M1"
      BY <3>2 DEF OfM1
    <3> QED BY <2>2, <3>2, <3>3, <3>4, <3>5 DEF Beside
  <2> QED BY <2>3, <2>4
<1> QED BY <1>1, <1>2, TradeSteps

\* Two trades OPEN on the same legs were entered side by side by the two threads,
\* or the earlier is back from an exit: however long the session runs, whatever
\* the menu, and across crashes.
THEOREM NoDuplicates == Spec => []DuplicateFree
<1>1. Init => DuplicateInv
  BY InitDuplicates
<1>2. TypeOK /\ DuplicateInv /\ [Next]_vars => DuplicateInv'
  BY OfM1Kept, KeysApartKept, LiveSeenKept, NotYetOpenKept, EarlierKept DEF DuplicateInv
<1>3. DuplicateInv => DuplicateFree
  BY DEF DuplicateInv, Earlier, DuplicateFree, Bare, SameKey
<1> QED BY <1>1, <1>2, <1>3, TypeCorrect, PTL DEF Spec

-----------------------------------------------------------------------------

\* The trades of a mode that are still OPEN, and what the poll loop's cycle has
\* approved of it.
Standing(m) == {i \in Trades : Bare(i) /\ trades[i].item.mode = m}

Coming(m) == {c \in cycle["session"].approved : c.mode = m}

\* With what the cycle is about to enter, a mode stays within its cap.
RoomLeft ==
  "session" \in Threads =>
    /\ IsFiniteSet(cycle["session"].approved)
    /\ \A m \in Modes \ {"M1"} :
         Capped(m) => Cardinality(Standing(m)) + Cardinality(Coming(m)) <= Cap

LEMMA StandingFinite ==
  ASSUME TypeOK, NEW m
  PROVE  IsFiniteSet(Standing(m)) /\ Cardinality(Standing(m)) \in Nat
<1>1. IsFiniteSet(1..Len(trades))
  BY TradesFinite, FS_Interval
<1>2. Standing(m) \subseteq 1..Len(trades)
  BY TradesFinite DEF Standing
<1> QED BY <1>1, <1>2, FS_Subset, FS_CardinalityType

\* Fewer trades and fewer approvals take no more room.
LEMMA Shrinks ==
  ASSUME NEW B, NEW A, IsFiniteSet(B), IsFiniteSet(A), NEW B1 \in SUBSET B, NEW A1 \in SUBSET A,
         Cardinality(B) + Cardinality(A) <= Cap
  PROVE  Cardinality(B1) + Cardinality(A1) <= Cap
<1>1. Cardinality(B1) <= Cardinality(B) /\ Cardinality(A1) <= Cardinality(A)
      /\ IsFiniteSet(B1) /\ IsFiniteSet(A1)
  BY FS_Subset
<1>2. /\ Cardinality(B) \in Nat /\ Cardinality(A) \in Nat
      /\ Cardinality(B1) \in Nat /\ Cardinality(A1) \in Nat
  BY <1>1, FS_CardinalityType
<1> QED BY <1>1, <1>2, CapAssumption

LEMMA OneMore ==
  ASSUME NEW S, IsFiniteSet(S), NEW x
  PROVE  IsFiniteSet(S \cup {x}) /\ Cardinality(S \cup {x}) <= Cardinality(S) + 1
<1>1. Cardinality(S) \in Nat
  BY FS_CardinalityType
<1>2. /\ IsFiniteSet(S \cup {x})
      /\ Cardinality(S \cup {x}) = IF x \in S THEN Cardinality(S) ELSE Cardinality(S) + 1
  BY FS_AddElement
<1>3. CASE x \in S
  BY <1>1, <1>2, <1>3
<1>4. CASE x \notin S
  BY <1>1, <1>2, <1>4
<1> QED BY <1>3, <1>4

\* The trade that is entered takes the room of its approval.
LEMMA Moves ==
  ASSUME NEW B, NEW A, IsFiniteSet(B), IsFiniteSet(A), NEW c \in A, NEW x,
         Cardinality(B) + Cardinality(A) <= Cap
  PROVE  Cardinality(B \cup {x}) + Cardinality(A \ {c}) <= Cap
<1>1. Cardinality(A \ {c}) = Cardinality(A) - 1
  BY FS_RemoveElement
<1>2. Cardinality(B \cup {x}) <= Cardinality(B) + 1 /\ IsFiniteSet(B \cup {x})
  BY OneMore
<1>3. Cardinality(B) \in Nat /\ Cardinality(A) \in Nat /\ Cardinality(B \cup {x}) \in Nat
  BY <1>2, FS_CardinalityType
<1> QED BY <1>1, <1>2, <1>3, CapAssumption

LEMMA CappedStays == [Next]_vars => \A m : Capped(m)' <=> Capped(m)
  BY ProfileStays DEF Capped, Discovery

LEMMA RoomOfEntry ==
  ASSUME TypeOK, OfM1, RoomLeft, [Next]_vars, "session" \in Threads,
         NEW t \in Threads, NEW e \in Menu, Enter(t, e),
         NEW m \in Modes \ {"M1"}, Capped(m)
  PROVE  Cardinality(Standing(m)') + Cardinality(Coming(m)') <= Cap
<1> DEFINE new == Len(trades) + 1
<1>0. IsFiniteSet(Standing(m)) /\ IsFiniteSet(Coming(m))
      /\ Cardinality(Standing(m)) + Cardinality(Coming(m)) <= Cap
  <2>1. Coming(m) \subseteq cycle["session"].approved
    BY DEF Coming
  <2> QED BY <2>1, StandingFinite, FS_Subset DEF RoomLeft
<1>1. /\ Trades' = Trades \cup {new} /\ trades'[new].item = e
      /\ \A i \in Trades : trades'[i] = trades[i] /\ (Bare(i)' <=> Bare(i))
  BY Enters
<1>2. CASE e.mode = m
  <2>1. t = "session"
    BY <1>2, Enters DEF OfM1, Modes
  <2>2. e \in Coming(m) /\ Coming(m)' \subseteq Coming(m) \ {e}
    BY <1>2, <2>1, Enters DEF Coming
  <2>3. Standing(m)' \subseteq Standing(m) \cup {new}
    BY <1>1 DEF Standing
  <2>4. Cardinality(Standing(m) \cup {new}) + Cardinality(Coming(m) \ {e}) <= Cap
    BY <1>0, <2>2, Moves
  <2>5. IsFiniteSet(Standing(m) \cup {new}) /\ IsFiniteSet(Coming(m) \ {e})
    BY <1>0, FS_AddElement, FS_RemoveElement
  <2> QED BY <2>2, <2>3, <2>4, <2>5, Shrinks
<1>3. CASE e.mode # m
  <2>1. Standing(m)' \subseteq Standing(m)
    BY <1>1, <1>3 DEF Standing
  <2>2. Coming(m)' \subseteq Coming(m)
    BY Enters DEF Coming
  <2> QED BY <1>0, <2>1, <2>2, Shrinks
<1> QED BY <1>2, <1>3

LEMMA RoomOfApproval ==
  ASSUME TypeOK, OfM1, LiveSeen, RoomLeft, "session" \in Threads,
         At("session", "weigh"), NEW e \in Menu, ~Suppressed("session", e),
         Capped(e.mode), e.mode # "M1"
  PROVE  Cardinality(Standing(e.mode)) + Cardinality(Coming(e.mode) \cup {e}) <= Cap
<1> DEFINE live == {i \in cycle["session"].live : trades[i].item.mode = e.mode}
<1>1. Cardinality(live) + Cardinality(Coming(e.mode)) < Cap
  <2>1. ~(ModeCount("session", e.mode) >= Cap)
    BY DEF Suppressed
  <2>2. ModeCount("session", e.mode) = Cardinality(live) + Cardinality(Coming(e.mode))
    BY DEF ModeCount, Coming
  <2>3. Cardinality(live) \in Nat /\ Cardinality(Coming(e.mode)) \in Nat
    <3>1. IsFiniteSet(1..MaxTrades)
      BY BoundsAssumption, FS_Interval
    <3>2. live \subseteq 1..MaxTrades /\ Coming(e.mode) \subseteq cycle["session"].approved
      BY DEF TypeOK, CycleType, Coming
    <3> QED BY <3>1, <3>2, FS_Subset, FS_CardinalityType DEF RoomLeft
  <2> QED BY <2>1, <2>2, <2>3, CapAssumption
<1>2. Standing(e.mode) \subseteq live
  BY DEF Standing, LiveSeen, OfM1
<1>3. IsFiniteSet(live) /\ IsFiniteSet(Coming(e.mode))
  <2>1. IsFiniteSet(1..MaxTrades)
    BY BoundsAssumption, FS_Interval
  <2>2. live \subseteq 1..MaxTrades /\ Coming(e.mode) \subseteq cycle["session"].approved
    BY DEF TypeOK, CycleType, Coming
  <2> QED BY <2>1, <2>2, FS_Subset DEF RoomLeft
<1>4. Cardinality(Standing(e.mode)) <= Cardinality(live)
  BY <1>2, <1>3, FS_Subset
<1>5. Cardinality(Coming(e.mode) \cup {e}) <= Cardinality(Coming(e.mode)) + 1
      /\ IsFiniteSet(Coming(e.mode) \cup {e})
  BY <1>3, OneMore
<1>6. /\ Cardinality(live) \in Nat /\ Cardinality(Coming(e.mode)) \in Nat
      /\ Cardinality(Coming(e.mode) \cup {e}) \in Nat /\ Cardinality(Standing(e.mode)) \in Nat
  BY <1>3, <1>5, StandingFinite, FS_CardinalityType
<1> HIDE DEF live
<1> QED BY <1>1, <1>4, <1>5, <1>6, CapAssumption

LEMMA RoomKept ==
  TypeOK /\ OfM1 /\ LiveSeen /\ RoomLeft /\ [Next]_vars => RoomLeft'
<1> SUFFICES ASSUME TypeOK, OfM1, LiveSeen, RoomLeft, [Next]_vars, "session" \in Threads
             PROVE  /\ IsFiniteSet(cycle'["session"].approved)
                    /\ \A m \in Modes \ {"M1"} : Capped(m) =>
                         Cardinality(Standing(m)') + Cardinality(Coming(m)') <= Cap
  BY CappedStays DEF RoomLeft
<1> DEFINE S == cycle["session"].approved
           S1 == cycle'["session"].approved
<1>0. IsFiniteSet(S)
  BY DEF RoomLeft
<1>1. \/ S1 \subseteq S
      \/ \E e \in Menu : /\ At("session", "weigh") /\ ~Suppressed("session", e)
                         /\ S1 = S \cup {e} /\ UNCHANGED trades
  <2>1. cycle["session"].todo \subseteq Menu
    BY DEF TypeOK, CycleType
  <2> QED BY <2>1, CycleSteps DEF Restarts, Collects, Looks, Weighs, Proceeds
<1>2. IsFiniteSet(S1)
  BY <1>0, <1>1, FS_Subset, FS_AddElement
<1>3. ASSUME NEW m \in Modes \ {"M1"}, Capped(m)
      PROVE  Cardinality(Standing(m)') + Cardinality(Coming(m)') <= Cap
  <2>0. IsFiniteSet(Standing(m)) /\ IsFiniteSet(Coming(m))
        /\ Cardinality(Standing(m)) + Cardinality(Coming(m)) <= Cap
    <3>1. Coming(m) \subseteq S
      BY DEF Coming
    <3> QED BY <1>0, <1>3, <3>1, StandingFinite, FS_Subset DEF RoomLeft
  <2>1. CASE \E t \in Threads, c \in Menu : Enter(t, c)
    BY <1>3, <2>1, RoomOfEntry
  <2>2. CASE Kept
    <3>1. Standing(m)' \subseteq Standing(m)
      BY <2>2 DEF Kept, Standing
    <3>2. CASE S1 \subseteq S
      <4>1. Coming(m)' \subseteq Coming(m)
        BY <3>2 DEF Coming
      <4> QED BY <2>0, <3>1, <4>1, Shrinks
    <3>3. ASSUME NEW e \in Menu, At("session", "weigh"), ~Suppressed("session", e), S1 = S \cup {e}
          PROVE  Cardinality(Standing(m)') + Cardinality(Coming(m)') <= Cap
      <4>1. CASE e.mode = m
        <5>1. Cardinality(Standing(m)) + Cardinality(Coming(m) \cup {e}) <= Cap
          BY <1>3, <3>3, <4>1, RoomOfApproval
        <5>2. Coming(m)' \subseteq Coming(m) \cup {e}
          BY <3>3 DEF Coming
        <5>3. IsFiniteSet(Coming(m) \cup {e})
          BY <2>0, FS_AddElement
        <5> QED BY <2>0, <3>1, <5>1, <5>2, <5>3, Shrinks
      <4>2. CASE e.mode # m
        <5>1. Coming(m)' \subseteq Coming(m)
          BY <3>3, <4>2 DEF Coming
        <5> QED BY <2>0, <3>1, <5>1, Shrinks
      <4> QED BY <4>1, <4>2
    <3> QED BY <1>1, <3>2, <3>3
  <2> QED BY <2>1, <2>2, TradeSteps
<1> QED BY <1>2, <1>3

LEMMA InitRoom == Init => RoomLeft
<1> SUFFICES ASSUME Init, "session" \in Threads PROVE RoomLeft
  BY DEF RoomLeft
<1>1. \A m : Standing(m) = {}
  BY DEF Init, Standing, Trades
<1>2. cycle["session"].approved = {}
  BY DEF Init, NoCycle
<1>3. \A m : Coming(m) = {}
  BY <1>2 DEF Coming
<1> QED BY <1>1, <1>2, <1>3, FS_EmptySet, CapAssumption DEF RoomLeft

\* A capped mode other than M1 stays within its cap, the trades aside that a
\* failed exit brought back: over any number of cycles, trades and crashes.
THEOREM CapIsKept == Spec => []CapKept
<1>1. Init => RoomLeft
  BY InitRoom
<1>2. TypeOK /\ OfM1 /\ LiveSeen /\ RoomLeft /\ [Next]_vars => RoomLeft'
  BY RoomKept
<1>3. TypeOK /\ OfM1 /\ RoomLeft => CapKept
  <2> SUFFICES ASSUME TypeOK, OfM1, RoomLeft, NEW m \in Modes \ {"M1"}, Capped(m)
               PROVE  Cardinality(Standing(m)) <= Cap
    <3>1. \A m \in Modes : {i \in Incumbents : trades[i].item.mode = m /\ ~trades[i].back} = Standing(m)
      BY DEF Incumbents, Standing, Bare
    <3> QED BY <3>1 DEF CapKept
  <2>1. CASE "session" \in Threads
    <3>1. Coming(m) \subseteq cycle["session"].approved
      BY DEF Coming
    <3>2. Cardinality(Coming(m)) \in Nat
      BY <2>1, <3>1, FS_Subset, FS_CardinalityType DEF RoomLeft
    <3>3. Cardinality(Standing(m)) + Cardinality(Coming(m)) <= Cap
      BY <2>1 DEF RoomLeft
    <3> QED BY <3>2, <3>3, StandingFinite, CapAssumption
  <2>2. CASE "session" \notin Threads
    <3>1. Standing(m) = {}
      BY <2>2, TradesFinite DEF Standing, OfM1, TradeType
    <3> QED BY <3>1, FS_EmptySet, CapAssumption
  <2> QED BY <2>1, <2>2
<1>4. Spec => []DuplicateInv
  <2>1. TypeOK /\ DuplicateInv /\ [Next]_vars => DuplicateInv'
    BY OfM1Kept, KeysApartKept, LiveSeenKept, NotYetOpenKept, EarlierKept DEF DuplicateInv
  <2> QED BY <2>1, InitDuplicates, TypeCorrect, PTL DEF Spec
<1>5. DuplicateInv => OfM1 /\ LiveSeen
  BY DEF DuplicateInv
<1> QED BY <1>1, <1>2, <1>3, <1>4, <1>5, TypeCorrect, PTL DEF Spec

-----------------------------------------------------------------------------

\* A trade without a row is lost, or its thread is about to write the row.
RowsWritten ==
  \A i \in Trades : trades[i].state = "LOST" \/ trades[i].written \/ At(trades[i].by, "write")

\* Candidates are gathered and weighed one cycle at a time.
Gathered ==
  \A t \in Threads : /\ At(t, "idle") => cycle[t].todo = {} /\ cycle[t].approved = {}
                     /\ At(t, "execute") \/ At(t, "write") => cycle[t].todo = {}
                     /\ At(t, "poll") \/ At(t, "event") => cycle[t].approved = {}

\* In DISCOVERY no candidate of a cycle is one that its thread entered today.
NewToday ==
  Discovery =>
    \A t \in Threads : \A c \in cycle[t].todo \cup cycle[t].approved : \A i \in Trades :
      trades[i].by = t /\ trades[i].day = day /\ trades[i].state # "LOST" => trades[i].item # c

DayInv == OfM1 /\ RowsWritten /\ Gathered /\ NewToday /\ OnceADay

\* A trade in place keeps its day, its row once written, and stays lost.
Aged ==
  /\ Trades' = Trades
  /\ \A i \in Trades : /\ trades'[i].item = trades[i].item /\ trades'[i].by = trades[i].by
                       /\ trades'[i].day = trades[i].day
                       /\ trades[i].written => trades'[i].written
                       /\ trades[i].state = "LOST" => trades'[i].state = "LOST"

LEMMA TradesAge ==
  ASSUME TypeOK, [Next]_vars
  PROVE  Aged \/ \E t \in Threads, c \in Menu : Enter(t, c)
<1>1. CASE trades' = trades
  BY <1>1 DEF Aged, Trades
<1>2. ASSUME NEW t \in Threads, WriteRow(t) PROVE Aged
  <2>1. \A i \in Trades : trades'[i] = [trades[i] EXCEPT !.written = @ \/ (trades[i].by = t /\ trades[i].state # "LOST")]
    BY <1>2 DEF WriteRow
  <2>2. \A i \in Trades : trades[i] \in TradeType
    BY TradesFinite
  <2>3. Trades' = Trades
    BY <1>2, InPlace
  <2> QED BY <2>1, <2>2, <2>3 DEF Aged, TradeType
<1>3. ASSUME NEW k \in Trades, ExitBegins(k) \/ ExitFills(k) \/ ExitFails(k) PROVE Aged
  <2>0. /\ DOMAIN trades = Trades /\ Trades' = Trades
        /\ \A i \in Trades : trades[i] \in TradeType
    BY <1>3, InPlace, TradesFinite DEF Trades
  <2>1. CASE ExitBegins(k)
    BY <2>0, <2>1 DEF ExitBegins, Becomes, Aged, TradeType
  <2>2. CASE ExitFills(k)
    BY <2>0, <2>2 DEF ExitFills, Becomes, Aged, TradeType
  <2>3. CASE ExitFails(k)
    <3>1. trades' = [trades EXCEPT ![k] = [trades[k] EXCEPT !.state = "OPEN", !.back = TRUE]]
      BY <2>0, <2>3 DEF ExitFails
    <3> QED BY <2>0, <2>3, <3>1 DEF ExitFails, Aged, TradeType
  <2> QED BY <1>3, <2>1, <2>2, <2>3
<1>4. ASSUME Crash PROVE Aged
  <2>1. \A i \in Trades : trades'[i] = IF trades[i].written THEN trades[i] ELSE [trades[i] EXCEPT !.state = "LOST"]
    BY <1>4 DEF Crash
  <2>2. Trades' = Trades /\ \A i \in Trades : trades[i] \in TradeType
    BY <1>4, InPlace, TradesFinite
  <2> QED BY <2>1, <2>2 DEF Aged, TradeType
<1>5. CASE \E t \in Threads, c \in Menu : Enter(t, c)
  BY <1>5
<1> QED BY <1>1, <1>2, <1>3, <1>4, <1>5 DEF Next, NextDay, vars, CycleStep, PollBegins, EventBegins,
                                            Evaluate, Look, Weigh, Arbitrated, Refuse, EndCycle

LEMMA RowsWrittenKept == TypeOK /\ RowsWritten /\ [Next]_vars => RowsWritten'
<1> SUFFICES ASSUME TypeOK, RowsWritten, [Next]_vars, NEW i \in Trades'
             PROVE  trades'[i].state = "LOST" \/ trades'[i].written \/ cycle'[trades'[i].by].pc = "write"
  BY DEF RowsWritten, At
<1>0. \A k \in Trades : trades[k] \in TradeType
  BY TradesFinite
<1>1. ASSUME NEW t \in Threads, NEW c \in Menu, Enter(t, c)
      PROVE  trades'[i].state = "LOST" \/ trades'[i].written \/ cycle'[trades'[i].by].pc = "write"
  <2>1. CASE i \in Trades
    <3>1. trades'[i] = trades[i] /\ trades[i].by \in Threads
      BY <1>0, <1>1, <2>1, Enters DEF TradeType
    <3> QED BY <1>1, <2>1, <3>1, Enters DEF RowsWritten, At
  <2>2. CASE i \notin Trades
    BY <1>1, <2>2, Enters
  <2> QED BY <2>1, <2>2
<1>2. ASSUME Aged, ~Crash, \A t \in Threads : ~WriteRow(t)
      PROVE  trades'[i].state = "LOST" \/ trades'[i].written \/ cycle'[trades'[i].by].pc = "write"
  <2>1. i \in Trades /\ trades'[i].by = trades[i].by /\ trades[i].by \in Threads
    BY <1>0, <1>2 DEF Aged, TradeType
  <2>2. CASE cycle[trades[i].by].pc = "write"
    <3> DEFINE t == trades[i].by
    <3>1. cycle'[t] = cycle[t] \/ CycleStep(t)
      <4>1. ASSUME NEW u \in Threads, CycleStep(u), u # t PROVE cycle'[t] = cycle[t]
        <5>1. \E r : Goes(u, r)
          BY <4>1, Zenon DEF CycleStep, PollBegins, EventBegins, Evaluate, Look, Weigh, Arbitrated,
                             Refuse, Enter, WriteRow, EndCycle
        <5> QED BY <2>1, <4>1, <5>1 DEF Goes, TypeOK
      <4> QED BY <1>2, <4>1 DEF Next, NextDay, ExitBegins, ExitFills, ExitFails, Undisturbed, vars
    <3>2. ~CycleStep(t)
      BY <1>2, <2>1, <2>2 DEF CycleStep, At, Executes, PollBegins, EventBegins, Evaluate, Look,
                              Weigh, Arbitrated, Refuse, Enter, EndCycle
    <3> QED BY <2>1, <2>2, <3>1, <3>2
  <2>3. CASE trades[i].state = "LOST" \/ trades[i].written
    BY <1>2, <2>1, <2>3 DEF Aged
  <2> QED BY <2>1, <2>2, <2>3 DEF RowsWritten, At
<1>3. ASSUME NEW t \in Threads, WriteRow(t)
      PROVE  trades'[i].state = "LOST" \/ trades'[i].written \/ cycle'[trades'[i].by].pc = "write"
  <2>1. Trades' = Trades
    BY <1>3, InPlace
  <2>2. trades'[i] = [trades[i] EXCEPT !.written = @ \/ (trades[i].by = t /\ trades[i].state # "LOST")]
    BY <1>3, <2>1 DEF WriteRow
  <2>3. /\ trades'[i].by = trades[i].by /\ trades'[i].state = trades[i].state
        /\ trades'[i].written <=> trades[i].written \/ (trades[i].by = t /\ trades[i].state # "LOST")
    BY <1>0, <2>1, <2>2 DEF TradeType
  <2>4. trades[i].by # t => cycle'[trades[i].by] = cycle[trades[i].by]
    BY <1>0, <1>3, <2>1 DEF WriteRow, Goes, TypeOK, TradeType
  <2> QED BY <2>1, <2>3, <2>4 DEF RowsWritten, At
<1>4. ASSUME Crash
      PROVE  trades'[i].state = "LOST" \/ trades'[i].written \/ cycle'[trades'[i].by].pc = "write"
  <2>1. Trades' = Trades
    BY <1>4, InPlace
  <2>2. trades'[i] = IF trades[i].written THEN trades[i] ELSE [trades[i] EXCEPT !.state = "LOST"]
    BY <1>4, <2>1 DEF Crash
  <2> QED BY <1>0, <2>1, <2>2 DEF TradeType
<1> QED BY <1>1, <1>2, <1>3, <1>4, TradesAge

LEMMA GatheredKept == TypeOK /\ Gathered /\ [Next]_vars => Gathered'
<1> SUFFICES ASSUME TypeOK, Gathered, [Next]_vars, NEW t \in Threads
             PROVE  /\ cycle'[t].pc = "idle" => cycle'[t].todo = {} /\ cycle'[t].approved = {}
                    /\ cycle'[t].pc \in {"execute", "write"} => cycle'[t].todo = {}
                    /\ cycle'[t].pc \in {"poll", "event"} => cycle'[t].approved = {}
  BY DEF Gathered, At
<1>1. CASE cycle'[t] = cycle[t]
  BY <1>1 DEF Gathered, At
<1>2. CASE Restarts(t) \/ Collects(t) \/ Looks(t) \/ Weighs(t)
  BY <1>2 DEF Restarts, Collects, Looks, Weighs
<1>3. CASE Proceeds(t)
  <2>1. cycle[t].todo = {}
    BY <1>3 DEF Proceeds, Gathered
  <2> QED BY <1>3, <2>1 DEF Proceeds
<1> QED BY <1>1, <1>2, <1>3, CycleSteps

\* The day passes between cycles only.
LEMMA DayStays ==
  ASSUME [Next]_vars, day' # day
  PROVE  cycle' = cycle /\ \A t \in Threads : At(t, "idle")
  BY DEF Next, vars, CycleStep, PollBegins, EventBegins, Evaluate, Look, Weigh, Arbitrated, Refuse,
         Enter, WriteRow, EndCycle, ExitBegins, ExitFills, ExitFails, Undisturbed, Crash, NextDay

LEMMA NewTodayKept ==
  TypeOK /\ RowsWritten /\ Gathered /\ NewToday /\ [Next]_vars => NewToday'
<1> SUFFICES ASSUME TypeOK, RowsWritten, Gathered, NewToday, [Next]_vars, Discovery,
                    NEW t \in Threads, NEW c \in cycle'[t].todo \cup cycle'[t].approved,
                    NEW i \in Trades', trades'[i].by = t, trades'[i].day = day', trades'[i].state # "LOST"
             PROVE  trades'[i].item # c
  BY ProfileStays DEF NewToday, Discovery
<1>1. day' = day
  BY DayStays DEF Gathered
<1>2. CASE c \in cycle[t].todo \cup cycle[t].approved
  <2>1. ASSUME i \in Trades, trades'[i].item = trades[i].item, trades[i].by = t,
               trades[i].day = day, trades[i].state # "LOST"
        PROVE  trades'[i].item # c
    BY <1>2, <2>1 DEF NewToday
  <2>2. CASE Aged
    BY <1>1, <2>1, <2>2 DEF Aged
  <2>3. ASSUME NEW u \in Threads, NEW e \in Menu, Enter(u, e)
        PROVE  trades'[i].item # c
    <3>1. CASE i \in Trades
      <4>1. trades'[i] = trades[i]
        BY <2>3, <3>1, Enters
      <4> QED BY <1>1, <2>1, <3>1, <4>1
    <3>2. CASE i \notin Trades
      <4>1. u = t /\ trades'[i].item = e
        BY <2>3, <3>2, Enters
      <4>2. cycle'[t].pc = "write" /\ cycle'[t].approved = cycle[t].approved \ {e}
        BY <2>3, <4>1, Enters
      <4>3. cycle'[t].todo = {}
        BY <4>2, GatheredKept DEF Gathered, At
      <4> QED BY <4>1, <4>2, <4>3
    <3> QED BY <3>1, <3>2
  <2> QED BY <2>2, <2>3, TradesAge
<1>3. CASE c \notin cycle[t].todo \cup cycle[t].approved
  <2>1. Collects(t)
    BY <1>3, CycleSteps DEF Restarts, Looks, Weighs, Proceeds
  <2>2. c \in cycle'[t].todo /\ ~EnteredToday(c) /\ ~At(t, "write")
    BY <1>3, <2>1 DEF Collects, At
  <2>3. i \in Trades /\ trades[i].written
    BY <2>1, <2>2 DEF Collects, RowsWritten, Trades
  <2> QED BY <2>1, <2>2, <2>3 DEF EnteredToday, Collects
<1> QED BY <1>2, <1>3

LEMMA OnceADayKept ==
  TypeOK /\ OfM1 /\ NewToday /\ OnceADay /\ [Next]_vars => OnceADay'
<1> SUFFICES ASSUME TypeOK, OfM1, NewToday, OnceADay, [Next]_vars, Discovery,
                    NEW i \in Trades', NEW j \in Trades', i < j,
                    trades'[i].item = trades'[j].item, trades'[i].day = trades'[j].day,
                    trades'[i].state # "LOST"
             PROVE  Beside(i, j)'
  BY ProfileStays DEF OnceADay, Discovery
<1>1. CASE Aged
  BY <1>1 DEF Aged, OnceADay, Beside
<1>2. ASSUME NEW t \in Threads, NEW c \in Menu, Enter(t, c)
      PROVE  Beside(i, j)'
  <2>0. Trades' = 1..(Len(trades) + 1) /\ Trades = 1..Len(trades) /\ Len(trades) \in Nat
    <3>1. Trades' = Trades \cup {Len(trades) + 1} /\ Trades = 1..Len(trades) /\ Len(trades) \in Nat
      BY <1>2, Enters
    <3>2. \A n \in Nat : (1..n) \cup {n + 1} = 1..(n + 1)
      OBVIOUS
    <3> QED BY <3>1, <3>2
  <2>1. i \in Trades /\ trades'[i] = trades[i]
    BY <1>2, <2>0, Enters
  <2>2. CASE j \in Trades
    <3>1. trades'[j] = trades[j]
      BY <1>2, <2>2, Enters
    <3> QED BY <2>1, <2>2, <3>1 DEF OnceADay, Beside
  <2>3. CASE j \notin Trades
    <3>1. j = Len(trades) + 1
      BY <2>0, <2>3
    <3>2. trades'[j].item = c /\ trades'[j].by = t /\ c \in cycle[t].approved
      BY <1>2, <3>1, Enters
    <3>3. trades'[j].day = day
      <4>1. trades'[j] = [item |-> c, day |-> day, state |-> "OPEN",
                          written |-> FALSE, by |-> t, back |-> FALSE]
        BY <1>2, <3>1, EnterTrade
      <4> QED BY <4>1
    <3>4. trades[i].by # t
      BY <2>1, <3>2, <3>3 DEF NewToday
    <3>5. trades[i].by # "session" => trades[i].item.mode = "M1"
      BY <2>1 DEF OfM1
    <3>6. t # "session" => c.mode = "M1"
      BY <3>2 DEF OfM1
    <3> QED BY <2>1, <3>2, <3>4, <3>5, <3>6 DEF Beside
  <2> QED BY <2>2, <2>3
<1> QED BY <1>1, <1>2, TradesAge

\* In DISCOVERY the same candidate is entered twice in a day only when the first
\* was lost in a crash before its row, or by the two threads side by side.
THEOREM EnteredOnceADay == Spec => []OnceADay
<1>1. Init => DayInv
  <2> SUFFICES ASSUME Init PROVE DayInv
    OBVIOUS
  <2>1. Trades = {}
    BY DEF Init, Trades
  <2>2. \A t \in Threads : cycle[t].todo = {} /\ cycle[t].approved = {} /\ cycle[t].pc = "idle"
    BY DEF Init, NoCycle
  <2> QED BY <2>1, <2>2 DEF DayInv, OfM1, RowsWritten, Gathered, NewToday, OnceADay, At
<1>2. TypeOK /\ DayInv /\ [Next]_vars => DayInv'
  BY OfM1Kept, RowsWrittenKept, GatheredKept, NewTodayKept, OnceADayKept DEF DayInv
<1>3. DayInv => OnceADay
  BY DEF DayInv
<1> QED BY <1>1, <1>2, <1>3, TypeCorrect, PTL DEF Spec
=============================================================================
