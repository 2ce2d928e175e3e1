------------------------- MODULE TradeExits_proofs -------------------------
(***************************************************************************)
(* Theorems about TradeExits, for any prices, template and confirmation,   *)
(* and about the components that are checked in one run with it: the       *)
(* evidence of an entry, the attempts of M1 and the feed.                  *)
(* TypeCorrect holds for any number of threads.  The other two about exits,*)
(* and the one about M1, assume that one thread manages the trades, as it  *)
(* does unless the protection thread runs: with two, an evaluation may     *)
(* replace a policy that it never saw, or an attempt the other recorded.   *)
(***************************************************************************)
EXTENDS MCServices, WellFoundedInduction, FiniteSetTheorems, TLAPS

USE TemplateAssumption, PricesAssumption

-----------------------------------------------------------------------------
\* What the rules return.

LEMMA BuiltType == Built \in Policies /\ NoWork \in [pc : {"idle", "apply", "write"}, policy : Policies, kind : Kinds]
  BY DEF Built, NoWork, Policies, Kinds

LEMMA QuoteType == \A q \in Quotes : q \in Int
  BY DEF Quotes

LEMMA KeptType == \A q \in Int : Kept(q) \in Int
  BY DEF Kept, Most

\* The shapes in which the price rules change a policy.
LEMMA PriceUpdates ==
  ASSUME NEW p \in Policies, NEW stop \in Int, NEW distance \in Nat \ {0}
  PROVE  /\ [p EXCEPT !.breakeven = TRUE, !.stop = stop, !.distance = distance] \in Policies
         /\ [p EXCEPT !.trailing = TRUE, !.stop = stop, !.distance = distance] \in Policies
<1>1. ASSUME NEW flag \in BOOLEAN
      PROVE  /\ [p EXCEPT !.breakeven = flag, !.stop = stop, !.distance = distance] \in Policies
             /\ [p EXCEPT !.trailing = flag, !.stop = stop, !.distance = distance] \in Policies
  BY DEF Policies
<1>2. TRUE \in BOOLEAN
  OBVIOUS
<1>3. QED
  BY <1>1, <1>2, Zenon

LEMMA ProtectsItself == \A p \in Policies : Protects(p, p)
<1> TAKE p \in Policies
<1>1. p.stop \in Int /\ p.distance \in Nat /\ (p.ptrail # None => p.ptrail \in Int)
  BY DEF Policies
<1>2. QED
  BY <1>1 DEF Protects

LEMMA ProtectsOn ==
  ASSUME NEW a \in Policies, NEW b \in Policies, NEW c \in Policies, Protects(b, a), Protects(c, b)
  PROVE  Protects(c, a)
<1>1. \A p \in {a, b, c} : p.stop \in Int /\ p.distance \in Nat /\ (p.ptrail # None => p.ptrail \in Int)
  BY DEF Policies
<1>2. QED
  BY <1>1 DEF Protects

\* The price rules keep the type of a policy and never take anything back.
LEMMA TightenedProtects ==
  ASSUME NEW p \in Policies, NEW q \in Int
  PROVE  Tightened(p, q) \in Policies /\ Protects(Tightened(p, q), p)
<1> DEFINE b == AtBreakEven(p, q)
<1>1. b \in Policies /\ Protects(b, p) /\ b.ptrail = p.ptrail
  <2>1. CASE ~p.breakeven /\ q >= BreakEven /\ 0 > p.stop
    <3>1. b = [p EXCEPT !.breakeven = TRUE, !.stop = 0, !.distance = 1]
      BY <2>1 DEF AtBreakEven
    <3>0. 0 \in Int /\ 1 \in Nat \ {0}
      OBVIOUS
    <3>2. \A stop \in Int, distance \in Nat \ {0} :
            [p EXCEPT !.breakeven = TRUE, !.stop = stop, !.distance = distance] \in Policies
      BY PriceUpdates
    <3>A. [p EXCEPT !.breakeven = TRUE, !.stop = 0, !.distance = 1] \in Policies
      BY <3>0, <3>2, Zenon
    <3>B. b \in Policies
      BY <3>1, <3>A, Zenon
    <3>3. /\ b.stop = 0 /\ b.distance = 1 /\ b.trailing = p.trailing
          /\ b.ptrail = p.ptrail /\ b.timed = p.timed
      BY <3>1 DEF Policies
    <3>4. p.distance \in Nat \ {0} /\ p.stop \in Int
      BY DEF Policies
    <3>5. p.ptrail # None => p.ptrail \in Int
      BY DEF Policies
    <3>6. QED
      BY <2>1, <3>B, <3>3, <3>4, <3>5 DEF Protects
  <2>2. CASE ~(~p.breakeven /\ q >= BreakEven /\ 0 > p.stop)
    BY <2>2, ProtectsItself DEF AtBreakEven
  <2>3. QED
    BY <2>1, <2>2
<1>2. CASE q >= Activation /\ q - TrailDistance > p.stop
  <2>1. Tightened(p, q) = [b EXCEPT !.trailing = TRUE, !.stop = q - TrailDistance,
                                    !.distance = Least(@, Most(TrailDistance - q, 1))]
    BY <1>2 DEF Tightened, Trailed
  <2>2. Least(b.distance, Most(TrailDistance - q, 1)) \in Nat \ {0}
    BY <1>1 DEF Least, Most, Policies
  <2>3. Least(b.distance, Most(TrailDistance - q, 1)) <= b.distance
    BY <1>1 DEF Least, Most, Policies
  <2>a. q - TrailDistance \in Int
    OBVIOUS
  <2> DEFINE d == Least(b.distance, Most(TrailDistance - q, 1))
  <2>b. \A stop \in Int, distance \in Nat \ {0} :
          [b EXCEPT !.trailing = TRUE, !.stop = stop, !.distance = distance] \in Policies
    BY <1>1, PriceUpdates
  <2>c. Tightened(p, q) = [b EXCEPT !.trailing = TRUE, !.stop = q - TrailDistance, !.distance = d]
    BY <2>1
  <2> HIDE DEF b, d
  <2>d. d \in Nat \ {0}
    BY <2>2 DEF d
  <2>4. Tightened(p, q) \in Policies
    BY <2>a, <2>b, <2>c, <2>d, Zenon
  <2>5. Tightened(p, q).distance <= p.distance
    BY <1>1, <2>1, <2>2, <2>3 DEF Policies, Protects
  <2>6. LET t == Tightened(p, q) IN
        t.stop = q - TrailDistance /\ t.trailing /\ t.ptrail = p.ptrail /\ t.timed = b.timed
    BY <1>1, <2>1 DEF Policies
  <2>7. p.stop \in Int /\ (p.ptrail # None => p.ptrail \in Int)
    BY DEF Policies
  <2>8. b.timed => p.timed
    BY <1>1 DEF Protects
  <2>9. QED
    BY <1>2, <2>4, <2>5, <2>6, <2>7, <2>8 DEF Protects
<1>3. CASE ~(q >= Activation /\ q - TrailDistance > p.stop)
  BY <1>1, <1>3 DEF Tightened, Trailed
<1>4. QED
  BY <1>2, <1>3

\* So do the rules of the P&L family.
LEMMA TrailedPnlProtects ==
  ASSUME NEW p \in Policies, NEW q \in Int
  PROVE  TrailedPnl(p, q) \in Policies /\ Protects(TrailedPnl(p, q), p)
<1>1. CASE q < Activation
  BY <1>1 DEF TrailedPnl, Protects, Policies
<1>2. CASE ~(q < Activation)
  <2> DEFINE best == IF p.best = None THEN q ELSE Most(p.best, q)
             kept == IF p.ptrail = None THEN Kept(best) ELSE Most(p.ptrail, Kept(best))
  <2>1. best \in Int
    BY DEF Most, Policies
  <2>2. Kept(best) \in Int
    BY <2>1, KeptType
  <2> HIDE DEF best
  <2>3. kept \in Int /\ (p.ptrail # None => kept >= p.ptrail)
    BY <2>2 DEF Most, Policies
  <2>4. TrailedPnl(p, q) = [p EXCEPT !.best = best, !.ptrail = kept]
    BY <1>2 DEF TrailedPnl, best
  <2> HIDE DEF kept
  <2>5. [p EXCEPT !.best = best, !.ptrail = kept] \in Policies
    BY <2>1, <2>3 DEF Policies
  <2>6. LET t == TrailedPnl(p, q) IN
        t.stop = p.stop /\ t.distance = p.distance /\ t.trailing = p.trailing /\ t.timed = p.timed /\ t.ptrail = kept
    BY <2>4 DEF Policies
  <2>7. kept # None /\ p.stop \in Int /\ p.distance \in Nat
    BY <2>3 DEF Policies
  <2>8. QED
    BY <2>3, <2>4, <2>5, <2>6, <2>7 DEF Protects
<1>3. QED
  BY <1>1, <1>2

LEMMA KindType ==
  ASSUME NEW p \in Policies, NEW q \in Int
  PROVE  PriceKind(p, q) \in Kinds /\ PnlKind(p, q) \in Kinds
  BY DEF PriceKind, PnlKind, Kinds

\* The confirmation counts and changes nothing else.
LEMMA CountedProtects ==
  ASSUME NEW p \in Policies, NEW k \in Kinds
  PROVE  /\ Counted(p, k) \in Policies
         /\ \A a \in Policies : Protects(p, a) => Protects(Counted(p, k), a)
<1>1. CASE k = "NONE"
  BY <1>1 DEF Counted, Policies, Protects, Kinds
<1>2. CASE k # "NONE"
  <2> DEFINE n == Least(IF p.pending = k THEN p.count + 1 ELSE 1, Required)
  <2>1. n \in Nat
    BY DEF Least, Policies
  <2>2. Counted(p, k) = [p EXCEPT !.count = n, !.pending = k]
    BY <1>2 DEF Counted
  <2> HIDE DEF n
  <2>3. QED
    BY <2>1, <2>2 DEF Policies, Protects
<1>3. QED
  BY <1>1, <1>2

\* An evaluation of a typed state is typed and protects what it started from.
LEMMA EvaluationProtects ==
  ASSUME TypeOK
  PROVE  /\ Evaluation.policy \in Policies /\ Evaluation.kind \in Kinds
         /\ Protects(Evaluation.policy, policy)
<1>0. policy \in Policies /\ quote \in Int
  BY QuoteType DEF TypeOK
<1>1. CASE family = "PRICE"
  BY <1>0, <1>1, TightenedProtects, KindType DEF Evaluation
<1>2. CASE family # "PRICE"
  <2> DEFINE p == TrailedPnl(policy, quote)
             k == PnlKind(p, quote)
             c == Counted(p, k)
  <2>1. p \in Policies /\ Protects(p, policy)
    BY <1>0, TrailedPnlProtects
  <2>2. k \in Kinds
    BY <1>0, <2>1, KindType
  <2>3. c \in Policies /\ Protects(c, policy)
    BY <1>0, <2>1, <2>2, CountedProtects
  <2>4. Evaluation = [policy |-> c, kind |-> IF k # "NONE" /\ c.count >= Required THEN k ELSE "NONE"]
    BY <1>2 DEF Evaluation
  <2> HIDE DEF p, k, c
  <2>5. QED
    BY <2>2, <2>3, <2>4 DEF Kinds
<1>3. QED
  BY <1>1, <1>2

-----------------------------------------------------------------------------
\* Types.

\* The states of TradeExits are of their types, for any number of threads.
THEOREM TypeCorrect == Spec => []TypeOK
<1>1. Init => TypeOK
  <2> SUFFICES ASSUME Init PROVE TypeOK
    OBVIOUS
  <2>1. thread \in [Threads -> [pc : {"idle", "apply", "write"}, policy : Policies, kind : Kinds]]
    BY BuiltType DEF Init
  <2>2. row \in [state : States, policy : Policies]
    BY BuiltType DEF Init, States
  <2>3. family \in {"PRICE", "PREMIUM"} /\ state \in States /\ policy \in Policies
    BY BuiltType DEF Init, States
  <2>4. quote \in Quotes /\ late \in BOOLEAN /\ seen \subseteq Quotes /\ cut \in BOOLEAN
    BY DEF Init
  <2>5. crashes \in 0..MaxCrashes
    BY DEF Init
  <2>6. QED
    BY <2>1, <2>2, <2>3, <2>4, <2>5 DEF TypeOK
<1>2. TypeOK /\ [Next]_vars => TypeOK'
  <2> SUFFICES ASSUME TypeOK, [Next]_vars PROVE TypeOK'
    OBVIOUS
  <2> USE DEF TypeOK
  <2> DEFINE Work == [pc : {"idle", "apply", "write"}, policy : Policies, kind : Kinds]
  <2>0. Evaluation.policy \in Policies /\ Evaluation.kind \in Kinds
    BY EvaluationProtects
  <2>1. ASSUME NEW p \in Threads, Takes(p, Evaluation) PROVE thread' \in [Threads -> Work]
    BY <2>0, <2>1 DEF Takes
  <2>2. ASSUME NEW p \in Threads, NEW pc \in {"apply", "write"}, thread' = [thread EXCEPT ![p].pc = pc]
        PROVE  thread' \in [Threads -> Work]
    <3>1. [thread[p] EXCEPT !.pc = pc] \in Work
      OBVIOUS
    <3>2. QED
      BY <2>2, <3>1
  <2>3. ASSUME NEW q \in Quotes, QuoteMoves(q) PROVE TypeOK'
    BY <2>3 DEF QuoteMoves
  <2>4. ASSUME TimeComes PROVE TypeOK'
    BY <2>4 DEF TimeComes
  <2>5. ASSUME Restart PROVE TypeOK'
    <3>1. thread' \in [Threads -> Work]
      BY <2>5, BuiltType DEF Restart
    <3>2. state' \in States /\ policy' \in Policies /\ crashes' \in 0..MaxCrashes
      BY <2>5 DEF Restart
    <3>3. cut' \in BOOLEAN
      BY <2>5 DEF Restart
    <3>4. QED
      BY <2>5, <3>1, <3>2, <3>3 DEF Restart
  <2>6. ASSUME NEW p \in Threads, Manage(p) PROVE TypeOK'
    <3>1. thread' \in [Threads -> Work]
      BY <2>1, <2>6 DEF Manage
    <3>2. seen' \subseteq Quotes
      BY <2>6 DEF Manage, Judged
    <3>3. QED
      BY <2>6, <3>1, <3>2 DEF Manage
  <2>7. ASSUME NEW p \in Threads, ReviewTrade(p) PROVE TypeOK'
    <3>1. thread' \in [Threads -> Work]
      BY <2>1, <2>7 DEF ReviewTrade
    <3>2. seen' \subseteq Quotes
      BY <2>7 DEF ReviewTrade, Judged
    <3>3. QED
      BY <2>7, <3>1, <3>2 DEF ReviewTrade
  <2>8. ASSUME NEW p \in Threads, Apply(p) PROVE TypeOK'
    <3>1. thread' \in [Threads -> Work]
      BY <2>2, <2>8 DEF Apply
    <3>2. policy' \in Policies
      BY <2>8 DEF Apply
    <3>3. state' \in States
      BY <2>8 DEF Apply, States
    <3>4. QED
      BY <2>8, <3>1, <3>2, <3>3 DEF Apply
  <2>9. ASSUME NEW p \in Threads, Carry(p) PROVE TypeOK'
    <3>1. thread' \in [Threads -> Work]
      BY <2>2, <2>9 DEF Carry
    <3>2. policy' \in Policies
      BY <2>9 DEF Carry, Policies
    <3>3. QED
      BY <2>9, <3>1, <3>2 DEF Carry
  <2>10. ASSUME NEW p \in Threads, Write(p) PROVE TypeOK'
    <3>1. thread' \in [Threads -> Work]
      BY <2>10, BuiltType DEF Write
    <3>2. QED
      BY <2>10, <3>1 DEF Write
  <2>11. ASSUME NEW p \in Threads, NEW answer \in {"OPEN", "CLOSED"}, ExitAnswered(p, answer)
         PROVE  TypeOK'
    <3>1. thread' \in [Threads -> Work]
      BY <2>2, <2>11 DEF ExitAnswered
    <3>2. QED
      BY <2>11, <3>1 DEF ExitAnswered, States
  <2>12. CASE UNCHANGED vars
    BY <2>12 DEF vars
  <2>13. QED
    BY <2>3, <2>4, <2>5, <2>6, <2>7, <2>8, <2>9, <2>10, <2>11, <2>12 DEF Next
<1>3. QED
  BY <1>1, <1>2, PTL DEF Spec

-----------------------------------------------------------------------------
\* One thread.

OneThread == \A p, q \in Threads : p = q

\* What memory owes to the row, where the one thread stands.
RowFollows ==
  \A p \in Threads :
    /\ thread[p].pc = "idle" => policy = row.policy
    /\ thread[p].pc = "apply" => policy = row.policy /\ Protects(thread[p].policy, policy)
    /\ thread[p].pc = "write" => Protects(policy, row.policy)

LEMMA InitRowFollows == Init => RowFollows
  BY DEF Init, RowFollows, NoWork

\* A step of one thread that leaves the others' places alone, by what it does.
LEMMA OneMoves ==
  ASSUME OneThread, TypeOK, NEW p \in Threads, NEW w,
         thread' = [thread EXCEPT ![p] = w]
  PROVE  thread'[p] = w /\ \A q \in Threads : thread'[q] = w
  BY DEF OneThread, TypeOK

MovesOn(p, pc) == thread' = [thread EXCEPT ![p].pc = pc]

LEMMA OneMovesOn ==
  ASSUME OneThread, TypeOK, NEW p \in Threads, NEW pc, MovesOn(p, pc)
  PROVE  \A q \in Threads : thread'[q].pc = pc /\ thread'[q].policy = thread[p].policy
<1>1. thread'[p] = [thread[p] EXCEPT !.pc = pc]
  BY DEF TypeOK, MovesOn
<1>2. thread'[p].pc = pc /\ thread'[p].policy = thread[p].policy
  BY <1>1 DEF TypeOK
<1>3. QED
  BY <1>2 DEF OneThread

\* Each step, by what it does to the two policies.
LEMMA RowFollowsStep ==
  ASSUME OneThread, TypeOK, TypeOK', RowFollows, [Next]_vars
  PROVE  /\ RowFollows'
         /\ Protects(row'.policy, row.policy)
         /\ crashes' = crashes => Protects(policy', policy)
<1> DEFINE Owed == /\ RowFollows'
                   /\ Protects(row'.policy, row.policy)
                   /\ crashes' = crashes => Protects(policy', policy)
<1>0. policy \in Policies /\ row.policy \in Policies
  BY DEF TypeOK
<1>a. Protects(policy, policy) /\ Protects(row.policy, row.policy)
  BY <1>0, ProtectsItself
<1>1. ASSUME UNCHANGED <<thread, policy, row>> PROVE Owed
  BY <1>1, <1>a DEF RowFollows
<1>2. ASSUME NEW p \in Threads, Takes(p, Evaluation), thread[p].pc = "idle",
             UNCHANGED <<policy, row>>
      PROVE  Owed
  <2>1. policy = row.policy
    BY <1>2 DEF RowFollows
  <2>2. \A q \in Threads : thread'[q].pc = "apply" /\ thread'[q].policy = Evaluation.policy
    <3> DEFINE w == [pc |-> "apply", policy |-> Evaluation.policy, kind |-> Evaluation.kind]
    <3>1. thread' = [thread EXCEPT ![p] = w]
      BY <1>2 DEF Takes
    <3> HIDE DEF w
    <3>2. \A q \in Threads : thread'[q] = w
      BY <3>1, OneMoves
    <3>3. QED
      BY <3>2 DEF w
  <2>3. Protects(Evaluation.policy, policy)
    BY EvaluationProtects
  <2>4. QED
    BY <1>2, <1>a, <2>1, <2>2, <2>3 DEF RowFollows
<1>3. ASSUME NEW p \in Threads, Manage(p) PROVE Owed
  BY <1>1, <1>2, <1>3 DEF Manage, Works
<1>4. ASSUME NEW p \in Threads, ReviewTrade(p) PROVE Owed
  BY <1>2, <1>4 DEF ReviewTrade, Works
<1>5. ASSUME NEW p \in Threads, Apply(p) PROVE Owed
  <2>1. policy = row.policy /\ Protects(thread[p].policy, policy)
    BY <1>5 DEF RowFollows, Apply, Works
  <2>2. \A q \in Threads : thread'[q].pc = "write"
    <3>1. MovesOn(p, "write")
      BY <1>5 DEF Apply, MovesOn
    <3>2. QED
      BY <3>1, OneMovesOn
  <2>3. policy' = thread[p].policy /\ row' = row
    BY <1>5 DEF Apply
  <2>4. QED
    BY <1>a, <2>1, <2>2, <2>3 DEF RowFollows
<1>6. ASSUME NEW p \in Threads, Carry(p) PROVE Owed
  <2>1. policy = row.policy
    BY <1>6 DEF RowFollows, Carry, Works
  <2>2. \A q \in Threads : thread'[q].pc = "write"
    <3>1. MovesOn(p, "write")
      BY <1>6 DEF Carry, MovesOn
    <3>2. QED
      BY <3>1, OneMovesOn
  <2>3. policy' = [policy EXCEPT !.timed = FALSE] /\ row' = row
    BY <1>6 DEF Carry
  <2>4. Protects(policy', policy)
    BY <1>a, <1>0, <2>3 DEF Protects, Policies
  <2>5. QED
    BY <1>a, <2>1, <2>2, <2>3, <2>4 DEF RowFollows
<1>7. ASSUME NEW p \in Threads, Write(p) PROVE Owed
  <2>1. Protects(policy, row.policy)
    BY <1>7 DEF RowFollows, Write, Works
  <2>2. \A q \in Threads : thread'[q] = NoWork
    <3>1. thread' = [thread EXCEPT ![p] = NoWork]
      BY <1>7 DEF Write
    <3>2. QED
      BY <3>1, OneMoves
  <2>3. policy' = policy /\ row'.policy = policy
    BY <1>7 DEF Write
  <2>4. QED
    BY <1>a, <2>1, <2>2, <2>3 DEF RowFollows, NoWork
<1>8. ASSUME NEW p \in Threads, NEW answer \in {"OPEN", "CLOSED"}, ExitAnswered(p, answer)
      PROVE  Owed
  <2>1. policy = row.policy
    BY <1>8 DEF RowFollows, ExitAnswered, Works
  <2>2. \A q \in Threads : thread'[q].pc = "write"
    <3>1. MovesOn(p, "write")
      BY <1>8 DEF ExitAnswered, MovesOn
    <3>2. QED
      BY <3>1, OneMovesOn
  <2>3. policy' = policy /\ row' = row
    BY <1>8 DEF ExitAnswered
  <2>4. QED
    BY <1>a, <2>1, <2>2, <2>3 DEF RowFollows
<1>9. ASSUME Restart PROVE Owed
  <2>1. policy' = row.policy /\ row' = row /\ crashes' # crashes
    BY <1>9 DEF Restart, TypeOK
  <2>2. \A q \in Threads : thread'[q].pc = "idle"
    BY <1>9 DEF Restart, NoWork
  <2>3. QED
    BY <1>a, <2>1, <2>2 DEF RowFollows
<1>10. ASSUME NEW q \in Quotes, QuoteMoves(q) PROVE Owed
  BY <1>1, <1>10 DEF QuoteMoves
<1>11. ASSUME TimeComes PROVE Owed
  BY <1>1, <1>11 DEF TimeComes
<1>12. ASSUME UNCHANGED vars PROVE Owed
  BY <1>1, <1>12 DEF vars
<1>13. QED
  <2> HIDE DEF Owed
  <2>1. Owed
    BY <1>3, <1>4, <1>5, <1>6, <1>7, <1>8, <1>9, <1>10, <1>11, <1>12 DEF Next
  <2>2. QED
    BY <2>1 DEF Owed

\* With one thread, no step takes back a stop, a trail or an approved carry:
\* not from the row, a restart included, and in memory only a restart does.
THEOREM StopsNeverLoosen ==
  ASSUME OneThread
  PROVE  Spec => NothingLoosens
<1>1. TypeOK /\ TypeOK' /\ RowFollows /\ [Next]_vars => RowFollows'
  BY RowFollowsStep
<1>2. TypeOK /\ TypeOK' /\ RowFollows /\ [Next]_vars =>
        [/\ Protects(row'.policy, row.policy)
         /\ crashes' = crashes => Protects(policy', policy)]_vars
  BY RowFollowsStep
<1>3. QED
  BY <1>1, <1>2, InitRowFollows, TypeCorrect, PTL DEF Spec, NothingLoosens

-----------------------------------------------------------------------------
\* The best stop.

\* The stops that the quotes of s call for.
CalledFor(s) ==
  {-StopDistance} \cup {0 : q \in {r \in s : r >= BreakEven}}
    \cup {q - TrailDistance : q \in {r \in s : r >= Activation}}

\* The stop of p is the best of them, and a break-even is never below the entry.
Best(p, s) ==
  /\ p.stop \in CalledFor(s) /\ \A v \in CalledFor(s) : p.stop >= v
  /\ p.breakeven => p.stop >= 0

LEMMA CalledForOneMore ==
  ASSUME NEW s, NEW q \in Int
  PROVE  CalledFor(s \cup {q}) =
           CalledFor(s) \cup (IF q >= BreakEven THEN {0} ELSE {})
                        \cup (IF q >= Activation THEN {q - TrailDistance} ELSE {})
<1>1. CASE q >= BreakEven /\ q >= Activation
  BY <1>1 DEF CalledFor
<1>2. CASE q >= BreakEven /\ ~(q >= Activation)
  BY <1>2 DEF CalledFor
<1>3. CASE ~(q >= BreakEven) /\ q >= Activation
  BY <1>3 DEF CalledFor
<1>4. CASE ~(q >= BreakEven) /\ ~(q >= Activation)
  BY <1>4 DEF CalledFor
<1>5. QED
  BY <1>1, <1>2, <1>3, <1>4

LEMMA CalledForType == \A s \in SUBSET Int : CalledFor(s) \subseteq Int
  BY DEF CalledFor

\* What the price rules do to the stop.
LEMMA TightenedStop ==
  ASSUME NEW p \in Policies, NEW q \in Int
  PROVE  LET t == Tightened(p, q) IN
         /\ q >= Activation /\ q - TrailDistance > p.stop => t.stop = q - TrailDistance
         /\ ~(q >= Activation /\ q - TrailDistance > p.stop) =>
              IF ~p.breakeven /\ q >= BreakEven /\ 0 > p.stop THEN t.stop = 0
              ELSE t.stop = p.stop /\ t.breakeven = p.breakeven
<1> DEFINE b == AtBreakEven(p, q)
<1>1. CASE ~p.breakeven /\ q >= BreakEven /\ 0 > p.stop
  <2>1. b.stop = 0 /\ b = [p EXCEPT !.breakeven = TRUE, !.stop = 0, !.distance = 1]
    BY <1>1 DEF AtBreakEven, Policies
  <2>2. CASE q >= Activation /\ q - TrailDistance > p.stop
    <3>1. Tightened(p, q) = [b EXCEPT !.trailing = TRUE, !.stop = q - TrailDistance,
                                      !.distance = Least(@, Most(TrailDistance - q, 1))]
      BY <2>2 DEF Tightened, Trailed
    <3>2. QED
      BY <2>1, <2>2, <3>1 DEF Policies
  <2>3. CASE ~(q >= Activation /\ q - TrailDistance > p.stop)
    BY <1>1, <2>1, <2>3 DEF Tightened, Trailed
  <2>4. QED
    BY <2>2, <2>3
<1>2. CASE ~(~p.breakeven /\ q >= BreakEven /\ 0 > p.stop)
  BY <1>2 DEF AtBreakEven, Tightened, Trailed, Policies
<1>3. QED
  BY <1>1, <1>2

LEMMA TightenedBest ==
  ASSUME NEW p \in Policies, NEW s \in SUBSET Int, NEW q \in Int, Best(p, s)
  PROVE  Best(Tightened(p, q), s \cup {q})
<1> DEFINE t == Tightened(p, q)
<1>1. p.stop \in Int /\ CalledFor(s) \subseteq Int
  BY CalledForType DEF Policies
<1>2. /\ q >= Activation /\ q - TrailDistance > p.stop => t.stop = q - TrailDistance
      /\ ~(q >= Activation /\ q - TrailDistance > p.stop) =>
           IF ~p.breakeven /\ q >= BreakEven /\ 0 > p.stop THEN t.stop = 0
           ELSE t.stop = p.stop /\ t.breakeven = p.breakeven
  BY TightenedStop
<1> HIDE DEF t
<1>3. CASE q >= Activation /\ q - TrailDistance > p.stop
  <2>1. t.stop = q - TrailDistance /\ t.stop >= 0
    BY <1>2, <1>3, TrailLocksIn
  <2>2. \A v \in CalledFor(s \cup {q}) : t.stop >= v
    BY <1>1, <1>3, <2>1, CalledForOneMore DEF Best
  <2>3. QED
    BY <1>3, <2>1, <2>2, CalledForOneMore DEF Best, t
<1>4. CASE ~(q >= Activation /\ q - TrailDistance > p.stop)
  <2>1. CASE ~p.breakeven /\ q >= BreakEven /\ 0 > p.stop
    <3>1. t.stop = 0
      BY <1>2, <1>4, <2>1
    <3>2. \A v \in CalledFor(s \cup {q}) : t.stop >= v
      BY <1>1, <1>4, <2>1, <3>1, CalledForOneMore DEF Best
    <3>3. QED
      BY <2>1, <3>1, <3>2, CalledForOneMore DEF Best, t
  <2>2. CASE ~(~p.breakeven /\ q >= BreakEven /\ 0 > p.stop)
    <3>1. t.stop = p.stop /\ t.breakeven = p.breakeven
      BY <1>2, <1>4, <2>2
    <3>2. \A v \in CalledFor(s \cup {q}) : t.stop >= v
      BY <1>1, <1>4, <2>2, <3>1, CalledForOneMore DEF Best
    <3>3. QED
      BY <3>1, <3>2, CalledForOneMore DEF Best, t
  <2>3. QED
    BY <2>1, <2>2
<1>5. QED
  BY <1>3, <1>4

\* Of a trade of one leg that no crash has cut: the policy of an evaluation in
\* hand, or else the one in memory, has the best stop.
StopIsBest ==
  family = "PRICE" /\ ~cut =>
    \A p \in Threads :
      IF thread[p].pc = "apply" THEN Best(thread[p].policy, seen) ELSE Best(policy, seen)

LEMMA StopIsBestStep ==
  ASSUME OneThread, TypeOK, RowFollows, StopIsBest, [Next]_vars
  PROVE  StopIsBest'
<1> SUFFICES ASSUME family = "PRICE", ~cut'
             PROVE  \A p \in Threads : IF thread'[p].pc = "apply" THEN Best(thread'[p].policy, seen')
                                       ELSE Best(policy', seen')
  <2>1. family' = family
    BY DEF Next, vars, QuoteMoves, TimeComes, Restart, Manage, ReviewTrade, Apply, Carry, Write, ExitAnswered
  <2>2. QED
    BY <2>1 DEF StopIsBest
<1> DEFINE Owed == \A p \in Threads : IF thread'[p].pc = "apply" THEN Best(thread'[p].policy, seen')
                                      ELSE Best(policy', seen')
<1>0. ~cut
  BY DEF Next, vars, QuoteMoves, TimeComes, Restart, Manage, ReviewTrade, Apply, Carry, Write, ExitAnswered
<1>a. \A p \in Threads : IF thread[p].pc = "apply" THEN Best(thread[p].policy, seen) ELSE Best(policy, seen)
  BY <1>0 DEF StopIsBest
<1>b. policy \in Policies /\ quote \in Int /\ seen \in SUBSET Int
  BY QuoteType DEF TypeOK
<1>c. Evaluation.policy = Tightened(policy, quote)
  BY DEF Evaluation
<1>d. ASSUME NEW p \in Threads, thread[p].pc = "idle"
      PROVE  Best(Evaluation.policy, seen \cup {quote})
  BY <1>a, <1>b, <1>c, <1>d, TightenedBest
<1>1. ASSUME UNCHANGED <<thread, policy, seen>> PROVE Owed
  BY <1>1, <1>a
<1>2. ASSUME NEW p \in Threads, Takes(p, Evaluation), thread[p].pc = "idle", Judged
      PROVE  Owed
  <2> DEFINE w == [pc |-> "apply", policy |-> Evaluation.policy, kind |-> Evaluation.kind]
  <2>1. thread' = [thread EXCEPT ![p] = w]
    BY <1>2 DEF Takes
  <2>2. w.pc = "apply" /\ w.policy = Evaluation.policy
    OBVIOUS
  <2> HIDE DEF w
  <2>3. \A q \in Threads : thread'[q] = w
    BY <2>1, OneMoves
  <2>4. QED
    BY <1>2, <1>d, <2>2, <2>3 DEF Judged
<1>3. ASSUME NEW p \in Threads, Manage(p) PROVE Owed
  <2>1. CASE Takes(p, Evaluation)
    BY <1>2, <1>3, <2>1 DEF Manage, Works
  <2>2. CASE Evaluation.policy = policy /\ UNCHANGED thread
    <3>1. \A q \in Threads : thread'[q].pc # "apply"
      BY <1>3, <2>2 DEF Manage, Works, OneThread
    <3>2. Best(policy', seen')
      BY <1>3, <1>d, <2>2 DEF Manage, Works, Judged
    <3>3. QED
      BY <3>1, <3>2
  <2>3. QED
    BY <1>3, <2>1, <2>2 DEF Manage
<1>4. ASSUME NEW p \in Threads, ReviewTrade(p) PROVE Owed
  BY <1>2, <1>4 DEF ReviewTrade, Works
<1>5. ASSUME NEW p \in Threads, MovesOn(p, "write"), Best(policy', seen')
      PROVE  Owed
  <2>1. \A q \in Threads : thread'[q].pc = "write"
    BY <1>5, OneMovesOn
  <2>2. QED
    BY <1>5, <2>1
<1>6. ASSUME NEW p \in Threads, Apply(p) PROVE Owed
  <2>1. Best(policy', seen')
    BY <1>6, <1>a DEF Apply, Works
  <2>2. MovesOn(p, "write")
    BY <1>6 DEF Apply, MovesOn
  <2>3. QED
    BY <1>5, <2>2, <2>1
<1>7. ASSUME NEW p \in Threads, Carry(p) PROVE Owed
  <2>1. Best(policy, seen)
    BY <1>7, <1>a DEF Carry, Works
  <2>2. policy' = [policy EXCEPT !.timed = FALSE] /\ seen' = seen
    BY <1>7 DEF Carry
  <2>3. policy'.stop = policy.stop /\ policy'.breakeven = policy.breakeven
    BY <1>b, <2>2 DEF Policies
  <2>4. Best(policy', seen')
    BY <2>1, <2>2, <2>3 DEF Best
  <2>5. MovesOn(p, "write")
    BY <1>7 DEF Carry, MovesOn
  <2>6. QED
    BY <1>5, <2>5, <2>4
<1>8. ASSUME NEW p \in Threads, Write(p) PROVE Owed
  <2>1. \A q \in Threads : thread'[q] = NoWork
    <3>1. thread' = [thread EXCEPT ![p] = NoWork]
      BY <1>8 DEF Write
    <3>2. QED
      BY <3>1, OneMoves
  <2>2. Best(policy', seen')
    BY <1>8, <1>a DEF Write, Works
  <2>3. QED
    BY <2>1, <2>2 DEF NoWork
<1>9. ASSUME NEW p \in Threads, NEW answer \in {"OPEN", "CLOSED"}, ExitAnswered(p, answer)
      PROVE  Owed
  <2>1. Best(policy', seen')
    BY <1>9, <1>a DEF ExitAnswered, Works
  <2>2. MovesOn(p, "write")
    BY <1>9 DEF ExitAnswered, MovesOn
  <2>3. QED
    BY <1>5, <2>2, <2>1
<1>10. ASSUME Restart PROVE Owed
  <2>1. \A q \in Threads : thread[q].pc = "idle"
    BY <1>10 DEF Restart, Works
  <2>2. \A q \in Threads : Best(policy, seen) /\ policy = row.policy
    BY <1>a, <2>1 DEF RowFollows
  <2>3. \A q \in Threads : thread'[q] = NoWork
    BY <1>10 DEF Restart
  <2>4. policy' = row.policy /\ seen' = seen
    BY <1>10 DEF Restart
  <2>5. QED
    BY <2>2, <2>3, <2>4 DEF NoWork
<1>11. ASSUME NEW q \in Quotes, QuoteMoves(q) PROVE Owed
  BY <1>1, <1>11 DEF QuoteMoves
<1>12. ASSUME TimeComes PROVE Owed
  BY <1>1, <1>12 DEF TimeComes
<1>13. ASSUME UNCHANGED vars PROVE Owed
  BY <1>1, <1>13 DEF vars
<1>14. QED
  <2> HIDE DEF Owed
  <2>1. Owed
    BY <1>3, <1>4, <1>6, <1>7, <1>8, <1>9, <1>10, <1>11, <1>12, <1>13 DEF Next
  <2>2. QED
    BY <2>1 DEF Owed

\* With one thread, the stop of a leg is the one that the best quote ever judged
\* calls for: the trail and the break-even never lose it, and neither does a
\* restart from the row, unless the process died between an evaluation and its record.
THEOREM StopIsTheBest ==
  ASSUME OneThread
  PROVE  Spec => []BestStop
<1>1. Init => StopIsBest
  <2>1. CalledFor({}) = {-StopDistance}
    BY DEF CalledFor
  <2>2. Built.stop = -StopDistance /\ Built.breakeven = FALSE
    BY DEF Built
  <2>3. Best(Built, {})
    BY <2>1, <2>2 DEF Best
  <2>4. QED
    BY <2>3 DEF Init, StopIsBest, NoWork
<1>2. TypeOK /\ RowFollows /\ StopIsBest /\ [Next]_vars => StopIsBest'
  BY StopIsBestStep
<1>3. TypeOK /\ TypeOK' /\ RowFollows /\ [Next]_vars => RowFollows'
  BY RowFollowsStep
<1>4. StopIsBest => BestStop
  BY PricesAssumption DEF StopIsBest, BestStop, Best, CalledFor
<1>5. QED
  BY <1>1, <1>2, <1>3, <1>4, InitRowFollows, TypeCorrect, PTL DEF Spec

-----------------------------------------------------------------------------
\* The evidence of an entry.

USE EvidenceAssumption

\* A nonempty set of naturals has a least member.
LEMMA LeastOne ==
  ASSUME NEW S \in SUBSET Nat, S # {}
  PROVE  \E k \in S : \A j \in S : k <= j
<1>1. PICK k \in S : \A j \in S : ~(<<j, k>> \in OpToRel(<, Nat))
  BY WFMin, NatLessThanWellFounded
<1>2. \A j \in S : ~(j < k)
  BY <1>1 DEF OpToRel
<1> QED
  BY <1>2

\* FirstWrong finds something wrong if there is something, and nothing else.
LEMMA FirstWrongFinds ==
  ASSUME NEW reasons, DOMAIN reasons \subseteq Nat
  PROVE  /\ E!FirstWrong(reasons) = "OK" => \A i \in DOMAIN reasons : reasons[i] = "OK"
         /\ E!FirstWrong(reasons) # "OK" => \E i \in DOMAIN reasons : E!FirstWrong(reasons) = reasons[i]
<1> DEFINE wrong == {i \in DOMAIN reasons : reasons[i] # "OK"}
           first == CHOOSE i \in wrong : \A j \in wrong : i <= j
<1>1. wrong # {} => first \in wrong
  <2>1. wrong # {} => \E i \in wrong : \A j \in wrong : i <= j
    BY LeastOne
  <2> QED
    BY <2>1
<1>2. E!FirstWrong(reasons) = IF wrong = {} THEN "OK" ELSE reasons[first]
  BY DEF E!FirstWrong
<1> QED
  BY <1>1, <1>2

-----------------------------------------------------------------------------
\* What the checks say of a leg.

\* A leg whose quote is there, fit, known and of its age at a time.
LegFit(leg, at) ==
  /\ leg.last = "ok" /\ leg.bid = "ok" /\ leg.ask = "ok" /\ ~leg.wide
  /\ leg.quality \notin {"STALE", "INVALID"} /\ leg.known
  /\ leg.event <= at
  /\ at - (IF E!Discovery THEN leg.calc ELSE leg.event) <= E!MaxAge

\* The evidence of a request that the gateway approved at a time.
Fit(at) ==
  /\ \A i \in DOMAIN eRequest.legs : LegFit(eRequest.legs[i], at)
  /\ eShadow \subseteq {"DATA_STALE"} => \A i \in DOMAIN eRequest.legs : eRequest.legs[i].live
  /\ ~E!Discovery => /\ \A i \in DOMAIN eRequest.legs : eRequest.legs[i].oi = "ok"
                     /\ eRequest.event.given /\ eRequest.event.calm
  /\ eRequest.event.given => eRequest.event.valid /\ at < eRequest.event.expires

EvidenceInv ==
  /\ eRequest \in Requests /\ eClock \in Int /\ eDecided \in Int
  /\ eDecided <= eClock
  /\ eStage \in {"approved", "planned"} => Fit(eDecided)
  /\ eStage = "planned" => eClock < eDecided + DecisionTtl

LEMMA Numbered ==
  ASSUME eRequest \in Requests, eClock \in Int
  PROVE  /\ DOMAIN eRequest.legs \subseteq Nat
         /\ \A i \in DOMAIN eRequest.legs : eRequest.legs[i].event \in Int /\ eRequest.legs[i].calc \in Int
         /\ E!MaxAge \in Nat
BY DEF E!MaxAge

LEMMA AgesRight ==
  ASSUME eRequest \in Requests, eClock \in Int
  PROVE  /\ E!FirstWrong(E!Ages) \in {"OK", "SNAPSHOT_MISMATCH", "DATA_STALE"}
         /\ E!FirstWrong(E!Ages) = "OK" =>
              \A i \in DOMAIN eRequest.legs :
                /\ eClock - (IF E!Discovery THEN eRequest.legs[i].calc ELSE eRequest.legs[i].event) <= E!MaxAge
<1> USE Numbered
<1>1. DOMAIN E!Ages = DOMAIN eRequest.legs /\ \A i \in DOMAIN eRequest.legs : E!Ages[i] = E!Aged(eRequest.legs[i])
  BY DEF E!Ages, E!Legs
<1>2. \A i \in DOMAIN eRequest.legs :
        /\ E!Aged(eRequest.legs[i]) \in {"OK", "SNAPSHOT_MISMATCH", "DATA_STALE"}
        /\ E!Aged(eRequest.legs[i]) = "OK" =>
             eClock - (IF E!Discovery THEN eRequest.legs[i].calc ELSE eRequest.legs[i].event) <= E!MaxAge
  BY DEF E!Aged, E!Age
<1> QED
  BY <1>1, <1>2, FirstWrongFinds

LEMMA UnfitRight ==
  ASSUME eRequest \in Requests, eClock \in Int
  PROVE  LET unfit == E!FirstWrong([i \in DOMAIN eRequest.legs |-> E!Unfit(eRequest.legs[i])]) IN
         /\ unfit \in {"OK", "SNAPSHOT_MISMATCH", "DATA_STALE"}
         /\ unfit = "OK" => \A i \in DOMAIN eRequest.legs :
              /\ eRequest.legs[i].event <= eClock
              /\ eRequest.legs[i].quality \notin {"STALE", "INVALID"}
<1> DEFINE reasons == [i \in DOMAIN eRequest.legs |-> E!Unfit(eRequest.legs[i])]
<1> USE Numbered
<1>1. DOMAIN reasons = DOMAIN eRequest.legs /\ \A i \in DOMAIN eRequest.legs : reasons[i] = E!Unfit(eRequest.legs[i])
  OBVIOUS
<1>2. \A i \in DOMAIN eRequest.legs :
        /\ E!Unfit(eRequest.legs[i]) \in {"OK", "SNAPSHOT_MISMATCH", "DATA_STALE"}
        /\ E!Unfit(eRequest.legs[i]) = "OK" =>
             eRequest.legs[i].event <= eClock /\ eRequest.legs[i].quality \notin {"STALE", "INVALID"}
  BY DEF E!Unfit
<1> HIDE DEF reasons
<1>3. /\ E!FirstWrong(reasons) \in {"OK", "SNAPSHOT_MISMATCH", "DATA_STALE"}
      /\ E!FirstWrong(reasons) = "OK" => \A i \in DOMAIN eRequest.legs :
              /\ eRequest.legs[i].event <= eClock
              /\ eRequest.legs[i].quality \notin {"STALE", "INVALID"}
  BY <1>1, <1>2, FirstWrongFinds
<1> QED
  BY <1>3 DEF reasons

\* The data contract: what it lets pass is there and fresh, and an event that is given is valid.
LEMMA ContractKeeps ==
  ASSUME eRequest \in Requests, eClock \in Int, E!P0Ok(E!Assessment)
  PROVE  /\ \A i \in DOMAIN eRequest.legs :
              LET leg == eRequest.legs[i] IN
              /\ leg.last = "ok" /\ leg.bid = "ok" /\ leg.ask = "ok" /\ leg.known
              /\ leg.quality \notin {"STALE", "INVALID"} /\ leg.event <= eClock
              /\ eClock - (IF E!Discovery THEN leg.calc ELSE leg.event) <= E!MaxAge
         /\ eRequest.event.given => eRequest.event.valid /\ eClock < eRequest.event.expires
<1> DEFINE Passes(reason) == reason = "OK" \/ E!Soft(reason)
<1>1. /\ Passes(E!Last) /\ Passes(E!BidAsk) /\ Passes(E!Freshness) /\ Passes(E!Metadata) /\ Passes(E!EventState)
  <2>1. \A reason \in {E!Last, E!BidAsk, E!Freshness, E!Metadata, E!EventState} :
          \E field \in DOMAIN E!Assessment : E!Assessment[field] = reason
    BY DEF E!Assessment
  <2>2. \A field \in DOMAIN E!Assessment : Passes(E!Assessment[field])
    BY DEF E!P0Ok, E!Failures
  <2> QED
    BY <2>1, <2>2
<1>2. \A reason \in {"PRICE_UNAVAILABLE", "SNAPSHOT_MISMATCH", "DATA_STALE", "INSTRUMENT_UNKNOWN", "DATA_INVALID"} :
        ~Passes(reason)
  BY DEF E!Soft
<1> HIDE DEF Passes
<1>3. /\ \A i \in DOMAIN eRequest.legs : eRequest.legs[i].last = "ok"
      /\ E!FirstWrong(E!Ages) = "OK"
  BY <1>1, <1>2, AgesRight DEF E!Last, E!Legs
<1>4. \A i \in DOMAIN eRequest.legs : eRequest.legs[i].bid = "ok" /\ eRequest.legs[i].ask = "ok"
  BY <1>1, <1>2 DEF E!BidAsk, E!Legs
<1>5. \A i \in DOMAIN eRequest.legs :
        eRequest.legs[i].event <= eClock /\ eRequest.legs[i].quality \notin {"STALE", "INVALID"}
  BY <1>1, <1>2, UnfitRight DEF E!Freshness, E!Legs
<1>6. \A i \in DOMAIN eRequest.legs : eRequest.legs[i].known
  BY <1>1, <1>2 DEF E!Metadata, E!Legs
<1>7. eRequest.event.given => eRequest.event.valid /\ eClock < eRequest.event.expires
  <2> SUFFICES ASSUME eRequest.event.given
               PROVE  eRequest.event.valid /\ eClock < eRequest.event.expires
    OBVIOUS
  <2>1. eRequest.event.valid
    <3>1. ASSUME ~eRequest.event.valid PROVE E!EventState = "DATA_INVALID"
      BY <3>1 DEF E!EventState
    <3> QED
      BY <1>1, <1>2, <3>1
  <2>2. eClock >= eRequest.event.asOf
    <3>1. ASSUME eClock < eRequest.event.asOf PROVE E!EventState = "SNAPSHOT_MISMATCH"
      BY <2>1, <3>1 DEF E!EventState
    <3> QED
      BY <1>1, <1>2, <3>1
  <2>3. E!EventState = IF eClock >= eRequest.event.expires \/ eClock - eRequest.event.asOf > EventAge
                         THEN "DATA_STALE" ELSE "OK"
    BY <2>1, <2>2 DEF E!EventState
  <2> QED
    BY <1>1, <1>2, <2>1, <2>3
<1> QED
  BY <1>3, <1>4, <1>5, <1>6, <1>7, AgesRight

\* The gates of the gateway.
LEMMA GatesKeep ==
  ASSUME eRequest \in Requests, eClock \in Int, \A i \in DOMAIN E!Gates : E!Gates[i] = "OK"
  PROVE  /\ \A i \in DOMAIN eRequest.legs : ~eRequest.legs[i].wide
         /\ ~E!Soft(E!Constraint) => /\ \A i \in DOMAIN eRequest.legs : eRequest.legs[i].live /\ eRequest.legs[i].oi = "ok"
                                     /\ eRequest.event.given /\ eRequest.event.calm
         /\ E!Soft(E!Constraint) => E!Constraint # "DATA_STALE" /\ E!Discovery
<1> USE Numbered
<1>1. E!FirstWrong([i \in DOMAIN eRequest.legs |-> E!Spread(eRequest.legs[i])]) = "OK"
  <2>1. 4 \in DOMAIN E!Gates /\ E!Gates[4] = E!FirstWrong([i \in DOMAIN eRequest.legs |-> E!Spread(eRequest.legs[i])])
    BY DEF E!Gates, E!Legs
  <2> QED
    BY <2>1
<1>2. E!Soft(E!Constraint) \/ E!Constraint = "OK"
  <2>1. 3 \in DOMAIN E!Gates /\ E!Gates[3] = IF E!Soft(E!Constraint) THEN "OK" ELSE E!Constraint
    BY DEF E!Gates
  <2> QED
    BY <2>1
<1>3. \A i \in DOMAIN eRequest.legs : ~eRequest.legs[i].wide
  <2> DEFINE reasons == [i \in DOMAIN eRequest.legs |-> E!Spread(eRequest.legs[i])]
  <2>1. DOMAIN reasons = DOMAIN eRequest.legs /\ \A i \in DOMAIN eRequest.legs : reasons[i] = E!Spread(eRequest.legs[i])
    OBVIOUS
  <2>2. E!FirstWrong(reasons) = "OK"
    BY <1>1
  <2> HIDE DEF reasons
  <2>3. \A i \in DOMAIN eRequest.legs : E!Spread(eRequest.legs[i]) = "OK"
    BY <2>1, <2>2, FirstWrongFinds
  <2>4. ASSUME NEW leg, E!Spread(leg) = "OK" PROVE ~leg.wide
    BY <2>4 DEF E!Spread
  <2> QED
    BY <2>3, <2>4
<1>4. ASSUME E!Constraint = "OK"
      PROVE  /\ \A i \in DOMAIN eRequest.legs : eRequest.legs[i].live /\ eRequest.legs[i].oi = "ok"
             /\ eRequest.event.given /\ eRequest.event.calm
  <2> DEFINE expiring(leg) == IF ~leg.live THEN "CONTRACT_EXPIRED"
                              ELSE IF leg.oi # "ok" THEN "DEPTH_INSUFFICIENT" ELSE "OK"
             reasons == [i \in DOMAIN eRequest.legs |-> expiring(eRequest.legs[i])]
  <2>1. DOMAIN reasons = DOMAIN eRequest.legs /\ \A i \in DOMAIN eRequest.legs : reasons[i] = expiring(eRequest.legs[i])
    OBVIOUS
  <2>2. /\ E!FirstWrong(reasons) = "OK"
        /\ eRequest.event.given /\ eRequest.event.calm
    BY <1>4 DEF E!Constraint, E!Legs
  <2> HIDE DEF reasons
  <2>3. \A i \in DOMAIN eRequest.legs : expiring(eRequest.legs[i]) = "OK"
    BY <2>1, <2>2, FirstWrongFinds
  <2> QED
    BY <2>2, <2>3
<1>5. ~E!Soft("OK") /\ ~E!Soft("DATA_STALE")
  BY DEF E!Soft
<1>6. E!Soft(E!Constraint) => E!Discovery
  BY DEF E!Soft
<1> QED
  BY <1>2, <1>3, <1>4, <1>5, <1>6

LEMMA EvidenceStarts == Start => EvidenceInv
  BY DEF Start, E!Init, EvidenceInv

LEMMA EvidenceStays ==
  ASSUME EvidenceInv, [Exits \/ Evidence \/ M1 \/ FeedPart]_all
  PROVE  EvidenceInv'
<1> USE DEF EvidenceInv
<1>1. CASE UNCHANGED evidence
  <2>1. UNCHANGED <<eRequest, eClock, eStage, eCreated, eDecided, eShadow>>
    BY <1>1 DEF evidence
  <2> QED
    BY <2>1 DEF Fit, LegFit, E!Discovery, E!MaxAge
<1>2. CASE E!Screen \/ E!Propose
  BY <1>2 DEF E!Screen, E!Propose
<1>3. CASE E!Pass
  <2>1. UNCHANGED <<eRequest, eStage, eCreated, eDecided, eShadow>> /\ eClock' = eClock + 1 /\ eStage # "planned"
    BY <1>3 DEF E!Pass
  <2>2. Fit(eDecided)' <=> Fit(eDecided)
    BY <2>1 DEF Fit, LegFit, E!Discovery, E!MaxAge
  <2> QED
    BY <2>1, <2>2
<1>4. CASE E!Plan
  <2>1. UNCHANGED <<eRequest, eClock, eCreated, eDecided, eShadow>> /\ eStage = "approved"
    BY <1>4 DEF E!Plan
  <2>2. Fit(eDecided)' <=> Fit(eDecided)
    BY <2>1 DEF Fit, LegFit, E!Discovery, E!MaxAge
  <2>3. eStage' = "planned" => eClock < eDecided + DecisionTtl
    BY <1>4 DEF E!Plan
  <2> QED
    BY <2>1, <2>2, <2>3
<1>5. CASE E!Judge
  <2>1. UNCHANGED <<eRequest, eClock, eCreated>> /\ eDecided' = eClock /\ eStage' \in {"approved", "rejected"}
    BY <1>5 DEF E!Judge
  <2>2. ASSUME eStage' = "approved" PROVE Fit(eDecided)'
    <3>1. /\ \A i \in DOMAIN E!Gates : E!Gates[i] = "OK"
          /\ E!P0Ok(E!Assessment)
          /\ eShadow' = eShadow \cup (IF E!Soft(E!Constraint) THEN {E!Constraint} ELSE {}) \cup E!P0Shadow(E!Assessment)
      BY <1>5, <2>2 DEF E!Judge
    <3>2. eShadow' \subseteq {"DATA_STALE"} => ~E!Soft(E!Constraint)
      BY <3>1, GatesKeep
    <3>3. ~E!Discovery => ~E!Soft(E!Constraint)
      BY <3>1, GatesKeep
    <3>4. \A i \in DOMAIN eRequest.legs : LegFit(eRequest.legs[i], eClock)
      BY <3>1, GatesKeep, ContractKeeps DEF LegFit
    <3> DEFINE after == eShadow'
    <3>5. /\ after \subseteq {"DATA_STALE"} => \A i \in DOMAIN eRequest.legs : eRequest.legs[i].live
          /\ ~E!Discovery => /\ \A i \in DOMAIN eRequest.legs : eRequest.legs[i].oi = "ok"
                             /\ eRequest.event.given /\ eRequest.event.calm
          /\ eRequest.event.given => eRequest.event.valid /\ eClock < eRequest.event.expires
      BY <3>1, <3>2, <3>3, GatesKeep, ContractKeeps
    <3>6. \A i \in DOMAIN eRequest.legs : LegFit(eRequest.legs[i], eClock)' <=> LegFit(eRequest.legs[i], eClock)
      BY <2>1 DEF LegFit, E!Discovery, E!MaxAge
    <3> QED
      BY <2>1, <3>4, <3>5 DEF Fit, LegFit, E!Discovery, E!MaxAge
  <2> QED
    BY <2>1, <2>2
<1>6. Evidence => E!Screen \/ E!Propose \/ E!Pass \/ E!Plan \/ E!Judge
  BY DEF Evidence, E!Next
<1> QED
  BY <1>1, <1>2, <1>3, <1>4, <1>5, <1>6 DEF Exits, M1, FeedPart, all

LEMMA EvidenceIsHeld == EvidenceInv => EntryDataHeld
<1> SUFFICES ASSUME EvidenceInv, eStage = "planned" PROVE EntryDataHeld
  BY DEF EntryDataHeld, E!EntryDataHeld
<1> USE DEF EvidenceInv
<1>1. Fit(eDecided) /\ eClock < eDecided + DecisionTtl
  OBVIOUS
<1>2. ASSUME NEW i \in DOMAIN eRequest.legs, NEW leg, leg = eRequest.legs[i]
      PROVE  /\ {leg.last, leg.bid, leg.ask} = {"ok"} /\ ~leg.wide
             /\ leg.quality \notin {"STALE", "INVALID"} /\ leg.known
             /\ eShadow \subseteq {"DATA_STALE"} => leg.live
             /\ leg.event <= eClock
             /\ eClock - (IF E!Discovery THEN leg.calc ELSE leg.event) < E!MaxAge + DecisionTtl
             /\ ~E!Discovery => leg.oi = "ok" /\ eRequest.event.given /\ eRequest.event.calm
             /\ eRequest.event.given => eRequest.event.valid /\ eDecided < eRequest.event.expires
  <2>1. LegFit(leg, eDecided)
    BY <1>1, <1>2 DEF Fit
  <2>2. leg.event \in Int /\ leg.calc \in Int /\ E!MaxAge \in Nat
    BY <1>2, Numbered
  <2>3. leg.event <= eClock /\ eClock - (IF E!Discovery THEN leg.calc ELSE leg.event) < E!MaxAge + DecisionTtl
    BY <1>1, <2>1, <2>2 DEF LegFit
  <2>4. {leg.last, leg.bid, leg.ask} = {"ok"} /\ ~leg.wide /\ leg.quality \notin {"STALE", "INVALID"} /\ leg.known
    BY <2>1 DEF LegFit
  <2> QED
    BY <1>1, <1>2, <2>3, <2>4 DEF Fit
<1> QED
  BY <1>2 DEF EntryDataHeld, E!EntryDataHeld, E!Legs

\* An entry goes out only within the age that its decision allowed, on legs that
\* were quoted, fit and known when it was decided (assess_paper_data and the
\* checks after it): for any legs, ages and times between the checks.
THEOREM EvidenceHeld == Services => []EntryDataHeld
<1>1. Services => []EvidenceInv
  BY EvidenceStarts, EvidenceStays, PTL DEF Services
<1> QED
  BY <1>1, EvidenceIsHeld, PTL

USE AttemptsAssumption

-----------------------------------------------------------------------------
\* The attempts of M1.

M1Stages == {"idle", "build", "slots", "read", "truncate", "write", "finally", "polled"}

Working == {"slots", "read", "truncate", "write"}

Spending == {"read", "truncate", "write"}

Submitted == {None} \cup [fresh : BOOLEAN, observed : BOOLEAN]

Works1 == [pc : M1Stages, via : {"poll", "event"}, event : Submitted, scene : Scenes \cup {M!Blank}, slot : Nat,
           copy : [M!Families -> Nat], requests : SUBSET M!Families]

M1Types ==
  /\ mLedger \in [torn : BOOLEAN, count : [M!Families -> Nat]]
  /\ mRuns \in [M!Families -> Nat] /\ mInRun \in Nat
  /\ mAttempts \in Nat /\ mAttempts <= MaxAttempts
  /\ mHolder \in [event : Submitted, keep : BOOLEAN]
  /\ mWork \in [Threads -> Works1]

\* A request that the runner has not been given yet.
Owed(w, f) == IF w.pc \in Working /\ f \in w.requests THEN 1 ELSE 0

\* Every request has its attempt in the file, also the one under way.
Recorded(w) ==
  \A f \in M!Families :
    /\ mRuns[f] + Owed(w, f) <= mLedger.count[f]
    /\ ~M!Discovery => mLedger.count[f] <= RetryLimit

\* The slots are gone through in their order, each once, and only for an event.
SlotInHand(w) ==
  /\ w.pc \in Working => w.slot # 0 /\ \A i \in 1..2 : M!Slots[i] \in w.requests => i < w.slot
  /\ w.pc \in Spending => /\ w.slot \in 1..2 /\ w.via = "event"
                          /\ ~M!Discovery => mLedger.count[M!Slots[w.slot]] < RetryLimit
  /\ w.pc \in {"truncate", "write"} => w.copy = mLedger.count
  /\ w.pc = "build" => w.requests = {}

\* What the process gave and is about to give has been counted.
CountedFirst(w) ==
  mInRun + (IF w.pc \in Working THEN Cardinality(w.requests) ELSE 0) + (IF w.pc \in Spending THEN 1 ELSE 0) <= mAttempts

\* A poll's build sees no event.
PollSeesNone(w) ==
  /\ w.pc = "idle" \/ w.via = "poll" => ~mHolder.keep
  /\ w.pc = "polled" => w.via = "poll"
  /\ w.via = "poll" => /\ w.requests = {}
                       /\ w.pc = "build" => mHolder.event = None
                       /\ w.pc \in Working => w.event = None

M1Inv ==
  /\ M1Types
  /\ Recorded(mWork[Reviewer]) /\ SlotInHand(mWork[Reviewer])
  /\ CountedFirst(mWork[Reviewer]) /\ PollSeesNone(mWork[Reviewer])

LEMMA SameCardinality == \A S : M!Cardinality(S) = Cardinality(S)
  BY DEF M!Cardinality, Cardinality, M!IsFiniteSet, IsFiniteSet

LEMMA RequestsCounted ==
  \A S \in SUBSET M!Families : /\ Cardinality(S) \in Nat /\ Cardinality({}) = 0
                               /\ \A f \in M!Families \ S : Cardinality(S \cup {f}) = Cardinality(S) + 1
<1>1. IsFiniteSet(M!Families)
  <2>1. IsFiniteSet({} \cup {"long_call"})
    BY FS_EmptySet, FS_AddElement
  <2>2. IsFiniteSet(({} \cup {"long_call"}) \cup {"long_put"})
    BY <2>1, FS_AddElement
  <2>3. M!Families = ({} \cup {"long_call"}) \cup {"long_put"}
    BY DEF M!Families
  <2> QED
    BY <2>2, <2>3
<1>2. \A S \in SUBSET M!Families : IsFiniteSet(S)
  BY <1>1, FS_Subset
<1> QED
  BY <1>2, FS_CardinalityType, FS_AddElement, FS_EmptySet

LEMMA BlankWork == M!NoWork \in Works1 /\ M!Unused \in [M!Families -> Nat]
  BY DEF M!NoWork, M!Unused, Works1, M1Stages, Submitted

\* The thread's work when it goes on to another stage.
LEMMA WorkGoes ==
  ASSUME OneThread, mWork \in [Threads -> Works1], NEW pc \in M1Stages, NEW v,
         v = [mWork[Reviewer] EXCEPT !.pc = pc], mWork' = [mWork EXCEPT ![Reviewer].pc = pc]
  PROVE  /\ mWork' \in [Threads -> Works1] /\ mWork'[Reviewer] = v /\ v \in Works1
         /\ v.pc = pc /\ v.via = mWork[Reviewer].via /\ v.event = mWork[Reviewer].event
         /\ v.slot = mWork[Reviewer].slot /\ v.copy = mWork[Reviewer].copy /\ v.requests = mWork[Reviewer].requests
  BY DEF OneThread, Works1

LEMMA WorkBecomes ==
  ASSUME OneThread, mWork \in [Threads -> Works1], NEW v \in Works1, mWork' = [mWork EXCEPT ![Reviewer] = v]
  PROVE  mWork' \in [Threads -> Works1] /\ mWork'[Reviewer] = v
  BY DEF OneThread

LEMMA M1Starts == Start => M1Inv
<1> SUFFICES ASSUME Start PROVE M1Inv
  OBVIOUS
<1>1. M!Init
  BY DEF Start
<1>2. Reviewer \in Threads
  BY PricesAssumption
<1>3. M1Types
  BY <1>1, BlankWork DEF M!Init, M1Types, Submitted
<1>4. mWork[Reviewer] = M!NoWork
  BY <1>1, <1>2 DEF M!Init
<1>5. M!NoWork.pc = "idle" /\ M!NoWork.requests = {} /\ M!NoWork.via = "poll"
  BY DEF M!NoWork
<1>6. mRuns = M!Unused /\ mLedger.count = M!Unused /\ mInRun = 0 /\ mAttempts = 0 /\ ~mHolder.keep
  BY <1>1 DEF M!Init
<1>7. \A f \in M!Families : M!Unused[f] = 0
  BY DEF M!Unused
<1> QED
  BY <1>3, <1>4, <1>5, <1>6, <1>7 DEF M1Inv, Recorded, SlotInHand, CountedFirst, PollSeesNone, Owed, Working, Spending

\* Steps in which the requests, the file and the counts stay, and the thread goes to a stage
\* that asks no more of them.
LEMMA M1Quiet ==
  ASSUME OneThread, M1Inv, NEW pc \in M1Stages, mWork' = [mWork EXCEPT ![Reviewer].pc = pc],
         UNCHANGED <<mProfile, mHolder, mAttempts, mLedger, mRuns, mInRun>>,
         pc \notin Working, pc \in {"idle", "polled"} => mWork[Reviewer].via = "poll",
         pc # "build"
  PROVE  M1Inv'
<1> DEFINE w == mWork[Reviewer]
<1>0. PICK v : v = [w EXCEPT !.pc = pc]
  OBVIOUS
<1>1. M1Types
  BY DEF M1Inv
<1>2. /\ mWork' \in [Threads -> Works1] /\ mWork'[Reviewer] = v /\ v \in Works1
      /\ v.pc = pc /\ v.via = w.via /\ v.requests = w.requests
  BY <1>0, <1>1, WorkGoes DEF M1Types
<1>3. w \in Works1
  BY <1>1 DEF M1Types
<1>4. M1Types'
  BY <1>1, <1>2 DEF M1Types
<1>5. Recorded(v)'
  <2>1. \A f \in M!Families : Owed(v, f) = 0 /\ Owed(w, f) \in {0, 1}
    BY <1>2 DEF Owed
  <2> QED
    BY <1>1, <2>1 DEF M1Inv, Recorded, M!Discovery, M1Types, Owed
<1>6. SlotInHand(v)' /\ PollSeesNone(v)'
  BY <1>2 DEF SlotInHand, PollSeesNone, Working, Spending, M1Inv
<1>7. CountedFirst(v)'
  <2>1. Cardinality(w.requests) \in Nat
    BY <1>3, RequestsCounted DEF Works1
  <2> QED
    BY <1>1, <1>2, <2>1 DEF CountedFirst, M1Inv, M1Types, Working, Spending
<1> QED
  BY <1>2, <1>4, <1>5, <1>6, <1>7 DEF M1Inv

\* A build begins, or the process is killed: nothing is under way.
LEMMA M1Fresh ==
  ASSUME OneThread, M1Inv, NEW v \in Works1, mWork' = [mWork EXCEPT ![Reviewer] = v],
         v.requests = {}, v.pc \in {"idle", "build"},
         UNCHANGED <<mProfile, mLedger, mRuns>>, mAttempts' \in Nat, mInRun' \in Nat,
         mAttempts' <= MaxAttempts, mInRun' <= mAttempts',
         mHolder' \in [event : Submitted, keep : BOOLEAN],
         v.pc = "idle" \/ v.via = "poll" => ~mHolder'.keep,
         v.via = "poll" /\ v.pc = "build" => mHolder'.event = None
  PROVE  M1Inv'
<1> DEFINE w == mWork[Reviewer]
<1>1. M1Types
  BY DEF M1Inv
<1>2. mWork' \in [Threads -> Works1] /\ mWork'[Reviewer] = v
  BY <1>1, WorkBecomes DEF M1Types
<1>4. M1Types'
  BY <1>1, <1>2 DEF M1Types
<1>5. Recorded(v)'
  <2>1. \A f \in M!Families : Owed(v, f) = 0 /\ Owed(w, f) \in {0, 1}
    BY DEF Owed
  <2> QED
    BY <1>1, <2>1 DEF M1Inv, Recorded, M!Discovery, M1Types, Owed
<1>6. SlotInHand(v)' /\ PollSeesNone(v)'
  BY DEF SlotInHand, PollSeesNone, Working, Spending
<1>7. CountedFirst(v)'
  BY DEF CountedFirst, Working, Spending
<1> QED
  BY <1>2, <1>4, <1>5, <1>6, <1>7 DEF M1Inv

\* The build takes the event that the holder then has.
LEMMA M1Builds ==
  ASSUME OneThread, M1Inv, NEW scene \in Scenes, M!Build(Reviewer, scene)
  PROVE  M1Inv'
<1> DEFINE w == mWork[Reviewer]
<1>0. PICK v : v = [w EXCEPT !.pc = "slots", !.scene = scene, !.event = mHolder.event, !.slot = 1]
  OBVIOUS
<1>1. M1Types /\ w \in Works1
  BY PricesAssumption DEF M1Inv, M1Types
<1>2. w.pc = "build" /\ w.requests = {}
  BY DEF M!Build, M!At, M1Inv, SlotInHand
<1>3. /\ v \in Works1 /\ v.pc = "slots" /\ v.requests = {} /\ v.via = w.via /\ v.event = mHolder.event /\ v.slot = 1
  BY <1>0, <1>1, <1>2 DEF Works1, M1Types, M1Stages
<1>4. mWork' = [mWork EXCEPT ![Reviewer] = v]
  BY <1>0 DEF M!Build
<1>5. mWork' \in [Threads -> Works1] /\ mWork'[Reviewer] = v
  BY <1>1, <1>3, <1>4, WorkBecomes DEF M1Types
<1>6. UNCHANGED <<mProfile, mHolder, mAttempts, mLedger, mRuns, mInRun>>
  BY DEF M!Build
<1>7. Recorded(v)'
  <2>1. \A f \in M!Families : Owed(v, f) = 0 /\ Owed(w, f) \in {0, 1}
    BY <1>3 DEF Owed
  <2> QED
    BY <1>1, <1>6, <2>1 DEF M1Inv, Recorded, M!Discovery, M1Types, Owed
<1>8. SlotInHand(v)' /\ PollSeesNone(v)'
  BY <1>2, <1>3, <1>6 DEF SlotInHand, PollSeesNone, Working, Spending, M1Inv
<1>9. CountedFirst(v)'
  BY <1>1, <1>2, <1>3, <1>6, RequestsCounted DEF CountedFirst, M1Inv, M1Types, Working, Spending
<1> QED
  BY <1>1, <1>5, <1>6, <1>7, <1>8, <1>9 DEF M1Inv, M1Types

\* A slot that does not execute is passed.
LEMMA M1Passes ==
  ASSUME OneThread, M1Inv, mWork[Reviewer].pc = "slots", mWork' = [mWork EXCEPT ![Reviewer].slot = @ + 1],
         UNCHANGED <<mProfile, mHolder, mAttempts, mLedger, mRuns, mInRun>>
  PROVE  M1Inv'
<1> DEFINE w == mWork[Reviewer]
<1>0. PICK v : v = [w EXCEPT !.slot = w.slot + 1]
  OBVIOUS
<1>1. M1Types /\ w \in Works1
  BY PricesAssumption DEF M1Inv, M1Types
<1>3. /\ v \in Works1 /\ v.pc = "slots" /\ v.requests = w.requests /\ v.via = w.via /\ v.event = w.event /\ v.slot = w.slot + 1
  BY <1>0, <1>1 DEF Works1
<1>4. mWork' = [mWork EXCEPT ![Reviewer] = v]
  BY <1>0, <1>1 DEF M1Types
<1>5. mWork' \in [Threads -> Works1] /\ mWork'[Reviewer] = v
  BY <1>1, <1>3, <1>4, WorkBecomes DEF M1Types
<1>7. Recorded(v)'
  <2>1. \A f \in M!Families : Owed(v, f) = Owed(w, f)
    BY <1>3 DEF Owed
  <2> QED
    BY <1>1, <2>1 DEF M1Inv, Recorded, M!Discovery, Owed
<1>8. SlotInHand(v)' /\ PollSeesNone(v)'
  <2>1. w.slot \in Nat
    BY <1>1 DEF Works1
  <2> QED
    BY <1>3, <2>1 DEF SlotInHand, PollSeesNone, Working, Spending, M1Inv
<1>9. CountedFirst(v)'
  BY <1>3 DEF CountedFirst, M1Inv, Working, Spending
<1> QED
  BY <1>1, <1>5, <1>7, <1>8, <1>9 DEF M1Inv, M1Types

\* An attempt is counted, of a slot that has one left.
LEMMA M1Executes ==
  ASSUME OneThread, M1Inv, mWork[Reviewer].pc = "slots", mWork[Reviewer].slot \in 1..2,
         M!Executes(mWork[Reviewer].event, mWork[Reviewer].scene, M!Slots[mWork[Reviewer].slot]),
         mWork' = [mWork EXCEPT ![Reviewer].pc = "read"], mAttempts' = mAttempts + 1,
         UNCHANGED <<mProfile, mHolder, mLedger, mRuns, mInRun>>
  PROVE  M1Inv'
<1> DEFINE w == mWork[Reviewer]
<1>0. PICK v : v = [w EXCEPT !.pc = "read"]
  OBVIOUS
<1>1. M1Types /\ w \in Works1
  BY PricesAssumption DEF M1Inv, M1Types
<1>2. "read" \in M1Stages
  BY DEF M1Stages
<1>3. /\ mWork' \in [Threads -> Works1] /\ mWork'[Reviewer] = v /\ v \in Works1
      /\ v.pc = "read" /\ v.via = w.via /\ v.requests = w.requests /\ v.slot = w.slot /\ v.event = w.event
  BY <1>0, <1>1, <1>2, WorkGoes DEF M1Types
<1>4. w.event # None /\ (M!Discovery \/ mLedger.count[M!Slots[w.slot]] < RetryLimit) /\ mAttempts < MaxAttempts
  <2>1. w.event # None /\ (M!Discovery \/ ~M!Spent(M!Slots[w.slot])) /\ mAttempts < MaxAttempts
    BY DEF M!Executes
  <2>2. mLedger.count[M!Slots[w.slot]] \in Nat
    BY <1>1 DEF M1Types, M!Slots, M!Families
  <2> QED
    BY <2>1, <2>2 DEF M!Spent
<1>5. w.via = "event"
  BY <1>1, <1>4 DEF M1Inv, PollSeesNone, Working, Works1
<1>6. M1Types'
  BY <1>1, <1>3, <1>4 DEF M1Types
<1>7. Recorded(v)'
  <2>1. \A f \in M!Families : Owed(v, f) = Owed(w, f)
    BY <1>3 DEF Owed, Working
  <2> QED
    BY <1>1, <2>1 DEF M1Inv, Recorded, M!Discovery, Owed
<1>8. SlotInHand(v)'
  BY <1>3, <1>4, <1>5 DEF SlotInHand, Working, Spending, M1Inv, M!Discovery
<1>9. PollSeesNone(v)'
  BY <1>3, <1>5 DEF PollSeesNone, M1Inv
<1>10. CountedFirst(v)'
  <2>1. Cardinality(w.requests) \in Nat
    BY <1>1, RequestsCounted DEF Works1
  <2> QED
    BY <1>1, <1>3, <2>1 DEF CountedFirst, M1Inv, M1Types, Working, Spending
<1> QED
  BY <1>3, <1>6, <1>7, <1>8, <1>9, <1>10 DEF M1Inv

\* The file is read.
LEMMA M1Reads ==
  ASSUME OneThread, M1Inv, mWork[Reviewer].pc = "read",
         mWork' = [mWork EXCEPT ![Reviewer] = [@ EXCEPT !.pc = "truncate", !.copy = mLedger.count]],
         UNCHANGED <<mProfile, mHolder, mAttempts, mLedger, mRuns, mInRun>>
  PROVE  M1Inv'
<1> DEFINE w == mWork[Reviewer]
<1>0. PICK v : v = [w EXCEPT !.pc = "truncate", !.copy = mLedger.count]
  OBVIOUS
<1>1. M1Types /\ w \in Works1
  BY PricesAssumption DEF M1Inv, M1Types
<1>3. /\ v \in Works1 /\ v.pc = "truncate" /\ v.requests = w.requests /\ v.via = w.via /\ v.event = w.event
      /\ v.slot = w.slot /\ v.copy = mLedger.count
  BY <1>0, <1>1 DEF Works1, M1Types, M1Stages
<1>4. mWork' = [mWork EXCEPT ![Reviewer] = v]
  BY <1>0, <1>1 DEF M1Types
<1>5. mWork' \in [Threads -> Works1] /\ mWork'[Reviewer] = v
  BY <1>1, <1>3, <1>4, WorkBecomes DEF M1Types
<1>7. Recorded(v)'
  <2>1. \A f \in M!Families : Owed(v, f) = Owed(w, f)
    BY <1>3 DEF Owed, Working
  <2> QED
    BY <1>1, <2>1 DEF M1Inv, Recorded, M!Discovery, Owed
<1>8. SlotInHand(v)' /\ PollSeesNone(v)'
  BY <1>3 DEF SlotInHand, PollSeesNone, Working, Spending, M1Inv, M!Discovery
<1>9. CountedFirst(v)'
  BY <1>3 DEF CountedFirst, M1Inv, Working, Spending
<1> QED
  BY <1>1, <1>5, <1>7, <1>8, <1>9 DEF M1Inv, M1Types

\* The file is emptied, its counts not forgotten.
LEMMA M1Truncates ==
  ASSUME OneThread, M1Inv, mWork[Reviewer].pc = "truncate",
         mWork' = [mWork EXCEPT ![Reviewer].pc = "write"], mLedger' = [mLedger EXCEPT !.torn = TRUE],
         UNCHANGED <<mProfile, mHolder, mAttempts, mRuns, mInRun>>
  PROVE  M1Inv'
<1> DEFINE w == mWork[Reviewer]
<1>0. PICK v : v = [w EXCEPT !.pc = "write"]
  OBVIOUS
<1>1. M1Types /\ w \in Works1
  BY PricesAssumption DEF M1Inv, M1Types
<1>2. "write" \in M1Stages
  BY DEF M1Stages
<1>3. /\ mWork' \in [Threads -> Works1] /\ mWork'[Reviewer] = v /\ v \in Works1
      /\ v.pc = "write" /\ v.via = w.via /\ v.requests = w.requests /\ v.slot = w.slot /\ v.event = w.event
      /\ v.copy = w.copy
  BY <1>0, <1>1, <1>2, WorkGoes DEF M1Types
<1>4. mLedger' \in [torn : BOOLEAN, count : [M!Families -> Nat]] /\ mLedger'.count = mLedger.count
  <2>1. \A b \in BOOLEAN : /\ [mLedger EXCEPT !.torn = b] \in [torn : BOOLEAN, count : [M!Families -> Nat]]
                            /\ [mLedger EXCEPT !.torn = b].count = mLedger.count
    BY <1>1 DEF M1Types
  <2>2. TRUE \in BOOLEAN
    OBVIOUS
  <2> QED
    BY <2>1, <2>2, Zenon
<1>7. Recorded(v)'
  <2>1. \A f \in M!Families : Owed(v, f) = Owed(w, f)
    BY <1>3 DEF Owed, Working
  <2> QED
    BY <1>1, <1>4, <2>1 DEF M1Inv, Recorded, M!Discovery, Owed
<1>8. SlotInHand(v)' /\ PollSeesNone(v)'
  BY <1>3, <1>4 DEF SlotInHand, PollSeesNone, Working, Spending, M1Inv, M!Discovery
<1>9. CountedFirst(v)'
  BY <1>3 DEF CountedFirst, M1Inv, Working, Spending
<1> QED
  BY <1>1, <1>3, <1>4, <1>7, <1>8, <1>9 DEF M1Inv, M1Types

\* The attempt is recorded, and the request is one of those to be given.
LEMMA M1Writes ==
  ASSUME OneThread, M1Inv, M!WriteLedger(Reviewer)
  PROVE  M1Inv'
<1> DEFINE w == mWork[Reviewer]
           f0 == M!Slots[w.slot]
<1>0. PICK v : v = [w EXCEPT !.pc = "slots", !.slot = w.slot + 1, !.copy = M!Unused, !.requests = w.requests \cup {f0}]
  OBVIOUS
<1>1. M1Types /\ w \in Works1
  BY PricesAssumption DEF M1Inv, M1Types
<1>2. /\ w.pc = "write" /\ w.slot \in 1..2 /\ w.via = "event" /\ w.copy = mLedger.count
      /\ ~M!Discovery => mLedger.count[f0] < RetryLimit
      /\ f0 \in M!Families /\ f0 \notin w.requests
  <2>1. w.pc = "write"
    BY DEF M!WriteLedger, M!At
  <2>2. w.slot \in 1..2
    BY <2>1 DEF M1Inv, SlotInHand, Spending
  <2>3. f0 \in M!Families
    BY <2>2 DEF M!Slots, M!Families
  <2>4. f0 \notin w.requests
    BY <2>1, <2>2 DEF M1Inv, SlotInHand, Working
  <2> QED
    BY <2>1, <2>2, <2>3, <2>4 DEF M1Inv, SlotInHand, Spending
<1>21. M!Slot(Reviewer) = f0
  BY DEF M!Slot
<1>22. w.slot + 1 \in Nat /\ w.requests \cup {f0} \in SUBSET M!Families /\ "slots" \in M1Stages
  BY <1>1, <1>2 DEF Works1, M1Stages
<1>23. mWork' = [mWork EXCEPT ![Reviewer] = [w EXCEPT !.pc = "slots", !.slot = @ + 1, !.copy = M!Unused,
                                                    !.requests = @ \cup {f0}]]
  BY <1>21 DEF M!WriteLedger
<1> HIDE DEF f0
<1>3. /\ v \in Works1 /\ v.pc = "slots" /\ v.requests = w.requests \cup {f0} /\ v.via = w.via /\ v.slot = w.slot + 1
  BY <1>0, <1>1, <1>22, BlankWork DEF Works1
<1>24. [w EXCEPT !.pc = "slots", !.slot = @ + 1, !.copy = M!Unused, !.requests = @ \cup {f0}] = v
  BY <1>0, <1>1 DEF Works1
<1>4. mWork' = [mWork EXCEPT ![Reviewer] = v]
  BY <1>23, <1>24
<1>5. mWork' \in [Threads -> Works1] /\ mWork'[Reviewer] = v
  BY <1>1, <1>3, <1>4, WorkBecomes DEF M1Types
<1>6. UNCHANGED <<mProfile, mHolder, mAttempts, mRuns, mInRun>>
  BY DEF M!WriteLedger
<1>61. PICK c : c = [mLedger.count EXCEPT ![f0] = @ + 1]
  OBVIOUS
<1>62. c \in [M!Families -> Nat] /\ c[f0] = mLedger.count[f0] + 1 /\ \A f \in M!Families \ {f0} : c[f] = mLedger.count[f]
  BY <1>1, <1>2, <1>61 DEF M1Types
<1>63. mLedger' \in [torn : BOOLEAN, count : [M!Families -> Nat]] /\ mLedger'.count = c
  <2>1. mLedger' = [torn |-> FALSE, count |-> c]
    BY <1>2, <1>21, <1>61 DEF M!WriteLedger
  <2> QED
    BY <1>62, <2>1
<1>7. Recorded(v)'
  <2>1. \A f \in M!Families : Owed(v, f) = IF f = f0 THEN 1 ELSE Owed(w, f)
    BY <1>2, <1>3 DEF Owed, Working
  <2>2. Owed(w, f0) = 0
    BY <1>2 DEF Owed
  <2>3. \A f \in M!Families : mRuns[f] + Owed(w, f) <= mLedger.count[f] /\ (~M!Discovery => mLedger.count[f] <= RetryLimit)
    BY DEF M1Inv, Recorded
  <2>4. \A f \in M!Families : mRuns[f] \in Nat /\ mLedger.count[f] \in Nat /\ Owed(w, f) \in {0, 1}
    BY <1>1 DEF M1Types, Owed
  <2>5. \A f \in M!Families : mRuns[f] + Owed(v, f) <= c[f] /\ (~M!Discovery => c[f] <= RetryLimit)
    BY <1>2, <1>62, <2>1, <2>2, <2>3, <2>4
  <2> QED
    BY <1>6, <1>63, <2>5 DEF Recorded, M!Discovery, Owed
<1>8. SlotInHand(v)' /\ PollSeesNone(v)'
  <2>1. \A i \in 1..2 : M!Slots[i] \in v.requests => i < v.slot
    <3>1. ASSUME NEW i \in 1..2, M!Slots[i] = f0 PROVE i = w.slot
      BY <3>1, <1>2 DEF M!Slots, f0
    <3>2. ASSUME NEW i \in 1..2, M!Slots[i] \in w.requests PROVE i < w.slot
      BY <3>2, <1>2 DEF M1Inv, SlotInHand, Working
    <3> QED
      BY <1>2, <1>3, <3>1, <3>2
  <2> QED
    BY <1>2, <1>3, <1>6, <2>1 DEF SlotInHand, PollSeesNone, Working, Spending, M1Inv
<1>9. CountedFirst(v)'
  <2>1. Cardinality(w.requests) \in Nat /\ Cardinality(v.requests) = Cardinality(w.requests) + 1
    BY <1>1, <1>2, <1>3, RequestsCounted DEF Works1
  <2> QED
    BY <1>1, <1>2, <1>3, <1>6, <2>1 DEF CountedFirst, M1Inv, Working, Spending, M1Types
<1> QED
  BY <1>1, <1>5, <1>6, <1>63, <1>7, <1>8, <1>9 DEF M1Inv, M1Types

\* The runner is given the requests.
LEMMA M1Runs ==
  ASSUME OneThread, M1Inv, M!Run(Reviewer)
  PROVE  M1Inv'
<1> DEFINE w == mWork[Reviewer]
           pc == IF w.via = "event" THEN "finally" ELSE "polled"
<1>0. PICK v : v = [w EXCEPT !.pc = pc]
  OBVIOUS
<1>1. M1Types /\ w \in Works1
  BY PricesAssumption DEF M1Inv, M1Types
<1>2. pc \in M1Stages /\ w.pc = "slots"
  BY DEF M1Stages, M!Run, M!At
<1>21. mWork' = [mWork EXCEPT ![Reviewer].pc = pc]
  BY DEF M!Run, M!Goes
<1>3. /\ mWork' \in [Threads -> Works1] /\ mWork'[Reviewer] = v /\ v \in Works1
      /\ v.pc = pc /\ v.via = w.via /\ v.requests = w.requests
  <2> HIDE DEF pc
  <2> QED
    BY <1>0, <1>1, <1>2, <1>21, WorkGoes DEF M1Types
<1>4. UNCHANGED <<mProfile, mHolder, mAttempts, mLedger>>
  BY DEF M!Run
<1>5. mRuns' = [f \in M!Families |-> mRuns[f] + (IF f \in w.requests THEN 1 ELSE 0)] /\ mInRun' = mInRun + Cardinality(w.requests)
  <2> HIDE DEF pc
  <2>1. mRuns' = [f \in M!Families |-> mRuns[f] + (IF f \in mWork[Reviewer].requests THEN 1 ELSE 0)]
    BY SMT DEF M!Run
  <2>2. mInRun' = mInRun + Cardinality(mWork[Reviewer].requests)
    BY SameCardinality DEF M!Run
  <2> QED
    BY <2>1, <2>2
<1>6. Cardinality(w.requests) \in Nat
  BY <1>1, RequestsCounted DEF Works1
<1>61. mRuns' \in [M!Families -> Nat] /\ mInRun' \in Nat
  BY <1>1, <1>5, <1>6 DEF M1Types
<1>7. Recorded(v)'
  <2>1. \A f \in M!Families : Owed(v, f) = 0 /\ mRuns'[f] = mRuns[f] + Owed(w, f)
    BY <1>2, <1>3, <1>5 DEF Owed, Working
  <2>2. \A f \in M!Families : mRuns'[f] \in Nat
    BY <1>61
  <2> QED
    BY <1>4, <2>1, <2>2 DEF M1Inv, Recorded, M!Discovery, Owed
<1>8. SlotInHand(v)' /\ PollSeesNone(v)'
  <2>1. w.via \in {"poll", "event"}
    BY <1>1 DEF Works1
  <2> QED
    BY <1>3, <1>4, <2>1 DEF SlotInHand, PollSeesNone, Working, Spending, M1Inv
<1>9. CountedFirst(v)'
  BY <1>1, <1>2, <1>3, <1>4, <1>5, <1>6 DEF CountedFirst, M1Inv, M1Types, Working, Spending
<1> QED
  BY <1>1, <1>3, <1>4, <1>61, <1>7, <1>8, <1>9 DEF M1Inv, M1Types

LEMMA FailsQuietly ==
  ASSUME OneThread, M1Inv, M!Fails(Reviewer), UNCHANGED <<mProfile, mHolder, mAttempts, mLedger, mRuns, mInRun>>
  PROVE  M1Inv'
<1> DEFINE pc == IF mWork[Reviewer].via = "event" THEN "finally" ELSE "idle"
<1>1. pc \in M1Stages /\ pc \notin Working /\ pc # "build" /\ (pc \in {"idle", "polled"} => mWork[Reviewer].via # "event")
  BY DEF M1Stages, Working
<1>2. mWork' = [mWork EXCEPT ![Reviewer].pc = pc]
  BY DEF M!Fails, M!Goes
<1>3. mWork[Reviewer].via \in {"poll", "event"}
  BY PricesAssumption DEF M1Inv, M1Types, Works1
<1> HIDE DEF pc
<1> QED
  BY <1>1, <1>2, <1>3, M1Quiet

LEMMA M1Stays ==
  ASSUME OneThread, M1Inv, [Exits \/ Evidence \/ M1 \/ FeedPart]_all
  PROVE  M1Inv'
<1> DEFINE w == mWork[Reviewer]
<1>0. M1Types /\ w \in Works1
  BY PricesAssumption DEF M1Inv, M1Types
<1>1. ASSUME UNCHANGED <<mProfile, mHolder, mAttempts, mLedger, mRuns, mInRun, mWork>> PROVE M1Inv'
  BY <1>1 DEF M1Inv, M1Types, Recorded, Owed, SlotInHand, CountedFirst, PollSeesNone, M!Discovery
<1>2. ASSUME M!Restart PROVE M1Inv'
  <2>1. mWork' = [mWork EXCEPT ![Reviewer] = M!NoWork]
    BY <1>0, <1>2 DEF M!Restart, OneThread, M1Types
  <2>2. M!NoWork.requests = {} /\ M!NoWork.pc = "idle"
    BY DEF M!NoWork
  <2>3. mHolder' \in [event : Submitted, keep : BOOLEAN] /\ ~mHolder'.keep
    BY <1>2 DEF M!Restart, Submitted
  <2> QED
    BY <1>2, <2>1, <2>2, <2>3, BlankWork, M1Fresh DEF M!Restart
<1>3. ASSUME M!Poll(Reviewer) PROVE M1Inv'
  <2>1. PICK v : v = [M!NoWork EXCEPT !.pc = "build"]
    OBVIOUS
  <2>2. v \in Works1 /\ v.requests = {} /\ v.pc = "build" /\ v.via = "poll"
    BY <2>1, BlankWork DEF M!NoWork, Works1, M1Stages
  <2>3. ~mHolder.keep
    BY <1>3 DEF M!Poll, M!At, M1Inv, PollSeesNone
  <2>4. mHolder' \in [event : Submitted, keep : BOOLEAN] /\ ~mHolder'.keep /\ mHolder'.event = None
    BY <1>0, <1>3, <2>3 DEF M!Poll, M1Types, Submitted
  <2>5. mWork' = [mWork EXCEPT ![Reviewer] = v]
    BY <1>3, <2>1 DEF M!Poll
  <2>6. mInRun <= mAttempts
    BY <1>0, <1>3 DEF M!Poll, M!At, M1Inv, CountedFirst, M1Types, Working, Spending
  <2> QED
    BY <1>0, <1>3, <2>2, <2>4, <2>5, <2>6, M1Fresh DEF M!Poll, M1Types
<1>4. ASSUME NEW fresh \in BOOLEAN, NEW seen1 \in BOOLEAN, w.pc \in {"idle", "polled"},
             M!Submits(Reviewer, [fresh |-> fresh, observed |-> seen1])
      PROVE  M1Inv'
  <2>1. PICK v : v = [M!NoWork EXCEPT !.pc = "build", !.via = "event"]
    OBVIOUS
  <2>2. v \in Works1 /\ v.requests = {} /\ v.pc = "build" /\ v.via = "event"
    BY <2>1, BlankWork DEF M!NoWork, Works1, M1Stages
  <2>4. mHolder' \in [event : Submitted, keep : BOOLEAN]
    BY <1>4 DEF M!Submits, Submitted
  <2>5. mWork' = [mWork EXCEPT ![Reviewer] = v]
    BY <1>4, <2>1 DEF M!Submits
  <2>6. mInRun <= mAttempts
    BY <1>0, <1>4 DEF M1Inv, CountedFirst, M1Types, Working, Spending
  <2> QED
    BY <1>0, <1>4, <2>2, <2>4, <2>5, <2>6, M1Fresh DEF M!Submits, M1Types
<1>5. ASSUME NEW fresh \in BOOLEAN, M!Submit(Reviewer, fresh) PROVE M1Inv'
  <2>1. TRUE \in BOOLEAN
    OBVIOUS
  <2> QED
    BY <1>4, <1>5, <2>1, Zenon DEF M!Submit, M!At
<1>6. ASSUME NEW fresh \in BOOLEAN, M!Feed(Reviewer, fresh) PROVE M1Inv'
  <2>1. w.pc = "polled" /\ w.via = "poll"
    BY <1>6 DEF M!Feed, M!At, M1Inv, PollSeesNone
  <2>2. CASE M!Submits(Reviewer, [fresh |-> fresh, observed |-> TRUE])
    <3>1. TRUE \in BOOLEAN
      OBVIOUS
    <3> QED
      BY <1>4, <2>1, <2>2, <3>1, Zenon
  <2>3. CASE /\ M!Goes(Reviewer, "idle")
             /\ UNCHANGED <<mProfile, mNow, mLast, mHolder, mAttempts, mLedger, mRuns, mInRun, mBought, mCrashes>>
    <3>1. mWork' = [mWork EXCEPT ![Reviewer].pc = "idle"]
      BY <2>3 DEF M!Goes
    <3>2. "idle" \in M1Stages /\ "idle" \notin Working
      BY DEF M1Stages, Working
    <3> QED
      BY <2>1, <2>3, <3>1, <3>2, M1Quiet
  <2> QED
    BY <1>6, <2>2, <2>3 DEF M!Feed
<1>7. ASSUME M!FetchFails(Reviewer) PROVE M1Inv'
  BY <1>7, FailsQuietly DEF M!FetchFails
<1>8. ASSUME M!Gate(Reviewer) PROVE M1Inv'
  <2>1. w.pc = "slots" /\ w.slot \in 1..2 /\ UNCHANGED <<mProfile, mHolder, mLedger, mRuns, mInRun>>
    <3>1. w.pc = "slots" /\ w.slot <= 2 /\ w.slot \in Nat
      BY <1>0, <1>8 DEF M!Gate, M!At, M!Slots, Works1
    <3>2. w.slot # 0
      BY <3>1 DEF M1Inv, SlotInHand, Working
    <3>3. UNCHANGED <<mProfile, mNow, mLast, mHolder, mLedger, mRuns, mInRun, mBought, mCrashes>>
      BY <1>8, Zenon DEF M!Gate
    <3>4. w.slot \in 1..2
      BY <3>1, <3>2
    <3> QED
      BY <3>1, <3>3, <3>4
  <2>2. CASE M!Fails(Reviewer) /\ UNCHANGED mAttempts
    BY <2>1, <2>2, FailsQuietly
  <2>3. CASE /\ M!Executes(w.event, w.scene, M!Slots[w.slot])
             /\ mAttempts' = mAttempts + 1 /\ mWork' = [mWork EXCEPT ![Reviewer].pc = "read"]
    BY <2>1, <2>3, M1Executes
  <2>4. CASE mWork' = [mWork EXCEPT ![Reviewer].slot = @ + 1] /\ UNCHANGED mAttempts
    BY <2>1, <2>4, M1Passes
  <2> QED
    BY <1>8, <2>2, <2>3, <2>4 DEF M!Gate, M!Slot, M!Goes
<1>9. ASSUME M!ReadLedger(Reviewer) PROVE M1Inv'
  BY <1>9, FailsQuietly, M1Reads DEF M!ReadLedger, M!At
<1>10. ASSUME M!Truncate(Reviewer) PROVE M1Inv'
  BY <1>10, M1Truncates DEF M!Truncate, M!At, M!Goes
<1>11. ASSUME M!Finally(Reviewer) PROVE M1Inv'
  <2>1. PICK v : v = [w EXCEPT !.pc = "idle"]
    OBVIOUS
  <2>2. "idle" \in M1Stages /\ "idle" \notin Working /\ "idle" \notin Spending
    BY DEF M1Stages, Working, Spending
  <2>3. mWork' = [mWork EXCEPT ![Reviewer].pc = "idle"] /\ UNCHANGED <<mProfile, mAttempts, mLedger, mRuns, mInRun>>
    BY <1>11 DEF M!Finally, M!Goes
  <2>4. /\ mWork' \in [Threads -> Works1] /\ mWork'[Reviewer] = v /\ v \in Works1
        /\ v.pc = "idle" /\ v.via = w.via /\ v.requests = w.requests
    BY <1>0, <2>1, <2>2, <2>3, WorkGoes DEF M1Types
  <2>5. mHolder' \in [event : Submitted, keep : BOOLEAN] /\ ~mHolder'.keep
    BY <1>11 DEF M!Finally, Submitted
  <2>6. w.pc = "finally"
    BY <1>11 DEF M!Finally, M!At
  <2>7. Recorded(v)'
    <3>1. \A f \in M!Families : Owed(v, f) = Owed(w, f)
      BY <2>4, <2>6 DEF Owed, Working
    <3> QED
      BY <2>3, <3>1 DEF M1Inv, Recorded, M!Discovery, Owed
  <2>8. SlotInHand(v)' /\ PollSeesNone(v)' /\ CountedFirst(v)'
    BY <2>3, <2>4, <2>5, <2>6 DEF SlotInHand, PollSeesNone, CountedFirst, Working, Spending, M1Inv
  <2> QED
    BY <1>0, <2>3, <2>4, <2>5, <2>7, <2>8 DEF M1Inv, M1Types
<1>12. ASSUME M!Next PROVE M1Inv'
  <2>1. \A p \in Threads : p = Reviewer
    BY PricesAssumption DEF OneThread
  <2>2. ASSUME M!Pass PROVE M1Inv'
    BY <1>1, <2>2 DEF M!Pass
  <2> QED
    BY <1>2, <1>3, <1>5, <1>6, <1>7, <1>8, <1>9, <1>10, <1>11, <1>12, <2>1, <2>2, M1Builds, M1Writes, M1Runs
       DEF M!Next, M!OnQuote
<1> QED
  BY <1>1, <1>12 DEF M1, Exits, Evidence, FeedPart, all, m1

LEMMA M1Bounded == OneThread /\ M1Inv => AttemptsBounded
<1> SUFFICES ASSUME OneThread, M1Inv PROVE AttemptsBounded
  OBVIOUS
<1> DEFINE w == mWork[Reviewer]
<1>0. M1Types /\ w \in Works1
  BY PricesAssumption DEF M1Inv, M1Types
<1>1. \A f \in M!Families : mRuns[f] <= mLedger.count[f] /\ (~M!Discovery => mRuns[f] <= RetryLimit)
  <2>1. \A f \in M!Families : mRuns[f] \in Nat /\ mLedger.count[f] \in Nat /\ Owed(w, f) \in {0, 1}
    BY <1>0 DEF M1Types, Owed
  <2> QED
    BY <2>1 DEF M1Inv, Recorded
<1>2. mInRun <= mAttempts /\ mAttempts <= MaxAttempts
  BY <1>0, RequestsCounted DEF M1Inv, CountedFirst, M1Types, Works1
<1>3. \A p \in Threads : mWork[p].via = "poll" => mWork[p].requests = {}
  BY PricesAssumption DEF OneThread, M1Inv, PollSeesNone
<1> QED
  BY <1>1, <1>2, <1>3 DEF AttemptsBounded, M!AttemptsBounded

\* No family of options is given to the runner more often than its attempts were
\* recorded, nor the process more often than it counted, over torn files,
\* failed builds and restarts (record_episode_attempt).
THEOREM AttemptsAreBounded ==
  ASSUME OneThread
  PROVE  Services => []AttemptsBounded
<1>1. M1Inv /\ [Exits \/ Evidence \/ M1 \/ FeedPart]_all => M1Inv'
  BY M1Stays
<1>2. Services => []M1Inv
  BY <1>1, M1Starts, PTL DEF Services
<1>3. M1Inv => AttemptsBounded
  BY M1Bounded
<1> QED
  BY <1>2, <1>3, PTL

USE FeedAssumption

-----------------------------------------------------------------------------
\* The feed.

FeedType == [now : Nat, cache : [F!Captures -> Nat \cup {None}], backoff : [until : Nat, seconds : Nat]]

\* What a fetch of a capture gives, from a feed whose captures are not of the future.
Cached(f) == /\ f \in FeedType
             /\ \A key \in F!Captures : f.cache[key] # None => f.cache[key] <= f.now

LEMMA KeysAre ==
  /\ F!Supplemental \subseteq F!Captures
  /\ \A key \in F!Captures : Ttl[key] \in Nat /\ Ttl[key] > 0
  /\ \A key \in F!Supplemental : SessionTtl[key] \in Nat
BY DEF F!Supplemental, F!Captures

\* A fetch that is not late gives data within its capture's time, by the time that it was asked for.
LEMMA FetchGives ==
  ASSUME NEW f, Cached(f), NEW key \in F!Captures, NEW got \in F!Fetched(f, key)
  PROVE  /\ Cached(got.feed) /\ got.feed.now >= f.now /\ got.late \in BOOLEAN
         /\ got.data # None => got.data \in Nat /\ got.data <= got.feed.now
         /\ got.data # None /\ ~got.late => f.now - got.data < Ttl[key]
                                            /\ got.feed.now - got.data < Ttl[key]
<1>1. PICK room \in BOOLEAN, answer \in Answers, at \in F!Later(f) : got = F!Fetch(f, key, room, answer, at)
  BY DEF F!Fetched
<1>2. at \in Nat /\ at >= f.now
  BY DEF F!Later, Cached, FeedType
<1> DEFINE Gives(data, aged, f2) == [data |-> data, late |-> aged, feed |-> f2]
<1>3. CASE F!Held(f, key, room)
  <2>1. got = Gives(f.cache[key], ~F!Fresh(f, key), f)
    BY <1>1, <1>3 DEF F!Fetch
  <2>2. got.data = f.cache[key] /\ got.feed = f /\ got.late \in BOOLEAN /\ (~got.late => F!Fresh(f, key))
    BY <2>1
  <2>3. F!Fresh(f, key) => f.cache[key] # None /\ f.now - f.cache[key] < Ttl[key]
    BY DEF F!Fresh
  <2>4. f.now \in Nat /\ (f.cache[key] # None => f.cache[key] \in Nat /\ f.cache[key] <= f.now)
    BY DEF Cached, FeedType
  <2> QED
    BY <2>2, <2>3, <2>4
<1>4. CASE ~F!Held(f, key, room) /\ key = "history" /\ ~room
  <2>1. got = Gives(None, FALSE, f)
    BY <1>1, <1>4 DEF F!Fetch
  <2>2. got.data = None /\ got.feed = f /\ got.late \in BOOLEAN
    BY <2>1
  <2>3. f.now \in Nat
    BY DEF Cached, FeedType
  <2> QED
    BY <2>2, <2>3
<1>5. CASE ~F!Held(f, key, room) /\ ~(key = "history" /\ ~room) /\ answer = "ok"
  <2>0. PICK later : later = [[f EXCEPT !.now = at] EXCEPT !.cache[key] = at, !.backoff = F!Cleared]
    OBVIOUS
  <2>1. got = Gives(at, FALSE, later)
    BY <1>1, <1>5, <2>0 DEF F!Fetch
  <2>2. got.data = at /\ got.feed = later /\ got.late \in BOOLEAN
    BY <2>1
  <2>3. F!Cleared \in [until : Nat, seconds : Nat]
    BY DEF F!Cleared
  <2>4. later \in FeedType /\ later.now = at /\ later.cache = [f.cache EXCEPT ![key] = at]
    BY <1>2, <2>0, <2>3 DEF Cached, FeedType
  <2>5. Cached(later)
    BY <1>2, <2>4 DEF Cached, FeedType
  <2> QED
    BY <1>2, <2>2, <2>4, <2>5, KeysAre DEF Cached, FeedType
<1>6. CASE ~F!Held(f, key, room) /\ ~(key = "history" /\ ~room) /\ answer # "ok"
           /\ f.cache[key] # None /\ answer \in {"limited", "down"}
  <2>0. PICK later : later = [[f EXCEPT !.now = at] EXCEPT !.backoff = F!Entered(f, answer, at)]
    OBVIOUS
  <2>1. got = Gives(f.cache[key], TRUE, later)
    BY <1>1, <1>6, <2>0 DEF F!Fetch
  <2>2. got.data = f.cache[key] /\ got.late = TRUE /\ got.feed = later
    BY <2>1
  <2>3. F!Entered(f, answer, at) \in [until : Nat, seconds : Nat]
    BY <1>2 DEF F!Entered, F!Least, Cached, FeedType
  <2>4. later \in FeedType /\ later.now = at /\ later.cache = f.cache
    BY <1>2, <2>0, <2>3 DEF Cached, FeedType
  <2>5. Cached(later)
    BY <1>2, <2>4 DEF Cached, FeedType
  <2> QED
    BY <1>2, <2>2, <2>4, <2>5 DEF Cached, FeedType
<1>7. CASE ~F!Held(f, key, room) /\ ~(key = "history" /\ ~room) /\ answer # "ok"
           /\ ~(f.cache[key] # None /\ answer \in {"limited", "down"})
  <2>0. PICK later : later = [f EXCEPT !.now = at]
    OBVIOUS
  <2>1. got = Gives(None, FALSE, later)
    BY <1>1, <1>7, <2>0 DEF F!Fetch
  <2>2. got.data = None /\ got.feed = later /\ got.late \in BOOLEAN
    BY <2>1
  <2>4. later \in FeedType /\ later.now = at /\ later.cache = f.cache
    BY <1>2, <2>0 DEF Cached, FeedType
  <2>5. Cached(later)
    BY <1>2, <2>4 DEF Cached, FeedType
  <2> QED
    BY <1>2, <2>2, <2>4, <2>5 DEF Cached, FeedType
<1> QED
  BY <1>3, <1>4, <1>5, <1>6, <1>7

-----------------------------------------------------------------------------
\* The quality of a cycle says how old its chain is.

LEMMA WorstIsOne ==
  ASSUME NEW S \in SUBSET {"INVALID", "STALE", "DEGRADED", "VALID"}, S # {}
  PROVE  F!Worst(S) \in S /\ \A t \in S : F!Rank(F!Worst(S)) <= F!Rank(t)
<1>1. F!Rank("INVALID") = 0 /\ F!Rank("STALE") = 1 /\ F!Rank("DEGRADED") = 2 /\ F!Rank("VALID") = 3
  BY DEF F!Rank
<1>2. \E s \in S : \A t \in S : F!Rank(s) <= F!Rank(t)
  <2>1. CASE "INVALID" \in S
    BY <1>1, <2>1
  <2>2. CASE "INVALID" \notin S /\ "STALE" \in S
    BY <1>1, <2>2
  <2>3. CASE "INVALID" \notin S /\ "STALE" \notin S /\ "DEGRADED" \in S
    BY <1>1, <2>3
  <2>4. CASE S = {"VALID"}
    BY <1>1, <2>4
  <2> QED
    BY <2>1, <2>2, <2>3, <2>4
<1> QED
  BY <1>2 DEF F!Worst

LEMMA QualityTells ==
  ASSUME NEW near \in Nat, NEW bar, NEW faults, NEW at \in Nat
  PROVE  /\ F!Quality(near, bar, faults, at) \in {"INVALID", "STALE", "DEGRADED", "VALID"}
         /\ F!Quality(near, bar, faults, at) \notin {"INVALID", "STALE"} => at - near <= ChainMaxAge
<1> DEFINE S == {F!ByAge(at - near, ChainMaxAge)} \cup {F!Severity(g) : g \in faults}
                \cup (IF bar = None THEN {} ELSE {F!ByAge(at - bar, BarMaxAge)})
<1>1. S \in SUBSET {"INVALID", "STALE", "DEGRADED", "VALID"}
  <2>1. \A a, b : F!ByAge(a, b) \in {"STALE", "DEGRADED", "VALID"}
    BY DEF F!ByAge
  <2>2. \A g : F!Severity(g) \in {"INVALID", "DEGRADED"}
    BY DEF F!Severity
  <2> QED
    BY <2>1, <2>2
<1>2. F!Quality(near, bar, faults, at) = F!Worst(S) /\ F!ByAge(at - near, ChainMaxAge) \in S
  BY DEF F!Quality
<1> HIDE DEF S
<1>3. F!Rank(F!Worst(S)) <= F!Rank(F!ByAge(at - near, ChainMaxAge)) /\ F!Worst(S) \in S
  BY <1>1, <1>2, WorstIsOne
<1>4. F!Worst(S) \in {"INVALID", "STALE", "DEGRADED", "VALID"}
  BY <1>1, <1>3
<1>5. F!Worst(S) \in {"DEGRADED", "VALID"} => F!ByAge(at - near, ChainMaxAge) # "STALE"
  BY <1>3 DEF F!Rank
<1>6. F!ByAge(at - near, ChainMaxAge) # "STALE" => at - near <= ChainMaxAge
  BY DEF F!ByAge
<1> QED
  BY <1>2, <1>4, <1>5, <1>6

-----------------------------------------------------------------------------
\* The invariant.

Qualities == {"INVALID", "STALE", "DEGRADED", "VALID"}

Offers == [kind : {"near"} \cup F!Supplemental, data : Nat, claims : Nat, quality : Qualities, late : BOOLEAN, taken : Nat]

Builds == [pc : {"idle", "options", "week", "month"}, near : Nat, late : BOOLEAN, instant : Nat,
           quality : Qualities, found : SUBSET Offers]

\* A candidate whose age is told.
Told(c) ==
  /\ c.kind = "near" /\ c.quality # "STALE" => c.claims - c.data <= ChainMaxAge
  /\ c.kind # "near" /\ ~c.late => /\ c.claims - c.data < Ttl[c.kind]
                                   /\ c.taken - c.data < Ttl[c.kind] + SessionTtl[c.kind]

FeedTypes ==
  /\ fNow \in Nat /\ fCache \in [F!Captures -> Nat \cup {None}]
  /\ fBackoff \in [until : Nat, seconds : Nat]
  /\ fSession \in [F!Supplemental -> {None} \cup [fetched : Nat, candidate : Offers]]
  /\ fBuild \in Builds /\ fOffered \in SUBSET Offers

\* What the session serves on was not old when it was fetched.
ServedOn ==
  \A key \in F!Supplemental : fSession[key] # None =>
    LET kept == fSession[key] IN
    /\ kept.fetched <= fNow /\ kept.candidate.kind = key
    /\ ~kept.candidate.late => /\ kept.candidate.claims - kept.candidate.data < Ttl[key]
                               /\ kept.fetched - kept.candidate.data < Ttl[key]

\* The build's instant is the time of its cycle, whose quality goes by its chain.
BuildDated ==
  /\ fBuild.instant <= fNow
  /\ fBuild.pc # "idle" /\ fBuild.quality # "STALE" => fBuild.instant - fBuild.near <= ChainMaxAge
  /\ \A c \in fBuild.found : Told(c)

FeedInv ==
  /\ FeedTypes /\ ServedOn /\ BuildDated
  /\ \A key \in F!Captures : fCache[key] # None => fCache[key] <= fNow
  /\ \A c \in fOffered : Told(c)

LEMMA IdleType == F!Idle \in Builds /\ F!Idle.instant = 0 /\ F!Idle.found = {} /\ F!Idle.pc = "idle"
  BY DEF F!Idle, Builds, Qualities

LEMMA FeedIsCached == FeedInv => Cached(F!Feeds) /\ F!Feeds.now = fNow
  BY DEF FeedInv, FeedTypes, Cached, FeedType, F!Feeds

\* A candidate in the making.
LEMMA OfferType ==
  ASSUME FeedInv, NEW kind \in {"near"} \cup F!Supplemental, NEW data \in Nat, NEW aged \in BOOLEAN, NEW taken \in Nat,
         NEW c, c = [kind |-> kind, data |-> data, claims |-> fBuild.instant, quality |-> fBuild.quality,
              late |-> aged, taken |-> taken]
  PROVE  /\ c \in Offers /\ c.kind = kind /\ c.data = data /\ c.late = aged /\ c.taken = taken
         /\ c.claims = fBuild.instant /\ c.quality = fBuild.quality
  BY DEF Offers, FeedInv, FeedTypes, Builds

\* Time goes on, the feed has fetched; the session and the build as they were.
LEMMA FeedLater ==
  ASSUME FeedInv, NEW next, Cached(next), next.now >= fNow, F!Leaves(next)
  PROVE  /\ fNow' = next.now /\ fNow' \in Nat /\ fCache' \in [F!Captures -> Nat \cup {None}]
         /\ fBackoff' \in [until : Nat, seconds : Nat]
         /\ \A key \in F!Captures : fCache'[key] # None => fCache'[key] <= fNow'
  BY DEF F!Leaves, Cached, FeedType

LEMMA FeedStarts == Start => FeedInv
<1> SUFFICES ASSUME F!Init PROVE FeedInv
  BY DEF Start
<1>1. FeedTypes
  BY IdleType DEF F!Init, FeedTypes, F!Cleared
<1>2. BuildDated
  BY IdleType DEF F!Init, BuildDated
<1> QED
  BY <1>1, <1>2 DEF F!Init, FeedInv, ServedOn

\* What was fetched is no younger as time goes on, and a build under way stays dated.
LEMMA SessionLater ==
  ASSUME FeedInv, fNow' \in Nat, fNow' >= fNow, UNCHANGED fSession
  PROVE  ServedOn'
<1>1. \A key \in F!Supplemental : fSession[key] # None => fSession[key].fetched \in Nat
  BY DEF FeedInv, FeedTypes
<1>2. fNow \in Nat
  BY DEF FeedInv, FeedTypes
<1> QED
  BY <1>1, <1>2 DEF ServedOn, FeedInv

LEMMA FeedRunsOnce ==
  ASSUME FeedInv, NEW faults, NEW quoted \in BOOLEAN, F!RunOnce(faults, quoted)
  PROVE  FeedInv'
<1>0. {"near", "status", "history"} \subseteq F!Captures
  BY DEF F!Captures
<1>1. PICK chain \in F!Fetched(F!Feeds, "near") :
        IF chain.data = None \/ ~quoted THEN F!Leaves(chain.feed) /\ F!Fails
        ELSE \E status \in F!Fetched(chain.feed, "status") :
             \E history \in F!Fetched(status.feed, "history") :
               LET at == history.feed.now
                   last == fCache["history"]
                   stored == IF last # None /\ at - last <= 12 * BarMaxAge THEN last ELSE None
                   bar == IF history.data = None THEN stored ELSE history.data
                   quality == F!Quality(chain.data, bar, faults, at)
               IN
               /\ F!Leaves(history.feed)
               /\ IF quality = "INVALID" THEN F!Fails
                  ELSE /\ fBuild' = [F!Idle EXCEPT !.pc = "options", !.near = chain.data, !.late = chain.late,
                                                !.instant = at, !.quality = quality]
                       /\ fOffered' = {}
  BY DEF F!RunOnce
<1>2. UNCHANGED fSession
  BY DEF F!RunOnce
<1>3. /\ Cached(chain.feed) /\ chain.feed.now >= fNow /\ chain.late \in BOOLEAN
      /\ chain.data # None => chain.data \in Nat /\ chain.data <= chain.feed.now
  BY <1>0, FeedIsCached, FetchGives
<1>4. ASSUME NEW next, Cached(next), next.now >= fNow, F!Leaves(next), F!Fails PROVE FeedInv'
  <2>1. fBuild' = F!Idle /\ fOffered' = {}
    BY <1>4 DEF F!Fails
  <2>2. /\ fNow' = next.now /\ fNow' \in Nat /\ fCache' \in [F!Captures -> Nat \cup {None}]
        /\ fBackoff' \in [until : Nat, seconds : Nat]
        /\ \A key \in F!Captures : fCache'[key] # None => fCache'[key] <= fNow'
    BY <1>4, FeedLater
  <2>3. ServedOn'
    BY <1>2, <1>4, <2>2, SessionLater
  <2>4. BuildDated'
    BY <2>1, <2>2, IdleType DEF BuildDated
  <2> QED
    BY <1>2, <2>1, <2>2, <2>3, <2>4, IdleType DEF FeedInv, FeedTypes
<1>5. CASE chain.data = None \/ ~quoted
  BY <1>1, <1>3, <1>4, <1>5
<1>6. CASE ~(chain.data = None \/ ~quoted)
  <2>0. PICK status \in F!Fetched(chain.feed, "status") :
             \E history \in F!Fetched(status.feed, "history") :
               LET at == history.feed.now
                   last == fCache["history"]
                   stored == IF last # None /\ at - last <= 12 * BarMaxAge THEN last ELSE None
                   bar == IF history.data = None THEN stored ELSE history.data
                   quality == F!Quality(chain.data, bar, faults, at)
               IN
               /\ F!Leaves(history.feed)
               /\ IF quality = "INVALID" THEN F!Fails
                  ELSE /\ fBuild' = [F!Idle EXCEPT !.pc = "options", !.near = chain.data, !.late = chain.late,
                                                !.instant = at, !.quality = quality]
                       /\ fOffered' = {}
    BY <1>1, <1>6
  <2>1. PICK history \in F!Fetched(status.feed, "history") :
               LET at == history.feed.now
                   last == fCache["history"]
                   stored == IF last # None /\ at - last <= 12 * BarMaxAge THEN last ELSE None
                   bar == IF history.data = None THEN stored ELSE history.data
                   quality == F!Quality(chain.data, bar, faults, at)
               IN
               /\ F!Leaves(history.feed)
               /\ IF quality = "INVALID" THEN F!Fails
                  ELSE /\ fBuild' = [F!Idle EXCEPT !.pc = "options", !.near = chain.data, !.late = chain.late,
                                                !.instant = at, !.quality = quality]
                       /\ fOffered' = {}
    BY <2>0
  <2>2. Cached(status.feed) /\ status.feed.now >= chain.feed.now
    BY <1>0, <1>3, FetchGives
  <2>3. Cached(history.feed) /\ history.feed.now >= status.feed.now
    BY <1>0, <2>2, FetchGives
  <2>4. history.feed.now \in Nat /\ history.feed.now >= fNow
    BY <1>3, <2>2, <2>3 DEF Cached, FeedType, FeedInv, FeedTypes
  <2>5. PICK bar, quality : /\ quality = F!Quality(chain.data, bar, faults, history.feed.now)
                            /\ F!Leaves(history.feed)
                            /\ IF quality = "INVALID" THEN F!Fails
                               ELSE /\ fBuild' = [F!Idle EXCEPT !.pc = "options", !.near = chain.data,
                                               !.late = chain.late, !.instant = history.feed.now, !.quality = quality]
                                    /\ fOffered' = {}
    BY <2>1
  <2>6. CASE quality = "INVALID"
    BY <1>4, <2>3, <2>4, <2>5, <2>6
  <2>7. CASE quality # "INVALID"
    <3>1. chain.data \in Nat /\ chain.late \in BOOLEAN
      BY <1>3, <1>6
    <3>2. quality # "STALE" => history.feed.now - chain.data <= ChainMaxAge
      BY <2>4, <2>5, <2>7, <3>1, QualityTells
    <3>3. quality \in Qualities
      BY <2>4, <2>5, <3>1, QualityTells DEF Qualities
    <3>4. PICK b : b = [F!Idle EXCEPT !.pc = "options", !.near = chain.data, !.late = chain.late,
                                   !.instant = history.feed.now, !.quality = quality]
      OBVIOUS
    <3>5. /\ b \in Builds /\ b.pc = "options" /\ b.near = chain.data /\ b.instant = history.feed.now
          /\ b.quality = quality /\ b.found = {}
      BY <2>4, <3>1, <3>3, <3>4, IdleType DEF Builds
    <3>6. fBuild' = b /\ fOffered' = {}
      BY <2>5, <2>7, <3>4
    <3>7. /\ fNow' = history.feed.now /\ fNow' \in Nat /\ fCache' \in [F!Captures -> Nat \cup {None}]
          /\ fBackoff' \in [until : Nat, seconds : Nat]
          /\ \A key \in F!Captures : fCache'[key] # None => fCache'[key] <= fNow'
      BY <2>3, <2>4, <2>5, FeedLater
    <3>8. ServedOn'
      BY <1>2, <2>4, <3>7, SessionLater
    <3>9. BuildDated'
      BY <2>4, <3>2, <3>5, <3>6, <3>7 DEF BuildDated
    <3> QED
      BY <1>2, <3>5, <3>6, <3>7, <3>8, <3>9 DEF FeedInv, FeedTypes
  <2> QED
    BY <2>6, <2>7
<1> QED
  BY <1>5, <1>6

LEMMA FeedOptions ==
  ASSUME FeedInv, NEW quoted \in BOOLEAN, F!Options(quoted)
  PROVE  FeedInv'
<1>1. UNCHANGED <<fExtra, fNow, fCache, fBackoff, fSession>> /\ fBuild.pc = "options"
  BY DEF F!Options, F!At
<1>2. ServedOn'
  BY <1>1, SessionLater DEF FeedInv, FeedTypes
<1>3. CASE F!Fails
  <2>1. fBuild' = F!Idle /\ fOffered' = {}
    BY <1>3 DEF F!Fails
  <2>2. BuildDated'
    BY <1>1, <2>1, IdleType DEF BuildDated, FeedInv, FeedTypes
  <2> QED
    BY <1>1, <1>2, <2>1, <2>2, IdleType DEF FeedInv, FeedTypes
<1>4. ASSUME NEW live, live = F!Candidate("near", fNow, FALSE, fNow),
             NEW rows, rows = F!Candidate("near", fBuild.near, fBuild.late, fNow),
             fBuild' = [fBuild EXCEPT !.pc = "week", !.found = {live, rows}], UNCHANGED fOffered
      PROVE  FeedInv'
  <2>1. /\ fNow \in Nat /\ fBuild \in Builds /\ fBuild.near \in Nat /\ fBuild.late \in BOOLEAN /\ fBuild.instant \in Nat
        /\ fBuild.instant <= fNow
    BY DEF FeedInv, FeedTypes, Builds, BuildDated
  <2>2. PICK no \in BOOLEAN : no = FALSE
    OBVIOUS
  <2>21. live = [kind |-> "near", data |-> fNow, claims |-> fBuild.instant, quality |-> fBuild.quality,
              late |-> no, taken |-> fNow]
    BY <1>4, <2>2 DEF F!Candidate
  <2>23. rows = [kind |-> "near", data |-> fBuild.near, claims |-> fBuild.instant, quality |-> fBuild.quality,
              late |-> fBuild.late, taken |-> fNow]
    BY <1>4 DEF F!Candidate
  <2>22. "near" \in {"near"} \cup F!Supplemental
    OBVIOUS
  <2>3. live \in Offers /\ live.kind = "near" /\ live.data = fNow /\ live.claims = fBuild.instant
    BY <2>1, <2>21, <2>22, OfferType
  <2>4. /\ rows \in Offers /\ rows.kind = "near" /\ rows.data = fBuild.near /\ rows.claims = fBuild.instant
        /\ rows.quality = fBuild.quality
    BY <2>1, <2>22, <2>23, OfferType
  <2>5. Told(live) /\ Told(rows)
    BY <1>1, <2>1, <2>3, <2>4 DEF Told, FeedInv, BuildDated
  <2>6. PICK b : b = [fBuild EXCEPT !.pc = "week", !.found = {live, rows}]
    OBVIOUS
  <2>7. /\ b \in Builds /\ b.pc = "week" /\ b.near = fBuild.near /\ b.instant = fBuild.instant /\ b.quality = fBuild.quality
        /\ b.found = {live, rows}
    BY <2>1, <2>3, <2>4, <2>6 DEF Builds
  <2>8. fBuild' = b
    BY <1>4, <2>6
  <2>9. BuildDated'
    BY <1>1, <2>5, <2>7, <2>8 DEF BuildDated, FeedInv, Told
  <2> QED
    BY <1>1, <1>2, <1>4, <2>7, <2>8, <2>9 DEF FeedInv, FeedTypes, Told
<1> QED
  BY <1>3, <1>4 DEF F!Options

\* The build takes up candidates whose age is told.
LEMMA FeedAdds ==
  ASSUME FeedInv, NEW key \in F!Supplemental, NEW new \in SUBSET Offers, \A c \in new : Told(c),
         F!At(key), F!Adds(key, new),
         fNow' \in Nat, fNow' >= fNow, fCache' \in [F!Captures -> Nat \cup {None}],
         fBackoff' \in [until : Nat, seconds : Nat],
         \A k \in F!Captures : fCache'[k] # None => fCache'[k] <= fNow',
         fSession' \in [F!Supplemental -> {None} \cup [fetched : Nat, candidate : Offers]], ServedOn'
  PROVE  FeedInv'
<1>1. /\ fNow \in Nat /\ fBuild \in Builds /\ fBuild.pc = key /\ fBuild.found \in SUBSET Offers /\ fBuild.instant \in Nat
      /\ fBuild.instant <= fNow /\ key # "idle"
  BY DEF FeedInv, FeedTypes, Builds, BuildDated, F!At, F!Supplemental
<1>2. CASE key = "week"
  <2>1. PICK b : b = [fBuild EXCEPT !.pc = "month", !.found = fBuild.found \cup new]
    OBVIOUS
  <2>2. /\ b \in Builds /\ b.pc = "month" /\ b.near = fBuild.near /\ b.instant = fBuild.instant /\ b.quality = fBuild.quality
        /\ b.found = fBuild.found \cup new
    BY <1>1, <2>1 DEF Builds
  <2>3. fBuild' = b /\ UNCHANGED fOffered
    BY <1>1, <1>2, <2>1 DEF F!Adds
  <2>4. BuildDated'
    BY <1>1, <2>2, <2>3 DEF BuildDated, FeedInv, Told
  <2> QED
    BY <2>2, <2>3, <2>4 DEF FeedInv, FeedTypes, Told
<1>3. CASE key # "week"
  <2>1. fBuild' = F!Idle /\ fOffered' = fBuild.found \cup new
    BY <1>3 DEF F!Adds
  <2>2. BuildDated'
    BY <1>1, <2>1, IdleType DEF BuildDated
  <2>3. \A c \in fOffered' : Told(c)
    BY <2>1 DEF FeedInv, BuildDated
  <2>4. fBuild' \in Builds /\ fOffered' \in SUBSET Offers
    BY <1>1, <2>1, IdleType
  <2>5. FeedTypes'
    BY <2>4 DEF FeedTypes
  <2>6. (\A c \in fOffered : Told(c))'
    BY <2>3 DEF Told
  <2> QED
    BY <2>2, <2>5, <2>6 DEF FeedInv
<1> QED
  BY <1>2, <1>3

\* A chain of the session's, taken up at a time.
LEMMA ServedIsTold ==
  ASSUME FeedInv, NEW key \in F!Supplemental, fSession[key] # None, NEW at \in Nat,
         at - fSession[key].fetched < SessionTtl[key],
         NEW c, c = [fSession[key].candidate EXCEPT !.taken = at]
  PROVE  c \in Offers /\ Told(c)
<1>1. /\ fSession[key].fetched \in Nat /\ fSession[key].candidate \in Offers
  BY DEF FeedInv, FeedTypes
<1>2. PICK o \in Offers : o = fSession[key].candidate
  BY <1>1
<1>3. c \in Offers /\ c.kind = o.kind /\ c.data = o.data /\ c.claims = o.claims /\ c.late = o.late /\ c.taken = at
  BY <1>2 DEF Offers
<1>4. o.kind = key /\ (~o.late => o.claims - o.data < Ttl[key] /\ fSession[key].fetched - o.data < Ttl[key])
  BY <1>2 DEF FeedInv, ServedOn
<1>5. o.data \in Nat /\ o.claims \in Nat /\ Ttl[key] \in Nat /\ SessionTtl[key] \in Nat /\ key # "near"
  BY <1>2, KeysAre DEF Offers, F!Supplemental, F!Captures
<1>6. ~o.late => at - o.data < Ttl[key] + SessionTtl[key]
  BY <1>1, <1>4, <1>5
<1> QED
  BY <1>3, <1>4, <1>5, <1>6 DEF Told

LEMMA FeedMerges ==
  ASSUME FeedInv, NEW key \in F!Supplemental, F!Merge(key)
  PROVE  FeedInv'
<1>0. /\ fNow \in Nat /\ F!At(key) /\ key \in F!Captures /\ key # "near" /\ FeedTypes
      /\ fBuild.instant \in Nat /\ fBuild.instant <= fNow
  BY DEF FeedInv, FeedTypes, F!Merge, F!Supplemental, F!Captures, Builds, BuildDated
<1>1. ASSUME NEW new \in SUBSET Offers, \A c \in new : Told(c), F!Adds(key, new), UNCHANGED <<fNow, fCache, fBackoff, fSession>>
      PROVE  FeedInv'
  <2>1. ServedOn'
    BY <1>0, <1>1, SessionLater
  <2> QED
    BY <1>0, <1>1, <2>1, FeedAdds DEF FeedInv, FeedTypes
<1>2. CASE key \notin fExtra
  <2>1. F!Adds(key, {}) /\ UNCHANGED <<fNow, fCache, fBackoff, fSession>>
    BY <1>2 DEF F!Merge
  <2> QED
    BY <1>1, <2>1
<1>3. CASE key \in fExtra /\ F!SessionServes(key)
  <2>0. PICK c : c = [fSession[key].candidate EXCEPT !.taken = fNow]
    OBVIOUS
  <2>1. F!Adds(key, {c}) /\ UNCHANGED <<fNow, fCache, fBackoff, fSession>>
    BY <1>3, <2>0 DEF F!Merge
  <2>2. fSession[key] # None /\ fNow - fSession[key].fetched < SessionTtl[key]
    BY <1>3 DEF F!SessionServes
  <2>3. c \in Offers /\ Told(c)
    BY <1>0, <2>0, <2>2, ServedIsTold
  <2> QED
    BY <1>1, <2>1, <2>3
<1>4. CASE key \in fExtra /\ ~F!SessionServes(key)
  <2>1. PICK chain \in F!Fetched(F!Feeds, key) :
          LET at == chain.feed.now
              new == F!Candidate(key, chain.data, chain.late, at)
              old == IF key = "month" \/ fSession[key] = None THEN {}
                     ELSE {[fSession[key].candidate EXCEPT !.late = TRUE, !.taken = at]}
          IN
          /\ F!Leaves(chain.feed)
          /\ IF chain.data = None THEN F!Adds(key, old) /\ UNCHANGED fSession
             ELSE /\ F!Adds(key, {new})
                  /\ fSession' = [fSession EXCEPT ![key] = [fetched |-> fNow, candidate |-> new]]
    BY <1>4 DEF F!Merge
  <2> DEFINE at == chain.feed.now
  <2>2. /\ Cached(chain.feed) /\ chain.feed.now >= fNow /\ chain.late \in BOOLEAN /\ at \in Nat
        /\ chain.data # None => chain.data \in Nat /\ chain.data <= chain.feed.now
        /\ chain.data # None /\ ~chain.late => fNow - chain.data < Ttl[key] /\ at - chain.data < Ttl[key]
    BY <1>0, FeedIsCached, FetchGives DEF Cached, FeedType
  <2>3. /\ fNow' = at /\ fNow' \in Nat /\ fCache' \in [F!Captures -> Nat \cup {None}]
        /\ fBackoff' \in [until : Nat, seconds : Nat]
        /\ \A k \in F!Captures : fCache'[k] # None => fCache'[k] <= fNow'
    BY <2>1, <2>2, FeedLater
  <2>4. CASE chain.data = None
    <3>1. UNCHANGED fSession
      BY <2>1, <2>4
    <3>2. ServedOn'
      BY <2>2, <2>3, <3>1, SessionLater
    <3>3. CASE key = "month" \/ fSession[key] = None
      <4>1. F!Adds(key, {})
        BY <2>1, <2>4, <3>3
      <4> QED
        BY <1>0, <2>2, <2>3, <3>1, <3>2, <4>1, FeedAdds DEF FeedTypes
    <3>4. CASE ~(key = "month" \/ fSession[key] = None)
      <4>1. PICK o \in Offers : o = fSession[key].candidate /\ o.kind = key
        BY <1>0, <3>4 DEF FeedTypes, FeedInv, ServedOn
      <4>2. PICK c : c = [o EXCEPT !.late = TRUE, !.taken = at]
        OBVIOUS
      <4>3. c \in Offers /\ c.kind = key /\ c.late = TRUE
        <5>1. ASSUME NEW b \in BOOLEAN
              PROVE  [o EXCEPT !.late = b, !.taken = at] \in Offers /\ [o EXCEPT !.late = b, !.taken = at].kind = key
                     /\ [o EXCEPT !.late = b, !.taken = at].late = b
          BY <2>2, <4>1 DEF Offers
        <5>2. TRUE \in BOOLEAN
          OBVIOUS
        <5> QED
          BY <4>2, <5>1, <5>2, Zenon
      <4>4. Told(c)
        BY <1>0, <4>3 DEF Told
      <4>5. F!Adds(key, {c})
        BY <2>1, <2>4, <3>4, <4>1, <4>2
      <4> QED
        BY <1>0, <2>2, <2>3, <3>1, <3>2, <4>3, <4>4, <4>5, FeedAdds DEF FeedTypes
    <3> QED
      BY <3>3, <3>4
  <2>5. CASE chain.data # None
    <3>0. PICK data \in Nat, aged \in BOOLEAN : data = chain.data /\ aged = chain.late
      BY <2>2, <2>5
    <3>1. PICK c : c = F!Candidate(key, data, aged, at)
      OBVIOUS
    <3>2. /\ c \in Offers /\ c.kind = key /\ c.data = chain.data /\ c.late = chain.late /\ c.taken = at
          /\ c.claims = fBuild.instant
      <4>1. key \in {"near"} \cup F!Supplemental
        OBVIOUS
      <4> HIDE DEF at
      <4>0. c = [kind |-> key, data |-> data, claims |-> fBuild.instant, quality |-> fBuild.quality,
              late |-> aged, taken |-> at]
        BY <3>1 DEF F!Candidate
      <4>2. /\ c \in Offers /\ c.kind = key /\ c.data = data /\ c.late = aged /\ c.taken = at
            /\ c.claims = fBuild.instant
        BY <2>2, <4>0, <4>1, OfferType
      <4> QED
        BY <3>0, <4>2
    <3>3. F!Adds(key, {c}) /\ fSession' = [fSession EXCEPT ![key] = [fetched |-> fNow, candidate |-> c]]
      BY <2>1, <2>5, <3>0, <3>1
    <3>4. Ttl[key] \in Nat /\ SessionTtl[key] \in Nat /\ chain.data \in Nat
      BY <1>0, <2>2, <2>5, KeysAre
    <3>5. ~c.late => c.claims - c.data < Ttl[key] /\ c.taken - c.data < Ttl[key] + SessionTtl[key] /\ fNow - c.data < Ttl[key]
      BY <1>0, <2>2, <2>5, <3>2, <3>4
    <3>6. Told(c)
      BY <1>0, <3>2, <3>5 DEF Told
    <3>7. fSession' \in [F!Supplemental -> {None} \cup [fetched : Nat, candidate : Offers]]
      BY <1>0, <3>2, <3>3 DEF FeedTypes
    <3>8. ServedOn'
      <4>1. SUFFICES ASSUME NEW k \in F!Supplemental, fSession'[k] # None
                     PROVE  /\ fSession'[k].fetched <= fNow' /\ fSession'[k].candidate.kind = k
                            /\ ~fSession'[k].candidate.late =>
                                 /\ fSession'[k].candidate.claims - fSession'[k].candidate.data < Ttl[k]
                                 /\ fSession'[k].fetched - fSession'[k].candidate.data < Ttl[k]
        BY DEF ServedOn
      <4>2. CASE k = key
        <5>1. fSession'[k] = [fetched |-> fNow, candidate |-> c]
          BY <1>0, <3>3, <4>2 DEF FeedTypes
        <5> QED
          BY <1>0, <2>2, <2>3, <3>2, <3>5, <4>2, <5>1
      <4>3. CASE k # key
        <5>1. fSession'[k] = fSession[k]
          BY <1>0, <3>3, <4>3 DEF FeedTypes
        <5>2. fSession[k].fetched \in Nat /\ fSession[k].fetched <= fNow
          BY <1>0, <4>1, <5>1 DEF FeedTypes, FeedInv, ServedOn
        <5> QED
          BY <1>0, <2>2, <2>3, <4>1, <5>1, <5>2 DEF FeedInv, ServedOn
      <4> QED
        BY <4>2, <4>3
    <3> QED
      BY <1>0, <2>2, <2>3, <3>2, <3>3, <3>6, <3>7, <3>8, FeedAdds
  <2> QED
    BY <2>4, <2>5
<1> QED
  BY <1>2, <1>3, <1>4

LEMMA FeedStays ==
  ASSUME FeedInv, [Exits \/ Evidence \/ M1 \/ FeedPart]_all
  PROVE  FeedInv'
<1>1. ASSUME UNCHANGED <<fNow, fExtra, fCache, fBackoff, fSession, fBuild, fOffered>> PROVE FeedInv'
  BY <1>1 DEF FeedInv, FeedTypes, ServedOn, BuildDated, Told
<1>2. ASSUME F!Pass PROVE FeedInv'
  <2>1. UNCHANGED <<fExtra, fCache, fBackoff, fSession, fBuild, fOffered>> /\ fNow' = fNow + 1
    BY <1>2 DEF F!Pass
  <2>2. fNow' \in Nat /\ fNow' >= fNow
    BY <2>1 DEF FeedInv, FeedTypes
  <2>3. ServedOn'
    BY <2>1, <2>2, SessionLater
  <2>4. BuildDated'
    BY <2>1 DEF FeedInv, FeedTypes, BuildDated, Told, Builds
  <2> QED
    BY <2>1, <2>2, <2>3, <2>4 DEF FeedInv, FeedTypes, Told
<1>3. ASSUME F!Next PROVE FeedInv'
  BY <1>2, <1>3, FeedRunsOnce, FeedOptions, FeedMerges DEF F!Next
<1> QED
  BY <1>1, <1>3 DEF FeedPart, Exits, Evidence, M1, all, feed

\* A candidate of the near expiry that is not STALE claims a time at most the chain's
\* limit after its prices; one of another expiry that is not late has prices within
\* the periods of the caches that they came through, whatever the provider answered
\* and however long it took (build_option_candidates, _merge_following_week_chain).
THEOREM PricesAreDated == Services => []PricesDated
<1>1. Services => []FeedInv
  BY FeedStarts, FeedStays, PTL DEF Services
<1>2. FeedInv => PricesDated
  BY DEF FeedInv, Told, PricesDated, F!PricesDated
<1> QED
  BY <1>1, <1>2, PTL

=============================================================================
