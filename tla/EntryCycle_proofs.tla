-------------------------- MODULE EntryCycle_proofs --------------------------
(***************************************************************************)
(* Proofs about EntryCycle, for any set of intents, either entry profile,  *)
(* any interleaving of the cycle with the closing thread, and any crashes; *)
(* and about how long a trade is held, the bounds of its exit and what     *)
(* trades earn, which are checked in one run with it (MCTradeLife).        *)
(***************************************************************************)
EXTENDS MCTradeLife, WellFoundedInduction, FiniteSetTheorems, TLAPS

\* While an order is under way there is a leg in hand.
LegInHand == cycle.pc \in {"submit", "broker", "adopt"} => cycle.legs # {}

TypeInv == TypeOK /\ LegInHand

\* The default intent of an idle record is an intent.
LEMMA SomeIntent == (CHOOSE i \in Intents : TRUE) \in Intents
  BY IntentsAssumption

\* The leg in hand is one of the legs to do.
LEMMA LegIsOne ==
  ASSUME cycle.legs \subseteq {1, 2}, cycle.legs # {}
  PROVE  Leg \in cycle.legs /\ Leg \in {1, 2}
  <1>1. \E k \in cycle.legs : \A j \in cycle.legs : k <= j
    <2>1. CASE 1 \in cycle.legs
      <3>1. \A j \in cycle.legs : 1 <= j
        OBVIOUS
      <3>. QED BY <2>1, <3>1
    <2>2. CASE 1 \notin cycle.legs
      <3>1. 2 \in cycle.legs /\ \A j \in cycle.legs : 2 <= j
        BY <2>2
      <3>. QED BY <3>1
    <2>. QED BY <2>1, <2>2
  <1>2. Leg \in cycle.legs
    BY <1>1 DEF Leg
  <1>. QED BY <1>2

\* The legs of an intent are one or two.
LEMMA LegsOf == \A i : Legs(i) \subseteq {1, 2} /\ Legs(i) # {}
  BY DEF Legs

\* What submit_plan goes on with is a position of the cycle, with a leg in
\* hand if it goes on submitting.
LEMMA AfterLegTyped ==
  ASSUME TypeOK, cycle.legs # {}, NEW s \in States
  PROVE  /\ AfterLeg(s) \in CycleType
         /\ AfterLeg(s).pc \in {"submit", "broker", "adopt"} => AfterLeg(s).legs # {}
  <1>1. Leg \in cycle.legs /\ Leg \in {1, 2}
    BY LegIsOne DEF TypeOK, CycleType
  <1>. DEFINE seen == [cycle.seen EXCEPT ![Leg] = s]
              done == [cycle EXCEPT !.pc = "apply", !.seen = seen,
                                    !.legs = {k \in {1, 2} : seen[k] = "FILLED"}]
              more == [cycle EXCEPT !.pc = "submit", !.seen = seen, !.legs = @ \ {Leg}]
  <1>2. seen \in [{1, 2} -> States]
    BY <1>1 DEF TypeOK, CycleType
  <1>. HIDE DEF seen
  <1>3. done \in CycleType /\ done.pc = "apply"
    BY <1>2 DEF TypeOK, CycleType, Stages
  <1>4. more \in CycleType /\ more.legs = cycle.legs \ {Leg}
    BY <1>2 DEF TypeOK, CycleType, Stages
  <1>5. CASE s = "REJECTED" \/ cycle.legs = {Leg}
    <2>1. AfterLeg(s) = done
      BY <1>5 DEF AfterLeg, seen
    <2>. QED BY <2>1, <1>3
  <1>6. CASE ~(s = "REJECTED" \/ cycle.legs = {Leg})
    <2>1. AfterLeg(s) = more
      BY <1>6 DEF AfterLeg, seen
    <2>2. cycle.legs \ {Leg} # {}
      BY <1>6, <1>1
    <2>. QED BY <2>1, <2>2, <1>4
  <1>. QED BY <1>5, <1>6

\* The idle position of the cycle, and of a close.
LEMMA Idles == NoCycle \in CycleType /\ NoClose \in [pc : {"idle", "closed", "read"},
                 cur : Intents, snap : [reserved : Nat, margin : Nat]]
  BY SomeIntent DEF NoCycle, NoClose, CycleType, Stages, NoEvents, States

\* Truncated subtraction stays natural, and below what it is taken from.
LEMMA SubNat == \A a, b \in Nat : Sub(a, b) \in Nat /\ Sub(a, b) <= a
  BY DEF Sub

\* The initial state is typed.
LEMMA TypeInit == Init => TypeInv
  <1>. SUFFICES ASSUME Init PROVE TypeInv
    OBVIOUS
  <1>1. LegInHand
    BY DEF Init, NoCycle, LegInHand
  <1>2. cycle \in CycleType /\ closing \in [pc : {"idle", "closed", "read"}, cur : Intents,
                                           snap : [reserved : Nat, margin : Nat]]
    BY Idles DEF Init
  <1>3. log \in [Intents -> [{1, 2} -> States]]
        /\ order \in [Intents -> [{1, 2} -> Outcomes \cup {"NONE"}]]
    BY DEF Init, NoEvents, States
  <1>4. /\ hold \in [Intents -> {"NONE", "RESERVED", "COMMITTED", "RELEASED", "REJECTED"}]
        /\ keys \subseteq Intents /\ ledger \in [reserved : Nat, margin : Nat]
        /\ exited \in [Intents -> SUBSET {1, 2}] /\ inBook \subseteq Intents
        /\ attempts \in [Intents -> Nat] /\ profile \in Profiles
    BY DEF Init
  <1>5. /\ trade \in [Intents -> [state : {"NONE", "OPEN", "CLOSED"}, legs : SUBSET {1, 2}]]
        /\ row \in [Intents -> {"NONE", "OPEN", "CLOSED"}]
    BY DEF Init, NoTrade
  <1>. QED BY <1>1, <1>2, <1>3, <1>4, <1>5 DEF TypeInv, TypeOK

\* The next process has typed memory: counts of finite sets are naturals.
LEMMA RestartTyped ==
  ASSUME TypeInv, Restart
  PROVE  TypeInv'
  <1>. DEFINE open == {i \in Intents : row[i] = "OPEN"}
  <1>1. IsFiniteSet(Holding({"RESERVED"})) /\ IsFiniteSet(open)
    BY IntentsAssumption, FS_Subset DEF Holding
  <1>2. ledger' \in [reserved : Nat, margin : Nat]
    BY <1>1, FS_CardinalityType DEF Restart
  <1>3. trade' \in [Intents -> [state : {"NONE", "OPEN", "CLOSED"}, legs : SUBSET {1, 2}]]
    BY LegsOf DEF Restart, NoTrade
  <1>4. inBook' \subseteq Intents
    BY DEF Restart
  <1>5. cycle' = NoCycle /\ closing' = NoClose
    BY DEF Restart
  <1>6. UNCHANGED <<hold, keys, log, order, exited, row, profile, attempts>>
    BY DEF Restart, orders, session
  <1>7. LegInHand'
    BY <1>5 DEF LegInHand, NoCycle
  <1>. QED BY <1>2, <1>3, <1>4, <1>5, <1>6, <1>7, Idles DEF TypeInv, TypeOK

\* Every step keeps the types, and a leg in hand while an order is under way.
LEMMA TypeKept ==
  ASSUME TypeInv, [Next]_vars
  PROVE  TypeInv'
  <1>. USE DEF TypeInv, session
  <1>0. ASSUME Drop
        PROVE  cycle' \in CycleType /\ LegInHand'
    <2>1. cycle' = [NoCycle EXCEPT !.pc = "pick", !.todo = cycle.todo]
      BY <1>0 DEF Drop
    <2>2. cycle' \in CycleType /\ cycle'.pc = "pick"
      BY <2>1, Idles DEF TypeOK, CycleType, Stages
    <2>. QED BY <2>2 DEF LegInHand
  <1>1. ASSUME NEW S \in SUBSET Intents, BeginCycle(S)
        PROVE  TypeInv'
    <2>1. cycle' \in CycleType /\ cycle'.pc = "pick"
      BY <1>1, Idles DEF BeginCycle, CycleType, Stages
    <2>2. attempts' \in [Intents -> Nat]
      BY <1>1 DEF BeginCycle, TypeOK
    <2>. QED BY <1>1, <2>1, <2>2 DEF BeginCycle, TypeOK, LegInHand, orders, books
  <1>2. CASE EndCycle
    <2>1. cycle' \in CycleType /\ LegInHand'
      BY <1>2, Idles DEF EndCycle, LegInHand, NoCycle
    <2>. QED BY <1>2, <2>1 DEF EndCycle, TypeOK, orders, books
  <1>3. ASSUME NEW i \in Intents, Reserve(i) \/ ReserveTooMuch(i) \/ ReserveRefused(i)
        PROVE  TypeInv'
    <2>1. /\ cycle' \in CycleType /\ cycle'.pc \in {"pick", "register", "book"}
          /\ UNCHANGED <<keys, ledger, orders, books, session, closing>>
      <3>1. PICK stage \in {"pick", "register", "book"} : Turns(i, stage)
        BY <1>3, ProfilesAssumption DEF Reserve, ReserveTooMuch, ReserveRefused
      <3>. QED BY <3>1, Idles DEF Turns, CycleType, Stages, TypeOK
    <2>2. hold' \in [Intents -> {"NONE", "RESERVED", "COMMITTED", "RELEASED", "REJECTED"}]
      BY <1>3 DEF Reserve, ReserveTooMuch, ReserveRefused, TypeOK
    <2>. QED BY <2>1, <2>2 DEF TypeOK, LegInHand, orders, books
  <1>4. CASE RegisterKey
    <2>1. cycle' \in CycleType /\ cycle'.pc = "book"
      BY <1>4 DEF RegisterKey, TypeOK, CycleType, Stages
    <2>2. keys' \subseteq Intents
      BY <1>4 DEF RegisterKey, TypeOK, CycleType, Cur
    <2>. QED BY <1>4, <2>1, <2>2 DEF RegisterKey, TypeOK, LegInHand, orders, books
  <1>5. CASE ReserveInBook
    <2>1. PICK b \in BOOLEAN : TakeIf(b)
      BY <1>5 DEF ReserveInBook
    <2>2. cycle' \in CycleType /\ LegInHand'
      <3>1. CASE b
        <4>1. cycle' = [cycle EXCEPT !.pc = "submit", !.legs = Legs(Cur)]
          BY <2>1, <3>1 DEF TakeIf
        <4>2. Legs(Cur) \subseteq {1, 2} /\ Legs(Cur) # {}
          BY LegsOf
        <4>. QED BY <4>1, <4>2 DEF TypeOK, CycleType, Stages, LegInHand
      <3>2. CASE ~b
        <4>1. Drop
          BY <2>1, <3>2 DEF TakeIf
        <4>. QED BY <4>1, <1>0
      <3>. QED BY <3>1, <3>2
    <2>3. ledger' \in [reserved : Nat, margin : Nat]
      BY <2>1 DEF TakeIf, TypeOK
    <2>4. hold' \in [Intents -> {"NONE", "RESERVED", "COMMITTED", "RELEASED", "REJECTED"}]
      BY <2>1 DEF TakeIf, TypeOK
    <2>. QED BY <2>1, <2>2, <2>3, <2>4 DEF TakeIf, TypeOK, orders, books
  <1>6. CASE LookupKnown
    <2>1. cycle.legs # {} /\ log[Cur][Leg] \in States
      BY <1>6, LegIsOne DEF LookupKnown, At, LegInHand, TypeOK, CycleType, Cur
    <2>2. cycle' \in CycleType /\ LegInHand'
      BY <1>6, <2>1, AfterLegTyped DEF LookupKnown, LegInHand
    <2>. QED BY <1>6, <2>2 DEF LookupKnown, TypeOK, orders, books
  <1>7. CASE Submit
    <2>1. cycle.legs # {} /\ Leg \in {1, 2} /\ Cur \in Intents
      BY <1>7, LegIsOne DEF Submit, At, LegInHand, TypeOK, CycleType, Cur
    <2>2. log' \in [Intents -> [{1, 2} -> States]]
      BY <1>7, <2>1 DEF Submit, TypeOK, States
    <2>3. cycle' \in CycleType /\ cycle'.legs # {}
      BY <1>7, <2>1 DEF Submit, TypeOK, CycleType, Stages
    <2>. QED BY <1>7, <2>2, <2>3 DEF Submit, TypeOK, LegInHand, books
  <1>8. ASSUME NEW s \in Outcomes, BrokerAnswers(s)
        PROVE  TypeInv'
    <2>1. cycle' \in CycleType /\ cycle'.legs = cycle.legs /\ cycle.legs # {}
      BY <1>8 DEF BrokerAnswers, At, LegInHand, TypeOK, CycleType, Stages
    <2>2. order' \in [Intents -> [{1, 2} -> Outcomes \cup {"NONE"}]]
      BY <1>8 DEF BrokerAnswers, TypeOK
    <2>. QED BY <1>8, <2>1, <2>2 DEF BrokerAnswers, TypeOK, LegInHand, books
  <1>9. CASE PersistAnswer
    <2>1. cycle.legs # {} /\ order[Cur][Leg] \in States
      BY <1>9, LegIsOne DEF PersistAnswer, At, LegInHand, TypeOK, CycleType, Cur, Outcomes, States
    <2>2. cycle' \in CycleType /\ LegInHand'
      BY <1>9, <2>1, AfterLegTyped DEF PersistAnswer, LegInHand
    <2>3. log' \in [Intents -> [{1, 2} -> States]]
      BY <1>9, <2>1 DEF PersistAnswer, TypeOK
    <2>. QED BY <1>9, <2>2, <2>3 DEF PersistAnswer, TypeOK, books
  <1>10. CASE ApplyFill
    <2>1. Leg \in {1, 2} /\ Cur \in Intents
      BY <1>10, LegIsOne DEF ApplyFill, TypeOK, CycleType, Cur
    <2>2. cycle' \in CycleType /\ cycle'.pc = "apply"
      BY <1>10 DEF ApplyFill, At, TypeOK, CycleType
    <2>3. trade' \in [Intents -> [state : {"NONE", "OPEN", "CLOSED"}, legs : SUBSET {1, 2}]]
      <3>. DEFINE was == trade[Cur]
                  now == [state |-> IF was.state = "NONE" THEN "OPEN" ELSE was.state,
                          legs |-> was.legs \cup {Leg}]
                  Trades == [state : {"NONE", "OPEN", "CLOSED"}, legs : SUBSET {1, 2}]
      <3>1. was \in Trades
        BY <2>1 DEF TypeOK
      <3>2. now \in Trades
        BY <2>1, <3>1
      <3>3. Filled = [trade EXCEPT ![Cur] = now]
        BY DEF Filled
      <3>. QED BY <1>10, <3>2, <3>3 DEF ApplyFill, TypeOK
    <2>4. hold' \in [Intents -> {"NONE", "RESERVED", "COMMITTED", "RELEASED", "REJECTED"}]
      BY <1>10 DEF ApplyFill, TypeOK
    <2>. QED BY <1>10, <2>1, <2>2, <2>3, <2>4 DEF ApplyFill, TypeOK, LegInHand, orders
  <1>12. CASE Finish
    <2>1. Sub(ledger.reserved, 1) \in Nat /\ ledger.margin + 1 \in Nat
      <3>1. ledger.reserved \in Nat /\ ledger.margin \in Nat
        BY DEF TypeOK
      <3>. QED BY <3>1 DEF Sub
    <2>3. ledger' \in [reserved : Nat, margin : Nat]
      BY <1>12, <2>1 DEF Finish
    <2>2. row' \in [Intents -> {"NONE", "OPEN", "CLOSED"}]
      BY <1>12 DEF Finish, TypeOK
    <2>. QED BY <1>12, <1>0, <2>3, <2>2 DEF Finish, TypeOK, orders
  <1>13. CASE Abort
    <2>1. Sub(ledger.reserved, 1) \in Nat
      BY SubNat DEF TypeOK
    <2>3. ledger' \in [reserved : Nat, margin : Nat]
      BY <1>13, <2>1 DEF Abort, TypeOK
    <2>2. hold' \in [Intents -> {"NONE", "RESERVED", "COMMITTED", "RELEASED", "REJECTED"}]
      BY <1>13 DEF Abort, TypeOK
    <2>. QED BY <1>13, <1>0, <2>3, <2>2 DEF Abort, TypeOK, orders
  <1>15. ASSUME NEW i \in Intents, Close(i)
         PROVE  TypeInv'
    <2>1. closing' \in [pc : {"idle", "closed", "read"}, cur : Intents,
                        snap : [reserved : Nat, margin : Nat]]
      BY <1>15, Idles DEF Close
    <2>2. exited' \in [Intents -> SUBSET {1, 2}]
      BY <1>15 DEF Close, TypeOK
    <2>3. trade' \in [Intents -> [state : {"NONE", "OPEN", "CLOSED"}, legs : SUBSET {1, 2}]]
      BY SMTT(40), <1>15 DEF Close, TypeOK
    <2>4. hold' \in [Intents -> {"NONE", "RESERVED", "COMMITTED", "RELEASED", "REJECTED"}]
          /\ row' \in [Intents -> {"NONE", "OPEN", "CLOSED"}]
      BY <1>15 DEF Close, TypeOK
    <2>. QED BY <1>15, <2>1, <2>2, <2>3, <2>4 DEF Close, TypeOK, LegInHand
  <1>16. CASE ReadLedger
    <2>1. closing' \in [pc : {"idle", "closed", "read"}, cur : Intents,
                        snap : [reserved : Nat, margin : Nat]]
      BY <1>16 DEF ReadLedger, TypeOK
    <2>. QED BY <1>16, <2>1 DEF ReadLedger, TypeOK, LegInHand, orders, books
  <1>17. CASE WriteLedger
    <2>3. closing.snap \in [reserved : Nat, margin : Nat]
      BY DEF TypeOK
    <2>4. Sub(closing.snap.reserved, 1) \in Nat
      BY <2>3, SubNat
    <2>1. ledger' \in [reserved : Nat, margin : Nat]
      BY <1>17, <2>3, <2>4 DEF WriteLedger
    <2>2. closing' = NoClose
      BY <1>17 DEF WriteLedger
    <2>. QED BY <1>17, <2>1, <2>2, Idles DEF WriteLedger, TypeOK, LegInHand, orders
  <1>18. CASE ApplyRaises \/ Crash
    BY <1>18, RestartTyped DEF ApplyRaises, Crash
  <1>19. CASE UNCHANGED vars
    BY <1>19 DEF vars, TypeOK, LegInHand
  <1>. QED
    BY <1>1, <1>2, <1>3, <1>4, <1>5, <1>6, <1>7, <1>8, <1>9, <1>10, <1>12, <1>13,
       <1>15, <1>16, <1>17, <1>18, <1>19 DEF Next, SteadyNext

\* Type correctness, across threads and crashes.
THEOREM TypeCorrect == Spec => []TypeOK
  <1>1. TypeInv /\ [Next]_vars => TypeInv'
    BY TypeKept
  <1>2. TypeInv => TypeOK
    BY DEF TypeInv
  <1>. QED BY TypeInit, <1>1, <1>2, PTL DEF Spec

-----------------------------------------------------------------------------
\* The holds of a mode fit its equity: the store's own check and write are one
\* transaction, on a limit that no state of the in-memory ledger raises above
\* the equity, so neither a lost update of the ledger nor a restart matters.

\* Any set of intents is finite, and a smaller one counts less.
LEMMA Counting ==
  /\ \A S \in SUBSET Intents : IsFiniteSet(S) /\ Cardinality(S) \in Nat
  /\ \A S, T \in SUBSET Intents : S \subseteq T => Cardinality(S) <= Cardinality(T)
  /\ \A S \in SUBSET Intents, i \in Intents :
       Cardinality(S \cup {i}) <= Cardinality(S) + 1
  <1>1. \A S \in SUBSET Intents : IsFiniteSet(S) /\ Cardinality(S) \in Nat
    BY IntentsAssumption, FS_Subset, FS_CardinalityType
  <1>2. \A S, T \in SUBSET Intents : S \subseteq T => Cardinality(S) <= Cardinality(T)
    BY <1>1, FS_Subset
  <1>3. ASSUME NEW S \in SUBSET Intents, NEW i \in Intents
        PROVE  Cardinality(S \cup {i}) <= Cardinality(S) + 1
    <2>1. IsFiniteSet(S)
      BY <1>1
    <2>2. Cardinality(S \cup {i}) = IF i \in S THEN Cardinality(S) ELSE Cardinality(S) + 1
      BY <2>1, FS_AddElement
    <2>. QED BY <2>2, <1>1
  <1>. QED BY <1>1, <1>2, <1>3

\* What the mode ledger calls available is never more than the equity.
LEMMA AvailableFits == TypeOK => Available <= Capital
  BY CapitalAssumption DEF TypeOK, Available, Sub

\* Only a pending hold can be committed.
LEMMA CommitsPending ==
  \A s : CanReservation(s, "COMMITTED", "BROKER_EVENT") => s = "RESERVED"
  BY DEF CanReservation, ReservationEdge

\* A session keeps its entry profile.
LEMMA ProfileKept == [Next]_vars => UNCHANGED profile
  BY DEF Next, SteadyNext, BeginCycle, EndCycle, Reserve, ReserveTooMuch, ReserveRefused,
         Turns, Close, RegisterKey, ReserveInBook, TakeIf, LookupKnown, Submit,
         BrokerAnswers, PersistAnswer, ApplyFill, ApplyRaises, Finish,
         Abort, ReadLedger, WriteLedger, Crash, Restart, session, vars

\* An intent that holds capital after a step, and not before, was granted it.
LEMMA HoldsKept ==
  ASSUME TypeOK, [Next]_vars, HoldsFit
  PROVE  HoldsFit'
  <1>. DEFINE Now == Holding(HoldsCapital)
  <1>0. Discovery' = Discovery
    BY ProfileKept DEF Discovery
  <1>1. Now \subseteq Intents /\ Now' \subseteq Intents
    BY DEF Holding
  <1>2. ASSUME Now' \subseteq Now
        PROVE  HoldsFit'
    <2>1. Cardinality(Now') <= Cardinality(Now)
      BY <1>1, <1>2, Counting
    <2>2. Cardinality(Now') \in Nat /\ Cardinality(Now) \in Nat
      BY <1>1, Counting
    <2>. QED BY <1>0, <2>1, <2>2, CapitalAssumption DEF HoldsFit
  <1>3. ASSUME UNCHANGED hold
        PROVE  HoldsFit'
    BY <1>2, <1>3 DEF Holding
  <1>4. ASSUME NEW i \in Intents, NEW s, s \notin HoldsCapital \/ hold[i] \in HoldsCapital,
               hold' = [hold EXCEPT ![i] = s]
        PROVE  HoldsFit'
    <2>1. Now' \subseteq Now
      BY <1>4 DEF Holding, TypeOK
    <2>. QED BY <2>1, <1>2
  <1>5. ASSUME NEW i \in Intents, Reserve(i)
        PROVE  HoldsFit'
    <2>1. hold' = [hold EXCEPT ![i] = "RESERVED"]
      BY <1>5 DEF Reserve
    <2>2. CASE hold[i] = "RESERVED"
      BY <2>1, <2>2, <1>4 DEF HoldsCapital
    <2>3. CASE HeldCapital + 1 <= Limit
      <3>1. CASE Discovery
        BY <1>0, <3>1 DEF HoldsFit
      <3>2. CASE ~Discovery
        <4>1. Cardinality(Now) + 1 <= Available
          BY <2>3, <3>2 DEF Limit, HeldCapital
        <4>2. Now' \subseteq Now \cup {i}
          BY <2>1 DEF Holding, TypeOK
        <4>3. Cardinality(Now') <= Cardinality(Now \cup {i})
          BY <4>2, <1>1, Counting
        <4>4. Cardinality(Now \cup {i}) <= Cardinality(Now) + 1
          BY <1>1, Counting
        <4>5. Cardinality(Now') \in Nat /\ Cardinality(Now) \in Nat
              /\ Cardinality(Now \cup {i}) \in Nat
          BY <1>1, Counting
        <4>6. Available \in Nat
          BY CapitalAssumption DEF TypeOK, Available, Sub
        <4>. QED BY <4>1, <4>3, <4>4, <4>5, <4>6, AvailableFits, CapitalAssumption DEF HoldsFit
      <3>. QED BY <3>1, <3>2
    <2>. QED BY <2>2, <2>3, <1>5 DEF Reserve
  <1>6. ASSUME NEW i \in Intents, ReserveTooMuch(i) \/ Close(i)
        PROVE  HoldsFit'
    BY <1>4, <1>6 DEF ReserveTooMuch, Close, HoldsCapital
  <1>7. Cur \in Intents
    BY DEF TypeOK, CycleType, Cur
  <1>8. CASE ReserveInBook
    <2>1. PICK b \in BOOLEAN : TakeIf(b)
      BY <1>8 DEF ReserveInBook
    <2>2. CASE b
      BY <2>1, <2>2, <1>3 DEF TakeIf
    <2>3. CASE ~b
      BY <2>1, <2>3, <1>4, <1>7 DEF TakeIf, HoldsCapital
    <2>. QED BY <2>2, <2>3
  <1>9. CASE ApplyFill
    <2>1. CASE Completes
      <3>1. hold[Cur] = "RESERVED"
        BY <1>9, <2>1, CommitsPending DEF ApplyFill
      <3>. QED BY <1>9, <2>1, <3>1, <1>4, <1>7 DEF ApplyFill, HoldsCapital
    <2>2. CASE ~Completes
      BY <1>9, <2>2, <1>3 DEF ApplyFill
    <2>. QED BY <2>1, <2>2
  <1>10. CASE Abort
    <2>1. CASE CanReservation(hold[Cur], "RELEASED", "LOCAL_COMMAND")
      BY <1>10, <2>1, <1>4, <1>7 DEF Abort, HoldsCapital
    <2>2. CASE ~CanReservation(hold[Cur], "RELEASED", "LOCAL_COMMAND")
      BY <1>10, <2>2, <1>3 DEF Abort
    <2>. QED BY <2>1, <2>2
  <1>11. ASSUME NEW i \in Intents, ReserveRefused(i)
         PROVE  HoldsFit'
    BY <1>3, <1>11 DEF ReserveRefused
  <1>12. ASSUME NEW S \in SUBSET Intents, BeginCycle(S)
         PROVE  HoldsFit'
    BY <1>3, <1>12 DEF BeginCycle
  <1>13. ASSUME NEW s \in Outcomes, BrokerAnswers(s)
         PROVE  HoldsFit'
    BY <1>3, <1>13 DEF BrokerAnswers
  <1>14. CASE EndCycle \/ RegisterKey \/ LookupKnown \/ Submit \/ PersistAnswer
    BY <1>3, <1>14 DEF EndCycle, RegisterKey, LookupKnown, Submit, PersistAnswer
  <1>15. CASE Finish \/ ReadLedger \/ WriteLedger
    BY <1>3, <1>15 DEF Finish, ReadLedger, WriteLedger
  <1>16. CASE ApplyRaises \/ Crash \/ UNCHANGED vars
    BY <1>3, <1>16 DEF ApplyRaises, Crash, Restart, vars
  <1>. QED
    BY <1>5, <1>6, <1>8, <1>9, <1>10, <1>11, <1>12, <1>13, <1>14, <1>15, <1>16
    DEF Next, SteadyNext

\* Under STRICT the durable holds of a mode never exceed its equity: for every
\* number of intents and amount of capital, any interleaving of the cycle with
\* the closing thread, and crashes at any step.
THEOREM HoldsFitEquity == Spec => []HoldsFit
  <1>1. Init => HoldsFit
    <2>1. Init => Holding(HoldsCapital) = {}
      BY DEF Init, Holding, HoldsCapital
    <2>. QED BY <2>1, FS_EmptySet, CapitalAssumption DEF HoldsFit
  <1>2. TypeOK /\ HoldsFit /\ [Next]_vars => HoldsFit'
    BY HoldsKept
  <1>. QED BY <1>1, <1>2, TypeCorrect, PTL DEF Spec

-----------------------------------------------------------------------------
\* No entry beside an orphan: one intent a cycle, under STRICT.

Sending == cycle.pc \in {"submit", "broker", "adopt"}

Entering == Sending \/ cycle.pc \in {"register", "book"}

Going == Entering \/ (At("pick") /\ cycle.todo # {})

OneTodo ==
  /\ \A i, j \in cycle.todo : i = j
  /\ cycle.pc \notin {"idle", "pick"} => cycle.todo = {}

\* What submit_plan has seen: nothing but fills until it ends, each of which is
\* then applied, unless the trade is closed by then.
SeenSoFar ==
  /\ cycle.pc \in {"register", "book"} => \A k \in {1, 2} : cycle.seen[k] = "NONE"
  /\ Sending =>
       /\ cycle.legs \subseteq Legs(Cur)
       /\ \A k \in {1, 2} : cycle.seen[k] = IF k \in Legs(Cur) \ cycle.legs THEN "FILLED" ELSE "NONE"
  /\ At("adopt") => order[Cur][Leg] \in Outcomes
  /\ At("apply") =>
       /\ AnyFailed \/ \A k \in Legs(Cur) : cycle.seen[k] = "FILLED"
       /\ \A k \in {1, 2} : cycle.seen[k] = "FILLED" => k \in Legs(Cur)
       /\ \A k \in cycle.legs : cycle.seen[k] = "FILLED"
       /\ \A k \in Legs(Cur) : cycle.seen[k] = "FILLED" /\ k \notin cycle.legs =>
            k \in trade[Cur].legs \/ trade[Cur].state = "CLOSED"

\* In a cycle only the order in hand is without its answer.
NoneDangles ==
  ~At("idle") => \A i \in Intents, k \in {1, 2} :
    log[i][k] = "SUBMITTING" => cycle.pc \in {"broker", "adopt"} /\ i = Cur /\ k = Leg

\* An open trade of the book has all its legs, or gets them now.
TradesWhole ==
  \A i \in Intents :
    /\ trade[i].legs \subseteq Legs(i)
    /\ trade[i].state = "OPEN" /\ i \in inBook => trade[i].legs = Legs(i) \/ (At("apply") /\ i = Cur)

\* While an intent is evaluated and sent, every other position has its open row.
NoOrphan == Going => \A j \in AtBroker : row[j] = "OPEN" \/ (Entering /\ j = Cur)

OneByOne == OneTodo /\ SeenSoFar /\ NoneDangles /\ TradesWhole /\ NoOrphan

\* The intent in hand is done with: the cycle has no other.
LEMMA DropKeeps ==
  ASSUME OneByOne, cycle.pc \in {"book", "apply"}, Drop, log' = log, TradesWhole'
  PROVE  OneByOne'
<1>1. cycle'.pc = "pick" /\ cycle'.todo = {}
  BY DEF Drop, NoCycle, OneByOne, OneTodo
<1>2. OneTodo' /\ SeenSoFar' /\ NoOrphan'
  BY <1>1 DEF OneTodo, SeenSoFar, NoOrphan, Going, Entering, Sending, At
<1>3. NoneDangles'
  BY <1>1 DEF OneByOne, NoneDangles, At
<1>4. QED
  BY <1>2, <1>3 DEF OneByOne

\* submit_plan goes on to its next leg, or to the fills.
LEMMA AfterLegKeeps ==
  ASSUME TypeInv, OneByOne, Sending, NEW s \in Outcomes, cycle' = AfterLeg(s),
         UNCHANGED <<order, exited, books>>,
         \A i \in Intents, k \in {1, 2} : log'[i][k] # "SUBMITTING"
  PROVE  OneByOne'
<1> DEFINE l == Leg
           seen == [cycle.seen EXCEPT ![l] = s]
           filled == {k \in {1, 2} : seen[k] = "FILLED"}
<1>0. cycle \in CycleType /\ cycle.legs \subseteq Legs(Cur) /\ Cur \in Intents
  BY DEF TypeInv, TypeOK, CycleType, OneByOne, SeenSoFar, Cur
<1>1. l \in cycle.legs /\ l \in {1, 2} /\ l \in Legs(Cur)
  BY <1>0, LegIsOne DEF TypeInv, LegInHand, CycleType, Sending
<1>2. /\ seen \in [{1, 2} -> States] /\ seen[l] = s
      /\ \A k \in {1, 2} : k # l => seen[k] = IF k \in Legs(Cur) \ cycle.legs THEN "FILLED" ELSE "NONE"
  BY <1>0, <1>1 DEF CycleType, OneByOne, SeenSoFar, Outcomes, States
<1>3. cycle.todo = {}
  BY DEF OneByOne, OneTodo, Sending
<1>4. /\ s = "REJECTED" \/ cycle.legs = {l} =>
           cycle' = [cycle EXCEPT !.pc = "apply", !.seen = seen, !.legs = filled]
      /\ ~(s = "REJECTED" \/ cycle.legs = {l}) =>
           cycle' = [cycle EXCEPT !.pc = "submit", !.seen = seen, !.legs = cycle.legs \ {l}]
  BY <1>0 DEF AfterLeg, CycleType
<1> HIDE DEF l, seen
<1>5. TradesWhole' /\ NoneDangles'
  <2>1. TradesWhole'
    BY <1>0 DEF OneByOne, TradesWhole, Sending, At, books
  <2>2. QED
    BY <2>1 DEF NoneDangles
<1>6. CASE s = "REJECTED" \/ cycle.legs = {l}
  <2>1. cycle'.pc = "apply" /\ cycle'.seen = seen /\ cycle'.legs = filled /\ Cur' = Cur /\ cycle'.todo = {}
    BY <1>0, <1>3, <1>4, <1>6 DEF CycleType, Cur
  <2>2. (\E k \in {1, 2} : seen[k] = "REJECTED") \/ \A k \in Legs(Cur) : seen[k] = "FILLED"
    BY <1>1, <1>2, <1>6, LegsOf DEF Outcomes
  <2>3. \A k \in {1, 2} : seen[k] = "FILLED" => k \in Legs(Cur)
    BY <1>1, <1>2
  <2>4. SeenSoFar'
    BY <2>1, <2>2, <2>3, LegsOf DEF SeenSoFar, Sending, At, AnyFailed
  <2>5. OneTodo' /\ NoOrphan'
    BY <2>1 DEF OneTodo, NoOrphan, Going, Entering, Sending, At
  <2>6. QED
    BY <1>5, <2>4, <2>5 DEF OneByOne
<1>7. CASE ~(s = "REJECTED" \/ cycle.legs = {l})
  <2>1. /\ cycle'.pc = "submit" /\ cycle'.seen = seen /\ cycle'.legs = cycle.legs \ {l} /\ Cur' = Cur
        /\ cycle'.todo = {} /\ s = "FILLED"
    BY <1>0, <1>3, <1>4, <1>7 DEF CycleType, Cur, Outcomes
  <2>2. \A k \in {1, 2} : seen[k] = IF k \in Legs(Cur) \ (cycle.legs \ {l}) THEN "FILLED" ELSE "NONE"
    BY <1>1, <1>2, <2>1
  <2>3. SeenSoFar'
    BY <1>0, <2>1, <2>2 DEF SeenSoFar, Sending, At
  <2>4. OneTodo'
    BY <2>1 DEF OneTodo
  <2>5. NoOrphan'
    BY <2>1 DEF OneByOne, NoOrphan, Going, Entering, Sending, At, AtBroker, Held, books
  <2>6. QED
    BY <1>5, <2>3, <2>4, <2>5 DEF OneByOne
<1>8. QED
  BY <1>6, <1>7

\* A position that the cycle does not move from: what it says of orders stays.
LEMMA SameCycleKeeps ==
  ASSUME OneByOne, UNCHANGED <<cycle, log, order>>, TradesWhole', NoOrphan',
         \A i \in Intents : trade'[i] = trade[i] \/ trade'[i] = [trade[i] EXCEPT !.state = "CLOSED"],
         TypeInv
  PROVE  OneByOne'
<1>1. OneTodo' /\ NoneDangles'
  BY DEF OneByOne, OneTodo, NoneDangles, At, Cur, Leg
<1>2. \A i \in Intents : trade'[i].legs = trade[i].legs /\ (trade[i].state = "CLOSED" => trade'[i].state = "CLOSED")
  <2> TAKE i \in Intents
  <2>1. trade[i] \in [state : {"NONE", "OPEN", "CLOSED"}, legs : SUBSET {1, 2}]
    BY DEF TypeInv, TypeOK
  <2>2. trade'[i] = trade[i] \/ trade'[i] = [trade[i] EXCEPT !.state = "CLOSED"]
    OBVIOUS
  <2>3. QED
    BY <2>1, <2>2
<1>3. Cur \in Intents
  BY DEF TypeInv, TypeOK, CycleType, Cur
<1>4. SeenSoFar'
  BY <1>2, <1>3 DEF OneByOne, SeenSoFar, Sending, At, AnyFailed, Cur, Leg
<1>5. QED
  BY <1>1, <1>4 DEF OneByOne

LEMMA BeginKeeps ==
  ASSUME TypeInv, ~Discovery, Batch = 1, NEW S \in SUBSET Intents, BeginCycle(S), TradesWhole
  PROVE  OneByOne'
<1>1. IsFiniteSet(S) /\ Cardinality(S) \in Nat /\ Cardinality(S) <= 1
  BY Counting DEF BeginCycle
<1>2. \A i, j \in S : i = j
  <2>1. SUFFICES ASSUME NEW i \in S, NEW j \in S, i # j PROVE FALSE
    OBVIOUS
  <2>2. Cardinality({i, j}) = 2
    <3>1. Cardinality({i}) = 1 /\ IsFiniteSet({i})
      BY FS_Singleton
    <3>2. Cardinality({i} \cup {j}) = Cardinality({i}) + 1
      BY <2>1, <3>1, FS_AddElement
    <3>3. {i} \cup {j} = {i, j}
      OBVIOUS
    <3>4. QED
      BY <3>1, <3>2, <3>3
  <2>3. {i, j} \subseteq S
    OBVIOUS
  <2>4. Cardinality({i, j}) <= Cardinality(S)
    BY <2>3, Counting
  <2>5. QED
    BY <1>1, <2>2, <2>4
<1>3. cycle'.pc = "pick" /\ cycle'.todo = S
  BY DEF BeginCycle, NoCycle
<1>4. ~Dangling /\ \A j \in AtBroker : row[j] = "OPEN"
  BY DEF BeginCycle, Blocked
<1>5. UNCHANGED <<log, order, exited, trade, row, inBook>> /\ ~At("apply")
  BY DEF BeginCycle, orders, books, At
<1>6. OneTodo' /\ SeenSoFar' /\ NoneDangles' /\ NoOrphan'
  BY <1>2, <1>3, <1>4, <1>5 DEF OneTodo, SeenSoFar, NoneDangles, NoOrphan, Dangling, Going, Entering, Sending,
     At, AtBroker, Held
<1>7. TradesWhole'
  BY <1>5 DEF TradesWhole, At
<1>8. QED
  BY <1>6, <1>7 DEF OneByOne

LEMMA TurnKeeps ==
  ASSUME TypeInv, OneByOne, NEW i \in Intents, NEW stage \in {"pick", "book"}, Turns(i, stage)
  PROVE  OneByOne'
<1>0. \A k \in {1, 2} : cycle'.seen[k] = "NONE"
  BY DEF Turns, NoCycle, NoEvents
<1>1. cycle'.pc = stage /\ cycle'.todo = {} /\ Cur' = i
  BY DEF Turns, NoCycle, OneByOne, OneTodo, Cur
<1>2. UNCHANGED <<log, order, exited, trade, row, inBook>> /\ At("pick") /\ cycle.todo # {}
  BY DEF Turns, orders, books
<1>3. OneTodo' /\ SeenSoFar'
  BY <1>0, <1>1 DEF OneTodo, SeenSoFar, Sending, At
<1>4. NoneDangles'
  BY <1>1, <1>2 DEF OneByOne, NoneDangles, At
<1>5. NoOrphan'
  BY <1>1, <1>2 DEF OneByOne, NoOrphan, Going, Entering, Sending, At, AtBroker, Held
<1>6. TradesWhole'
  BY <1>2 DEF OneByOne, TradesWhole, At
<1>7. QED
  BY <1>3, <1>4, <1>5, <1>6 DEF OneByOne

LEMMA BookKeeps ==
  ASSUME TypeInv, OneByOne, NEW affordable \in BOOLEAN, TakeIf(affordable)
  PROVE  OneByOne'
<1>1. UNCHANGED <<log, order, exited, trade, row, inBook>> /\ At("book") /\ cycle \in CycleType
  BY DEF TakeIf, orders, books, TypeInv, TypeOK
<1>2. CASE affordable
  <2>1. cycle' = [cycle EXCEPT !.pc = "submit", !.legs = Legs(Cur)]
    BY <1>2 DEF TakeIf
  <2>2. /\ cycle'.pc = "submit" /\ cycle'.legs = Legs(Cur) /\ Cur' = Cur /\ cycle'.todo = cycle.todo
        /\ cycle'.seen = cycle.seen
    BY <1>1, <2>1 DEF CycleType, Cur
  <2>3. OneTodo' /\ TradesWhole' /\ NoneDangles' /\ NoOrphan'
    BY <1>1, <2>2 DEF OneByOne, OneTodo, TradesWhole, NoneDangles, NoOrphan, Going, Entering, Sending, At, AtBroker, Held
  <2>4. SeenSoFar'
    BY <1>1, <2>2 DEF OneByOne, SeenSoFar, Sending, At
  <2>5. QED
    BY <2>3, <2>4 DEF OneByOne
<1>3. CASE ~affordable
  <2>1. Drop
    BY <1>3 DEF TakeIf
  <2>2. TradesWhole'
    BY <1>1, <2>1 DEF OneByOne, TradesWhole, At
  <2>3. QED
    BY <1>1, <2>1, <2>2, DropKeeps DEF At
<1>4. QED
  BY <1>2, <1>3

LEMMA SubmitKeeps ==
  ASSUME TypeInv, OneByOne, Submit
  PROVE  OneByOne'
<1>1. UNCHANGED <<order, exited, trade, row, inBook>> /\ At("submit") /\ cycle \in CycleType
  BY DEF Submit, books, TypeInv, TypeOK
<1>2. Leg \in {1, 2} /\ Cur \in Intents
  BY <1>1, LegIsOne DEF TypeInv, LegInHand, CycleType, Cur, At
<1>3. /\ cycle' = [cycle EXCEPT !.pc = "broker", !.own = @ \cup {Leg}]
      /\ log' = [log EXCEPT ![Cur][Leg] = "SUBMITTING"]
  BY DEF Submit
<1>4. /\ cycle'.pc = "broker" /\ cycle'.legs = cycle.legs /\ Cur' = Cur /\ cycle'.todo = cycle.todo
      /\ cycle'.seen = cycle.seen
  BY <1>1, <1>3 DEF CycleType, Cur
<1>5. Leg' = Leg
  BY <1>4 DEF Leg
<1>6. \A i \in Intents, k \in {1, 2} : (i # Cur \/ k # Leg) => log'[i][k] = log[i][k]
  BY <1>2, <1>3 DEF TypeInv, TypeOK
<1>7. NoneDangles'
  BY <1>1, <1>4, <1>5, <1>6 DEF OneByOne, NoneDangles, At
<1>8. OneTodo' /\ TradesWhole' /\ NoOrphan' /\ SeenSoFar'
  BY <1>1, <1>4 DEF OneByOne, OneTodo, TradesWhole, NoOrphan, Going, Entering, Sending, At, AtBroker, Held, SeenSoFar
<1>9. QED
  BY <1>7, <1>8 DEF OneByOne

LEMMA AnswerKeeps ==
  ASSUME TypeInv, OneByOne, NEW s \in Outcomes, BrokerAnswers(s)
  PROVE  OneByOne'
<1>1. UNCHANGED <<log, exited, trade, row, inBook>> /\ At("broker") /\ cycle \in CycleType
  BY DEF BrokerAnswers, books, TypeInv, TypeOK
<1>2. Leg \in {1, 2} /\ Cur \in Intents
  BY <1>1, LegIsOne DEF TypeInv, LegInHand, CycleType, Cur, At
<1>3. /\ cycle' = [cycle EXCEPT !.pc = "adopt"]
      /\ order' = [order EXCEPT ![Cur][Leg] = s]
  BY DEF BrokerAnswers
<1>4. /\ cycle'.pc = "adopt" /\ cycle'.legs = cycle.legs /\ Cur' = Cur /\ cycle'.todo = cycle.todo
      /\ cycle'.seen = cycle.seen
  BY <1>1, <1>3 DEF CycleType, Cur
<1>5. Leg' = Leg
  BY <1>4 DEF Leg
<1>6. order'[Cur][Leg] = s /\ \A i \in Intents : i # Cur => order'[i] = order[i]
  BY <1>2, <1>3 DEF TypeInv, TypeOK
<1>7. NoneDangles' /\ OneTodo' /\ TradesWhole'
  BY <1>1, <1>4, <1>5 DEF OneByOne, NoneDangles, OneTodo, TradesWhole, At
<1>8. SeenSoFar'
  BY <1>1, <1>4, <1>5, <1>6 DEF OneByOne, SeenSoFar, Sending, At
<1>9. NoOrphan'
  <2>1. \A j \in AtBroker' : j # Cur => j \in AtBroker
    BY <1>1, <1>6 DEF AtBroker, Held
  <2>2. QED
    BY <1>1, <1>4, <2>1 DEF OneByOne, NoOrphan, Going, Entering, Sending, At
<1>10. QED
  BY <1>7, <1>8, <1>9 DEF OneByOne

LEMMA CloseKeeps ==
  ASSUME TypeInv, OneByOne, NEW i \in Intents, Close(i)
  PROVE  OneByOne'
<1>1. /\ UNCHANGED <<log, order, inBook, cycle>> /\ i \in inBook /\ trade[i].state = "OPEN"
      /\ exited' = [exited EXCEPT ![i] = trade[i].legs]
      /\ trade' = [trade EXCEPT ![i].state = "CLOSED"]
      /\ row' = [row EXCEPT ![i] = "CLOSED"]
  BY DEF Close
<1>2. /\ \A j \in Intents : j # i => trade'[j] = trade[j] /\ row'[j] = row[j] /\ exited'[j] = exited[j]
      /\ trade'[i] = [trade[i] EXCEPT !.state = "CLOSED"] /\ exited'[i] = trade[i].legs
  BY <1>1 DEF TypeInv, TypeOK
<1>3. trade'[i].legs = trade[i].legs /\ trade'[i].state = "CLOSED"
  BY <1>2 DEF TypeInv, TypeOK
<1>4. TradesWhole'
  BY <1>1, <1>2, <1>3 DEF OneByOne, TradesWhole, At, Cur
<1>5. NoOrphan'
  <2>1. SUFFICES ASSUME Going, NEW j \in AtBroker' PROVE row'[j] = "OPEN" \/ (Entering /\ j = Cur)
    BY <1>1 DEF NoOrphan, Going, Entering, Sending, At, Cur
  <2>2. CASE j = i
    <3>1. trade[i].legs = Legs(i)
      BY <1>1, <2>1 DEF OneByOne, TradesWhole, Going, Entering, Sending, At
    <3>2. Held(i)' = {}
      BY <1>1, <1>2, <3>1 DEF Held
    <3>3. QED
      BY <2>1, <2>2, <3>2 DEF AtBroker
  <2>3. CASE j # i
    <3>1. j \in AtBroker /\ row'[j] = row[j]
      BY <1>1, <1>2, <2>1, <2>3 DEF AtBroker, Held
    <3>2. QED
      BY <2>1, <3>1 DEF OneByOne, NoOrphan
  <2>4. QED
    BY <2>2, <2>3
<1>6. \A j \in Intents : trade'[j] = trade[j] \/ trade'[j] = [trade[j] EXCEPT !.state = "CLOSED"]
  BY <1>2
<1>7. QED
  BY <1>1, <1>4, <1>5, <1>6, SameCycleKeeps

LEMMA FillKeeps ==
  ASSUME TypeInv, OneByOne, ApplyFill
  PROVE  OneByOne'
<1>1. UNCHANGED <<log, order, exited, row>> /\ At("apply") /\ cycle \in CycleType /\ cycle.legs # {}
  BY DEF ApplyFill, orders, TypeInv, TypeOK
<1>2. Leg \in cycle.legs /\ Leg \in {1, 2} /\ Cur \in Intents
  BY <1>1, LegIsOne DEF CycleType, Cur
<1>3. Leg \in Legs(Cur) /\ cycle.todo = {}
  BY <1>1, <1>2 DEF OneByOne, SeenSoFar, OneTodo, At
<1>4. cycle' = [cycle EXCEPT !.legs = @ \ {Leg}] /\ trade' = Filled /\ inBook' = inBook \cup {Cur}
  BY DEF ApplyFill
<1> DEFINE l == Leg
           c == Cur
           t == [state |-> IF trade[c].state = "NONE" THEN "OPEN" ELSE trade[c].state, legs |-> trade[c].legs \cup {l}]
<1>5. /\ cycle'.pc = "apply" /\ cycle'.legs = cycle.legs \ {l} /\ Cur' = Cur /\ cycle'.todo = {}
      /\ cycle'.seen = cycle.seen
  BY <1>1, <1>3, <1>4 DEF CycleType, Cur, At
<1>6. trade'[c] = t /\ \A i \in Intents : i # c => trade'[i] = trade[i]
  BY <1>2, <1>4 DEF Filled, TypeInv, TypeOK
<1>7. trade'[c].legs = trade[c].legs \cup {l} /\ (trade[c].state = "CLOSED" => trade'[c].state = "CLOSED")
  BY <1>6
<1> HIDE DEF l, c, t
<1>8. SeenSoFar'
  BY <1>1, <1>5, <1>7 DEF OneByOne, SeenSoFar, Sending, At, AnyFailed, l, c
<1>9. TradesWhole'
  BY <1>1, <1>3, <1>4, <1>5, <1>6, <1>7 DEF OneByOne, TradesWhole, At, l, c
<1>10. OneTodo' /\ NoneDangles' /\ NoOrphan'
  BY <1>1, <1>5 DEF OneByOne, OneTodo, NoneDangles, NoOrphan, Going, Entering, Sending, At
<1>11. QED
  BY <1>8, <1>9, <1>10 DEF OneByOne

LEMMA EndsKeep ==
  ASSUME TypeInv, OneByOne, Finish \/ Abort
  PROVE  OneByOne'
<1>1. /\ UNCHANGED <<log, order, exited, trade>> /\ At("apply") /\ cycle.legs = {} /\ Drop
      /\ inBook' \subseteq inBook /\ Cur \in Intents
  BY DEF Finish, Abort, Applied, orders, books, TypeInv, TypeOK, CycleType, Cur
<1>2. trade[Cur].state = "OPEN" /\ Cur \in inBook' => trade[Cur].legs = Legs(Cur)
  <2>1. CASE Finish
    BY <2>1 DEF Finish, Opened
  <2>2. CASE Abort
    BY <2>2 DEF Abort
  <2>3. QED
    BY <2>1, <2>2
<1>3. TradesWhole'
  <2>1. SUFFICES ASSUME NEW i \in Intents, trade[i].state = "OPEN", i \in inBook' PROVE trade[i].legs = Legs(i)
    BY <1>1 DEF OneByOne, TradesWhole
  <2>2. QED
    BY <1>1, <1>2, <2>1 DEF OneByOne, TradesWhole
<1>4. QED
  BY <1>1, <1>3, DropKeeps DEF At

LEMMA RestartKeeps == Restart => OneByOne'
<1> SUFFICES ASSUME Restart PROVE OneByOne'
  OBVIOUS
<1>1. cycle'.pc = "idle" /\ cycle'.todo = {}
  BY DEF Restart, NoCycle
<1>2. \A i \in Intents : trade'[i] = [state |-> "OPEN", legs |-> Legs(i)] \/ trade'[i] = NoTrade
  BY DEF Restart
<1>3. QED
  <2>1. TradesWhole'
    <3>1. SUFFICES ASSUME NEW i \in Intents
                   PROVE  trade'[i].legs \subseteq Legs(i) /\ (trade'[i].state = "OPEN" => trade'[i].legs = Legs(i))
      BY DEF TradesWhole
    <3>2. CASE trade'[i] = [state |-> "OPEN", legs |-> Legs(i)]
      BY <3>2
    <3>3. CASE trade'[i] = NoTrade
      BY <3>3 DEF NoTrade
    <3>4. QED
      BY <1>2, <3>2, <3>3
  <2>2. OneTodo' /\ SeenSoFar' /\ NoneDangles' /\ NoOrphan'
    BY <1>1 DEF OneTodo, SeenSoFar, NoneDangles, NoOrphan, Going, Entering, Sending, At
  <2>3. QED
    BY <2>1, <2>2 DEF OneByOne

LEMMA OneByOneKept ==
  ASSUME TypeInv, OneByOne, ~Discovery, Batch = 1, [Next]_vars
  PROVE  OneByOne'
<1>1. CASE \E S \in SUBSET Intents : BeginCycle(S)
  BY <1>1, BeginKeeps DEF OneByOne
<1>2. CASE EndCycle
  BY <1>2 DEF EndCycle, NoCycle, orders, books, OneByOne, OneTodo, SeenSoFar, NoneDangles, NoOrphan, Going,
     Entering, Sending, At, TradesWhole
<1>3. ASSUME NEW i \in Intents, Reserve(i) \/ ReserveTooMuch(i) \/ ReserveRefused(i)
      PROVE  OneByOne'
  <2>1. Turns(i, "pick") \/ Turns(i, "book")
    BY <1>3 DEF Reserve, ReserveTooMuch, ReserveRefused
  <2>2. QED
    BY <2>1, TurnKeeps
<1>4. CASE RegisterKey
  <2>1. /\ UNCHANGED <<log, order, exited, trade, row, inBook>> /\ At("register") /\ cycle \in CycleType
        /\ cycle' = [cycle EXCEPT !.pc = "book"]
    BY <1>4 DEF RegisterKey, orders, books, TypeInv, TypeOK
  <2>2. cycle'.pc = "book" /\ Cur' = Cur /\ cycle'.todo = cycle.todo /\ cycle'.seen = cycle.seen
    BY <2>1 DEF CycleType, Cur
  <2>3. QED
    BY <2>1, <2>2 DEF OneByOne, OneTodo, SeenSoFar, NoneDangles, NoOrphan, Going, Entering, Sending, At, TradesWhole,
       AtBroker, Held
<1>5. CASE ReserveInBook
  <2>1. \A b \in BOOLEAN : TakeIf(b) => OneByOne'
    BY BookKeeps
  <2>2. QED
    BY <1>5, <2>1, Zenon DEF ReserveInBook
<1>6. CASE LookupKnown
  <2>1. At("submit") /\ log[Cur][Leg] # "NONE" /\ UNCHANGED <<log, order, exited, books>>
    BY <1>6 DEF LookupKnown, orders
  <2>2. \A i \in Intents, k \in {1, 2} : log[i][k] # "SUBMITTING"
    BY <2>1 DEF OneByOne, NoneDangles, At
  <2>3. Leg \in {1, 2} /\ Cur \in Intents
    BY <2>1, LegIsOne DEF TypeInv, TypeOK, LegInHand, CycleType, Cur, At
  <2>4. log[Cur][Leg] \in Outcomes
    BY <2>1, <2>2, <2>3 DEF TypeInv, TypeOK, States, Outcomes
  <2>5. QED
    BY <1>6, <2>1, <2>2, <2>4, AfterLegKeeps DEF LookupKnown, Sending, At
<1>7. CASE Submit
  BY <1>7, SubmitKeeps
<1>8. CASE \E s \in Outcomes : BrokerAnswers(s)
  BY <1>8, AnswerKeeps
<1>9. CASE PersistAnswer
  <2>1. /\ At("adopt") /\ order[Cur][Leg] \in Outcomes /\ UNCHANGED <<order, exited, books>>
        /\ log' = [log EXCEPT ![Cur][Leg] = order[Cur][Leg]]
    BY <1>9 DEF PersistAnswer, OneByOne, SeenSoFar
  <2>2. Leg \in {1, 2} /\ Cur \in Intents
    BY <2>1, LegIsOne DEF TypeInv, TypeOK, LegInHand, CycleType, Cur, At
  <2>3. \A i \in Intents, k \in {1, 2} : log'[i][k] # "SUBMITTING"
    BY <2>1, <2>2 DEF OneByOne, NoneDangles, TypeInv, TypeOK, At, Outcomes
  <2>4. QED
    BY <1>9, <2>1, <2>3, AfterLegKeeps DEF PersistAnswer, Sending, At
<1>10. CASE ApplyFill
  BY <1>10, FillKeeps
<1>12. CASE ApplyRaises \/ Crash
  BY <1>12, RestartKeeps DEF ApplyRaises, Crash
<1>13. CASE Finish \/ Abort
  BY <1>13, EndsKeep
<1>14. CASE \E i \in Intents : Close(i)
  BY <1>14, CloseKeeps
<1>15. CASE ReadLedger \/ WriteLedger \/ UNCHANGED vars
  <2>1. UNCHANGED <<log, order, exited, trade, row, cycle>> /\ inBook' \subseteq inBook
    BY <1>15 DEF ReadLedger, WriteLedger, vars, orders, books
  <2>2. TradesWhole' /\ NoOrphan'
    BY <2>1 DEF OneByOne, TradesWhole, NoOrphan, Going, Entering, Sending, At, AtBroker, Held, Cur
  <2>3. QED
    BY <2>1, <2>2, SameCycleKeeps
<1>16. QED
  BY <1>1, <1>2, <1>3, <1>4, <1>5, <1>6, <1>7, <1>8, <1>9, <1>10, <1>12, <1>13, <1>14, <1>15
     DEF Next, SteadyNext

OneByOneInv == ~Discovery => OneByOne

LEMMA OneByOneInit == Init => OneByOneInv
  BY DEF Init, NoCycle, NoTrade, OneByOneInv, OneByOne, OneTodo, SeenSoFar, NoneDangles, TradesWhole, NoOrphan, Going,
     Entering, Sending, At

\* Under STRICT, with cycles of one intent, no entry order is begun while the
\* broker holds a position that no open row accounts for: for any intents, any
\* interleaving with the closing thread, and crashes at any step.
THEOREM NoEntryBesideAnOrphan ==
  ASSUME Batch = 1
  PROVE  Spec => NoEntryBesideOrphan
<1>1. TypeInv /\ OneByOneInv /\ [Next]_vars => OneByOneInv'
  BY OneByOneKept, ProfileKept DEF OneByOneInv, Discovery
<1>2. ASSUME TypeInv, OneByOneInv, [Next]_vars, ~Discovery, NEW i \in Intents, log'[i] # log[i],
             NEW j \in AtBroker \ {i}
      PROVE  row[j] = "OPEN"
  <2>1. (Submit \/ PersistAnswer) /\ i = Cur
    <3>1. UNCHANGED log \/ Submit \/ PersistAnswer
      BY <1>2 DEF Next, SteadyNext, BeginCycle, EndCycle, Reserve, ReserveTooMuch, ReserveRefused,
         Turns, Close, RegisterKey, ReserveInBook, TakeIf, LookupKnown, BrokerAnswers, ApplyFill,
         ApplyRaises, Finish, Abort, ReadLedger, WriteLedger, Crash, Restart, vars, orders
    <3>2. Submit \/ PersistAnswer => \A k \in Intents : k # Cur => log'[k] = log[k]
      BY <1>2 DEF Submit, PersistAnswer, TypeInv, TypeOK
    <3>3. QED
      BY <1>2, <3>1, <3>2
  <2>2. Sending
    BY <2>1 DEF Submit, PersistAnswer, Sending, At
  <2>3. QED
    BY <1>2, <2>1, <2>2 DEF OneByOneInv, OneByOne, NoOrphan, Going, Entering
<1>3. TypeInv /\ OneByOneInv /\ [Next]_vars =>
        [\A i \in Intents :
           /\ ~Discovery
           /\ log'[i] # log[i] /\ (\E k \in {1, 2} : log'[i][k] = "SUBMITTING")
           => \A j \in AtBroker \ {i} : row[j] = "OPEN"]_vars
  BY <1>2
<1>4. TypeInv /\ [Next]_vars => TypeInv'
  BY TypeKept
<1>5. QED
  BY <1>1, <1>3, <1>4, TypeInit, OneByOneInit, PTL DEF Spec, NoEntryBesideOrphan

-----------------------------------------------------------------------------
\* A session that is not killed and closes its trades between its cycles: the
\* two halves of the reservation agree, and what is held is accounted for.

\* The cycle sends an entry's legs, or applies their fills.
InFlight == cycle.pc \in {"submit", "broker", "adopt", "apply"}

\* The intent in hand has its durable hold, and no grant of the mode ledger yet.
Reserving == cycle.pc \in {"register", "book"}

Filling(i) == \A k \in Legs(i) : log[i][k] = "FILLED" /\ order[i][k] = "FILLED"

\* An intent that never sent an order.
Fresh(i) ==
  /\ log[i] = NoEvents /\ order[i] = NoEvents /\ exited[i] = {} /\ trade[i] = NoTrade
  /\ row[i] = "NONE" /\ i \notin inBook /\ hold[i] # "COMMITTED"

IsOpen(i) ==
  /\ Filling(i) /\ exited[i] = {}
  /\ trade[i] = [state |-> "OPEN", legs |-> Legs(i)]
  /\ row[i] = "OPEN" /\ i \in inBook /\ hold[i] = "COMMITTED"

IsClosed(i) ==
  /\ Filling(i) /\ exited[i] = Legs(i)
  /\ trade[i].state # "OPEN" /\ row[i] = "CLOSED" /\ hold[i] # "COMMITTED"
  /\ i \in inBook => closing.pc # "idle" /\ closing.cur = i

\* Leg l was refused: the legs before it filled, the legs after it were not sent.
FailedAt(i, l) ==
  /\ l \in Legs(i) /\ log[i][l] = "REJECTED"
  /\ \A k \in Legs(i) : /\ order[i][k] = log[i][k]
                        /\ k < l => log[i][k] = "FILLED"
                        /\ k > l => log[i][k] = "NONE"

IsAborted(i) ==
  /\ \E l \in {1, 2} : FailedAt(i, l)
  /\ exited[i] = {} /\ row[i] = "NONE" /\ i \notin inBook /\ hold[i] # "COMMITTED"

Settled(i) == Fresh(i) \/ IsOpen(i) \/ IsClosed(i) \/ IsAborted(i)

\* The legs of the intent in hand that are filled so far.
Done == Legs(Cur) \ cycle.legs

NewSending ==
  /\ trade[Cur] = NoTrade /\ Cur \notin inBook /\ hold[Cur] = "RESERVED"
  /\ cycle.own = IF At("submit") THEN Done ELSE Done \cup {Leg}
  /\ \A k \in {1, 2} : cycle.seen[k] = IF k \in Done THEN "FILLED" ELSE "NONE"
  /\ \A k \in Done : log[Cur][k] = "FILLED" /\ order[Cur][k] = "FILLED"
  /\ \A k \in cycle.legs : k # Leg \/ At("submit") => log[Cur][k] = "NONE" /\ order[Cur][k] = "NONE"
  /\ At("broker") => log[Cur][Leg] = "SUBMITTING" /\ order[Cur][Leg] = "NONE"
  /\ At("adopt") => log[Cur][Leg] = "SUBMITTING" /\ order[Cur][Leg] \in Outcomes

NewApplying ==
  /\ cycle.own # {}
  /\ Filling(Cur) \/ \E l \in {1, 2} : FailedAt(Cur, l)
  /\ \A k \in Legs(Cur) : cycle.seen[k] = log[Cur][k] /\ (log[Cur][k] = "FILLED" => k \in cycle.own)
  /\ \A k \in {1, 2} : cycle.seen[k] # "NONE" => k \in Legs(Cur)
  /\ \A k \in cycle.legs : cycle.seen[k] = "FILLED"
  /\ trade[Cur].legs = {k \in Legs(Cur) : log[Cur][k] = "FILLED"} \ cycle.legs
  /\ trade[Cur].state = IF trade[Cur].legs = {} THEN "NONE" ELSE "OPEN"
  /\ trade[Cur].state = "OPEN" => Cur \in inBook
  /\ hold[Cur] = IF trade[Cur].legs = Legs(Cur) THEN "COMMITTED" ELSE "RESERVED"

\* An entry whose orders this attempt sends itself.
NewEntry ==
  /\ exited[Cur] = {} /\ row[Cur] = "NONE"
  /\ IF At("apply") THEN NewApplying ELSE NewSending

\* STRICT has emitted the intent before.
Again(i) == ~Discovery /\ attempts[i] >= 2

\* An intent emitted again, which is answered from the log of its first attempt.
OldEntry ==
  /\ cycle.own = {} /\ hold[Cur] = "RESERVED" /\ Again(Cur)
  /\ cycle.pc \in {"submit", "apply"}
  /\ IsClosed(Cur) \/ IsAborted(Cur)
  /\ At("submit") /\ IsAborted(Cur) => \E l \in cycle.legs : FailedAt(Cur, l)

\* submit_plan has all its legs to send, or only the second.
LegsLeft ==
  cycle.pc \in {"submit", "broker", "adopt"} =>
    cycle.legs = Legs(Cur) \/ (cycle.legs = {2} /\ Legs(Cur) = {1, 2})

\* Every intent but the one in flight is settled.
InHand ==
  /\ \A i \in Intents : Settled(i) \/ (InFlight /\ i = Cur)
  /\ InFlight => NewEntry \/ OldEntry
  /\ Reserving => /\ hold[Cur] = "RESERVED" /\ (Again(Cur) \/ Fresh(Cur))
                  /\ cycle.own = {} /\ cycle.seen = NoEvents

\* What the profile's own memory says was not approved yet.
Untouched(i) == IF Discovery THEN i \notin keys
                ELSE attempts[i] = 0 \/ (attempts[i] = 1 /\ i \in cycle.todo)

Emitted ==
  /\ \A i \in cycle.todo : attempts[i] >= 1
  /\ InFlight \/ Reserving => Cur \notin cycle.todo /\ attempts[Cur] >= 1
  /\ Discovery /\ (InFlight \/ At("book")) => Cur \in keys
  /\ \A i \in Intents : Untouched(i) => Fresh(i)

\* Closes and cycles do not overlap.
Apart ==
  /\ ~At("idle") => closing.pc = "idle"
  /\ closing.pc # "idle" => row[closing.cur] = "CLOSED"
  /\ closing.pc = "read" => closing.snap = ledger

InTurn == IF InFlight \/ Reserving THEN {Cur} ELSE {}

\* The intents with a hold in state s, without the one in hand.
Others(s) == {i \in Intents : hold[i] = s} \ InTurn

One == IF InFlight THEN 1 ELSE 0

\* A hold that is pending out of turn is of an intent whose second emission has ended
\* the process: when it is emitted once more, it is the third time.
Pending == \A i \in Others("RESERVED") : Again(i) /\ (i \in cycle.todo => attempts[i] >= 3)

\* The ledger counts the holds of the others and the entry in flight; an intent
\* that is emitted a third time may leave it with more reserved than there are holds.
Accounted ==
  /\ ledger.margin = Cardinality(Others("COMMITTED")) + IF closing.pc = "idle" THEN 0 ELSE 1
  /\ ledger.reserved >= Cardinality(Others("RESERVED")) + One
  /\ EmittedThrice \/ ledger.reserved = Cardinality(Others("RESERVED")) + One
  /\ ~Discovery => ledger.reserved + ledger.margin <= GlobalCap

SteadyInv == LegsLeft /\ InHand /\ Emitted /\ Pending /\ Apart /\ Accounted

\* The step leaves what is recorded of an intent alone.
SameIntent(i) ==
  /\ hold'[i] = hold[i] /\ log'[i] = log[i] /\ order'[i] = order[i] /\ exited'[i] = exited[i]
  /\ trade'[i] = trade[i] /\ row'[i] = row[i] /\ (i \in inBook') = (i \in inBook)

\* A settled intent that a step leaves alone stays settled.
LEMMA SettledKept ==
  ASSUME NEW i \in Intents, SameIntent(i), Settled(i),
         closing' = closing \/ row[i] # "CLOSED" \/ i \notin inBook
  PROVE  Settled(i)'
<1>1. /\ Filling(i) => Filling(i)'
      /\ \A l : FailedAt(i, l) => FailedAt(i, l)'
  BY DEF Filling, FailedAt, SameIntent
<1>2. CASE Fresh(i)
  BY <1>2 DEF Settled, Fresh, SameIntent
<1>3. CASE IsOpen(i)
  BY <1>1, <1>3 DEF Settled, IsOpen, SameIntent
<1>4. CASE IsClosed(i)
  BY <1>1, <1>4 DEF Settled, IsClosed, SameIntent
<1>5. CASE IsAborted(i)
  BY <1>1, <1>5 DEF Settled, IsAborted, SameIntent
<1>6. QED
  BY <1>2, <1>3, <1>4, <1>5 DEF Settled

\* ... and one that never sent an order has still sent none.
LEMMA FreshKept ==
  ASSUME NEW i \in Intents, SameIntent(i), Fresh(i)
  PROVE  Fresh(i)'
  BY DEF Fresh, SameIntent

\* The holds of the intents that are not in hand.
LEMMA OthersKept ==
  ASSUME Cur' = Cur, InTurn = {Cur}, InTurn' = {Cur},
         \A i \in Intents : i # Cur => SameIntent(i)
  PROVE  \A s \in {"RESERVED", "COMMITTED"} : Others(s)' = Others(s)
  BY DEF Others, SameIntent

\* No further hold is pending out of turn, and no intent is emitted.
LEMMA PendingKept ==
  ASSUME SteadyInv, Others("RESERVED")' \subseteq Others("RESERVED"), cycle'.todo \subseteq cycle.todo,
         UNCHANGED <<profile, attempts>>
  PROVE  Pending'
  BY DEF SteadyInv, Pending, Again, Discovery

\* A step of the entry in flight: the invariant is what it says of that entry.
LEMMA OnwardKeeps ==
  ASSUME TypeInv, SteadyInv, InFlight, InFlight', Cur' = Cur, cycle'.todo = cycle.todo,
         UNCHANGED <<keys, ledger, profile, attempts, closing>>,
         \A i \in Intents : i # Cur => SameIntent(i),
         LegsLeft', NewEntry' \/ OldEntry'
  PROVE  SteadyInv'
<1>1. InTurn = {Cur} /\ InTurn' = {Cur} /\ One' = One
  BY DEF InTurn, One
<1>2. Others("RESERVED")' = Others("RESERVED") /\ Others("COMMITTED")' = Others("COMMITTED")
  BY <1>1, OthersKept
<1>3. ~Reserving' /\ ~At("idle") /\ ~At("idle")' /\ ~Reserving
  BY DEF InFlight, Reserving, At
<1>4. Discovery' = Discovery /\ EmittedThrice' = EmittedThrice
  BY DEF Discovery, EmittedThrice
<1>5. Accounted'
  BY <1>1, <1>2, <1>4 DEF SteadyInv, Accounted
<1>6. closing.pc = "idle"
  BY <1>3 DEF SteadyInv, Apart
<1>7. Apart'
  BY <1>6 DEF Apart
<1>8. ~Untouched(Cur)
  BY <1>3 DEF SteadyInv, Emitted, Untouched
<1>9. Emitted'
  <2>1. \A i \in Intents : Untouched(i)' = Untouched(i)
    BY <1>4 DEF Untouched
  <2>2. \A i \in Intents : Untouched(i)' => Fresh(i)'
    BY <1>8, <2>1, FreshKept DEF SteadyInv, Emitted
  <2>3. QED
    BY <1>3, <1>4, <2>2 DEF SteadyInv, Emitted
<1>10. InHand'
  <2>1. \A i \in Intents : i # Cur => Settled(i)'
    BY SettledKept DEF SteadyInv, InHand
  <2>2. QED
    BY <1>3, <2>1 DEF InHand
<1>11. Pending'
  BY <1>2, PendingKept
<1>12. QED
  BY <1>5, <1>7, <1>9, <1>10, <1>11 DEF SteadyInv

\* The intent in hand is settled and put down.
LEMMA PutDownKeeps ==
  ASSUME TypeInv, SteadyInv, Drop, InFlight \/ Reserving, NEW c \in Intents, c = Cur,
         Settled(c)', ~Untouched(c) \/ Fresh(c)', hold'[c] # "RESERVED",
         UNCHANGED <<keys, profile, attempts, closing>>,
         \A i \in Intents : i # Cur => SameIntent(i)
  PROVE  /\ LegsLeft' /\ InHand' /\ Emitted' /\ Pending' /\ Apart'
         /\ \A s \in {"RESERVED", "COMMITTED"} :
              Others(s)' = IF hold'[c] = s THEN Others(s) \cup {c} ELSE Others(s)
         /\ One' = 0
<1>0. cycle'.pc = "pick" /\ cycle'.todo = cycle.todo
  BY DEF Drop, NoCycle
<1>1. ~InFlight' /\ ~Reserving' /\ ~At("book")' /\ ~At("idle")' /\ LegsLeft' /\ One' = 0 /\ InTurn' = {} /\ InTurn = {Cur}
  BY <1>0 DEF InFlight, Reserving, At, LegsLeft, One, InTurn
<1>2. ~At("idle")
  BY DEF InFlight, Reserving, At
<1>3. closing.pc = "idle"
  BY <1>2 DEF SteadyInv, Apart
<1>4. Apart'
  BY <1>3 DEF Apart
<1>5. Discovery' = Discovery
  BY DEF Discovery
<1>6. \A i \in Intents : i # c => Settled(i)'
  BY SettledKept DEF SteadyInv, InHand
<1>7. InHand'
  BY <1>1, <1>6 DEF InHand
<1>8. \A i \in Intents : Untouched(i)' = Untouched(i)
  BY <1>0, <1>5 DEF Untouched
<1>9. \A i \in Intents : Untouched(i)' => Fresh(i)'
  <2> TAKE i \in Intents
  <2>1. CASE i = c
    BY <1>8, <2>1
  <2>2. CASE i # c
    BY <1>8, <2>2, FreshKept DEF SteadyInv, Emitted
  <2>3. QED
    BY <2>1, <2>2
<1>10. Emitted'
  BY <1>0, <1>1, <1>5, <1>9 DEF SteadyInv, Emitted
<1>11. ASSUME NEW s \in {"RESERVED", "COMMITTED"}
       PROVE  Others(s)' = IF hold'[c] = s THEN Others(s) \cup {c} ELSE Others(s)
  BY <1>0, <1>1 DEF Others, SameIntent
<1>12. Pending'
  BY <1>0, <1>11, PendingKept
<1>13. QED
  BY <1>1, <1>4, <1>7, <1>10, <1>11, <1>12

\* The leg in hand, and what is left behind it.
LEMMA LegIs ==
  ASSUME LegsLeft, Sending
  PROVE  /\ Leg \in cycle.legs /\ cycle.legs \subseteq Legs(Cur) /\ Leg \in {1, 2}
         /\ Leg = 1 => cycle.legs = Legs(Cur)
         /\ Leg = 2 => cycle.legs = {2} /\ Legs(Cur) = {1, 2}
<1>1. cycle.legs \in {{1}, {1, 2}, {2}} /\ (cycle.legs = {2} => Legs(Cur) = {1, 2})
      /\ (cycle.legs # {2} => cycle.legs = Legs(Cur))
  BY DEF LegsLeft, Sending, Legs
<1>2. CASE cycle.legs = {2}
  <2>1. Leg = 2
    BY <1>2 DEF Leg
  <2>2. QED
    BY <1>1, <1>2, <2>1
<1>3. CASE cycle.legs # {2}
  <2>1. 1 \in cycle.legs /\ \A j \in cycle.legs : 1 <= j
    BY <1>1, <1>3
  <2>2. Leg = 1
    <3>1. Leg \in cycle.legs /\ \A j \in cycle.legs : Leg <= j
      BY <2>1 DEF Leg
    <3>2. Leg <= 1 /\ Leg \in {1, 2}
      BY <1>1, <2>1, <3>1
    <3>3. QED
      BY <3>2
  <2>3. QED
    BY <1>1, <1>3, <2>1, <2>2
<1>4. QED
  BY <1>2, <1>3

\* An entry in hand that goes on submitting is a new one unless its leg is known.
LEMMA SubmitSteady ==
  ASSUME TypeInv, SteadyInv, Submit
  PROVE  SteadyInv'
<1>1. /\ At("submit") /\ log[Cur][Leg] = "NONE" /\ cycle \in CycleType /\ Cur \in Intents
      /\ UNCHANGED <<hold, keys, ledger, order, exited, trade, row, inBook, profile, attempts, closing>>
      /\ log' = [log EXCEPT ![Cur][Leg] = "SUBMITTING"]
      /\ cycle' = [cycle EXCEPT !.pc = "broker", !.own = @ \cup {Leg}]
  BY DEF Submit, books, session, TypeInv, TypeOK, CycleType, Cur
<1>2. LegsLeft /\ Sending /\ InFlight
  BY <1>1 DEF SteadyInv, Sending, At, InFlight
<1>3. PICK c \in Intents, l \in {1, 2} : c = Cur /\ l = Leg
  BY <1>1, <1>2, LegIs
<1>4. /\ cycle'.pc = "broker" /\ cycle'.legs = cycle.legs /\ Cur' = Cur /\ cycle'.todo = cycle.todo
      /\ cycle'.seen = cycle.seen /\ cycle'.own = cycle.own \cup {l}
  BY <1>1, <1>3 DEF CycleType, Cur
<1>5. Leg' = Leg /\ Done' = Done
  BY <1>4 DEF Leg, Done
<1>6. /\ log'[c][l] = "SUBMITTING" /\ \A k \in {1, 2} : k # l => log'[c][k] = log[c][k]
      /\ \A i \in Intents : i # c => log'[i] = log[i]
  BY <1>1, <1>3 DEF TypeInv, TypeOK
<1>7. ~OldEntry
  <2>1. SUFFICES ASSUME OldEntry PROVE FALSE
    OBVIOUS
  <2>2. l \in cycle.legs /\ cycle.legs \subseteq Legs(c) /\ (l = 1 => cycle.legs = Legs(c)) /\ (l = 2 => cycle.legs = {2})
    BY <1>2, <1>3, LegIs
  <2>3. ~IsClosed(c)
    BY <1>1, <1>3, <2>2 DEF IsClosed, Filling
  <2>4. PICK m \in cycle.legs : FailedAt(c, m)
    BY <1>1, <1>3, <2>1, <2>3 DEF OldEntry
  <2>5. m # l /\ l < m
    BY <1>1, <1>3, <2>2, <2>4, LegsOf DEF FailedAt
  <2>6. QED
    BY <1>1, <1>3, <2>2, <2>4, <2>5 DEF FailedAt
<1>8. NewEntry
  BY <1>2, <1>7 DEF SteadyInv, InHand
<1>9. NewSending
  BY <1>1, <1>8 DEF NewEntry, At
<1>10. NewSending'
  <2>1. l \in cycle.legs /\ Done = Legs(c) \ cycle.legs
    BY <1>2, <1>3, LegIs DEF Done
  <2>2. \A k \in cycle.legs : k \in {1, 2}
    BY <1>2, LegIs, LegsOf
  <2>3. order[c][l] = "NONE"
    BY <1>1, <1>3, <1>9, <2>1 DEF NewSending
  <2>4. QED
    BY <1>1, <1>3, <1>4, <1>5, <1>6, <1>9, <2>1, <2>2, <2>3 DEF NewSending, At, Done
<1>11. NewEntry'
  BY <1>1, <1>4, <1>8, <1>10 DEF NewEntry, At
<1>12. InFlight' /\ LegsLeft'
  BY <1>1, <1>4 DEF InFlight, LegsLeft, SteadyInv, At
<1>13. QED
  BY <1>1, <1>2, <1>3, <1>4, <1>6, <1>11, <1>12, OnwardKeeps DEF SameIntent

\* The paper broker answers the order in hand.
LEMMA AnswerSteady ==
  ASSUME TypeInv, SteadyInv, NEW s \in Outcomes, BrokerAnswers(s)
  PROVE  SteadyInv'
<1>1. /\ At("broker") /\ cycle \in CycleType /\ Cur \in Intents
      /\ UNCHANGED <<hold, keys, ledger, log, exited, trade, row, inBook, profile, attempts, closing>>
      /\ order' = [order EXCEPT ![Cur][Leg] = s]
      /\ cycle' = [cycle EXCEPT !.pc = "adopt"]
  BY DEF BrokerAnswers, books, session, TypeInv, TypeOK, CycleType, Cur
<1>2. LegsLeft /\ Sending /\ InFlight
  BY <1>1 DEF SteadyInv, Sending, At, InFlight
<1>3. PICK c \in Intents, l \in {1, 2} : c = Cur /\ l = Leg
  BY <1>1, <1>2, LegIs
<1>4. /\ cycle'.pc = "adopt" /\ cycle'.legs = cycle.legs /\ Cur' = Cur /\ cycle'.todo = cycle.todo
      /\ cycle'.seen = cycle.seen /\ cycle'.own = cycle.own
  BY <1>1, <1>3 DEF CycleType, Cur
<1>5. Leg' = Leg /\ Done' = Done
  BY <1>4 DEF Leg, Done
<1>6. /\ order'[c][l] = s /\ \A k \in {1, 2} : k # l => order'[c][k] = order[c][k]
      /\ \A i \in Intents : i # c => order'[i] = order[i]
  BY <1>1, <1>3 DEF TypeInv, TypeOK
<1>8. NewEntry
  BY <1>1, <1>2 DEF SteadyInv, InHand, OldEntry, At
<1>9. NewSending
  BY <1>1, <1>8 DEF NewEntry, At
<1>10. NewSending'
  <2>1. l \in cycle.legs /\ Done = Legs(c) \ cycle.legs
    BY <1>2, <1>3, LegIs DEF Done
  <2>2. \A k \in cycle.legs : k \in {1, 2}
    BY <1>2, LegIs, LegsOf
  <2>4. QED
    BY <1>1, <1>3, <1>4, <1>5, <1>6, <1>9, <2>1, <2>2, LegsOf DEF NewSending, At, Done
<1>11. NewEntry'
  BY <1>1, <1>4, <1>8, <1>10 DEF NewEntry, At
<1>12. InFlight' /\ LegsLeft'
  BY <1>1, <1>4 DEF InFlight, LegsLeft, SteadyInv, At
<1>13. QED
  BY <1>1, <1>2, <1>3, <1>4, <1>6, <1>11, <1>12, OnwardKeeps DEF SameIntent

\* submit_plan ends, or goes on to the second leg.
LEMMA AfterLegIs ==
  ASSUME TypeInv, LegsLeft, Sending, NEW s \in Outcomes, cycle' = AfterLeg(s),
         NEW c \in Intents, NEW l \in {1, 2}, c = Cur, l = Leg
  PROVE  /\ Cur' = c /\ cycle'.todo = cycle.todo /\ cycle'.own = cycle.own
         /\ cycle'.seen[l] = s /\ \A k \in {1, 2} : k # l => cycle'.seen[k] = cycle.seen[k]
         /\ \/ /\ s = "REJECTED" \/ cycle.legs = {l}
               /\ cycle'.pc = "apply"
               /\ cycle'.legs = {k \in {1, 2} : cycle'.seen[k] = "FILLED"}
            \/ /\ s = "FILLED" /\ l = 1 /\ cycle.legs = {1, 2} /\ Legs(c) = {1, 2}
               /\ cycle'.pc = "submit" /\ cycle'.legs = {2}
<1>. DEFINE seen == [cycle.seen EXCEPT ![l] = s]
            filled == {k \in {1, 2} : seen[k] = "FILLED"}
<1>1. cycle \in CycleType
  BY DEF TypeInv, TypeOK
<1>2. seen[l] = s /\ \A k \in {1, 2} : k # l => seen[k] = cycle.seen[k]
  BY <1>1 DEF CycleType
<1>3. /\ s = "REJECTED" \/ cycle.legs = {l} =>
           cycle' = [cycle EXCEPT !.pc = "apply", !.seen = seen, !.legs = filled]
      /\ ~(s = "REJECTED" \/ cycle.legs = {l}) =>
           cycle' = [cycle EXCEPT !.pc = "submit", !.seen = seen, !.legs = cycle.legs \ {l}]
  BY <1>1 DEF AfterLeg, CycleType
<1>. HIDE DEF seen
<1>4. CASE s = "REJECTED" \/ cycle.legs = {l}
  <2>1. cycle'.pc = "apply" /\ cycle'.seen = seen /\ cycle'.legs = filled /\ Cur' = c
        /\ cycle'.todo = cycle.todo /\ cycle'.own = cycle.own
    BY <1>1, <1>3, <1>4 DEF CycleType, Cur
  <2>2. QED
    BY <1>2, <1>4, <2>1
<1>5. CASE ~(s = "REJECTED" \/ cycle.legs = {l})
  <2>1. cycle'.pc = "submit" /\ cycle'.seen = seen /\ cycle'.legs = cycle.legs \ {l} /\ Cur' = c
        /\ cycle'.todo = cycle.todo /\ cycle'.own = cycle.own
    BY <1>1, <1>3, <1>5 DEF CycleType, Cur
  <2>2. l = 1 /\ cycle.legs = Legs(c) /\ Legs(c) = {1, 2} /\ s = "FILLED"
    BY <1>5, LegIs DEF Outcomes, Legs
  <2>3. QED
    BY <1>2, <2>1, <2>2
<1>6. QED
  BY <1>4, <1>5

\* The answer is logged; the plan ends, or goes on behind a fill.
LEMMA AdoptSteady ==
  ASSUME TypeInv, SteadyInv, PersistAnswer
  PROVE  SteadyInv'
<1>1. /\ At("adopt") /\ cycle \in CycleType /\ Cur \in Intents
      /\ UNCHANGED <<hold, keys, ledger, order, exited, trade, row, inBook, profile, attempts, closing>>
      /\ log' = [log EXCEPT ![Cur][Leg] = order[Cur][Leg]]
      /\ cycle' = AfterLeg(order[Cur][Leg])
  BY DEF PersistAnswer, books, session, TypeInv, TypeOK, CycleType, Cur
<1>2. LegsLeft /\ Sending /\ InFlight
  BY <1>1 DEF SteadyInv, Sending, At, InFlight
<1>3. PICK c \in Intents, l \in {1, 2} : c = Cur /\ l = Leg
  BY <1>1, <1>2, LegIs
<1>4. NewEntry /\ NewSending
  BY <1>1, <1>2 DEF SteadyInv, InHand, OldEntry, NewEntry, At
<1>5. PICK s \in Outcomes : s = order[c][l]
  BY <1>1, <1>3, <1>4 DEF NewSending
<1>6. /\ Cur' = c /\ cycle'.todo = cycle.todo /\ cycle'.own = cycle.own
      /\ cycle'.seen[l] = s /\ \A k \in {1, 2} : k # l => cycle'.seen[k] = cycle.seen[k]
      /\ \/ /\ s = "REJECTED" \/ cycle.legs = {l}
            /\ cycle'.pc = "apply"
            /\ cycle'.legs = {k \in {1, 2} : cycle'.seen[k] = "FILLED"}
         \/ /\ s = "FILLED" /\ l = 1 /\ cycle.legs = {1, 2} /\ Legs(c) = {1, 2}
            /\ cycle'.pc = "submit" /\ cycle'.legs = {2}
  BY <1>1, <1>2, <1>3, <1>5, AfterLegIs
<1>7. /\ log'[c][l] = s /\ \A k \in {1, 2} : k # l => log'[c][k] = log[c][k]
      /\ \A i \in Intents : i # c => log'[i] = log[i]
  BY <1>1, <1>3, <1>5 DEF TypeInv, TypeOK
<1>8. /\ l \in cycle.legs /\ cycle.legs \subseteq Legs(c) /\ Legs(c) \subseteq {1, 2}
      /\ l = 1 => cycle.legs = Legs(c)
      /\ l = 2 => cycle.legs = {2} /\ Legs(c) = {1, 2}
  BY <1>2, <1>3, LegIs, LegsOf
<1>9. /\ trade[c] = NoTrade /\ c \notin inBook /\ hold[c] = "RESERVED" /\ exited[c] = {} /\ row[c] = "NONE"
      /\ cycle.own = (Legs(c) \ cycle.legs) \cup {l}
      /\ \A k \in {1, 2} : cycle.seen[k] = IF k \in Legs(c) \ cycle.legs THEN "FILLED" ELSE "NONE"
      /\ \A k \in Legs(c) \ cycle.legs : log[c][k] = "FILLED" /\ order[c][k] = "FILLED"
      /\ \A k \in cycle.legs : k # l => log[c][k] = "NONE" /\ order[c][k] = "NONE"
  BY <1>1, <1>3, <1>4 DEF NewEntry, NewSending, At, Done
<1>10. CASE cycle'.pc = "apply"
  <2>1. s = "REJECTED" \/ cycle.legs = {l}
    BY <1>6, <1>10
  <2>2. cycle'.legs = {k \in {1, 2} : cycle'.seen[k] = "FILLED"}
    BY <1>6, <1>10
  <2>3. \A k \in {1, 2} : cycle'.seen[k] = IF k = l THEN s ELSE IF k \in Legs(c) \ cycle.legs THEN "FILLED" ELSE "NONE"
    BY <1>6, <1>9
  <2>4. \A k \in Legs(c) : log'[c][k] = cycle'.seen[k] /\ order'[c][k] = cycle'.seen[k]
    BY <1>1, <1>5, <1>7, <1>8, <1>9, <2>3
  <2>5. Filling(c)' \/ \E m \in {1, 2} : FailedAt(c, m)'
    <3>1. CASE s = "REJECTED"
      <4>1. FailedAt(c, l)'
        BY <1>8, <2>3, <2>4, <3>1 DEF FailedAt
      <4>2. QED
        BY <4>1
    <3>2. CASE s # "REJECTED"
      BY <1>8, <2>1, <2>3, <2>4, <3>2 DEF Filling, Outcomes
    <3>3. QED
      BY <3>1, <3>2
  <2>6. \A k \in {1, 2} : cycle'.seen[k] # "NONE" => k \in Legs(c)
    BY <1>8, <2>3
  <2>7. {k \in Legs(c) : log'[c][k] = "FILLED"} = cycle'.legs
    BY <1>8, <2>2, <2>4, <2>6
  <2>8. trade'[c].legs = {} /\ trade'[c].state = "NONE" /\ {} # Legs(c) /\ cycle'.own # {}
    BY <1>1, <1>6, <1>9, LegsOf DEF NoTrade
  <2>9. \A k \in Legs(c) : cycle'.seen[k] = log'[c][k] /\ (log'[c][k] = "FILLED" => k \in cycle'.own)
    <3> TAKE k \in Legs(c)
    <3>1. cycle'.seen[k] = log'[c][k] /\ k \in {1, 2}
      BY <1>8, <2>4
    <3>2. cycle'.own = (Legs(c) \ cycle.legs) \cup {l}
      BY <1>6, <1>9
    <3>3. log'[c][k] = "FILLED" => k = l \/ k \in Legs(c) \ cycle.legs
      BY <2>3, <3>1
    <3>4. QED
      BY <3>1, <3>2, <3>3
  <2>10. NewApplying'
    BY <1>1, <1>6, <1>9, <2>2, <2>5, <2>6, <2>7, <2>8, <2>9 DEF NewApplying
  <2>11. NewEntry' /\ InFlight' /\ LegsLeft'
    BY <1>1, <1>6, <1>9, <1>10, <2>10 DEF NewEntry, At, InFlight, LegsLeft
  <2>12. QED
    BY <1>1, <1>2, <1>3, <1>6, <1>7, <2>11, OnwardKeeps DEF SameIntent
<1>11. CASE cycle'.pc = "submit"
  <2>1. s = "FILLED" /\ l = 1 /\ cycle.legs = {1, 2} /\ Legs(c) = {1, 2} /\ cycle'.legs = {2}
    BY <1>6, <1>11
  <2>2. Done' = {1} /\ Leg' = 2
    BY <1>6, <2>1 DEF Done, Leg
  <2>6. log'[c][1] = "FILLED" /\ order'[c][1] = "FILLED" /\ log'[c][2] = "NONE" /\ order'[c][2] = "NONE"
    <3>1. log[c][2] = "NONE" /\ order[c][2] = "NONE"
      BY <1>9, <2>1
    <3>2. log'[c][1] = "FILLED" /\ log'[c][2] = log[c][2]
      BY <1>7, <2>1
    <3>3. order' = order /\ order[c][1] = "FILLED"
      BY <1>1, <1>5, <2>1
    <3>4. QED
      BY <3>1, <3>2, <3>3
  <2>7. cycle'.own = {1} /\ cycle'.seen[1] = "FILLED" /\ cycle'.seen[2] = "NONE"
    BY <1>6, <1>9, <2>1
  <2>8. trade'[c] = NoTrade /\ c \notin inBook' /\ hold'[c] = "RESERVED" /\ Cur' = c
    BY <1>1, <1>6, <1>9
  <2>3. NewSending'
    BY <1>11, <2>1, <2>2, <2>6, <2>7, <2>8 DEF NewSending, At
  <2>4. NewEntry' /\ InFlight' /\ LegsLeft'
    BY <1>1, <1>6, <1>9, <1>11, <2>1, <2>3 DEF NewEntry, At, InFlight, LegsLeft
  <2>5. QED
    BY <1>1, <1>2, <1>3, <1>6, <1>7, <2>4, OnwardKeeps DEF SameIntent
<1>12. QED
  BY <1>6, <1>10, <1>11

\* A known order is of an entry that is settled.
LEMMA LookupSteady ==
  ASSUME TypeInv, SteadyInv, LookupKnown
  PROVE  SteadyInv'
<1>1. /\ At("submit") /\ log[Cur][Leg] # "NONE" /\ cycle \in CycleType /\ Cur \in Intents
      /\ UNCHANGED <<hold, keys, ledger, log, order, exited, trade, row, inBook, profile, attempts, closing>>
      /\ cycle' = AfterLeg(log[Cur][Leg])
  BY DEF LookupKnown, orders, books, session, TypeInv, TypeOK, CycleType, Cur
<1>2. LegsLeft /\ Sending /\ InFlight
  BY <1>1 DEF SteadyInv, Sending, At, InFlight
<1>3. PICK c \in Intents, l \in {1, 2} : c = Cur /\ l = Leg
  BY <1>1, <1>2, LegIs
<1>4. /\ l \in cycle.legs /\ cycle.legs \subseteq Legs(c) /\ Legs(c) \subseteq {1, 2}
      /\ l = 1 => cycle.legs = Legs(c)
      /\ l = 2 => cycle.legs = {2} /\ Legs(c) = {1, 2}
  BY <1>2, <1>3, LegIs, LegsOf
<1>5. ~NewEntry
  BY <1>1, <1>3, <1>4 DEF NewEntry, NewSending, At
<1>6. OldEntry
  BY <1>2, <1>5 DEF SteadyInv, InHand
<1>7. IsClosed(c) \/ \E m \in cycle.legs : FailedAt(c, m)
  BY <1>1, <1>3, <1>6 DEF OldEntry
<1>8. log[c][l] \in Outcomes
  <2>1. CASE IsClosed(c)
    BY <1>4, <2>1 DEF IsClosed, Filling, Outcomes
  <2>2. ASSUME NEW m \in cycle.legs, FailedAt(c, m)
        PROVE  log[c][l] \in Outcomes
    BY <1>1, <1>3, <1>4, <2>2 DEF FailedAt, Outcomes
  <2>3. QED
    BY <1>7, <2>1, <2>2
<1>9. PICK s \in Outcomes : s = log[c][l]
  BY <1>8
<1>10. /\ Cur' = c /\ cycle'.todo = cycle.todo /\ cycle'.own = cycle.own
       /\ \/ cycle'.pc = "apply"
          \/ /\ s = "FILLED" /\ l = 1 /\ cycle.legs = {1, 2} /\ Legs(c) = {1, 2}
             /\ cycle'.pc = "submit" /\ cycle'.legs = {2}
  BY <1>1, <1>2, <1>3, <1>9, AfterLegIs
<1>11. Again(c)' = Again(c)
  BY <1>1 DEF Again, Discovery
<1>12. IsClosed(c)' = IsClosed(c) /\ IsAborted(c)' = IsAborted(c) /\ \A m : FailedAt(c, m)' = FailedAt(c, m)
  BY <1>1 DEF IsClosed, IsAborted, FailedAt, Filling
<1>13. cycle'.pc = "submit" => IsClosed(c) \/ FailedAt(c, 2)
  BY <1>7, <1>9, <1>10 DEF FailedAt
<1>14. OldEntry'
  <2>1. cycle'.own = {} /\ hold'[c] = "RESERVED" /\ Again(c)' /\ cycle'.pc \in {"submit", "apply"}
    BY <1>1, <1>3, <1>6, <1>10, <1>11 DEF OldEntry
  <2>2. IsClosed(c)' \/ IsAborted(c)'
    BY <1>3, <1>6, <1>12 DEF OldEntry
  <2>3. cycle'.pc = "submit" => 2 \in cycle'.legs /\ (IsClosed(c)' \/ FailedAt(c, 2)')
    BY <1>10, <1>12, <1>13
  <2>4. IsClosed(c)' => ~IsAborted(c)'
    BY DEF IsClosed, IsAborted
  <2>5. cycle'.pc = "submit" /\ IsAborted(c)' => \E m \in cycle'.legs : FailedAt(c, m)'
    BY <2>3, <2>4
  <2>6. QED
    BY <1>10, <2>1, <2>2, <2>5 DEF OldEntry, At
<1>15. InFlight' /\ LegsLeft'
  BY <1>10 DEF InFlight, LegsLeft
<1>16. QED
  BY <1>1, <1>2, <1>3, <1>10, <1>14, <1>15, OnwardKeeps DEF SameIntent

\* A fill of this attempt: the last one commits the capital.
LEMMA FillSteady ==
  ASSUME TypeInv, SteadyInv, ApplyFill
  PROVE  SteadyInv'
<1>1. /\ At("apply") /\ cycle \in CycleType /\ Cur \in Intents /\ cycle.legs # {} /\ Leg \in cycle.own
      /\ UNCHANGED <<keys, ledger, log, order, exited, row, profile, attempts, closing>>
      /\ trade' = Filled /\ inBook' = inBook \cup {Cur}
      /\ hold' = IF Completes THEN [hold EXCEPT ![Cur] = "COMMITTED"] ELSE hold
      /\ cycle' = [cycle EXCEPT !.legs = @ \ {Leg}]
  BY DEF ApplyFill, orders, session, TypeInv, TypeOK, CycleType, Cur
<1>2. PICK c \in Intents, l \in {1, 2} : c = Cur /\ l = Leg /\ l \in cycle.legs
  BY <1>1, LegIsOne DEF CycleType
<1>3. InFlight
  BY <1>1 DEF InFlight, At
<1>4. NewEntry /\ NewApplying
  BY <1>1, <1>3 DEF SteadyInv, InHand, OldEntry, NewEntry, At
<1>5. /\ cycle'.pc = "apply" /\ cycle'.legs = cycle.legs \ {l} /\ Cur' = c /\ cycle'.todo = cycle.todo
      /\ cycle'.seen = cycle.seen /\ cycle'.own = cycle.own
  BY <1>1, <1>2 DEF CycleType, Cur, At
<1>. DEFINE t == [state |-> IF trade[c].state = "NONE" THEN "OPEN" ELSE trade[c].state,
                  legs |-> trade[c].legs \cup {l}]
            filled == {k \in Legs(c) : log[c][k] = "FILLED"}
<1>6. trade'[c] = t /\ \A i \in Intents : i # c => trade'[i] = trade[i]
  BY <1>1, <1>2 DEF Filled, TypeInv, TypeOK
<1>7. /\ trade[c].legs = filled \ cycle.legs
      /\ trade[c].state = IF trade[c].legs = {} THEN "NONE" ELSE "OPEN"
      /\ l \in Legs(c) /\ log[c][l] = "FILLED"
  <2>1. cycle.seen[l] = "FILLED"
    BY <1>2, <1>4 DEF NewApplying
  <2>2. l \in Legs(c)
    BY <1>2, <1>4, <2>1 DEF NewApplying
  <2>3. QED
    BY <1>2, <1>4, <2>1, <2>2 DEF NewApplying
<1>8. trade'[c].legs = filled \ cycle'.legs /\ trade'[c].state = "OPEN" /\ trade'[c].legs # {}
  <2>1. trade'[c].legs = trade[c].legs \cup {l} /\ trade'[c].state = "OPEN"
    BY <1>6, <1>7
  <2>2. l \in filled
    BY <1>7
  <2>. HIDE DEF filled
  <2>3. QED
    BY <1>5, <1>7, <2>1, <2>2
<1>9. Completes <=> trade'[c].legs = Legs(c)
  BY <1>1, <1>2 DEF Completes
<1>10. /\ hold'[c] = IF trade'[c].legs = Legs(c) THEN "COMMITTED" ELSE "RESERVED"
       /\ \A i \in Intents : i # c => hold'[i] = hold[i]
  <2>1. trade[c].legs # Legs(c)
    BY <1>2, <1>7
  <2>2. hold[c] = "RESERVED"
    BY <1>2, <1>4, <2>1 DEF NewApplying
  <2>3. CASE Completes
    BY <1>1, <1>2, <1>9, <2>3 DEF TypeInv, TypeOK
  <2>4. CASE ~Completes
    BY <1>1, <1>2, <1>9, <2>2, <2>4
  <2>5. QED
    BY <2>3, <2>4
<1>11. NewApplying'
  <2>1. /\ cycle.own # {}
        /\ Filling(c) \/ \E m \in {1, 2} : FailedAt(c, m)
        /\ \A k \in Legs(c) : cycle.seen[k] = log[c][k] /\ (log[c][k] = "FILLED" => k \in cycle.own)
        /\ \A k \in {1, 2} : cycle.seen[k] # "NONE" => k \in Legs(c)
        /\ \A k \in cycle.legs : cycle.seen[k] = "FILLED"
    BY <1>2, <1>4 DEF NewApplying
  <2>2. Filling(c)' = Filling(c) /\ \A m : FailedAt(c, m)' = FailedAt(c, m)
    BY <1>1 DEF Filling, FailedAt
  <2>3. filled' = filled
    BY <1>1
  <2>4. Filling(c)' \/ \E m \in {1, 2} : FailedAt(c, m)'
    BY <2>1, <2>2
  <2>5. c \in inBook'
    BY <1>1, <1>2
  <2>6. /\ cycle'.own # {}
        /\ \A k \in Legs(c) : cycle'.seen[k] = log'[c][k] /\ (log'[c][k] = "FILLED" => k \in cycle'.own)
        /\ \A k \in {1, 2} : cycle'.seen[k] # "NONE" => k \in Legs(c)
        /\ \A k \in cycle'.legs : cycle'.seen[k] = "FILLED"
    BY <1>1, <1>5, <2>1
  <2>7. trade'[c].legs = {k \in Legs(c) : log'[c][k] = "FILLED"} \ cycle'.legs
    BY <1>1, <1>8
  <2>. HIDE DEF filled, t
  <2>8. QED
    BY <1>5, <1>8, <1>10, <2>4, <2>5, <2>6, <2>7 DEF NewApplying
<1>12. exited'[c] = {} /\ row'[c] = "NONE"
  BY <1>1, <1>2, <1>4 DEF NewEntry
<1>13. NewEntry' /\ InFlight' /\ LegsLeft'
  BY <1>5, <1>11, <1>12 DEF NewEntry, InFlight, LegsLeft, At
<1>14. \A i \in Intents : i # Cur => SameIntent(i)
  BY <1>1, <1>2, <1>6, <1>10 DEF SameIntent
<1>15. QED
  BY <1>1, <1>2, <1>3, <1>5, <1>13, <1>14, OnwardKeeps

\* The sets that the ledger is compared with are finite, and the intent in hand
\* is in none of them.
LEMMA OthersCount ==
  ASSUME NEW s
  PROVE  /\ Cardinality(Others(s)) \in Nat /\ (Cur \notin Others(s) \/ InTurn = {})
         /\ \A c \in Intents : c \notin Others(s) =>
              Cardinality(Others(s) \cup {c}) = Cardinality(Others(s)) + 1
<1>1. Others(s) \in SUBSET Intents
  BY DEF Others
<1>2. IsFiniteSet(Others(s)) /\ Cardinality(Others(s)) \in Nat
  BY <1>1, Counting
<1>3. \A c \in Intents : c \notin Others(s) => Cardinality(Others(s) \cup {c}) = Cardinality(Others(s)) + 1
  BY <1>2, FS_AddElement
<1>4. Cur \notin Others(s) \/ InTurn = {}
  BY DEF Others, InTurn
<1>5. QED
  BY <1>2, <1>3, <1>4

\* A new entry applies only fills that it has sent itself, and completes on a
\* pending hold.
LEMMA NewFills ==
  ASSUME TypeInv, SteadyInv, At("apply"), cycle.legs # {}, NewEntry
  PROVE  Leg \in cycle.own /\ hold[Cur] = "RESERVED"
<1>1. cycle \in CycleType /\ Cur \in Intents
  BY DEF TypeInv, TypeOK, CycleType, Cur
<1>2. PICK c \in Intents, l \in {1, 2} : c = Cur /\ l = Leg /\ l \in cycle.legs
  BY <1>1, LegIsOne DEF CycleType
<1>3. NewApplying
  BY DEF NewEntry
<1>4. cycle.seen[l] = "FILLED"
  BY <1>2, <1>3 DEF NewApplying
<1>5. l \in Legs(c)
  BY <1>2, <1>3, <1>4 DEF NewApplying
<1>6. trade[c].legs # Legs(c)
  BY <1>2, <1>3, <1>5 DEF NewApplying
<1>7. QED
  BY <1>2, <1>3, <1>4, <1>5, <1>6 DEF NewApplying

\* The process that ends on an old fill leaves every intent settled, and the
\* next one counts what they hold.
LEMMA RaisesSteady ==
  ASSUME TypeInv, SteadyInv, ApplyRaises
  PROVE  SteadyInv'
<1>. DEFINE open == {i \in Intents : row[i] = "OPEN"}
<1>1. /\ At("apply") /\ cycle.legs # {} /\ InFlight /\ cycle \in CycleType
      /\ UNCHANGED <<hold, keys, log, order, exited, row, profile, attempts>>
      /\ ledger' = [reserved |-> Cardinality(Holding({"RESERVED"})), margin |-> Cardinality(open)]
      /\ trade' = [i \in Intents |-> IF i \in open THEN [state |-> "OPEN", legs |-> Legs(i)] ELSE NoTrade]
      /\ inBook' = open /\ cycle' = NoCycle /\ closing' = NoClose
  BY DEF ApplyRaises, Restart, orders, session, InFlight, At, TypeInv, TypeOK
<1>2. PICK c \in Intents : c = Cur
  BY <1>1 DEF CycleType, Cur
<1>3. OldEntry
  <2>1. SUFFICES ASSUME NewEntry PROVE FALSE
    BY <1>1 DEF SteadyInv, InHand
  <2>2. Leg \in cycle.own /\ hold[Cur] = "RESERVED"
    BY <1>1, <2>1, NewFills
  <2>3. CanReservation("RESERVED", "COMMITTED", "BROKER_EVENT")
    BY DEF CanReservation, ReservationEdge
  <2>4. QED
    BY <2>2, <2>3 DEF ApplyRaises
<1>4. /\ cycle'.pc = "idle" /\ cycle'.todo = {} /\ closing'.pc = "idle"
      /\ closing.pc = "idle"
  BY <1>1 DEF NoCycle, NoClose, SteadyInv, Apart, At
<1>5. ~InFlight' /\ ~Reserving' /\ InTurn' = {} /\ One' = 0 /\ InTurn = {Cur} /\ One = 1
  BY <1>1, <1>4 DEF InFlight, Reserving, InTurn, One
<1>6. \A i \in Intents : Settled(i)
  BY <1>3 DEF SteadyInv, InHand, OldEntry, Settled
<1>7. \A i \in Intents : Settled(i)' /\ (Fresh(i) => Fresh(i)')
  <2> TAKE i \in Intents
  <2>1. Filling(i)' = Filling(i) /\ \A l : FailedAt(i, l)' = FailedAt(i, l)
    BY <1>1 DEF Filling, FailedAt
  <2>2. /\ row[i] = "OPEN" => trade'[i] = [state |-> "OPEN", legs |-> Legs(i)] /\ i \in inBook'
        /\ row[i] # "OPEN" => trade'[i] = NoTrade /\ i \notin inBook'
    BY <1>1
  <2>3. Fresh(i) => Fresh(i)'
    BY <1>1, <2>2 DEF Fresh
  <2>4. IsOpen(i) => IsOpen(i)'
    BY <1>1, <2>1, <2>2 DEF IsOpen
  <2>5. IsClosed(i) => IsClosed(i)'
    BY <1>1, <2>1, <2>2 DEF IsClosed, NoTrade
  <2>6. IsAborted(i) => IsAborted(i)'
    BY <1>1, <2>1, <2>2 DEF IsAborted
  <2>7. QED
    BY <1>6, <2>3, <2>4, <2>5, <2>6 DEF Settled
<1>8. LegsLeft' /\ InHand' /\ Apart'
  BY <1>4, <1>5, <1>7 DEF LegsLeft, InHand, Apart, At
<1>9. Again(c) /\ hold[c] = "RESERVED" /\ Others("RESERVED")' = Others("RESERVED") \cup {c}
  BY <1>1, <1>2, <1>3, <1>5 DEF OldEntry, Others
<1>10. Pending'
  <2>1. \A i \in Others("RESERVED")' : Again(i)
    BY <1>9 DEF SteadyInv, Pending
  <2>2. QED
    BY <1>1, <1>4, <2>1 DEF Pending, Again, Discovery
<1>11. Discovery' = Discovery /\ EmittedThrice' = EmittedThrice
  BY <1>1 DEF Discovery, EmittedThrice
<1>12. Emitted'
  <2>1. \A i \in Intents : Untouched(i)' => Untouched(i)
    BY <1>1, <1>4, <1>11 DEF Untouched
  <2>2. QED
    BY <1>4, <1>5, <1>7, <2>1 DEF SteadyInv, Emitted, At
<1>13. Accounted'
  <2>1. hold[c] = "RESERVED"
    BY <1>9
  <2>2. Holding({"RESERVED"}) = Others("RESERVED") \cup {c}
    BY <1>2, <1>5, <2>1 DEF Holding, Others
  <2>3. open = Others("COMMITTED")
    <3>1. \A i \in Intents : row[i] = "OPEN" <=> hold[i] = "COMMITTED"
      BY <1>6 DEF Settled, Fresh, IsOpen, IsClosed, IsAborted
    <3>2. QED
      BY <1>2, <1>5, <2>1, <3>1 DEF Others
  <2>4. Others("RESERVED")' = Others("RESERVED") \cup {c}
    BY <1>1, <1>2, <1>5, <2>1 DEF Others
  <2>5. Others("COMMITTED")' = Others("COMMITTED")
    BY <1>1, <1>2, <1>5, <2>1 DEF Others
  <2>6. /\ Cardinality(Others("RESERVED")) \in Nat /\ Cardinality(Others("COMMITTED")) \in Nat
        /\ Cardinality(Others("RESERVED") \cup {c}) = Cardinality(Others("RESERVED")) + 1
    BY <1>2, <1>5, OthersCount
  <2>7. /\ ledger'.reserved = Cardinality(Others("RESERVED")) + 1
        /\ ledger'.margin = Cardinality(Others("COMMITTED"))
    BY <1>1, <2>2, <2>3, <2>6
  <2>8. /\ ledger.margin = Cardinality(Others("COMMITTED"))
        /\ ledger.reserved >= Cardinality(Others("RESERVED")) + 1
        /\ ~Discovery => ledger.reserved + ledger.margin <= GlobalCap
        /\ ledger.reserved \in Nat /\ GlobalCap \in Nat
    BY <1>4, <1>5, <2>6, CapitalAssumption DEF SteadyInv, Accounted, TypeInv, TypeOK
  <2>9. ~Discovery' => ledger'.reserved + ledger'.margin <= GlobalCap
    BY <1>11, <2>6, <2>7, <2>8
  <2>10. /\ ledger'.margin = Cardinality(Others("COMMITTED")') + 0
         /\ ledger'.reserved = Cardinality(Others("RESERVED")') + 0
         /\ Cardinality(Others("RESERVED")') \in Nat
    <3>1. /\ Cardinality(Others("COMMITTED")') = Cardinality(Others("COMMITTED"))
          /\ Cardinality(Others("RESERVED")') = Cardinality(Others("RESERVED") \cup {c})
      BY <2>4, <2>5, Zenon
    <3>2. QED
      BY <2>6, <2>7, <3>1
  <2>11. QED
    BY <1>4, <1>5, <1>11, <2>9, <2>10 DEF Accounted
<1>14. QED
  BY <1>8, <1>12, <1>13, <1>10 DEF SteadyInv

\* The last fill is followed by the ledger's move from reserved to margin.
LEMMA FinishSteady ==
  ASSUME TypeInv, SteadyInv, Finish
  PROVE  SteadyInv'
<1>1. /\ At("apply") /\ cycle.legs = {} /\ cycle.own # {} /\ InFlight /\ ~Reserving /\ Cur \in Intents
      /\ trade[Cur].state = "OPEN" /\ trade[Cur].legs = Legs(Cur) /\ Drop
      /\ UNCHANGED <<hold, keys, log, order, exited, trade, inBook, profile, attempts, closing>>
      /\ ledger' = [reserved |-> Sub(ledger.reserved, 1), margin |-> ledger.margin + 1]
      /\ row' = [row EXCEPT ![Cur] = "OPEN"]
  BY DEF Finish, Applied, Opened, orders, session, InFlight, Reserving, At, TypeInv, TypeOK, CycleType, Cur
<1>2. PICK c \in Intents : c = Cur
  BY <1>1
<1>3. NewEntry /\ NewApplying
  BY <1>1 DEF SteadyInv, InHand, OldEntry, NewEntry
<1>4. /\ hold[c] = "COMMITTED" /\ c \in inBook /\ exited[c] = {} /\ Filling(c)
      /\ trade[c] = [state |-> "OPEN", legs |-> Legs(c)]
  <2>1. hold[c] = "COMMITTED" /\ c \in inBook /\ exited[c] = {}
    BY <1>1, <1>2, <1>3 DEF NewEntry, NewApplying
  <2>2. \A k \in Legs(c) : log[c][k] = "FILLED"
    BY <1>1, <1>2, <1>3 DEF NewApplying
  <2>3. Filling(c)
    BY <1>2, <1>3, <2>2 DEF NewApplying, Filling, FailedAt
  <2>4. trade[c] \in [state : {"NONE", "OPEN", "CLOSED"}, legs : SUBSET {1, 2}]
    BY DEF TypeInv, TypeOK
  <2>5. trade[c] = [state |-> "OPEN", legs |-> Legs(c)]
    BY <1>1, <1>2, <2>4
  <2>6. QED
    BY <2>1, <2>3, <2>5
<1>5. Settled(c)'
  <2>1. row'[c] = "OPEN" /\ Filling(c)'
    BY <1>1, <1>2, <1>4 DEF Filling, TypeInv, TypeOK
  <2>2. IsOpen(c)'
    BY <1>1, <1>4, <2>1 DEF IsOpen
  <2>3. QED
    BY <2>2 DEF Settled
<1>6. ~Untouched(c)
  BY <1>1, <1>2 DEF SteadyInv, Emitted, Untouched
<1>7. \A i \in Intents : i # Cur => SameIntent(i)
  BY <1>1 DEF SameIntent, TypeInv, TypeOK
<1>8. /\ LegsLeft' /\ InHand' /\ Emitted' /\ Pending' /\ Apart' /\ One' = 0
      /\ Others("RESERVED")' = Others("RESERVED") /\ Others("COMMITTED")' = Others("COMMITTED") \cup {c}
  <2>1. "RESERVED" # "COMMITTED" /\ hold'[c] = "COMMITTED"
    BY <1>1, <1>4
  <2>2. QED
    BY <1>1, <1>2, <1>5, <1>6, <1>7, <2>1, PutDownKeeps
<1>9. Accounted'
  <2>1. closing.pc = "idle" /\ One = 1 /\ InTurn # {} /\ Discovery' = Discovery /\ EmittedThrice' = EmittedThrice
    BY <1>1 DEF SteadyInv, Apart, At, One, InTurn, Discovery, EmittedThrice
  <2>2. /\ Cardinality(Others("COMMITTED")') = Cardinality(Others("COMMITTED") \cup {c})
        /\ Cardinality(Others("RESERVED")') = Cardinality(Others("RESERVED"))
    BY <1>8, Zenon
  <2>3. /\ Cardinality(Others("RESERVED")) \in Nat /\ Cardinality(Others("COMMITTED")) \in Nat
        /\ Cardinality(Others("COMMITTED") \cup {c}) = Cardinality(Others("COMMITTED")) + 1
    BY <1>2, <2>1, OthersCount
  <2>4. /\ ledger.margin = Cardinality(Others("COMMITTED"))
        /\ ledger.reserved >= Cardinality(Others("RESERVED")) + 1
        /\ EmittedThrice \/ ledger.reserved = Cardinality(Others("RESERVED")) + 1
        /\ ~Discovery => ledger.reserved + ledger.margin <= GlobalCap
        /\ ledger.reserved \in Nat /\ GlobalCap \in Nat
    BY <2>1, <2>3, CapitalAssumption DEF SteadyInv, Accounted, TypeInv, TypeOK
  <2>5. ledger'.reserved = ledger.reserved - 1 /\ ledger'.margin = ledger.margin + 1
    BY <1>1, <2>3, <2>4 DEF Sub
  <2>6. /\ ledger'.margin = Cardinality(Others("COMMITTED")') + 0
        /\ ledger'.reserved >= Cardinality(Others("RESERVED")') + 0
        /\ ~Discovery => ledger'.reserved + ledger'.margin <= GlobalCap
        /\ EmittedThrice \/ ledger'.reserved = Cardinality(Others("RESERVED")') + 0
    BY <2>2, <2>3, <2>4, <2>5
  <2>7. closing'.pc = "idle"
    BY <1>1, <2>1
  <2>8. QED
    BY <1>8, <2>1, <2>4, <2>6, <2>7 DEF Accounted
<1>10. QED
  BY <1>8, <1>9 DEF SteadyInv

\* An entry that failed gives its pending hold back.
LEMMA AbortSteady ==
  ASSUME TypeInv, SteadyInv, Abort
  PROVE  SteadyInv'
<1>1. /\ At("apply") /\ cycle.legs = {} /\ InFlight /\ Cur \in Intents /\ Drop /\ ~Opened /\ AnyFailed
      /\ UNCHANGED <<keys, log, order, exited, trade, row, profile, attempts, closing>>
      /\ hold' = IF CanReservation(hold[Cur], "RELEASED", "LOCAL_COMMAND")
                   THEN [hold EXCEPT ![Cur] = "RELEASED"] ELSE hold
      /\ ledger' = [ledger EXCEPT !.reserved = Sub(@, 1)]
      /\ inBook' = inBook \ {Cur}
  BY DEF Abort, Applied, orders, session, InFlight, At, TypeInv, TypeOK, CycleType, Cur
<1>2. PICK c \in Intents : c = Cur
  BY <1>1
<1>3. /\ hold[c] = "RESERVED"
      /\ \/ IsClosed(c)
         \/ (\E l \in {1, 2} : FailedAt(c, l)) /\ exited[c] = {} /\ row[c] = "NONE"
  <2>1. CASE OldEntry
    BY <1>2, <2>1 DEF OldEntry, IsAborted
  <2>2. CASE NewEntry
    <3>1. NewApplying
      BY <1>1, <2>2 DEF NewEntry
    <3>2. PICK k \in {1, 2} : cycle.seen[k] = "REJECTED"
      BY <1>1 DEF AnyFailed
    <3>3. k \in Legs(c) /\ log[c][k] = "REJECTED"
      BY <1>2, <3>1, <3>2 DEF NewApplying
    <3>4. ~Filling(c)
      BY <3>3 DEF Filling
    <3>5. \E l \in {1, 2} : FailedAt(c, l)
      BY <1>2, <3>1, <3>4 DEF NewApplying
    <3>6. trade[c].legs # Legs(c)
      BY <1>2, <3>1, <3>3 DEF NewApplying
    <3>7. hold[c] = "RESERVED"
      BY <1>2, <3>1, <3>6 DEF NewApplying
    <3>8. QED
      BY <1>2, <2>2, <3>5, <3>7 DEF NewEntry
  <2>3. QED
    BY <1>1, <2>1, <2>2 DEF SteadyInv, InHand
<1>4. hold' = [hold EXCEPT ![c] = "RELEASED"]
  <2>1. CanReservation("RESERVED", "RELEASED", "LOCAL_COMMAND")
    BY DEF CanReservation, ReservationEdge
  <2>2. QED
    BY <1>1, <1>2, <1>3, <2>1
<1>5. hold'[c] = "RELEASED" /\ c \notin inBook' /\ \A i \in Intents : i # Cur => SameIntent(i)
  BY <1>1, <1>2, <1>4 DEF SameIntent, TypeInv, TypeOK
<1>6. Settled(c)'
  <2>1. Filling(c)' = Filling(c) /\ \A l : FailedAt(c, l)' = FailedAt(c, l)
    BY <1>1 DEF Filling, FailedAt
  <2>2. CASE IsClosed(c)
    <3>1. IsClosed(c)'
      BY <1>1, <1>5, <2>1, <2>2 DEF IsClosed
    <3>2. QED
      BY <3>1 DEF Settled
  <2>3. CASE (\E l \in {1, 2} : FailedAt(c, l)) /\ exited[c] = {} /\ row[c] = "NONE"
    <3>1. IsAborted(c)'
      BY <1>1, <1>5, <2>1, <2>3 DEF IsAborted
    <3>2. QED
      BY <3>1 DEF Settled
  <2>4. QED
    BY <1>3, <2>2, <2>3
<1>7. ~Untouched(c)
  BY <1>1, <1>2 DEF SteadyInv, Emitted, Untouched
<1>8. /\ LegsLeft' /\ InHand' /\ Emitted' /\ Pending' /\ Apart' /\ One' = 0
      /\ Others("RESERVED")' = Others("RESERVED") /\ Others("COMMITTED")' = Others("COMMITTED")
  <2>1. "RESERVED" # hold'[c] /\ hold'[c] # "COMMITTED"
    BY <1>5
  <2>2. QED
    BY <1>1, <1>2, <1>5, <1>6, <1>7, <2>1, PutDownKeeps
<1>9. Accounted'
  <2>1. closing.pc = "idle" /\ One = 1 /\ InTurn # {} /\ Discovery' = Discovery /\ EmittedThrice' = EmittedThrice
    BY <1>1 DEF SteadyInv, Apart, At, One, InTurn, Discovery, EmittedThrice
  <2>2. /\ Cardinality(Others("COMMITTED")') = Cardinality(Others("COMMITTED"))
        /\ Cardinality(Others("RESERVED")') = Cardinality(Others("RESERVED"))
    BY <1>8, Zenon
  <2>3. Cardinality(Others("RESERVED")) \in Nat /\ Cardinality(Others("COMMITTED")) \in Nat
    BY OthersCount
  <2>4. /\ ledger.margin = Cardinality(Others("COMMITTED"))
        /\ ledger.reserved >= Cardinality(Others("RESERVED")) + 1
        /\ EmittedThrice \/ ledger.reserved = Cardinality(Others("RESERVED")) + 1
        /\ ~Discovery => ledger.reserved + ledger.margin <= GlobalCap
        /\ ledger.reserved \in Nat /\ GlobalCap \in Nat /\ ledger \in [reserved : Nat, margin : Nat]
    BY <2>1, <2>3, CapitalAssumption DEF SteadyInv, Accounted, TypeInv, TypeOK
  <2>5. ledger'.reserved = ledger.reserved - 1 /\ ledger'.margin = ledger.margin
    BY <1>1, <2>3, <2>4 DEF Sub
  <2>6. /\ ledger'.margin = Cardinality(Others("COMMITTED")') + 0
        /\ ledger'.reserved >= Cardinality(Others("RESERVED")') + 0
        /\ ~Discovery => ledger'.reserved + ledger'.margin <= GlobalCap
        /\ EmittedThrice \/ ledger'.reserved = Cardinality(Others("RESERVED")') + 0
    BY <2>2, <2>3, <2>4, <2>5
  <2>7. closing'.pc = "idle"
    BY <1>1, <2>1
  <2>8. QED
    BY <1>8, <2>1, <2>4, <2>6, <2>7 DEF Accounted
<1>10. QED
  BY <1>8, <1>9 DEF SteadyInv

\* An intent in the book is an open trade, or the one whose close is under way.
LEMMA InBookIs ==
  ASSUME SteadyInv, NEW i \in Intents, Settled(i), i \in inBook
  PROVE  IsOpen(i) \/ (IsClosed(i) /\ closing.pc # "idle" /\ closing.cur = i)
  BY DEF Settled, Fresh, IsClosed, IsAborted

\* DISCOVERY registers the intent in hand.
LEMMA KeySteady ==
  ASSUME TypeInv, SteadyInv, RegisterKey
  PROVE  SteadyInv'
<1>1. /\ At("register") /\ cycle \in CycleType /\ Cur \in Intents /\ Reserving /\ ~InFlight
      /\ UNCHANGED <<hold, ledger, log, order, exited, trade, row, inBook, profile, attempts, closing>>
      /\ keys' = keys \cup {Cur}
      /\ cycle' = [cycle EXCEPT !.pc = "book"]
  BY DEF RegisterKey, orders, books, session, Reserving, InFlight, At, TypeInv, TypeOK, CycleType, Cur
<1>2. PICK c \in Intents : c = Cur
  BY <1>1
<1>3. /\ cycle'.pc = "book" /\ Cur' = c /\ cycle'.todo = cycle.todo /\ cycle'.own = cycle.own
      /\ cycle'.seen = cycle.seen
  BY <1>1, <1>2 DEF CycleType, Cur
<1>4. ~InFlight' /\ Reserving' /\ InTurn = {c} /\ InTurn' = {c} /\ One = 0 /\ One' = 0 /\ LegsLeft' /\ ~At("idle")
      /\ ~At("idle")'
  BY <1>1, <1>2, <1>3 DEF InFlight, Reserving, InTurn, One, LegsLeft, At
<1>5. \A i \in Intents : SameIntent(i)
  BY <1>1 DEF SameIntent
<1>6. Discovery' = Discovery /\ EmittedThrice' = EmittedThrice
  BY <1>1 DEF Discovery, EmittedThrice
<1>7. Apart'
  BY <1>1, <1>4 DEF SteadyInv, Apart
<1>8. InHand'
  <2>1. \A i \in Intents : Settled(i)'
    BY <1>1, <1>5, SettledKept DEF SteadyInv, InHand
  <2>2. Fresh(c) => Fresh(c)'
    BY <1>5, FreshKept
  <2>3. hold'[c] = "RESERVED" /\ (Again(c)' \/ Fresh(c)') /\ cycle'.own = {} /\ cycle'.seen = NoEvents
    BY <1>1, <1>2, <1>3, <1>6, <2>2 DEF SteadyInv, InHand, Again
  <2>4. QED
    BY <1>3, <1>4, <2>1, <2>3 DEF InHand
<1>9. Emitted'
  <2>1. \A i \in Intents : Untouched(i)' => Untouched(i)
    BY <1>1, <1>3, <1>6 DEF Untouched
  <2>2. \A i \in Intents : Untouched(i)' => Fresh(i)'
    BY <1>5, <2>1, FreshKept DEF SteadyInv, Emitted
  <2>3. QED
    BY <1>1, <1>2, <1>3, <2>2 DEF SteadyInv, Emitted
<1>10. Others("RESERVED")' = Others("RESERVED") /\ Others("COMMITTED")' = Others("COMMITTED")
  BY <1>2, <1>3, <1>4, <1>5, OthersKept
<1>11. Accounted'
  BY <1>1, <1>4, <1>6, <1>10 DEF SteadyInv, Accounted
<1>12. Pending'
  BY <1>1, <1>3, <1>10, PendingKept
<1>13. QED
  BY <1>4, <1>7, <1>8, <1>9, <1>11, <1>12 DEF SteadyInv

\* The mode ledger grants what fits the envelope: an entry is begun.
LEMMA GrantSteady ==
  ASSUME TypeInv, SteadyInv, TakeIf(TRUE), ~Discovery => ledger.reserved + ledger.margin + 1 <= GlobalCap
  PROVE  SteadyInv'
<1>1. /\ At("book") /\ cycle \in CycleType /\ Cur \in Intents /\ Reserving /\ ~InFlight
      /\ UNCHANGED <<hold, keys, log, order, exited, trade, row, inBook, profile, attempts, closing>>
      /\ ledger' = [ledger EXCEPT !.reserved = @ + 1]
      /\ cycle' = [cycle EXCEPT !.pc = "submit", !.legs = Legs(Cur)]
  BY DEF TakeIf, orders, books, session, Reserving, InFlight, At, TypeInv, TypeOK, CycleType, Cur
<1>2. PICK c \in Intents : c = Cur
  BY <1>1
<1>3. /\ cycle'.pc = "submit" /\ Cur' = c /\ cycle'.todo = cycle.todo /\ cycle'.own = cycle.own
      /\ cycle'.seen = cycle.seen /\ cycle'.legs = Legs(c)
  BY <1>1, <1>2 DEF CycleType, Cur
<1>4. InFlight' /\ ~Reserving' /\ InTurn = {c} /\ InTurn' = {c} /\ One = 0 /\ One' = 1 /\ LegsLeft' /\ ~At("idle")
      /\ ~At("idle")'
  BY <1>1, <1>2, <1>3 DEF InFlight, Reserving, InTurn, One, LegsLeft, At
<1>5. \A i \in Intents : SameIntent(i)
  BY <1>1 DEF SameIntent
<1>6. Discovery' = Discovery /\ EmittedThrice' = EmittedThrice
  BY <1>1 DEF Discovery, EmittedThrice
<1>7. closing.pc = "idle" /\ Apart'
  BY <1>1, <1>4 DEF SteadyInv, Apart
<1>8. hold[c] = "RESERVED" /\ Settled(c) /\ (Again(c) \/ Fresh(c)) /\ cycle.own = {} /\ cycle.seen = NoEvents
  BY <1>1, <1>2 DEF SteadyInv, InHand
<1>9. ASSUME Fresh(c)
      PROVE  NewEntry'
  <2>1. Done' = {}
    BY <1>3 DEF Done
  <2>2. \A k \in {1, 2} : log[c][k] = "NONE" /\ order[c][k] = "NONE" /\ cycle.seen[k] = "NONE"
    BY <1>8, <1>9 DEF Fresh, NoEvents
  <2>3. trade[c] = NoTrade /\ c \notin inBook /\ exited[c] = {} /\ row[c] = "NONE"
    BY <1>9 DEF Fresh
  <2>4. NewSending'
    BY <1>1, <1>3, <1>8, <2>1, <2>2, <2>3, LegsOf DEF NewSending, At
  <2>5. QED
    BY <1>1, <1>3, <2>3, <2>4 DEF NewEntry, At
<1>10. ASSUME ~Fresh(c)
       PROVE  OldEntry'
  <2>1. IsClosed(c) \/ IsAborted(c)
    BY <1>8, <1>10 DEF Settled, IsOpen
  <2>2. IsClosed(c)' = IsClosed(c) /\ IsAborted(c)' = IsAborted(c) /\ \A m : FailedAt(c, m)' = FailedAt(c, m)
    BY <1>1 DEF IsClosed, IsAborted, FailedAt, Filling
  <2>3. IsAborted(c)' => \E l \in cycle'.legs : FailedAt(c, l)'
    BY <1>3, <2>2 DEF IsAborted, FailedAt
  <2>4. QED
    BY <1>1, <1>3, <1>6, <1>8, <1>10, <2>1, <2>2, <2>3 DEF OldEntry, At, Again
<1>11. InHand'
  <2>1. \A i \in Intents : Settled(i)'
    BY <1>1, <1>5, SettledKept DEF SteadyInv, InHand
  <2>2. NewEntry' \/ OldEntry'
    BY <1>9, <1>10
  <2>3. QED
    BY <1>4, <2>1, <2>2 DEF InHand
<1>12. Emitted'
  <2>1. \A i \in Intents : Untouched(i)' => Untouched(i)
    BY <1>1, <1>3, <1>6 DEF Untouched
  <2>2. \A i \in Intents : Untouched(i)' => Fresh(i)'
    BY <1>5, <2>1, FreshKept DEF SteadyInv, Emitted
  <2>3. QED
    BY <1>1, <1>2, <1>3, <1>6, <2>2 DEF SteadyInv, Emitted
<1>13. Others("RESERVED")' = Others("RESERVED") /\ Others("COMMITTED")' = Others("COMMITTED")
  BY <1>2, <1>3, <1>4, <1>5, OthersKept
<1>14. Accounted'
  <2>1. ledger'.reserved = ledger.reserved + 1 /\ ledger'.margin = ledger.margin
    BY <1>1 DEF TypeInv, TypeOK
  <2>2. Cardinality(Others("RESERVED")) \in Nat /\ Cardinality(Others("COMMITTED")) \in Nat
        /\ ledger.reserved \in Nat /\ ledger.margin \in Nat /\ GlobalCap \in Nat
    BY OthersCount, CapitalAssumption DEF TypeInv, TypeOK
  <2>3. QED
    BY <1>1, <1>4, <1>6, <1>7, <1>13, <2>1, <2>2 DEF SteadyInv, Accounted
<1>15. Pending'
  BY <1>1, <1>3, <1>13, PendingKept
<1>16. QED
  BY <1>4, <1>7, <1>11, <1>12, <1>14, <1>15 DEF SteadyInv

\* The mode ledger refuses: the durable hold is released again.
LEMMA RefuseSteady ==
  ASSUME TypeInv, SteadyInv, TakeIf(FALSE)
  PROVE  SteadyInv'
<1>1. /\ At("book") /\ Cur \in Intents /\ Reserving /\ ~InFlight /\ Drop
      /\ UNCHANGED <<keys, ledger, log, order, exited, trade, row, inBook, profile, attempts, closing>>
      /\ hold' = [hold EXCEPT ![Cur] = "RELEASED"]
  BY DEF TakeIf, orders, books, session, Reserving, InFlight, At, TypeInv, TypeOK, CycleType, Cur
<1>2. PICK c \in Intents : c = Cur
  BY <1>1
<1>3. hold'[c] = "RELEASED" /\ \A i \in Intents : i # Cur => SameIntent(i)
  BY <1>1, <1>2 DEF SameIntent, TypeInv, TypeOK
<1>4. hold[c] = "RESERVED" /\ Settled(c)
  BY <1>1, <1>2 DEF SteadyInv, InHand
<1>5. Settled(c)'
  <2>1. Filling(c)' = Filling(c) /\ \A l : FailedAt(c, l)' = FailedAt(c, l)
    BY <1>1 DEF Filling, FailedAt
  <2>2. Fresh(c) => Fresh(c)'
    BY <1>1, <1>3 DEF Fresh
  <2>3. IsClosed(c) => IsClosed(c)'
    BY <1>1, <1>3, <2>1 DEF IsClosed
  <2>4. IsAborted(c) => IsAborted(c)'
    BY <1>1, <1>3, <2>1 DEF IsAborted
  <2>5. QED
    BY <1>4, <2>2, <2>3, <2>4 DEF Settled, IsOpen
<1>6. ~Untouched(c)
  BY <1>1, <1>2 DEF SteadyInv, Emitted, Untouched
<1>7. /\ LegsLeft' /\ InHand' /\ Emitted' /\ Pending' /\ Apart' /\ One' = 0
      /\ Others("RESERVED")' = Others("RESERVED") /\ Others("COMMITTED")' = Others("COMMITTED")
  <2>1. "RESERVED" # hold'[c] /\ hold'[c] # "COMMITTED"
    BY <1>3
  <2>2. QED
    BY <1>1, <1>2, <1>3, <1>5, <1>6, <2>1, PutDownKeeps
<1>8. Accounted'
  <2>1. One = 0 /\ Discovery' = Discovery /\ EmittedThrice' = EmittedThrice
    BY <1>1 DEF One, Discovery, EmittedThrice
  <2>2. QED
    BY <1>1, <1>7, <2>1 DEF SteadyInv, Accounted
<1>9. QED
  BY <1>7, <1>8 DEF SteadyInv

\* The durable hold: the intent is taken in hand.
LEMMA ReserveSteady ==
  ASSUME TypeInv, SteadyInv, NEW i \in Intents, Reserve(i)
  PROVE  SteadyInv'
<1>. DEFINE stage == IF Discovery THEN "register" ELSE "book"
<1>1. /\ At("pick") /\ i \in cycle.todo /\ ~Reserving /\ ~InFlight
      /\ UNCHANGED <<keys, ledger, log, order, exited, trade, row, inBook, profile, attempts, closing>>
      /\ ~Duplicate(i) /\ hold[i] # "COMMITTED" /\ hold' = [hold EXCEPT ![i] = "RESERVED"]
      /\ cycle' = [NoCycle EXCEPT !.pc = stage, !.cur = i, !.todo = cycle.todo \ {i}]
  BY DEF Reserve, Turns, orders, books, session, Reserving, InFlight, At
<1>2. /\ cycle'.pc = stage /\ Cur' = i /\ cycle'.todo = cycle.todo \ {i} /\ cycle'.own = {}
      /\ cycle'.seen = NoEvents
  BY <1>1 DEF NoCycle, Cur
<1>3. ~InFlight' /\ Reserving' /\ InTurn = {} /\ InTurn' = {i} /\ One = 0 /\ One' = 0 /\ LegsLeft' /\ ~At("idle")
      /\ ~At("idle")' /\ (Discovery => ~At("book")')
  BY <1>1, <1>2 DEF InFlight, Reserving, InTurn, One, LegsLeft, At
<1>4. hold'[i] = "RESERVED" /\ \A j \in Intents : j # i => SameIntent(j)
  BY <1>1 DEF SameIntent, TypeInv, TypeOK
<1>5. Discovery' = Discovery /\ EmittedThrice' = EmittedThrice
  BY <1>1 DEF Discovery, EmittedThrice
<1>6. Apart'
  BY <1>1, <1>3 DEF SteadyInv, Apart
<1>7. Fresh(i) => Fresh(i)'
  BY <1>1, <1>4 DEF Fresh
<1>8. \A j \in Intents : Fresh(j) => Fresh(j)'
  BY <1>4, <1>7, FreshKept
<1>9. Settled(i)'
  <2>1. Filling(i)' = Filling(i) /\ \A l : FailedAt(i, l)' = FailedAt(i, l)
    BY <1>1 DEF Filling, FailedAt
  <2>2. IsClosed(i) => IsClosed(i)'
    BY <1>1, <1>4, <2>1 DEF IsClosed
  <2>3. IsAborted(i) => IsAborted(i)'
    BY <1>1, <1>4, <2>1 DEF IsAborted
  <2>4. QED
    BY <1>1, <1>7, <2>2, <2>3 DEF SteadyInv, InHand, Settled, IsOpen
<1>10. Again(i) \/ Fresh(i)
  <2>1. SUFFICES ASSUME ~Again(i) PROVE Untouched(i)
    BY DEF SteadyInv, Emitted
  <2>2. CASE Discovery
    BY <1>1, <2>2 DEF Duplicate, Untouched
  <2>3. CASE ~Discovery
    <3>1. attempts[i] \in Nat /\ ~(attempts[i] >= 2)
      BY <2>1, <2>3 DEF Again, TypeInv, TypeOK
    <3>2. QED
      BY <1>1, <2>3, <3>1 DEF Untouched
  <2>4. QED
    BY <2>2, <2>3
<1>11. InHand'
  <2>1. \A j \in Intents : Settled(j)'
    <3> TAKE j \in Intents
    <3>1. CASE j = i
      BY <1>9, <3>1
    <3>2. CASE j # i
      BY <1>1, <1>4, <3>2, SettledKept DEF SteadyInv, InHand
    <3>3. QED
      BY <3>1, <3>2
  <2>2. Again(i)' \/ Fresh(i)'
    BY <1>1, <1>5, <1>7, <1>10 DEF Again
  <2>3. QED
    BY <1>2, <1>3, <1>4, <2>1, <2>2 DEF InHand
<1>12. Emitted'
  <2>1. \A j \in Intents : Untouched(j)' => Untouched(j)
    BY <1>1, <1>2, <1>5 DEF Untouched
  <2>2. \A j \in Intents : Untouched(j)' => Fresh(j)'
    BY <1>8, <2>1 DEF SteadyInv, Emitted
  <2>3. QED
    BY <1>1, <1>2, <1>3, <1>5, <2>2 DEF SteadyInv, Emitted
<1>13. Accounted'
  <2>1. Others("RESERVED")' \subseteq Others("RESERVED") /\ Others("COMMITTED")' = Others("COMMITTED")
    BY <1>1, <1>3, <1>4 DEF Others, SameIntent
  <2>2. Others("RESERVED") \in SUBSET Intents /\ Others("RESERVED")' \in SUBSET Intents
    BY DEF Others
  <2>3. /\ Cardinality(Others("RESERVED")') \in Nat /\ Cardinality(Others("RESERVED")) \in Nat
        /\ Cardinality(Others("RESERVED")') <= Cardinality(Others("RESERVED"))
    BY <2>1, <2>2, Counting
  <2>4. EmittedThrice \/ Others("RESERVED")' = Others("RESERVED")
    <3>1. CASE i \in Others("RESERVED")
      <4>1. ~Discovery /\ attempts[i] \in Nat /\ attempts[i] >= 3
        BY <1>1, <3>1 DEF SteadyInv, Pending, Again, TypeInv, TypeOK
      <4>2. QED
        BY <4>1 DEF EmittedThrice
    <3>2. CASE i \notin Others("RESERVED")
      BY <1>3, <1>4, <3>2 DEF Others, SameIntent
    <3>3. QED
      BY <3>1, <3>2
  <2>5. ledger.reserved \in Nat
    BY DEF TypeInv, TypeOK
  <2>6. ledger'.reserved >= Cardinality(Others("RESERVED")') + One'
    BY <1>1, <1>3, <2>3, <2>5 DEF SteadyInv, Accounted
  <2>7. QED
    BY <1>1, <1>3, <1>5, <2>1, <2>4, <2>6 DEF SteadyInv, Accounted
<1>14. Pending'
  <2>1. Others("RESERVED")' \subseteq Others("RESERVED") /\ cycle'.todo \subseteq cycle.todo
    BY <1>2, <1>3, <1>4 DEF Others, SameIntent
  <2>2. QED
    BY <1>1, <2>1, PendingKept
<1>15. QED
  BY <1>3, <1>6, <1>11, <1>12, <1>13, <1>14 DEF SteadyInv

\* An intent that is not granted its hold is put down at once.
LEMMA UngrantedSteady ==
  ASSUME TypeInv, SteadyInv, NEW i \in Intents, ReserveTooMuch(i) \/ ReserveRefused(i)
  PROVE  SteadyInv'
<1>1. /\ At("pick") /\ i \in cycle.todo /\ ~Reserving /\ ~InFlight
      /\ UNCHANGED <<keys, ledger, log, order, exited, trade, row, inBook, profile, attempts, closing>>
      /\ hold' = hold \/ (hold' = [hold EXCEPT ![i] = "REJECTED"] /\ hold[i] \notin HoldsCapital)
      /\ cycle' = [NoCycle EXCEPT !.pc = "pick", !.cur = i, !.todo = cycle.todo \ {i}]
  BY DEF ReserveTooMuch, ReserveRefused, Turns, orders, books, session, Reserving, InFlight, At
<1>2. cycle'.pc = "pick" /\ Cur' = i /\ cycle'.todo = cycle.todo \ {i}
  BY <1>1 DEF NoCycle, Cur
<1>3. ~InFlight' /\ ~Reserving' /\ InTurn = {} /\ InTurn' = {} /\ One = 0 /\ One' = 0 /\ LegsLeft' /\ ~At("idle")
      /\ ~At("idle")' /\ ~At("book")'
  BY <1>1, <1>2 DEF InFlight, Reserving, InTurn, One, LegsLeft, At
<1>4. /\ hold'[i] = hold[i] \/ (hold[i] \notin HoldsCapital /\ hold'[i] = "REJECTED")
      /\ \A j \in Intents : j # i => SameIntent(j)
  BY <1>1 DEF SameIntent, TypeInv, TypeOK
<1>5. Discovery' = Discovery /\ EmittedThrice' = EmittedThrice
  BY <1>1 DEF Discovery, EmittedThrice
<1>6. Apart'
  BY <1>1, <1>3 DEF SteadyInv, Apart
<1>7. hold'[i] = "COMMITTED" <=> hold[i] = "COMMITTED"
  BY <1>4 DEF HoldsCapital
<1>8. \A j \in Intents : Fresh(j) => Fresh(j)'
  <2>1. Fresh(i) => Fresh(i)'
    BY <1>1, <1>7 DEF Fresh
  <2>2. QED
    BY <1>4, <2>1, FreshKept
<1>9. Settled(i)'
  <2>1. Filling(i)' = Filling(i) /\ \A l : FailedAt(i, l)' = FailedAt(i, l)
    BY <1>1 DEF Filling, FailedAt
  <2>2. IsClosed(i) => IsClosed(i)'
    BY <1>1, <1>7, <2>1 DEF IsClosed
  <2>3. IsAborted(i) => IsAborted(i)'
    BY <1>1, <1>7, <2>1 DEF IsAborted
  <2>4. IsOpen(i) => IsOpen(i)'
    BY <1>1, <1>7, <2>1 DEF IsOpen
  <2>5. Settled(i)
    BY <1>1 DEF SteadyInv, InHand
  <2>6. QED
    BY <1>8, <2>2, <2>3, <2>4, <2>5 DEF Settled
<1>11. InHand'
  <2>1. \A j \in Intents : Settled(j)'
    <3> TAKE j \in Intents
    <3>1. CASE j = i
      BY <1>9, <3>1
    <3>2. CASE j # i
      BY <1>1, <1>4, <3>2, SettledKept DEF SteadyInv, InHand
    <3>3. QED
      BY <3>1, <3>2
  <2>2. QED
    BY <1>3, <2>1 DEF InHand
<1>12. Emitted'
  <2>1. \A j \in Intents : Untouched(j)' => Untouched(j)
    BY <1>1, <1>2, <1>5 DEF Untouched
  <2>2. \A j \in Intents : Untouched(j)' => Fresh(j)'
    BY <1>8, <2>1 DEF SteadyInv, Emitted
  <2>3. QED
    BY <1>1, <1>2, <1>3, <1>5, <2>2 DEF SteadyInv, Emitted
<1>13. Others("RESERVED")' = Others("RESERVED") /\ Others("COMMITTED")' = Others("COMMITTED")
  <2>1. \A j \in Intents, s \in {"RESERVED", "COMMITTED"} : hold'[j] = s <=> hold[j] = s
    BY <1>4 DEF SameIntent, HoldsCapital
  <2>2. QED
    BY <1>3, <2>1 DEF Others
<1>14. Accounted'
  BY <1>1, <1>3, <1>5, <1>13 DEF SteadyInv, Accounted
<1>15. Pending'
  BY <1>1, <1>2, <1>13, PendingKept
<1>16. QED
  BY <1>3, <1>6, <1>11, <1>12, <1>14, <1>15 DEF SteadyInv

\* A cycle begins on intents that count as emitted once more.
LEMMA BeginSteady ==
  ASSUME TypeInv, SteadyInv, NEW S \in SUBSET Intents, BeginCycle(S), Concurrent = FALSE
  PROVE  SteadyInv'
<1>1. /\ At("idle") /\ closing.pc = "idle"
      /\ UNCHANGED <<hold, keys, ledger, log, order, exited, trade, row, inBook, profile, closing>>
      /\ attempts' = [i \in Intents |-> attempts[i] + IF i \in S THEN 1 ELSE 0]
      /\ cycle'.pc = "pick" /\ cycle'.todo = S
  BY DEF BeginCycle, orders, books, NoCycle
<1>2. ~InFlight' /\ ~Reserving' /\ ~InFlight /\ ~Reserving /\ InTurn = {} /\ InTurn' = {} /\ One = 0 /\ One' = 0
      /\ LegsLeft' /\ ~At("book")'
  BY <1>1 DEF InFlight, Reserving, InTurn, One, LegsLeft, At
<1>3. \A i \in Intents : SameIntent(i)
  BY <1>1 DEF SameIntent
<1>4. \A i \in Intents : /\ attempts[i] \in Nat
                         /\ attempts'[i] = attempts[i] + IF i \in S THEN 1 ELSE 0
  BY <1>1 DEF TypeInv, TypeOK
<1>5. Discovery' = Discovery /\ (EmittedThrice => EmittedThrice')
  BY <1>1, <1>4 DEF Discovery, EmittedThrice
<1>6. Apart'
  BY <1>1 DEF Apart
<1>7. InHand'
  <2>1. \A j \in Intents : Settled(j)'
    BY <1>1, <1>2, <1>3, SettledKept DEF SteadyInv, InHand
  <2>2. QED
    BY <1>2, <2>1 DEF InHand
<1>8. Emitted'
  <2>1. \A i \in Intents : Untouched(i)' => Untouched(i)
    <3> TAKE i \in Intents
    <3>1. CASE Discovery
      BY <1>1, <1>5, <3>1 DEF Untouched
    <3>2. CASE ~Discovery
      <4>1. Untouched(i)' => attempts[i] = 0
        BY <1>1, <1>4, <1>5, <3>2 DEF Untouched
      <4>2. QED
        BY <3>2, <4>1 DEF Untouched
    <3>3. QED
      BY <3>1, <3>2
  <2>2. \A i \in Intents : Untouched(i)' => Fresh(i)'
    BY <1>3, <2>1, FreshKept DEF SteadyInv, Emitted
  <2>3. \A i \in S : attempts'[i] >= 1
    BY <1>4
  <2>4. QED
    BY <1>1, <1>2, <2>2, <2>3 DEF Emitted
<1>9. Others("RESERVED")' = Others("RESERVED") /\ Others("COMMITTED")' = Others("COMMITTED")
  BY <1>1, <1>2 DEF Others
<1>10. Accounted'
  BY <1>1, <1>2, <1>5, <1>9 DEF SteadyInv, Accounted
<1>11. Pending'
  <2>1. SUFFICES ASSUME NEW i \in Others("RESERVED")
                 PROVE  ~Discovery /\ attempts'[i] >= 2 /\ (i \in S => attempts'[i] >= 3)
    BY <1>1, <1>5, <1>9 DEF Pending, Again
  <2>2. i \in Intents /\ ~Discovery /\ attempts[i] >= 2
    BY <2>1 DEF SteadyInv, Pending, Again, Others
  <2>3. QED
    BY <1>4, <2>2
<1>12. QED
  BY <1>2, <1>6, <1>7, <1>8, <1>10, <1>11 DEF SteadyInv

\* Only a whole, committed trade is closed; its unit stays in margin until the
\* ledger is written.
LEMMA CloseSteady ==
  ASSUME TypeInv, SteadyInv, NEW i \in Intents, Close(i), Concurrent = FALSE
  PROVE  SteadyInv'
<1>1. /\ At("idle") /\ closing.pc = "idle" /\ i \in inBook /\ trade[i].state = "OPEN"
      /\ UNCHANGED <<keys, ledger, log, order, inBook, profile, attempts, cycle>>
      /\ exited' = [exited EXCEPT ![i] = trade[i].legs]
      /\ trade' = [trade EXCEPT ![i].state = "CLOSED"]
      /\ hold' = [hold EXCEPT ![i] = "RELEASED"]
      /\ row' = [row EXCEPT ![i] = "CLOSED"]
      /\ closing'.pc = "closed" /\ closing'.cur = i
  BY DEF Close, session, NoClose
<1>2. ~InFlight' /\ ~Reserving' /\ ~InFlight /\ ~Reserving /\ InTurn = {} /\ InTurn' = {} /\ One = 0 /\ One' = 0
      /\ LegsLeft' /\ ~At("book")' /\ At("idle")'
  BY <1>1 DEF InFlight, Reserving, InTurn, One, LegsLeft, At
<1>3. IsOpen(i)
  <2>1. Settled(i)
    BY <1>2 DEF SteadyInv, InHand
  <2>2. QED
    BY <1>1, <2>1, InBookIs DEF IsClosed
<1>4. /\ exited'[i] = Legs(i) /\ trade'[i].state = "CLOSED" /\ hold'[i] = "RELEASED" /\ row'[i] = "CLOSED"
      /\ \A j \in Intents : j # i => SameIntent(j)
  <2>1. exited'[i] = Legs(i) /\ hold'[i] = "RELEASED" /\ row'[i] = "CLOSED"
    BY <1>1, <1>3 DEF IsOpen, TypeInv, TypeOK
  <2>2. trade'[i].state = "CLOSED"
    BY <1>1 DEF TypeInv, TypeOK
  <2>3. \A j \in Intents : j # i => SameIntent(j)
    BY <1>1 DEF SameIntent, TypeInv, TypeOK
  <2>4. QED
    BY <2>1, <2>2, <2>3
<1>5. Discovery' = Discovery /\ EmittedThrice' = EmittedThrice
  BY <1>1 DEF Discovery, EmittedThrice
<1>6. Apart'
  BY <1>1, <1>2, <1>4 DEF Apart
<1>7. InHand'
  <2>1. \A j \in Intents : Settled(j)'
    <3> TAKE j \in Intents
    <3>1. CASE j = i
      <4>1. Filling(i)'
        BY <1>1, <1>3 DEF IsOpen, Filling
      <4>2. IsClosed(i)'
        BY <1>1, <1>4, <4>1 DEF IsClosed
      <4>3. QED
        BY <3>1, <4>2 DEF Settled
    <3>2. CASE j # i
      <4>1. Settled(j) /\ SameIntent(j)
        BY <1>2, <1>4, <3>2 DEF SteadyInv, InHand
      <4>2. row[j] # "CLOSED" \/ j \notin inBook
        BY <1>1, <4>1, InBookIs DEF IsOpen
      <4>3. QED
        BY <4>1, <4>2, SettledKept
    <3>3. QED
      BY <3>1, <3>2
  <2>2. QED
    BY <1>2, <2>1 DEF InHand
<1>8. Emitted'
  <2>1. \A j \in Intents : Untouched(j)' => Untouched(j)
    BY <1>1, <1>5 DEF Untouched
  <2>2. ~Fresh(i)
    BY <1>1 DEF Fresh
  <2>3. \A j \in Intents : Untouched(j)' => Fresh(j)'
    BY <1>4, <2>1, <2>2, FreshKept DEF SteadyInv, Emitted
  <2>4. QED
    BY <1>1, <1>2, <2>3 DEF SteadyInv, Emitted
<1>9. Accounted'
  <2>1. /\ Others("RESERVED")' = Others("RESERVED")
        /\ Others("COMMITTED") = Others("COMMITTED")' \cup {i} /\ i \notin Others("COMMITTED")'
    BY <1>2, <1>3, <1>4 DEF Others, SameIntent, IsOpen
  <2>2. Others("COMMITTED")' \in SUBSET Intents
    BY DEF Others
  <2>3. /\ Cardinality(Others("COMMITTED")') \in Nat
        /\ Cardinality(Others("COMMITTED")' \cup {i}) = Cardinality(Others("COMMITTED")') + 1
    BY <2>1, <2>2, Counting, FS_AddElement
  <2>4. Cardinality(Others("COMMITTED")) = Cardinality(Others("COMMITTED")' \cup {i})
    BY <2>1, Zenon
  <2>5. ledger.margin = Cardinality(Others("COMMITTED")') + 1
    BY <1>1, <2>3, <2>4 DEF SteadyInv, Accounted
  <2>6. QED
    BY <1>1, <1>2, <1>5, <2>1, <2>5 DEF SteadyInv, Accounted
<1>10. Pending'
  <2>1. Others("RESERVED")' \subseteq Others("RESERVED")
    BY <1>2, <1>4 DEF Others, SameIntent
  <2>2. QED
    BY <1>1, <2>1, PendingKept
<1>11. QED
  BY <1>2, <1>6, <1>7, <1>8, <1>9, <1>10 DEF SteadyInv

\* release_open_risk reads the ledger: no cycle runs beside it.
LEMMA ReadSteady ==
  ASSUME TypeInv, SteadyInv, ReadLedger
  PROVE  SteadyInv'
<1>1. /\ closing.pc = "closed" /\ closing'.pc = "read" /\ closing'.cur = closing.cur /\ closing'.snap = ledger
      /\ UNCHANGED <<hold, keys, ledger, log, order, exited, trade, row, inBook, profile, attempts, cycle>>
  BY DEF ReadLedger, orders, books, session, TypeInv, TypeOK
<1>2. At("idle") /\ At("idle")'
  BY <1>1 DEF SteadyInv, Apart, At
<1>3. ~InFlight' /\ ~Reserving' /\ ~InFlight /\ ~Reserving /\ InTurn = {} /\ InTurn' = {} /\ One = 0 /\ One' = 0
      /\ LegsLeft' /\ ~At("book")'
  BY <1>2 DEF InFlight, Reserving, InTurn, One, LegsLeft, At
<1>4. Discovery' = Discovery /\ EmittedThrice' = EmittedThrice
  BY <1>1 DEF Discovery, EmittedThrice
<1>5. Apart'
  BY <1>1, <1>2 DEF SteadyInv, Apart
<1>6. InHand'
  <2>1. \A j \in Intents : Settled(j)'
    <3> TAKE j \in Intents
    <3>1. Settled(j)
      BY <1>3 DEF SteadyInv, InHand
    <3>2. Filling(j)' = Filling(j) /\ \A l : FailedAt(j, l)' = FailedAt(j, l)
      BY <1>1 DEF Filling, FailedAt
    <3>3. QED
      BY <1>1, <3>1, <3>2 DEF Settled, Fresh, IsOpen, IsClosed, IsAborted
  <2>2. QED
    BY <1>3, <2>1 DEF InHand
<1>7. Emitted'
  <2>1. \A j \in Intents : Untouched(j)' => Untouched(j)
    BY <1>1, <1>4 DEF Untouched
  <2>2. \A j \in Intents : Untouched(j)' => Fresh(j)'
    BY <1>1, <2>1, FreshKept DEF SteadyInv, Emitted, SameIntent
  <2>3. QED
    BY <1>1, <1>3, <2>2 DEF SteadyInv, Emitted
<1>8. Accounted'
  <2>1. Others("RESERVED")' = Others("RESERVED") /\ Others("COMMITTED")' = Others("COMMITTED")
    BY <1>1, <1>3 DEF Others
  <2>2. QED
    BY <1>1, <1>3, <1>4, <2>1 DEF SteadyInv, Accounted
<1>9. Pending'
  <2>1. Others("RESERVED")' = Others("RESERVED")
    BY <1>1, <1>3 DEF Others
  <2>2. QED
    BY <1>1, <2>1, PendingKept
<1>10. QED
  BY <1>3, <1>5, <1>6, <1>7, <1>8, <1>9 DEF SteadyInv

\* ... and writes it back less one unit of margin, the one of the closed trade.
LEMMA WriteSteady ==
  ASSUME TypeInv, SteadyInv, WriteLedger
  PROVE  SteadyInv'
<1>1. /\ closing.pc = "read" /\ closing'.pc = "idle" /\ inBook' = inBook \ {closing.cur}
      /\ UNCHANGED <<hold, keys, log, order, exited, trade, row, profile, attempts, cycle>>
      /\ closing.snap = ledger /\ row[closing.cur] = "CLOSED" /\ closing.cur \in Intents
  BY DEF WriteLedger, orders, session, NoClose, SteadyInv, Apart, TypeInv, TypeOK
<1>2. At("idle") /\ At("idle")'
  BY <1>1 DEF SteadyInv, Apart, At
<1>3. ~InFlight' /\ ~Reserving' /\ ~InFlight /\ ~Reserving /\ InTurn = {} /\ InTurn' = {} /\ One = 0 /\ One' = 0
      /\ LegsLeft' /\ ~At("book")'
  BY <1>2 DEF InFlight, Reserving, InTurn, One, LegsLeft, At
<1>4. Discovery' = Discovery /\ EmittedThrice' = EmittedThrice
  BY <1>1 DEF Discovery, EmittedThrice
<1>5. Apart'
  BY <1>1, <1>2 DEF Apart
<1>6. InHand'
  <2>1. \A j \in Intents : Settled(j)'
    <3> TAKE j \in Intents
    <3>1. Settled(j)
      BY <1>3 DEF SteadyInv, InHand
    <3>2. Filling(j)' = Filling(j) /\ \A l : FailedAt(j, l)' = FailedAt(j, l)
      BY <1>1 DEF Filling, FailedAt
    <3>3. Fresh(j) => Fresh(j)'
      BY <1>1 DEF Fresh
    <3>4. IsOpen(j) => IsOpen(j)'
      BY <1>1, <3>2 DEF IsOpen
    <3>5. IsClosed(j) => IsClosed(j)'
      BY <1>1, <3>2 DEF IsClosed
    <3>6. IsAborted(j) => IsAborted(j)'
      BY <1>1, <3>2 DEF IsAborted
    <3>7. QED
      BY <3>1, <3>3, <3>4, <3>5, <3>6 DEF Settled
  <2>2. QED
    BY <1>3, <2>1 DEF InHand
<1>7. Emitted'
  <2>1. \A j \in Intents : Untouched(j)' => Untouched(j)
    BY <1>1, <1>4 DEF Untouched
  <2>2. \A j \in Intents : Fresh(j) => Fresh(j)'
    BY <1>1 DEF Fresh
  <2>3. QED
    BY <1>1, <1>3, <2>1, <2>2 DEF SteadyInv, Emitted
<1>8. Accounted'
  <2>1. Others("RESERVED")' = Others("RESERVED") /\ Others("COMMITTED")' = Others("COMMITTED")
    BY <1>1, <1>3 DEF Others
  <2>2. Cardinality(Others("COMMITTED")) \in Nat /\ Cardinality(Others("RESERVED")) \in Nat
        /\ ledger.reserved \in Nat /\ GlobalCap \in Nat /\ ledger \in [reserved : Nat, margin : Nat]
    BY OthersCount, CapitalAssumption DEF TypeInv, TypeOK
  <2>3. ledger.margin = Cardinality(Others("COMMITTED")) + 1
    BY <1>1 DEF SteadyInv, Accounted
  <2>4. ledger' = [ledger EXCEPT !.margin = @ - 1]
    BY <1>1, <2>2, <2>3 DEF WriteLedger
  <2>5. ledger'.margin = Cardinality(Others("COMMITTED")) /\ ledger'.reserved = ledger.reserved
    BY <2>2, <2>3, <2>4
  <2>6. ~Discovery => ledger'.reserved + ledger'.margin <= GlobalCap
    BY <2>2, <2>3, <2>5 DEF SteadyInv, Accounted
  <2>7. ledger'.margin = Cardinality(Others("COMMITTED")') + 0
    BY <2>1, <2>2, <2>5
  <2>8. QED
    BY <1>1, <1>3, <1>4, <2>1, <2>5, <2>6, <2>7 DEF SteadyInv, Accounted
<1>9. Pending'
  <2>1. Others("RESERVED")' = Others("RESERVED")
    BY <1>1, <1>3 DEF Others
  <2>2. QED
    BY <1>1, <2>1, PendingKept
<1>10. QED
  BY <1>3, <1>5, <1>6, <1>7, <1>8, <1>9 DEF SteadyInv

\* A cycle ends; nothing else changes.
LEMMA EndSteady ==
  ASSUME TypeInv, SteadyInv, EndCycle
  PROVE  SteadyInv'
<1>1. /\ At("pick") /\ cycle'.pc = "idle" /\ cycle'.todo = {}
      /\ UNCHANGED <<hold, keys, ledger, log, order, exited, trade, row, inBook, profile, attempts, closing>>
  BY DEF EndCycle, orders, books, session, NoCycle
<1>2. ~InFlight' /\ ~Reserving' /\ ~InFlight /\ ~Reserving /\ InTurn = {} /\ InTurn' = {} /\ One = 0 /\ One' = 0
      /\ LegsLeft' /\ ~At("book")' /\ At("idle")' /\ closing.pc = "idle"
  BY <1>1 DEF InFlight, Reserving, InTurn, One, LegsLeft, SteadyInv, Apart, At
<1>3. \A i \in Intents : SameIntent(i)
  BY <1>1 DEF SameIntent
<1>4. Discovery' = Discovery /\ EmittedThrice' = EmittedThrice
  BY <1>1 DEF Discovery, EmittedThrice
<1>5. Apart'
  BY <1>1, <1>2 DEF Apart
<1>6. InHand'
  <2>1. \A j \in Intents : Settled(j)'
    BY <1>1, <1>2, <1>3, SettledKept DEF SteadyInv, InHand
  <2>2. QED
    BY <1>2, <2>1 DEF InHand
<1>7. Emitted'
  <2>1. \A i \in Intents : Untouched(i)' => Untouched(i)
    BY <1>1, <1>4 DEF Untouched
  <2>2. \A i \in Intents : Untouched(i)' => Fresh(i)'
    BY <1>3, <2>1, FreshKept DEF SteadyInv, Emitted
  <2>3. QED
    BY <1>1, <1>2, <2>2 DEF Emitted
<1>8. Accounted'
  <2>1. Others("RESERVED")' = Others("RESERVED") /\ Others("COMMITTED")' = Others("COMMITTED")
    BY <1>1, <1>2 DEF Others
  <2>2. QED
    BY <1>1, <1>2, <1>4, <2>1 DEF SteadyInv, Accounted
<1>9. Pending'
  <2>1. Others("RESERVED")' = Others("RESERVED")
    BY <1>1, <1>2 DEF Others
  <2>2. QED
    BY <1>1, <2>1, PendingKept
<1>10. QED
  BY <1>2, <1>5, <1>6, <1>7, <1>8, <1>9 DEF SteadyInv

\* Every step keeps the invariant.
LEMMA SteadyKept ==
  ASSUME TypeInv, SteadyInv, [SteadyNext]_vars, Concurrent = FALSE
  PROVE  SteadyInv'
<1>1. CASE \E S \in SUBSET Intents : BeginCycle(S)
  BY <1>1, BeginSteady
<1>2. CASE EndCycle
  BY <1>2, EndSteady
<1>3. CASE \E i \in Intents : Reserve(i) \/ ReserveTooMuch(i) \/ ReserveRefused(i) \/ Close(i)
  BY <1>3, ReserveSteady, UngrantedSteady, CloseSteady
<1>4. CASE RegisterKey
  BY <1>4, KeySteady
<1>5. CASE ReserveInBook
  <2>. DEFINE fits == \/ Discovery
                      \/ Available >= 1 /\ ledger.reserved + ledger.margin + 1 <= GlobalCap
  <2>1. TakeIf(fits)
    BY <1>5 DEF ReserveInBook
  <2>2. CASE fits
    <3>1. TakeIf(TRUE)
      BY <2>1, <2>2 DEF TakeIf
    <3>2. QED
      BY <2>2, <3>1, GrantSteady
  <2>3. CASE ~fits
    <3>1. TakeIf(FALSE)
      BY <2>1, <2>3 DEF TakeIf
    <3>2. QED
      BY <3>1, RefuseSteady
  <2>4. QED
    BY <2>2, <2>3
<1>6. CASE LookupKnown
  BY <1>6, LookupSteady
<1>7. CASE Submit
  BY <1>7, SubmitSteady
<1>8. CASE \E s \in Outcomes : BrokerAnswers(s)
  BY <1>8, AnswerSteady
<1>9. CASE PersistAnswer
  BY <1>9, AdoptSteady
<1>10. CASE ApplyFill \/ ApplyRaises
  BY <1>10, FillSteady, RaisesSteady
<1>11. CASE Finish \/ Abort
  BY <1>11, FinishSteady, AbortSteady
<1>12. CASE ReadLedger \/ WriteLedger
  BY <1>12, ReadSteady, WriteSteady
<1>13. CASE UNCHANGED vars
  <2>1. /\ UNCHANGED <<hold, keys, ledger, log, order, exited, trade, row, inBook>>
        /\ UNCHANGED <<profile, attempts, cycle, closing>>
    BY <1>13 DEF vars
  <2>2. LegsLeft' /\ Emitted' /\ Apart'
    BY <2>1 DEF SteadyInv, LegsLeft, Emitted, Apart, Untouched, Fresh, InFlight, Reserving, Discovery, Cur, At
  <2>3. InHand'
    BY <2>1 DEF SteadyInv, InHand, InFlight, Reserving, Filling, Fresh, IsOpen, IsClosed, FailedAt, IsAborted, Settled,
       Done, NewSending, NewApplying, NewEntry, OldEntry, Again, Discovery, Cur, Leg, At
  <2>4. Pending' /\ Accounted'
    BY <2>1 DEF SteadyInv, Pending, Accounted, Again, Others, InTurn, One, InFlight, Reserving, EmittedThrice, Discovery, Cur, At
  <2>5. QED
    BY <2>2, <2>3, <2>4 DEF SteadyInv
<1>14. QED
  BY <1>1, <1>2, <1>3, <1>4, <1>5, <1>6, <1>7, <1>8, <1>9, <1>10, <1>11, <1>12, <1>13 DEF SteadyNext

\* The first state has nothing in hand and nothing held.
LEMMA SteadyInit == Init => SteadyInv
<1>. SUFFICES ASSUME Init PROVE SteadyInv
  OBVIOUS
<1>1. At("idle") /\ cycle.todo = {} /\ closing.pc = "idle"
  BY DEF Init, NoCycle, NoClose, At
<1>2. ~InFlight /\ ~Reserving /\ InTurn = {} /\ One = 0 /\ LegsLeft /\ ~At("book")
  BY <1>1 DEF InFlight, Reserving, InTurn, One, LegsLeft, At
<1>3. \A i \in Intents : Fresh(i)
  BY DEF Init, Fresh, NoTrade
<1>4. InHand /\ Emitted /\ Apart
  BY <1>1, <1>2, <1>3 DEF InHand, Settled, Emitted, Apart
<1>5. Others("RESERVED") = {} /\ Others("COMMITTED") = {}
  BY DEF Init, Others
<1>6. Accounted /\ Pending
  BY <1>1, <1>2, <1>5, FS_EmptySet, CapitalAssumption DEF Init, Accounted, Pending
<1>7. QED
  BY <1>2, <1>4, <1>6 DEF SteadyInv

\* The invariant of such a session.
LEMMA SteadyHolds ==
  ASSUME Concurrent = FALSE
  PROVE  SteadySpec => [](TypeInv /\ SteadyInv)
<1>1. TypeInv /\ SteadyInv /\ [SteadyNext]_vars => TypeInv' /\ SteadyInv'
  BY TypeKept, SteadyKept DEF Next
<1>2. QED
  BY <1>1, TypeInit, SteadyInit, PTL DEF SteadySpec

\* Between the cycles of a session that is not killed, and whose closes run
\* between its cycles, the margin of the mode ledger is the committed holds, and what it
\* has reserved is no less than the pending ones, and the same unless STRICT emits an
\* intent a third time: intents that end the process when they come again after
\* their trade are included (ModeLedger and the reservations table).
THEOREM SteadyLedgerMatches ==
  ASSUME Concurrent = FALSE
  PROVE  SteadySpec => []LedgerMatchesHolds
<1>1. TypeInv /\ SteadyInv => LedgerMatchesHolds
  <2>1. SUFFICES ASSUME TypeInv, SteadyInv, Quiet
                 PROVE  /\ ledger.margin = Cardinality(Holding({"COMMITTED"}))
                        /\ ledger.reserved >= Cardinality(Holding({"RESERVED"}))
                        /\ EmittedThrice \/ ledger.reserved = Cardinality(Holding({"RESERVED"}))
    BY DEF LedgerMatchesHolds
  <2>2. InTurn = {} /\ One = 0 /\ closing.pc = "idle"
    BY <2>1 DEF Quiet, At, InTurn, One, InFlight, Reserving
  <2>3. Holding({"RESERVED"}) = Others("RESERVED") /\ Holding({"COMMITTED"}) = Others("COMMITTED")
    BY <2>2 DEF Holding, Others
  <2>4. Cardinality(Others("COMMITTED")) \in Nat /\ Cardinality(Others("RESERVED")) \in Nat
    BY OthersCount
  <2>5. /\ ledger.margin = Cardinality(Others("COMMITTED")) + 0
        /\ ledger.reserved >= Cardinality(Others("RESERVED")) + 0
        /\ EmittedThrice \/ ledger.reserved = Cardinality(Others("RESERVED")) + 0
    BY <2>1, <2>2 DEF SteadyInv, Accounted
  <2>6. QED
    BY <2>3, <2>4, <2>5
<1>2. QED
  BY <1>1, SteadyHolds, PTL

\* Under STRICT the capital that both halves of a reservation granted never
\* exceeds the global envelope, re-emitted intents included (try_reserve).
THEOREM SteadyCapKept ==
  ASSUME Concurrent = FALSE
  PROVE  SteadySpec => []GlobalCapKept
<1>1. TypeInv /\ SteadyInv => GlobalCapKept
  <2>1. SUFFICES ASSUME TypeInv, SteadyInv, ~Discovery PROVE Cardinality(Granted) <= GlobalCap
    BY DEF GlobalCapKept
  <2>. DEFINE pending == Others("RESERVED")
              open == Others("COMMITTED")
  <2>2. PICK c \in Intents : c = Cur
    BY <2>1 DEF TypeInv, TypeOK, CycleType, Cur
  <2>3. /\ IsFiniteSet(pending) /\ IsFiniteSet(open) /\ pending \cap open = {}
        /\ Cardinality(pending) \in Nat /\ Cardinality(open) \in Nat /\ GlobalCap \in Nat
        /\ ledger.reserved \in Nat /\ ledger.margin \in Nat /\ pending \cup open \in SUBSET Intents
    <3>1. pending \in SUBSET Intents /\ open \in SUBSET Intents /\ pending \cap open = {}
      BY DEF Others
    <3>2. IsFiniteSet(pending) /\ IsFiniteSet(open)
      BY <3>1, Counting
    <3>3. Cardinality(pending) \in Nat /\ Cardinality(open) \in Nat
      BY <3>1, Counting
    <3>4. QED
      BY <2>1, <3>1, <3>2, <3>3, CapitalAssumption DEF TypeInv, TypeOK
  <2>4. Cardinality(pending \cup open) = Cardinality(pending) + Cardinality(open)
    <3>1. Cardinality(pending \cap open) = 0
      BY <2>3, FS_EmptySet
    <3>2. Cardinality(pending \cup open)
            = Cardinality(pending) + Cardinality(open) - Cardinality(pending \cap open)
      BY <2>3, FS_Union
    <3>. HIDE DEF pending, open
    <3>3. QED
      BY <2>3, <3>1, <3>2
  <2>5. Granted \subseteq IF InFlight THEN (pending \cup open) \cup {c} ELSE pending \cup open
    BY <2>2 DEF Granted, Holding, HoldsCapital, Others, InTurn, Reserving
  <2>6. /\ Cardinality(Granted) \in Nat
        /\ Cardinality(Granted) <= Cardinality(pending) + Cardinality(open) + One
    <3>1. Granted \in SUBSET Intents
      BY DEF Granted, Holding
    <3>2. CASE InFlight
      <4>1. (pending \cup open) \cup {c} \in SUBSET Intents
        BY <2>3
      <4>2. Cardinality(Granted) <= Cardinality((pending \cup open) \cup {c})
        BY <2>5, <3>1, <3>2, <4>1, Counting
      <4>3. Cardinality((pending \cup open) \cup {c}) <= Cardinality(pending \cup open) + 1
        BY <2>3, Counting
      <4>4. Cardinality(Granted) \in Nat /\ Cardinality((pending \cup open) \cup {c}) \in Nat /\ One = 1
        BY <3>1, <3>2, <4>1, Counting DEF One
      <4>. HIDE DEF pending, open
      <4>5. QED
        BY <2>3, <2>4, <4>2, <4>3, <4>4
    <3>3. CASE ~InFlight
      <4>1. Cardinality(Granted) <= Cardinality(pending \cup open)
        BY <2>3, <2>5, <3>1, <3>3, Counting
      <4>2. Cardinality(Granted) \in Nat /\ One = 0
        BY <3>1, <3>3, Counting DEF One
      <4>. HIDE DEF pending, open
      <4>3. QED
        BY <2>3, <2>4, <4>1, <4>2
    <3>4. QED
      BY <3>2, <3>3
  <2>7. /\ ledger.reserved >= Cardinality(pending) + One
        /\ ledger.margin >= Cardinality(open)
        /\ ledger.reserved + ledger.margin <= GlobalCap /\ One \in Nat
    BY <2>1, <2>3 DEF SteadyInv, Accounted, One
  <2>. HIDE DEF pending, open
  <2>8. QED
    BY <2>3, <2>6, <2>7
<1>2. QED
  BY <1>1, SteadyHolds, PTL

\* Between cycles, what the broker holds is either a whole trade in an open row
\* with committed capital, or the rest of an entry that was aborted.
THEOREM SteadyHeldOrAborted ==
  ASSUME Concurrent = FALSE
  PROVE  SteadySpec => []HeldOrAborted
<1>1. TypeInv /\ SteadyInv => HeldOrAborted
  <2>1. SUFFICES ASSUME SteadyInv, Quiet, NEW i \in Intents, Held(i) # {}
                 PROVE  \/ Held(i) = Legs(i) /\ row[i] = "OPEN" /\ hold[i] = "COMMITTED" /\ i \in inBook
                        \/ \E k \in Legs(i) : log[i][k] = "REJECTED"
    BY DEF HeldOrAborted, AtBroker
  <2>2. Settled(i)
    BY <2>1 DEF SteadyInv, InHand, Quiet, At, InFlight
  <2>3. ~Fresh(i)
    BY <2>1, LegsOf DEF Fresh, NoEvents, Held
  <2>4. ~IsClosed(i)
    BY <2>1 DEF IsClosed, Held
  <2>5. IsOpen(i) => Held(i) = Legs(i) /\ row[i] = "OPEN" /\ hold[i] = "COMMITTED" /\ i \in inBook
    BY DEF IsOpen, Filling, Held
  <2>6. IsAborted(i) => \E k \in Legs(i) : log[i][k] = "REJECTED"
    BY DEF IsAborted, FailedAt
  <2>7. QED
    BY <2>2, <2>3, <2>4, <2>5, <2>6 DEF Settled
<1>2. QED
  BY <1>1, SteadyHolds, PTL

\* At no step does the broker hold a short leg without its long: the long leg is
\* sent first, its failure ends the plan, and a close takes both.
THEOREM SteadyEntryCovered ==
  ASSUME Concurrent = FALSE
  PROVE  SteadySpec => []EntryCovered
<1>1. TypeInv /\ SteadyInv => EntryCovered
  <2>1. SUFFICES ASSUME TypeInv, SteadyInv, NEW i \in Intents, 2 \in Held(i)
                 PROVE  Legs(i) \subseteq Held(i)
    BY DEF EntryCovered, Shorts
  <2>2. Legs(i) = {1, 2} /\ order[i][2] = "FILLED" /\ 2 \notin exited[i]
    BY <2>1 DEF Held, Legs
  <2>3. SUFFICES order[i][1] = "FILLED" /\ exited[i] = {}
    BY <2>1, <2>2 DEF Held
  <2>4. CASE Settled(i)
    <3>1. ~Fresh(i)
      BY <2>2 DEF Fresh, NoEvents
    <3>2. ~IsClosed(i)
      BY <2>2 DEF IsClosed
    <3>3. CASE IsOpen(i)
      BY <2>2, <3>3 DEF IsOpen, Filling
    <3>4. CASE IsAborted(i)
      BY <2>2, <3>4 DEF IsAborted, FailedAt
    <3>5. QED
      BY <2>4, <3>1, <3>2, <3>3, <3>4 DEF Settled
  <2>5. CASE ~Settled(i)
    <3>1. InFlight /\ i = Cur
      BY <2>1, <2>5 DEF SteadyInv, InHand
    <3>2. NewEntry
      BY <2>1, <2>5, <3>1 DEF SteadyInv, InHand, OldEntry, Settled
    <3>3. CASE At("apply")
      <4>1. Filling(i) \/ \E l \in {1, 2} : FailedAt(i, l)
        BY <3>1, <3>2, <3>3 DEF NewEntry, NewApplying
      <4>2. order[i][1] = "FILLED"
        BY <2>2, <4>1 DEF Filling, FailedAt
      <4>3. QED
        BY <3>1, <3>2, <4>2 DEF NewEntry
    <3>4. CASE ~At("apply")
      <4>1. Sending /\ NewSending
        BY <3>1, <3>2, <3>4 DEF NewEntry, Sending, InFlight, At
      <4>2. /\ Leg \in cycle.legs /\ Leg \in {1, 2}
            /\ Leg = 1 => cycle.legs = {1, 2}
            /\ Leg = 2 => cycle.legs = {2}
        BY <2>1, <2>2, <3>1, <4>1, LegIs DEF SteadyInv
      <4>3. Leg # 1
        BY <2>2, <3>1, <4>1, <4>2 DEF NewSending
      <4>4. 1 \in Done
        BY <2>2, <3>1, <4>2, <4>3 DEF Done
      <4>5. QED
        BY <3>1, <3>2, <4>1, <4>4 DEF NewSending, NewEntry
    <3>5. QED
      BY <3>3, <3>4
  <2>6. QED
    BY <2>4, <2>5
<1>2. QED
  BY <1>1, SteadyHolds, PTL


-----------------------------------------------------------------------------
\* How long a trade is held (Holding).

HoldingTypes ==
  /\ hTrade.mode \in {"M1", "M2", "M3", "M4"} /\ (hTrade.flatten = None \/ hTrade.flatten \in Nat)
  /\ hClock \in [day : 1..Sessions, time : 1..7] /\ hLeft \in Nat
  /\ hState \in Hold!Answers /\ hUnfilled \in Nat
  /\ hTimed \in BOOLEAN /\ hSlots \subseteq {2, 4}
  /\ hCarry \in [1..Sessions -> {"NONE", "APPROVED", "REJECTED"}]

Carried == \E d \in 1..Sessions : hCarry[d] = "APPROVED"

\* What the gate and the time exit leave: the exit of a carry rejected in this session
\* was made at the cutoff or later, the time exit of M1 stays, that of M2 ends with the
\* first approval, no other mode has one, and a positional M2 is never rejected.
Judged ==
  /\ \A d \in 1..Sessions : d > hClock.day => hCarry[d] = "NONE"
  /\ hCarry[hClock.day] = "REJECTED" => hUnfilled >= 5 /\ hClock.time >= 6
  /\ hTrade.mode = "M1" => hTimed
  /\ hTimed => hTrade.mode \in {"M1", "M2"} /\ ~Carried
  /\ hTrade.mode = "M2" => hTimed \/ Carried \/ hEod = "positional"
  /\ hEod = "positional" =>
       /\ hTrade.mode = "M2" => ~hTimed
       /\ \A d \in 1..Sessions : hCarry[d] # "REJECTED"

\* A trade of M2 that a review does not look at: its time exit stands, or it was
\* leaving when its carry was to be decided.
Passed ==
  6 \in Sure =>
    /\ hClock.day = 1 => hLeft > 0 \/ hTrade.mode = "M1"
    /\ hTrade.mode = "M2" /\ Hold!Held /\ hClock.time = 7 => hTimed \/ Carried \/ hState = "EXIT_PENDING"
    /\ hTrade.mode = "M2" /\ Hold!Held /\ hClock.day > 1 =>
         hTimed \/ Carried \/ hState = "EXIT_PENDING" \/ hUnfilled > 0
    /\ hTimed /\ Hold!Held /\ hClock.time = 7 => hUnfilled >= 6

\* On the last day before the expiry, a slot that is past had an exit of it.
Looked ==
  6 \in Sure /\ hClock.day > 1 /\ hLeft = 0 /\ hTrade.flatten # None /\ Hold!Held =>
    \A s \in Sure \cap {2, 4} :
      hClock.time <= s \/ hUnfilled >= s \/ (hTrade.mode = "M2" /\ hUnfilled > 0) \/ hTimed

HoldingInv ==
  /\ HoldingTypes /\ Judged /\ Passed /\ Looked /\ HeldByDecision
  /\ \A s \in hSlots : s < hClock.time

\* A tick that finds no exit to be made of the trade.
NoExit(priced) ==
  /\ hState' = hState /\ hUnfilled' = hUnfilled /\ hState # "EXIT_PENDING"
  /\ hState = "OPEN" => /\ ~(priced /\ hTimed /\ hClock.time >= 6)
                        /\ ~(priced /\ Hold!Due # {} /\ Hold!Eligible /\ Hold!FlattenDue)

\* What the carry gate makes of it.
GateApproves ==
  /\ hTrade.mode = "M2" /\ hCarry' = [hCarry EXCEPT ![hClock.day] = "APPROVED"]
  /\ hTimed' = FALSE /\ hCarry[hClock.day] = "NONE"
  /\ hEod = "positional" \/ hLeft >= MinDte

GateRejects ==
  /\ hTrade.mode = "M2" /\ hCarry' = [hCarry EXCEPT ![hClock.day] = "REJECTED"]
  /\ hTimed' = hTimed /\ hCarry[hClock.day] = "NONE"
  /\ hEod # "positional" /\ hClock.time >= 5 /\ hUnfilled' = hClock.time

GateSilent(listed) ==
  /\ hCarry' = hCarry /\ hTimed' = hTimed
  /\ hState' = "OPEN" => \/ hTrade.mode # "M2" \/ hClock.time < 5
                         \/ hCarry[hClock.day] # "NONE" \/ ~listed

\* A tick, in what it does to each variable.
LEMMA TickMade ==
  ASSUME HoldingTypes, NEW priced \in BOOLEAN, NEW listed \in BOOLEAN, NEW hit \in BOOLEAN,
         NEW healthy \in BOOLEAN, NEW seen, Hold!Tick(priced, listed, hit, healthy, seen)
  PROVE  /\ hClock.time < 7 /\ hClock'.time = hClock.time + 1 /\ hClock'.day = hClock.day
         /\ hClock' \in [day : 1..Sessions, time : 1..7]
         /\ hClock.time \in Sure => priced /\ listed
         /\ UNCHANGED <<hTrade, hEod, hLeft>> /\ hSlots' = hSlots \cup Hold!Due
         /\ hState' \in Hold!Answers /\ (Hold!Held' => Hold!Held)
         /\ hUnfilled' = hClock.time \/ NoExit(priced)
         /\ GateApproves \/ GateRejects \/ GateSilent(listed)
<1> DEFINE m == IF seen = None THEN hMarket ELSE [day |-> hClock.day, trend |-> seen]
           good == Hold!Approves(m, healthy)
<1>1. /\ hClock.time < 7 /\ hClock' = [hClock EXCEPT !.time = @ + 1]
      /\ hClock.time \in Sure => priced /\ listed
      /\ UNCHANGED <<hTrade, hEod, hLeft>> /\ hSlots' = hSlots \cup Hold!Due
  BY DEF Hold!Tick, Hold!Close
<1>2. hClock'.time = hClock.time + 1 /\ hClock'.day = hClock.day /\ hClock' \in [day : 1..Sessions, time : 1..7]
  BY <1>1 DEF HoldingTypes
<1>3. PICK resumed \in Hold!After(hState, hState = "EXIT_PENDING") :
        \E managed \in Hold!After(resumed, Hold!TimeExit(resumed, priced, hit)) :
        \E reviewed \in Hold!After(managed, Hold!ReviewExit(managed, priced)) :
          LET asked == Hold!Asked(reviewed, listed)
              approved == asked /\ good
          IN
          /\ hState' \in Hold!After(reviewed, Hold!GateExit(asked, approved))
          /\ hCarry' = IF asked THEN [hCarry EXCEPT ![hClock.day] = IF approved THEN "APPROVED" ELSE "REJECTED"]
                       ELSE hCarry
          /\ hTimed' = (hTimed /\ ~approved)
          /\ hUnfilled' = IF \/ hState = "EXIT_PENDING" \/ Hold!TimeExit(resumed, priced, hit)
                             \/ Hold!ReviewExit(managed, priced) \/ Hold!GateExit(asked, approved)
                          THEN hClock.time ELSE hUnfilled
  BY DEF Hold!Tick
<1>4. good \in BOOLEAN /\ (good => hEod = "positional" \/ hLeft >= MinDte) /\ (hEod = "positional" => good)
  BY DEF Hold!Approves
<1> HIDE DEF good, m
<1>4a. PICK managed \in Hold!After(resumed, Hold!TimeExit(resumed, priced, hit)) :
        \E reviewed \in Hold!After(managed, Hold!ReviewExit(managed, priced)) :
          LET asked == Hold!Asked(reviewed, listed)
              approved == asked /\ good
          IN
          /\ hState' \in Hold!After(reviewed, Hold!GateExit(asked, approved))
          /\ hCarry' = IF asked THEN [hCarry EXCEPT ![hClock.day] = IF approved THEN "APPROVED" ELSE "REJECTED"]
                       ELSE hCarry
          /\ hTimed' = (hTimed /\ ~approved)
          /\ hUnfilled' = IF \/ hState = "EXIT_PENDING" \/ Hold!TimeExit(resumed, priced, hit)
                             \/ Hold!ReviewExit(managed, priced) \/ Hold!GateExit(asked, approved)
                          THEN hClock.time ELSE hUnfilled
  BY <1>3
<1>5. PICK reviewed \in Hold!After(managed, Hold!ReviewExit(managed, priced)) :
        LET asked == Hold!Asked(reviewed, listed)
            approved == asked /\ good
        IN
        /\ hState' \in Hold!After(reviewed, Hold!GateExit(asked, approved))
        /\ hCarry' = IF asked THEN [hCarry EXCEPT ![hClock.day] = IF approved THEN "APPROVED" ELSE "REJECTED"]
                     ELSE hCarry
        /\ hTimed' = (hTimed /\ ~approved)
        /\ hUnfilled' = IF \/ hState = "EXIT_PENDING" \/ Hold!TimeExit(resumed, priced, hit)
                           \/ Hold!ReviewExit(managed, priced) \/ Hold!GateExit(asked, approved)
                        THEN hClock.time ELSE hUnfilled
  BY <1>4a
<1> DEFINE asked == Hold!Asked(reviewed, listed)
           timeExit == Hold!TimeExit(resumed, priced, hit)
           reviewExit == Hold!ReviewExit(managed, priced)
           gateExit == Hold!GateExit(asked, asked /\ good)
<1>6. /\ hState' \in Hold!After(reviewed, gateExit)
      /\ hCarry' = IF asked THEN [hCarry EXCEPT ![hClock.day] = IF asked /\ good THEN "APPROVED" ELSE "REJECTED"]
                   ELSE hCarry
      /\ hTimed' = (hTimed /\ ~(asked /\ good))
      /\ hUnfilled' = IF hState = "EXIT_PENDING" \/ timeExit \/ reviewExit \/ gateExit
                      THEN hClock.time ELSE hUnfilled
  BY <1>5
<1>7. /\ resumed \in Hold!Answers /\ (hState = "CLOSED" => resumed = "CLOSED")
      /\ hState # "EXIT_PENDING" => resumed = hState
  BY <1>3 DEF HoldingTypes, Hold!After, Hold!Answers
<1>8. /\ managed \in Hold!Answers /\ (resumed = "CLOSED" => managed = "CLOSED")
      /\ ~timeExit => managed = resumed
  BY <1>4a, <1>7 DEF Hold!After, Hold!TimeExit, Hold!Answers
<1>9. /\ reviewed \in Hold!Answers /\ (managed = "CLOSED" => reviewed = "CLOSED")
      /\ ~reviewExit => reviewed = managed
  BY <1>5, <1>8 DEF Hold!After, Hold!ReviewExit, Hold!Answers
<1>10. /\ asked \in BOOLEAN
       /\ asked => /\ reviewed = "OPEN" /\ hTrade.mode = "M2" /\ hClock.time >= 5
                   /\ hCarry[hClock.day] = "NONE"
       /\ ~asked => \/ reviewed # "OPEN" \/ hTrade.mode # "M2" \/ hClock.time < 5
                    \/ hCarry[hClock.day] # "NONE" \/ ~listed
  <2>1. hClock.time \in Int
    BY DEF HoldingTypes
  <2>2. asked <=> /\ reviewed = "OPEN" /\ hTrade.mode = "M2" /\ hClock.time >= 5
                  /\ hCarry[hClock.day] = "NONE" /\ (listed \/ hEod = "positional")
    BY DEF Hold!Asked, Hold!M2, Hold!Cutoff
  <2>3. asked \in BOOLEAN
    BY DEF Hold!Asked
  <2> HIDE DEF asked
  <2> QED
    BY <2>1, <2>2, <2>3
<1>11. gateExit = (asked /\ ~(asked /\ good))
  BY DEF Hold!GateExit
<1>12. /\ hState' \in Hold!Answers /\ (reviewed = "CLOSED" => hState' = "CLOSED")
       /\ ~gateExit => hState' = reviewed
  BY <1>6, <1>9, <1>10, <1>11 DEF Hold!After, Hold!Answers
<1>13. /\ hState = "OPEN" /\ ~timeExit /\ resumed = "OPEN" => ~(priced /\ hTimed /\ hClock.time >= 6)
       /\ ~reviewExit /\ managed = "OPEN" => ~(priced /\ Hold!Due # {} /\ Hold!Eligible /\ Hold!FlattenDue)
  BY DEF Hold!TimeExit, Hold!ReviewExit, Hold!Flatten
<1> HIDE DEF asked, timeExit, reviewExit, gateExit
<1>14. hState' \in Hold!Answers /\ (Hold!Held' => Hold!Held)
  BY <1>7, <1>8, <1>9, <1>12 DEF Hold!Held
<1>15. hUnfilled' = hClock.time \/ NoExit(priced)
  <2> SUFFICES ASSUME ~(hState = "EXIT_PENDING" \/ timeExit \/ reviewExit \/ gateExit)
               PROVE  NoExit(priced)
    BY <1>6
  <2>1. resumed = hState /\ managed = hState /\ reviewed = hState /\ hState' = hState
    BY <1>7, <1>8, <1>9, <1>12
  <2>2. hUnfilled' = hUnfilled
    BY <1>6
  <2> QED
    BY <1>13, <2>1, <2>2 DEF NoExit
<1>16. GateApproves \/ GateRejects \/ GateSilent(listed)
  <2>0. hTimed \in BOOLEAN
    BY DEF HoldingTypes
  <2>1. CASE asked /\ good
    <3>1. hCarry' = [hCarry EXCEPT ![hClock.day] = "APPROVED"] /\ hTimed' = FALSE
      BY <1>6, <2>1
    <3> QED
      BY <1>4, <1>10, <2>1, <3>1 DEF GateApproves
  <2>2. CASE asked /\ ~good
    <3>1. hCarry' = [hCarry EXCEPT ![hClock.day] = "REJECTED"] /\ hTimed' = hTimed /\ hUnfilled' = hClock.time
      BY <1>6, <1>11, <2>0, <2>2
    <3> QED
      BY <1>4, <1>10, <2>2, <3>1 DEF GateRejects
  <2>3. CASE ~asked
    <3>1. hCarry' = hCarry /\ hTimed' = hTimed /\ ~gateExit
      BY <1>6, <1>11, <2>0, <2>3
    <3> QED
      BY <1>10, <1>12, <2>3, <3>1 DEF GateSilent
  <2> QED
    BY <1>4, <1>10, <2>1, <2>2, <2>3
<1> QED
  BY <1>1, <1>2, <1>14, <1>15, <1>16

\* A tick keeps the invariant, in the terms of TickMade.
LEMMA TickKept ==
  ASSUME HoldingAssumption, HoldingInv, NEW priced \in BOOLEAN, NEW listed \in BOOLEAN, NEW hit \in BOOLEAN,
         NEW healthy \in BOOLEAN, NEW seen, Hold!Tick(priced, listed, hit, healthy, seen)
  PROVE  HoldingInv'
<1>0. HoldingTypes /\ Judged /\ Passed /\ Looked /\ \A s \in hSlots : s < hClock.time
  BY DEF HoldingInv
<1>1. /\ hClock.time < 7 /\ hClock'.time = hClock.time + 1 /\ hClock'.day = hClock.day
      /\ hClock' \in [day : 1..Sessions, time : 1..7]
      /\ hClock.time \in Sure => priced /\ listed
      /\ UNCHANGED <<hTrade, hEod, hLeft>> /\ hSlots' = hSlots \cup Hold!Due
      /\ hState' \in Hold!Answers /\ (Hold!Held' => Hold!Held)
      /\ hUnfilled' = hClock.time \/ NoExit(priced)
  BY <1>0, TickMade
<1>2. GateApproves \/ GateRejects \/ GateSilent(listed)
  BY <1>0, TickMade
<1>3. /\ hClock.day \in 1..Sessions /\ hClock.time \in 1..7 /\ hLeft \in Nat /\ hUnfilled \in Nat
      /\ hCarry \in [1..Sessions -> {"NONE", "APPROVED", "REJECTED"}] /\ hTimed \in BOOLEAN
      /\ hTrade.mode \in {"M1", "M2", "M3", "M4"} /\ hState \in {"OPEN", "EXIT_PENDING", "CLOSED"}
      /\ hTrade.flatten = None \/ hTrade.flatten \in Nat
      /\ MinDte \in Nat \ {0}
  BY <1>0 DEF HoldingTypes, Hold!Answers, HoldingAssumption
<1>4. HoldingTypes'
  <2>1. hTimed' \in BOOLEAN /\ hCarry' \in [1..Sessions -> {"NONE", "APPROVED", "REJECTED"}]
    BY <1>2, <1>3 DEF GateApproves, GateRejects, GateSilent
  <2>2. hSlots' \subseteq {2, 4}
    BY <1>0, <1>1 DEF HoldingTypes, Hold!Due, Hold!Slot
  <2>3. hUnfilled' \in Nat
    BY <1>1, <1>3 DEF NoExit
  <2>4. Hold!Answers' = Hold!Answers
    BY DEF Hold!Answers
  <2> QED
    BY <1>0, <1>1, <2>1, <2>2, <2>3, <2>4 DEF HoldingTypes
<1>5. Carried => Carried'
  <2>1. \A d \in 1..Sessions : hCarry[d] = "APPROVED" => hCarry'[d] = "APPROVED"
    BY <1>2, <1>3 DEF GateApproves, GateRejects, GateSilent
  <2> QED
    BY <2>1 DEF Carried
<1>a. GateApproves => Carried'
  BY <1>3 DEF GateApproves, Carried
<1>b. hTimed' => hTimed
  BY <1>2 DEF GateApproves, GateRejects, GateSilent
<1>c. hUnfilled' = hUnfilled \/ hUnfilled' = hClock.time
  BY <1>1 DEF NoExit
<1>d. hUnfilled' > 0 \/ (hUnfilled' = hUnfilled /\ NoExit(priced))
  BY <1>1, <1>3 DEF NoExit
<1>6. Judged'
  <2>1. \A d \in 1..Sessions : d > hClock.day => hCarry'[d] = "NONE"
    BY <1>0, <1>2, <1>3 DEF Judged, GateApproves, GateRejects, GateSilent
  <2>2. hCarry'[hClock.day] = "REJECTED" => hUnfilled' >= 5 /\ hClock.time + 1 >= 6
    <3>1. CASE GateRejects
      BY <1>3, <3>1 DEF GateRejects
    <3>2. CASE GateApproves
      BY <1>3, <3>2 DEF GateApproves
    <3>3. CASE GateSilent(listed)
      <4>1. hCarry[hClock.day] = "REJECTED" => hUnfilled >= 5 /\ hClock.time >= 6
        BY <1>0 DEF Judged
      <4> QED
        BY <1>3, <1>c, <3>3, <4>1 DEF GateSilent
    <3> QED
      BY <1>2, <3>1, <3>2, <3>3
  <2>3. hTrade.mode = "M1" => hTimed'
    BY <1>0, <1>2 DEF Judged, GateApproves, GateRejects, GateSilent
  <2>4. hTimed' => hTrade.mode \in {"M1", "M2"} /\ ~Carried'
    <3>1. hTimed => hTrade.mode \in {"M1", "M2"} /\ \A d \in 1..Sessions : hCarry[d] # "APPROVED"
      BY <1>0 DEF Judged, Carried
    <3>2. hTimed' => \A d \in 1..Sessions : hCarry'[d] # "APPROVED"
      BY <1>2, <1>3, <1>b, <3>1 DEF GateApproves, GateRejects, GateSilent
    <3> QED
      BY <1>b, <3>1, <3>2 DEF Carried
  <2>5. hTrade.mode = "M2" => hTimed' \/ Carried' \/ hEod = "positional"
    BY <1>0, <1>2, <1>5, <1>a DEF Judged, GateRejects, GateSilent
  <2>6. hEod = "positional" => /\ hTrade.mode = "M2" => ~hTimed'
                               /\ \A d \in 1..Sessions : hCarry'[d] # "REJECTED"
    BY <1>0, <1>2, <1>3, <1>b DEF Judged, GateApproves, GateRejects, GateSilent
  <2> QED
    BY <1>1, <2>1, <2>2, <2>3, <2>4, <2>5, <2>6 DEF Judged
<1>e. ASSUME Hold!Held', hClock.time = 6, 6 \in Sure, hState' # "EXIT_PENDING"
      PROVE  /\ hState' = "OPEN"
             /\ hUnfilled' = 6 \/ (NoExit(priced) /\ ~hTimed)
             /\ hTrade.mode # "M2" \/ GateApproves \/ GateRejects \/ (GateSilent(listed) /\ hCarry[hClock.day] # "NONE")
  <2>1. hState' = "OPEN" /\ priced /\ listed
    BY <1>1, <1>e DEF Hold!Held, Hold!Answers
  <2>2. hUnfilled' = 6 \/ (NoExit(priced) /\ ~hTimed)
    BY <1>1, <1>e, <2>1 DEF NoExit
  <2>3. hTrade.mode # "M2" \/ GateApproves \/ GateRejects \/ (GateSilent(listed) /\ hCarry[hClock.day] # "NONE")
    BY <1>2, <1>e, <2>1 DEF GateSilent
  <2> QED
    BY <2>1, <2>2, <2>3
<1>f. ASSUME Hold!Held', hClock.time = 6, 6 \in Sure
      PROVE  hUnfilled' = 6 \/ (NoExit(priced) /\ ~hTimed)
  <2>1. CASE hState' = "EXIT_PENDING"
    BY <1>1, <1>f, <2>1 DEF NoExit
  <2> QED
    BY <1>e, <1>f, <2>1
<1>7. Passed'
  <2> SUFFICES ASSUME 6 \in Sure
               PROVE  /\ hClock.day = 1 => hLeft > 0 \/ hTrade.mode = "M1"
                      /\ hTrade.mode = "M2" /\ Hold!Held' /\ hClock.time = 6 => hTimed' \/ Carried' \/ hState' = "EXIT_PENDING"
                      /\ hTrade.mode = "M2" /\ Hold!Held' /\ hClock.day > 1 =>
                           hTimed' \/ Carried' \/ hState' = "EXIT_PENDING" \/ hUnfilled' > 0
                      /\ hTimed' /\ Hold!Held' /\ hClock.time = 6 => hUnfilled' >= 6
    BY <1>1, <1>3 DEF Passed
  <2>1. hClock.day = 1 => hLeft > 0 \/ hTrade.mode = "M1"
    BY <1>0 DEF Passed
  <2>2. ASSUME hTrade.mode = "M2", Hold!Held', hClock.time = 6, hState' # "EXIT_PENDING"
        PROVE  hTimed' \/ Carried'
    <3>1. GateApproves \/ GateRejects \/ (GateSilent(listed) /\ hCarry[hClock.day] # "NONE")
      BY <1>e, <2>2
    <3>2. CASE GateApproves
      BY <1>a, <3>2
    <3>3. CASE GateRejects
      BY <1>0, <1>5, <2>2, <3>3 DEF GateRejects, Judged
    <3>4. CASE GateSilent(listed) /\ hCarry[hClock.day] # "NONE"
      <4>1. hCarry[hClock.day] = "APPROVED" => Carried
        BY <1>3 DEF Carried
      <4>2. hCarry[hClock.day] \in {"APPROVED", "REJECTED"}
        BY <1>3, <3>4
      <4>3. hCarry[hClock.day] = "REJECTED" => hTimed \/ Carried
        BY <1>0, <1>3, <2>2 DEF Judged
      <4> QED
        BY <1>5, <3>4, <4>1, <4>2, <4>3 DEF GateSilent
    <3> QED
      BY <3>1, <3>2, <3>3, <3>4
  <2>3. ASSUME hTrade.mode = "M2", Hold!Held', hClock.day > 1
        PROVE  hTimed' \/ Carried' \/ hState' = "EXIT_PENDING" \/ hUnfilled' > 0
    <3>1. CASE NoExit(priced) /\ hUnfilled' = hUnfilled
      <4>1. hTimed \/ Carried \/ hUnfilled > 0
        BY <1>0, <1>1, <2>3, <3>1 DEF Passed, NoExit
      <4>2. hTimed => hTimed' \/ Carried'
        BY <1>2, <1>a DEF GateRejects, GateSilent
      <4> QED
        BY <1>5, <3>1, <4>1, <4>2
    <3> QED
      BY <1>d, <3>1
  <2>4. ASSUME hTimed', Hold!Held', hClock.time = 6
        PROVE  hUnfilled' >= 6
    BY <1>b, <1>f, <2>4
  <2> QED
    BY <2>1, <2>2, <2>3, <2>4
<1>8. Looked'
  <2> SUFFICES ASSUME 6 \in Sure, hClock.day > 1, hLeft = 0, hTrade.flatten # None, Hold!Held',
                      NEW s \in Sure \cap {2, 4}
               PROVE  \/ hClock'.time <= s \/ hUnfilled' >= s
                      \/ (hTrade.mode = "M2" /\ hUnfilled' > 0) \/ hTimed'
    BY <1>1 DEF Looked
  <2> SUFFICES ASSUME ~(hClock'.time <= s), ~(hUnfilled' >= s), ~(hTrade.mode = "M2" /\ hUnfilled' > 0)
               PROVE  hTimed'
    OBVIOUS
  <2>1. hTimed => hTimed'
    <3>1. hTimed /\ hTrade.mode = "M2" => hEod # "positional"
      BY <1>0 DEF Judged
    <3>2. hTimed => ~GateApproves
      BY <1>3, <3>1 DEF GateApproves
    <3> QED
      BY <1>2, <3>2 DEF GateRejects, GateSilent
  <2>2. hClock.time \in Int /\ s \in Int /\ hClock.time >= s
    BY <1>1, <1>3
  <2>3. hUnfilled' = hUnfilled /\ NoExit(priced)
    BY <1>1, <2>2 DEF NoExit
  <2>4. Hold!Held
    BY <1>1
  <2>5. CASE hClock.time > s
    <3>1. ~(hClock.time <= s)
      BY <2>2, <2>5
    <3> QED
      BY <1>0, <2>1, <2>3, <2>4, <3>1 DEF Looked
  <2>6. CASE hClock.time = s
    <3>1. priced
      BY <1>1, <2>6
    <3>2. s \notin hSlots
      BY <1>0, <2>2, <2>6
    <3>3. Hold!Due # {}
      BY <2>2, <2>6, <3>2 DEF Hold!Due, Hold!Slot
    <3>4. Hold!FlattenDue
      BY <1>3 DEF Hold!FlattenDue
    <3>5. hState = "OPEN"
      BY <1>3, <2>3, <2>4 DEF NoExit, Hold!Held
    <3>6. ~Hold!Eligible
      BY <2>3, <3>1, <3>3, <3>4, <3>5 DEF NoExit
    <3>7. hTrade.mode = "M2" => hTimed \/ Carried
      BY <1>0, <2>3, <2>4, <3>5 DEF Passed
    <3>8. hTrade.mode = "M1" => hTimed
      BY <1>0 DEF Judged
    <3>9. Carried => \E d \in DOMAIN hCarry : hCarry[d] = "APPROVED"
      BY <1>3 DEF Carried
    <3> QED
      BY <1>3, <2>1, <3>6, <3>7, <3>8, <3>9 DEF Hold!Eligible, Hold!M2
  <2> QED
    BY <2>2, <2>5, <2>6
<1>9. HeldByDecision'
  <2> SUFFICES ASSUME 6 \in Sure, Hold!Held', hClock.time = 6, ~(hUnfilled' >= 5),
                      hTrade.mode \notin {"M3", "M4"}
               PROVE  hTrade.mode = "M2" /\ hCarry'[hClock.day] = "APPROVED"
    BY <1>1, <1>3 DEF HeldByDecision, Hold!HeldByDecision, Hold!Close, Hold!Flatten, Hold!Cutoff, Hold!M2
  <2>1. NoExit(priced) /\ ~hTimed /\ hUnfilled' = hUnfilled
    BY <1>f DEF NoExit
  <2>2. hState' = "OPEN"
    BY <1>1, <2>1 DEF NoExit, Hold!Held, Hold!Answers
  <2>3. hTrade.mode = "M2"
    BY <1>0, <1>3, <2>1 DEF Judged
  <2>4. GateApproves \/ GateRejects \/ (GateSilent(listed) /\ hCarry[hClock.day] # "NONE")
    BY <1>e, <2>2, <2>3
  <2>5. ~GateRejects
    BY DEF GateRejects
  <2>6. hCarry[hClock.day] # "REJECTED"
    BY <1>0, <2>1 DEF Judged
  <2>7. hCarry[hClock.day] \in {"NONE", "APPROVED", "REJECTED"}
    BY <1>3
  <2> QED
    BY <1>3, <2>3, <2>4, <2>5, <2>6, <2>7 DEF GateApproves, GateSilent
<1>10. \A s \in hSlots' : s < hClock'.time
  <2>1. ASSUME NEW s \in Hold!Due PROVE s < hClock'.time
    BY <1>1, <1>3, <2>1 DEF Hold!Due, Hold!Slot
  <2>2. ASSUME NEW s \in hSlots PROVE s < hClock'.time
    <3>1. s \in Int /\ s < hClock.time
      BY <1>0, <2>2 DEF HoldingTypes
    <3> QED
      BY <1>1, <1>3, <3>1
  <2> QED
    BY <1>1, <2>1, <2>2
<1> QED
  BY <1>4, <1>6, <1>7, <1>8, <1>9, <1>10 DEF HoldingInv

\* So does a time that finds the session down, and the night.
LEMMA RestKept ==
  ASSUME HoldingInv, Hold!Down \/ \E gap \in Gaps : Hold!Night(gap), HoldingAssumption
  PROVE  HoldingInv'
<1>0. HoldingTypes /\ Judged /\ Passed /\ Looked /\ HeldByDecision /\ \A s \in hSlots : s < hClock.time
  BY DEF HoldingInv
<1>3. /\ hClock \in [day : 1..Sessions, time : 1..7] /\ hLeft \in Nat /\ hUnfilled \in Nat
      /\ hClock.day \in 1..Sessions /\ hClock.time \in 1..7 /\ Sessions \in Nat
  BY <1>0 DEF HoldingTypes, HoldingAssumption
<1>1. CASE Hold!Down
  <2>1. /\ hClock.time < 7 /\ hClock.time \notin Sure
        /\ hClock' = [hClock EXCEPT !.time = @ + 1]
        /\ UNCHANGED <<hTrade, hEod, hLeft, hState, hTimed, hCarry, hSlots, hUnfilled>>
    BY <1>1 DEF Hold!Down, Hold!Close
  <2>2. /\ hClock'.time = hClock.time + 1 /\ hClock'.day = hClock.day
        /\ hClock' \in [day : 1..Sessions, time : 1..7]
    BY <1>3, <2>1
  <2>3. HoldingTypes' /\ Hold!Held' = Hold!Held
    BY <1>0, <2>1, <2>2 DEF HoldingTypes, Hold!Answers, Hold!Held
  <2>4. Judged' /\ (Carried' <=> Carried)
    BY <1>0, <1>3, <2>1, <2>2 DEF Judged, Carried
  <2>5. Passed'
    BY <1>0, <1>3, <2>1, <2>2, <2>3, <2>4 DEF Passed
  <2>6. Looked'
    <3>1. ASSUME 6 \in Sure, hClock.day > 1, hLeft = 0, hTrade.flatten # None, Hold!Held,
                 NEW s \in Sure \cap {2, 4}
          PROVE  hClock.time + 1 <= s \/ hUnfilled >= s \/ (hTrade.mode = "M2" /\ hUnfilled > 0) \/ hTimed
      <4>1. hClock.time <= s \/ hUnfilled >= s \/ (hTrade.mode = "M2" /\ hUnfilled > 0) \/ hTimed
        BY <1>0, <3>1 DEF Looked
      <4>2. hClock.time # s
        BY <2>1, <3>1
      <4> QED
        BY <1>3, <3>1, <4>1, <4>2
    <3> QED
      BY <2>1, <2>2, <2>3, <3>1 DEF Looked
  <2>7. HeldByDecision'
    BY <1>3, <2>1, <2>2 DEF HeldByDecision, Hold!HeldByDecision, Hold!Close, Hold!Flatten
  <2>8. \A s \in hSlots' : s < hClock'.time
    <3>1. \A s \in hSlots : s \in Int /\ s < hClock.time
      BY <1>0 DEF HoldingTypes
    <3> QED
      BY <1>3, <2>1, <2>2, <3>1
  <2> QED
    BY <2>3, <2>4, <2>5, <2>6, <2>7, <2>8 DEF HoldingInv
<1>2. CASE \E gap \in Gaps : Hold!Night(gap)
  <2>0. PICK gap \in Gaps : Hold!Night(gap)
    BY <1>2
  <2>1. /\ hClock.time = 7 /\ hClock.day < Sessions /\ gap <= hLeft
        /\ hClock' = [day |-> hClock.day + 1, time |-> 1]
        /\ hLeft' = hLeft - gap /\ hSlots' = {} /\ hUnfilled' = 0
        /\ UNCHANGED <<hTrade, hEod, hState, hTimed, hCarry>>
    BY <2>0 DEF Hold!Night, Hold!Close
  <2>a. gap \in Nat
    BY DEF HoldingAssumption
  <2>2. /\ hClock' \in [day : 1..Sessions, time : 1..7] /\ hLeft' \in Nat
        /\ hClock'.time = 1 /\ hClock'.day = hClock.day + 1
    BY <1>3, <2>1, <2>a
  <2>3. HoldingTypes' /\ Hold!Held' = Hold!Held
    BY <1>0, <2>1, <2>2 DEF HoldingTypes, Hold!Answers, Hold!Held
  <2>4. Carried' <=> Carried
    BY <2>1 DEF Carried
  <2>5. Judged'
    <3>1. \A d \in 1..Sessions : d > hClock.day => hCarry[d] = "NONE"
      BY <1>0 DEF Judged
    <3>2. hCarry'[hClock'.day] # "REJECTED" /\ \A d \in 1..Sessions : d > hClock'.day => hCarry'[d] = "NONE"
      BY <1>3, <2>1, <2>2, <3>1
    <3> QED
      BY <1>0, <2>1, <2>4, <3>2 DEF Judged
  <2>6. Passed'
    <3>1. hClock'.day # 1 /\ hClock'.time # 7
      BY <1>3, <2>2
    <3> QED
      BY <1>0, <2>1, <2>3, <2>4, <3>1 DEF Passed
  <2>7. Looked'
    <3>1. \A s \in Sure \cap {2, 4} : 1 <= s
      OBVIOUS
    <3> QED
      BY <2>2, <3>1 DEF Looked
  <2>8. HeldByDecision'
    BY <2>2 DEF HeldByDecision, Hold!HeldByDecision, Hold!Close
  <2> QED
    BY <2>1, <2>3, <2>5, <2>6, <2>7, <2>8 DEF HoldingInv
<1> QED
  BY <1>1, <1>2

\* The trade as it starts.
LEMMA HoldingStarts ==
  ASSUME HoldingAssumption, Hold!Init
  PROVE  HoldingInv
<1>1. /\ hTrade \in HeldTrades /\ hEod \in {"carry_gate", "positional"}
      /\ hLeft \in Dtes /\ (hLeft >= MinDte \/ hTrade.mode = "M1")
      /\ hClock \in [day : {1}, time : {1, 3, 5}]
      /\ hState = "OPEN" /\ hUnfilled = 0
      /\ hTimed = (hTrade.mode = "M1" \/ (hTrade.mode = "M2" /\ hEod = "carry_gate"))
      /\ hCarry = [d \in 1..Sessions |-> "NONE"]
      /\ hSlots = {s \in {2, 4} : s < hClock.time}
  BY DEF Hold!Init, Hold!Cutoff, Hold!M2, Hold!Slot
<1>2. hLeft \in Nat /\ Sessions \in Nat \ {0} /\ MinDte \in Nat \ {0}
  BY <1>1 DEF HoldingAssumption
<1>3. hClock \in [day : 1..Sessions, time : 1..7] /\ hClock.day = 1 /\ hClock.time < 7 /\ 1 \in 1..Sessions
  BY <1>1, <1>2
<1>4. HoldingTypes
  <2>1. hTimed \in BOOLEAN /\ hState \in Hold!Answers /\ hUnfilled \in Nat
    BY <1>1 DEF Hold!Answers
  <2>2. hTrade.mode \in {"M1", "M2", "M3", "M4"} /\ (hTrade.flatten = None \/ hTrade.flatten \in Nat)
    <3>1. \A x \in HeldTrades : x.mode \in {"M1", "M2", "M3", "M4"} /\ (x.flatten = None \/ x.flatten \in Nat)
      BY DEF HoldingAssumption
    <3>2. hTrade \in HeldTrades
      BY <1>1
    <3> QED
      BY <3>1, <3>2, Zenon
  <2>3. hCarry \in [1..Sessions -> {"NONE", "APPROVED", "REJECTED"}]
    BY <1>1
  <2>4. hSlots \subseteq {2, 4}
    BY <1>1
  <2> QED
    BY <1>2, <1>3, <2>1, <2>2, <2>3, <2>4 DEF HoldingTypes
<1>5. \A d \in 1..Sessions : hCarry[d] = "NONE"
  BY <1>1
<1>6. Judged
  <2>1. hTimed <=> hTrade.mode = "M1" \/ (hTrade.mode = "M2" /\ hEod = "carry_gate")
    BY <1>1
  <2> QED
    BY <1>1, <1>3, <1>5, <2>1 DEF Judged, Carried
<1>7. Passed /\ Looked
  BY <1>1, <1>2, <1>3 DEF Passed, Looked
<1>8. HeldByDecision
  BY <1>3 DEF HeldByDecision, Hold!HeldByDecision, Hold!Close
<1>9. \A s \in hSlots : s < hClock.time
  BY <1>1
<1> QED
  BY <1>4, <1>6, <1>7, <1>8, <1>9 DEF HoldingInv

\* Whatever part of the run moves.
LEMMA HoldingSafe ==
  ASSUME HoldingAssumption
  PROVE  TradeLife => []HoldingInv
<1>1. Start => HoldingInv
  BY HoldingStarts DEF Start
<1>2. HoldingInv /\ [Crashing \/ Steady \/ Days \/ Fills \/ Earnings]_all => HoldingInv'
  <2> SUFFICES ASSUME HoldingInv, [Crashing \/ Steady \/ Days \/ Fills \/ Earnings]_all
               PROVE  HoldingInv'
    OBVIOUS
  <2>1. CASE Days
    <3>1. Hold!Next
      BY <2>1 DEF Days
    <3>2. CASE \E priced, listed, hit, healthy \in BOOLEAN : \E seen \in Hold!Trends \cup {None} :
                 Hold!Tick(priced, listed, hit, healthy, seen)
      BY <3>2, TickKept
    <3> QED
      BY <3>1, <3>2, RestKept DEF Hold!Next
  <2>2. CASE UNCHANGED holding
    <3>1. UNCHANGED <<hTrade, hEod, hClock, hLeft, hState, hTimed, hCarry, hSlots, hUnfilled>>
      BY <2>2 DEF holding
    <3>2. HoldingTypes' /\ Judged' /\ (Carried' <=> Carried) /\ Hold!Held' = Hold!Held
      BY <3>1 DEF HoldingInv, HoldingTypes, Judged, Carried, Hold!Held, Hold!Answers
    <3>3. Passed' /\ Looked' /\ HeldByDecision'
      BY <3>1, <3>2 DEF HoldingInv, Passed, Looked, HeldByDecision, Hold!HeldByDecision, Hold!M2
    <3> QED
      BY <3>1, <3>2, <3>3 DEF HoldingInv
  <2> QED
    BY <2>1, <2>2 DEF Crashing, Steady, Fills, Earnings, all
<1> QED
  BY <1>1, <1>2, PTL DEF TradeLife

\* A trade that is held when the session ends was meant to be, or was on its way out:
\* it is positional, its carry was approved in this session, or an exit made at the
\* cutoff or later did not fill (run_m2_carry_gate, manage_exits, apply_exit_failed).
THEOREM DecidedHolds == TradeLife => []HeldByDecision
<1>1. HoldingInv => HeldByDecision
  BY DEF HoldingInv
<1> QED
  BY <1>1, HoldingSafe, HoldingAssumption, PTL

\* A trade with a flatten rule that is held at the close of its expiry had an exit that
\* did not fill, from each slot on that found it priced, or, in Mode 2, earlier that
\* day (ReviewEngine.evaluate, manage_exits, apply_exit_failed).
THEOREM ExpiriesMet == TradeLife => []NothingExpires
<1>1. HoldingInv => NothingExpires
  <2> SUFFICES ASSUME HoldingInv, hClock.time = 7, hLeft = 0, hTrade.flatten # None,
                      6 \in Sure, Hold!Held, NEW s \in Sure \cap {2, 4}
               PROVE  hUnfilled >= s \/ (hTrade.mode = "M2" /\ hUnfilled > 0)
    BY DEF NothingExpires, Hold!NothingExpires, Hold!Close, Hold!Slot, Hold!Flatten, Hold!M2
  <2>1. hUnfilled \in Nat /\ hClock.day \in Nat /\ (hClock.day = 1 \/ hClock.day > 1)
    BY DEF HoldingInv, HoldingTypes
  <2>2. CASE hTimed
    BY <2>1, <2>2 DEF HoldingInv, Passed
  <2>3. CASE ~hTimed
    <3>1. hClock.day > 1
      BY <2>1, <2>3 DEF HoldingInv, Passed, Judged
    <3> QED
      BY <2>3, <3>1 DEF HoldingInv, Looked
  <2> QED
    BY <2>2, <2>3
<1> QED
  BY <1>1, HoldingSafe, HoldingAssumption, PTL

-----------------------------------------------------------------------------
\* Sums over finite sets.  SumOf is a function of the subsets; w gives the weight of an
\* element.

Picked(s) == CHOOSE x \in s : TRUE

Follows(w, S, g) ==
  \A s \in SUBSET S : g[s] = IF s = {} THEN 0 ELSE w[Picked(s)] + g[s \ {Picked(s)}]

Adds(w, S, g) == g \in [SUBSET S -> Int] /\ Follows(w, S, g)

\* A nonempty set of naturals has a least member.
LEMMA LeastOne ==
  ASSUME NEW S \in SUBSET Nat, S # {}
  PROVE  \E k \in S : \A j \in S : k <= j
<1>1. PICK k \in S : \A j \in S : ~(<<j, k>> \in OpToRel(<, Nat))
  BY WFMin, NatLessThanWellFounded
<1>2. \A j \in S : ~(j < k)
  BY <1>1 DEF OpToRel
<1> QED
  BY <1>2

\* Of some subsets of a finite set, one has none of the others in it.
LEMMA LeastSet ==
  ASSUME NEW S, IsFiniteSet(S), NEW D \in SUBSET (SUBSET S), D # {}
  PROVE  \E s \in D : \A r \in D : r \subseteq s => r = s
<1> DEFINE sizes == {Cardinality(s) : s \in D}
<1>1. \A s \in D : IsFiniteSet(s) /\ Cardinality(s) \in Nat
  BY FS_Subset, FS_CardinalityType
<1>2. sizes \in SUBSET Nat /\ sizes # {}
  BY <1>1
<1>3. PICK n \in sizes : \A j \in sizes : n <= j
  BY <1>2, LeastOne
<1>4. PICK s \in D : Cardinality(s) = n
  BY <1>3
<1>5. ASSUME NEW r \in D, r \subseteq s, r # s PROVE FALSE
  <2>1. Cardinality(r) < Cardinality(s)
    BY <1>1, <1>5, FS_Subset
  <2>2. Cardinality(s) <= Cardinality(r)
    BY <1>3, <1>4
  <2> QED
    BY <1>1, <2>1, <2>2
<1> QED
  BY <1>5

\* What is chosen from a set is in it, and the rest is less.
LEMMA OneIs ==
  ASSUME NEW s, s # {}
  PROVE  Picked(s) \in s /\ s \ {Picked(s)} \subseteq s /\ s \ {Picked(s)} # s
BY DEF Picked

\* Two sums agree on what is in both of their sets.
LEMMA AddsOnce ==
  ASSUME NEW S, IsFiniteSet(S), NEW w, NEW A \in SUBSET S, NEW B \in SUBSET S,
         NEW g, NEW h, Follows(w, A, g), Follows(w, B, h), NEW s \in SUBSET A, s \subseteq B
  PROVE  g[s] = h[s]
<1> DEFINE D == {r \in SUBSET S : r \subseteq A /\ r \subseteq B /\ g[r] # h[r]}
<1>1. ASSUME D # {} PROVE FALSE
  <2>1. PICK r \in D : \A q \in D : q \subseteq r => q = r
    <3>1. D \in SUBSET (SUBSET S)
      OBVIOUS
    <3> HIDE DEF D
    <3> QED
      BY <1>1, <3>1, LeastSet
  <2>2. r # {}
    BY <2>1 DEF Follows
  <2>3. g[r \ {Picked(r)}] = h[r \ {Picked(r)}]
    BY <2>1, <2>2, OneIs
  <2> QED
    BY <2>1, <2>2, <2>3 DEF Follows
<1> QED
  BY <1>1

\* A finite set has a sum.
LEMMA AddsUp ==
  ASSUME NEW S, IsFiniteSet(S), NEW w \in [S -> Int]
  PROVE  \E g : Adds(w, S, g)
<1> DEFINE D == {s \in SUBSET S : ~\E g : Adds(w, s, g)}
<1>1. ASSUME D # {} PROVE FALSE
  <2>1. PICK s \in D : \A r \in D : r \subseteq s => r = s
    <3>1. D \in SUBSET (SUBSET S)
      OBVIOUS
    <3> HIDE DEF D
    <3> QED
      BY <1>1, <3>1, LeastSet
  <2> DEFINE h(r) == CHOOSE g : Adds(w, r, g)
  <2>2. ASSUME NEW r \in SUBSET s, r # s PROVE Adds(w, r, h(r))
    <3>1. \E g : Adds(w, r, g)
      BY <2>1, <2>2
    <3> QED
      BY <3>1
  <2> HIDE DEF h
  <2> DEFINE rest(r) == r \ {Picked(r)}
             g == [r \in SUBSET s |-> IF r = {} THEN 0 ELSE w[Picked(r)] + h(rest(r))[rest(r)]]
  <2>3. ASSUME NEW r \in SUBSET s, r # {}
        PROVE  rest(r) \in SUBSET s /\ rest(r) # s /\ Picked(r) \in S
    BY <2>3, OneIs
  <2>4. ASSUME NEW r \in SUBSET s, r # s PROVE h(r)[r] \in Int
    BY <2>2, <2>4 DEF Adds
  <2>5. ASSUME NEW r \in SUBSET s, r # s PROVE g[r] = h(r)[r]
    <3>1. h(r)[r] = IF r = {} THEN 0 ELSE w[Picked(r)] + h(r)[rest(r)]
      BY <2>2, <2>5 DEF Adds, Follows
    <3>2. r # {} => h(r)[rest(r)] = h(rest(r))[rest(r)]
      <4> SUFFICES ASSUME r # {} PROVE h(r)[rest(r)] = h(rest(r))[rest(r)]
        OBVIOUS
      <4>1. Adds(w, r, h(r)) /\ Adds(w, rest(r), h(rest(r)))
        BY <2>2, <2>3, <2>5
      <4> DEFINE q == rest(r)
      <4>2. q \in SUBSET r /\ q \subseteq q /\ r \in SUBSET S /\ q \in SUBSET S
        BY <2>1
      <4>3. Follows(w, r, h(r)) /\ Follows(w, q, h(q))
        BY <4>1 DEF Adds
      <4>4. h(r)[q] = h(q)[q]
        <5> HIDE DEF q, rest
        <5> QED
          BY <4>2, <4>3, AddsOnce
      <4> QED
        BY <4>4
    <3> QED
      BY <2>5, <3>1, <3>2
  <2>6. g \in [SUBSET s -> Int]
    <3>1. ASSUME NEW r \in SUBSET s, r # {} PROVE w[Picked(r)] + h(rest(r))[rest(r)] \in Int
      BY <2>3, <2>4, <3>1
    <3> QED
      BY <3>1
  <2>7. ASSUME NEW r \in SUBSET s PROVE g[r] = IF r = {} THEN 0 ELSE w[Picked(r)] + g[rest(r)]
    <3>1. r # {} => g[rest(r)] = h(rest(r))[rest(r)]
      BY <2>3, <2>5
    <3> QED
      BY <3>1
  <2>8. Adds(w, s, g)
    BY <2>6, <2>7 DEF Adds, Follows
  <2> QED
    BY <2>1, <2>8
<1> QED
  BY <1>1

\* What one more element adds, whatever the order that the sum is taken in.
LEMMA AddsOne ==
  ASSUME NEW S, IsFiniteSet(S), NEW w \in [S -> Int], NEW g, Adds(w, S, g),
         NEW s \in SUBSET S, NEW x \in S, x \notin s
  PROVE  g[s \cup {x}] = g[s] + w[x]
<1> DEFINE D == {r \in SUBSET S : \E y \in S : y \notin r /\ g[r \cup {y}] # g[r] + w[y]}
<1>1. ASSUME D # {} PROVE FALSE
  <2>1. PICK r \in D : \A q \in D : q \subseteq r => q = r
    <3>1. D \in SUBSET (SUBSET S)
      OBVIOUS
    <3> HIDE DEF D
    <3> QED
      BY <1>1, <3>1, LeastSet
  <2>2. PICK y \in S : y \notin r /\ g[r \cup {y}] # g[r] + w[y]
    BY <2>1
  <2> DEFINE z == Picked(r \cup {y})
  <2>3. z \in r \cup {y} /\ z \in S
    BY <2>1, OneIs
  <2>4. g[r \cup {y}] = w[z] + g[(r \cup {y}) \ {z}]
    BY <2>1 DEF Adds, Follows
  <2>5. g[r] \in Int /\ g[r \ {z}] \in Int /\ w[y] \in Int /\ w[z] \in Int
    BY <2>1, <2>3 DEF Adds
  <2> HIDE DEF z
  <2>6. CASE z = y
    <3>1. (r \cup {y}) \ {z} = r
      BY <2>2, <2>6
    <3>2. g[r \cup {y}] = w[y] + g[r]
      BY <2>4, <2>6, <3>1
    <3> QED
      BY <2>2, <2>5, <3>2
  <2>7. CASE z # y
    <3>1. z \in r /\ (r \cup {y}) \ {z} = (r \ {z}) \cup {y}
      BY <2>3, <2>7
    <3>2. r \ {z} \in SUBSET S /\ r \ {z} \notin D
      BY <2>1, <3>1
    <3>3. g[(r \ {z}) \cup {y}] = g[r \ {z}] + w[y]
      BY <2>2, <3>2
    <3>4. g[(r \ {z}) \cup {z}] = g[r \ {z}] + w[z]
      BY <2>3, <3>2
    <3>5. (r \ {z}) \cup {z} = r
      BY <3>1
    <3>6. g[r \cup {y}] = w[z] + (g[r \ {z}] + w[y])
      BY <2>4, <3>1, <3>3
    <3>7. g[r] = g[r \ {z}] + w[z]
      BY <3>4, <3>5
    <3> QED
      BY <2>2, <2>5, <3>6, <3>7
  <2> QED
    BY <2>6, <2>7
<1> QED
  BY <1>1

-----------------------------------------------------------------------------

\* SumOf is the sum of the weights, over any subset.
LEMMA SumIs ==
  ASSUME NEW S, IsFiniteSet(S), NEW w \in [S -> Int], NEW g, Adds(w, S, g), NEW A \in SUBSET S
  PROVE  Earn!SumOf(w, A) = g[A]
<1> DEFINE Body(it) == [s \in SUBSET A |-> IF s = {} THEN 0 ELSE w[Picked(s)] + it[s \ {Picked(s)}]]
           iter == CHOOSE it : it = Body(it)
<1>1. Earn!SumOf(w, A) = iter[A]
  BY DEF Earn!SumOf, Picked
<1>2. IsFiniteSet(A) /\ \A k \in A : w[k] \in Int
  BY FS_Subset
<1>3. \A s \in SUBSET A : s # {} => Picked(s) \in A /\ s \ {Picked(s)} \in SUBSET A
  BY OneIs
<1>4. \E it : it = Body(it)
  <2> DEFINE v == [k \in A |-> w[k]]
  <2>1. v \in [A -> Int]
    BY <1>2
  <2>2. PICK it : Adds(v, A, it)
    BY <1>2, <2>1, AddsUp
  <2>3. it \in [SUBSET A -> Int] /\ Follows(v, A, it)
    BY <2>2 DEF Adds
  <2>4. ASSUME NEW s \in SUBSET A
        PROVE  it[s] = IF s = {} THEN 0 ELSE w[Picked(s)] + it[s \ {Picked(s)}]
    <3>1. s # {} => v[Picked(s)] = w[Picked(s)]
      BY <1>3
    <3> QED
      BY <2>3, <3>1 DEF Follows
  <2>5. it = [s \in SUBSET A |-> it[s]]
    BY <2>3
  <2>6. it = Body(it)
    BY <2>4, <2>5
  <2> QED
    BY <2>6
<1>5. iter = Body(iter)
  BY <1>4
<1> HIDE DEF iter
<1>6. Follows(w, A, iter)
  BY <1>5 DEF Follows
<1>7. Follows(w, S, g) /\ A \in SUBSET A
  BY DEF Adds
<1>8. S \in SUBSET S
  OBVIOUS
<1>9. iter[A] = g[A]
  BY <1>6, <1>7, <1>8, AddsOnce
<1> QED
  BY <1>1, <1>9

\* What sums do: nothing adds up to nothing, an element adds its weight, and only the
\* weights of what is summed count.
LEMMA Sums ==
  ASSUME NEW S, IsFiniteSet(S), NEW w \in [S -> Int], NEW A \in SUBSET S
  PROVE  /\ Earn!SumOf(w, A) \in Int /\ Earn!SumOf(w, {}) = 0
         /\ \A x \in S \ A : Earn!SumOf(w, A \cup {x}) = Earn!SumOf(w, A) + w[x]
<1>1. PICK g : Adds(w, S, g)
  BY AddsUp
<1>2. Earn!SumOf(w, A) = g[A] /\ Earn!SumOf(w, {}) = g[{}]
  BY <1>1, SumIs
<1>3. ASSUME NEW x \in S \ A PROVE Earn!SumOf(w, A \cup {x}) = Earn!SumOf(w, A) + w[x]
  <2>1. Earn!SumOf(w, A \cup {x}) = g[A \cup {x}]
    BY <1>1, SumIs
  <2> QED
    BY <1>1, <1>2, <2>1, AddsOne
<1>4. g[A] \in Int /\ g[{}] = 0
  BY <1>1 DEF Adds, Follows
<1> QED
  BY <1>2, <1>3, <1>4

LEMMA SameSum ==
  ASSUME NEW S, IsFiniteSet(S), NEW w \in [S -> Int], NEW v \in [S -> Int], NEW A \in SUBSET S, \A x \in A : v[x] = w[x]
  PROVE  Earn!SumOf(v, A) = Earn!SumOf(w, A)
<1>1. PICK g : Adds(w, S, g)
  BY AddsUp
<1>2. PICK h : Adds(v, S, h)
  BY AddsUp
<1>3. Follows(w, A, g) /\ Follows(w, A, h)
  <2>1. \A s \in SUBSET A : s \in SUBSET S /\ (s # {} => Picked(s) \in A)
    BY OneIs
  <2> QED
    BY <1>1, <1>2, <2>1 DEF Adds, Follows
<1>4. g[A] = h[A]
  BY <1>3, AddsOnce
<1> QED
  BY <1>1, <1>2, <1>4, SumIs

-----------------------------------------------------------------------------
\* What trades earn (Accounts).

Sides == {"entry", "exit"}

Arriving == {"fill", "charge", "campaign", "row"}

Departing == {"ids", "chargeExit", "close", "record"}

RowTypes == [state : {"NONE", "OPEN", "EXITING", "CLOSED"}, camp : Books \cup {None}, day : Nat, next : BOOLEAN]

CampaignTypes == [closes : SUBSET Books, net : Int, estimated : Int, high : Int, drawdown : Int,
                  limit : Int, blocked : BOOLEAN]

CallTypes == [at : {"idle"} \cup Arriving \cup Departing, t : Books \cup {None}, camp : Books \cup {None}]

AccountTypes ==
  /\ aDay \in Nat
  /\ aFills \in [Books -> [Sides -> Fees \cup {None}]] /\ aGross \in [Books -> Int]
  /\ aRow \in [Books -> RowTypes] /\ aCampaign \in [Books -> CampaignTypes]
  /\ aLedger \in [allocated : Int, today : Int, margin : Nat]
  /\ aCall \in CallTypes

\* A row follows what was filled.
RowFilled(t) ==
  /\ aRow[t].state = "NONE" => aRow[t].camp = None /\ ~aRow[t].next /\ aFills[t]["exit"] = None
  /\ aRow[t].state # "NONE" => aRow[t].camp \in Books /\ aFills[t]["entry"] # None
  /\ aRow[t].state \in {"EXITING", "CLOSED"} => aFills[t]["exit"] # None
  /\ aFills[t]["exit"] # None => aGross[t] \in Results

\* A fill is charged, or it is the one in hand.
Chargeable(t) ==
  /\ aFills[t]["entry"] # None => <<t, "entry">> \in aCharged \/ (t = aCall.t /\ aCall.at = "charge")
  /\ aFills[t]["exit"] # None => <<t, "exit">> \in aCharged \/ (t = aCall.t /\ aCall.at \in {"ids", "chargeExit"})

\* What trades earned, less what their fills are estimated to cost.
WorthOf(fills, gross) ==
  [t \in Books |-> gross[t] - Estimate * Cardinality({f \in Sides : fills[t][f] # None})]

Worth == WorthOf(aFills, aGross)

\* The trades of a campaign, and those whose close it does not know.
Members(rows, c) == {t \in Books : rows[t].camp = c}

Rest(rows, c, k) == Members(rows, c) \ k.closes

\* A campaign c, whose row is k, knows all its closes but one, and what they come to is
\* within its limit, also with the risk of that one.
KeptOf(c, rows, k, worth, mode) ==
  /\ \A t \in k.closes : rows[t].camp = c /\ rows[t].state = "CLOSED"
  /\ \A t, u \in Rest(rows, c, k) : t = u
  /\ \A t \in Members(rows, c) : rows[t].next => Rest(rows, c, k) = {}
  /\ rows[c].state = "NONE" => Members(rows, c) = {}
  /\ k.estimated = Earn!SumOf(worth, k.closes)
  /\ mode = "STRICT" /\ Members(rows, c) # {} => k.estimated - (IF Rest(rows, c, k) = {} THEN 0 ELSE Risk) >= -k.limit

CampaignKept(c) == KeptOf(c, aRow, aCampaign[c], Worth, aProfile)

Room == Earn!OpenCap(Earn!Reference)

\* What is in hand: an entry that its campaign has room for, or an exit.
EntryOf(t, c) ==
  /\ t \in Books /\ aRow[t].state = "NONE"
  /\ aCall.at = "fill" => aFills[t]["entry"] = None
  /\ aCall.at # "fill" => aFills[t]["entry"] # None
  /\ c # None => /\ aRow[c].state # "NONE" /\ Rest(aRow, c, aCampaign[c]) = {}
                 /\ aProfile = "STRICT" => aCampaign[c].estimated - Risk >= -aCampaign[c].limit
  /\ c = None /\ aProfile = "STRICT" => Risk <= (IF aCall.at = "row" THEN aCampaign[t].limit ELSE Room)
  /\ c = None /\ aCall.at = "row" => aCampaign[t].closes = {}

ExitOf(t) ==
  /\ t \in Books /\ aFills[t]["exit"] # None
  /\ aRow[t].camp \in Books /\ t \notin aCampaign[aRow[t].camp].closes
  /\ aCall.at = "ids" => aRow[t].state = "OPEN"
  /\ aCall.at \in {"chargeExit", "close"} => aRow[t].state = "EXITING"
  /\ aCall.at = "record" => aRow[t].state = "CLOSED"

InHandOK ==
  /\ aCall.at \in Arriving => EntryOf(aCall.t, aCall.camp)
  /\ aCall.at \in Departing => ExitOf(aCall.t)

AccountsInv ==
  /\ AccountTypes
  /\ \A t \in Books : RowFilled(t) /\ Chargeable(t)
  /\ \A c \in Books : CampaignKept(c)
  /\ InHandOK

USE AccountsAssumption

LEMMA Extremes ==
  ASSUME NEW a \in Int, NEW b \in Int
  PROVE  /\ Earn!Min({a, b}) \in Int /\ Earn!Min({a, b}) <= a /\ Earn!Min({a, b}) <= b
         /\ Earn!Max({a, b}) \in Int /\ Earn!Max({a, b}) >= a /\ Earn!Max({a, b}) >= b
<1>1. \E x \in {a, b} : \A y \in {a, b} : x =< y
  OBVIOUS
<1>2. \E x \in {a, b} : \A y \in {a, b} : x >= y
  OBVIOUS
<1>3. Earn!Min({a, b}) \in {a, b} /\ \A y \in {a, b} : Earn!Min({a, b}) =< y
  BY <1>1 DEF Earn!Min
<1>4. Earn!Max({a, b}) \in {a, b} /\ \A y \in {a, b} : Earn!Max({a, b}) >= y
  BY <1>2 DEF Earn!Max
<1> QED
  BY <1>3, <1>4

LEMMA OneMore ==
  ASSUME NEW S, IsFiniteSet(S), NEW x, x \notin S, NEW T, T = S \cup {x}
  PROVE  IsFiniteSet(T) /\ Cardinality(T) = Cardinality(S) + 1
  BY FS_AddElement

LEMMA SidesFinite == IsFiniteSet(Sides) /\ \A S \in SUBSET Sides : Cardinality(S) \in Nat /\ Cardinality(S) <= 2
<1>1. IsFiniteSet({}) /\ Cardinality({}) = 0
  BY FS_EmptySet
<1>2. "entry" \notin {} /\ {"entry"} = {} \cup {"entry"} /\ "exit" \notin {"entry"} /\ Sides = {"entry"} \cup {"exit"}
  BY DEF Sides
<1>3. IsFiniteSet({"entry"}) /\ Cardinality({"entry"}) = Cardinality({}) + 1
  BY <1>1, <1>2, OneMore, Zenon
<1>4. IsFiniteSet(Sides) /\ Cardinality(Sides) = Cardinality({"entry"}) + 1
  BY <1>2, <1>3, OneMore, Zenon
<1>5. IsFiniteSet(Sides) /\ Cardinality(Sides) = 2
  BY <1>1, <1>3, <1>4
<1> QED
  BY <1>5, FS_Subset, FS_CardinalityType

\* What a trade with its two fills is worth is no less than its risk.
LEMMA WorthIs ==
  ASSUME NEW fills, NEW gross \in [Books -> Int]
  PROVE  /\ WorthOf(fills, gross) \in [Books -> Int]
         /\ \A t \in Books : gross[t] \in Results => WorthOf(fills, gross)[t] >= -Risk
<1> DEFINE n(t) == Cardinality({f \in Sides : fills[t][f] # None})
<1>1. \A t \in Books : n(t) \in Nat /\ n(t) <= 2
  BY SidesFinite
<1>2. \A m \in Nat : m <= 2 => Estimate * m \in Int /\ Estimate * m <= 2 * Estimate
  <2>1. \A m \in Nat : m <= 2 => m = 0 \/ m = 1 \/ m = 2
    OBVIOUS
  <2>2. Estimate * 0 = 0 /\ Estimate * 1 = Estimate /\ Estimate * 2 = 2 * Estimate
    OBVIOUS
  <2> QED
    BY <2>1, <2>2
<1>3. \A t \in Books : Estimate * n(t) \in Int /\ Estimate * n(t) <= 2 * Estimate
  BY <1>1, <1>2
<1>4. \A t \in Books : WorthOf(fills, gross)[t] = gross[t] - Estimate * n(t)
  BY DEF WorthOf
<1>5. WorthOf(fills, gross) = [t \in Books |-> gross[t] - Estimate * n(t)]
  BY DEF WorthOf
<1> HIDE DEF n
<1>6. \A t \in Books : gross[t] \in Results => gross[t] - Estimate * n(t) >= -Risk
  BY <1>3
<1> QED
  BY <1>3, <1>4, <1>5, <1>6

LEMMA SameWorth ==
  ASSUME NEW t \in Books, NEW fills, NEW gross, NEW fills2, NEW gross2, fills2[t] = fills[t], gross2[t] = gross[t]
  PROVE  WorthOf(fills2, gross2)[t] = WorthOf(fills, gross)[t]
  BY DEF WorthOf

LEMMA EarnCardinality == \A S : Earn!Cardinality(S) = Cardinality(S)
  BY DEF Earn!Cardinality, Cardinality, Earn!IsFiniteSet, IsFiniteSet

LEMMA EstimatedIs ==
  ASSUME AccountTypes, NEW t \in Books
  PROVE  Earn!Estimated(t) \in Int /\ aGross[t] - Earn!Estimated(t) = Worth[t]
<1>1. Earn!Filled(t) = {f \in Sides : aFills[t][f] # None}
  BY DEF Earn!Filled, Sides
<1>2. Earn!Estimated(t) = Estimate * Cardinality({f \in Sides : aFills[t][f] # None})
  BY <1>1, EarnCardinality DEF Earn!Estimated
<1>3. Cardinality({f \in Sides : aFills[t][f] # None}) \in Nat
  BY SidesFinite
<1> QED
  BY <1>2, <1>3 DEF Worth, WorthOf

LEMMA ConfirmedIs ==
  ASSUME AccountTypes, NEW t \in Books
  PROVE  Earn!Confirmed(t) \in Int
<1> DEFINE w == [f \in Earn!Filled(t) |-> IF <<t, f>> \in aCharged THEN aFills[t][f] ELSE 0]
<1>1. Earn!Filled(t) \in SUBSET Sides
  BY DEF Earn!Filled, Sides
<1>2. IsFiniteSet(Earn!Filled(t))
  BY <1>1, SidesFinite, FS_Subset
<1>3. \A f \in Earn!Filled(t) : aFills[t][f] \in Int
  <2>1. \A f \in Sides : aFills[t][f] \in Fees \cup {None}
    BY DEF AccountTypes
  <2> QED
    BY <1>1, <2>1 DEF Earn!Filled
<1>4. w \in [Earn!Filled(t) -> Int]
  BY <1>3
<1>5. Earn!Filled(t) \in SUBSET Earn!Filled(t)
  OBVIOUS
<1> HIDE DEF w
<1>6. Earn!SumOf(w, Earn!Filled(t)) \in Int
  BY <1>2, <1>4, <1>5, Sums
<1>7. Earn!Confirmed(t) = Earn!SumOf(w, Earn!Filled(t))
  BY DEF Earn!Confirmed, w
<1> QED
  BY <1>6, <1>7

\* The ledger that a start rebuilds.
LEMMA RebuiltIs ==
  ASSUME AccountTypes, NEW today \in Nat
  PROVE  Earn!Rebuilt(today) \in [allocated : Int, today : Int, margin : Nat]
<1> DEFINE net == [t \in Books |-> Earn!Net(t)]
<1>1. \A t \in Books : Earn!Net(t) \in Int
  <2> SUFFICES ASSUME NEW t \in Books PROVE Earn!Net(t) \in Int
    OBVIOUS
  <2>1. aGross[t] \in Int /\ Earn!Confirmed(t) \in Int /\ Earn!Estimated(t) \in Int
    BY EstimatedIs, ConfirmedIs DEF AccountTypes
  <2>2. aGross[t] - Earn!Confirmed(t) \in Int /\ aGross[t] - Earn!Estimated(t) \in Int
    BY <2>1
  <2> QED
    BY <2>2, Extremes DEF Earn!Net
<1>2. net \in [Books -> Int]
  BY <1>1
<1>3. \A days : {t \in Earn!Closed : aRow[t].day \in days} \in SUBSET Books
  BY DEF Earn!Closed
<1>4. \A days : Earn!Earned(days) = Earn!SumOf(net, {t \in Earn!Closed : aRow[t].day \in days})
  BY DEF Earn!Earned
<1> HIDE DEF net
<1>5. \A days : Earn!Earned(days) \in Int
  BY <1>2, <1>3, <1>4, Sums
<1>6. Earn!Cardinality(Earn!Open) \in Nat
  <2>1. Earn!Open \subseteq Books
    BY DEF Earn!Open
  <2> QED
    BY <2>1, EarnCardinality, FS_Subset, FS_CardinalityType
<1>7. Risk * Earn!Cardinality(Earn!Open) \in Nat
  BY <1>6
<1> QED
  BY <1>5, <1>7 DEF Earn!Rebuilt

\* A step of the rows and the trades' worth that adds nothing to a campaign.
LeavesAlone(c, rows, rows2, w, w2) ==
  \A t \in Books : /\ rows2[t].camp = c <=> rows[t].camp = c
                   /\ rows2[t].camp = c /\ rows2[t].next => rows[t].next
                   /\ rows[t].state = "CLOSED" => rows2[t].state = "CLOSED" /\ w2[t] = w[t]
                   /\ rows2[t].state = "NONE" => rows[t].state = "NONE"

LEMMA KeptSame ==
  ASSUME NEW c \in Books, NEW rows \in [Books -> RowTypes], NEW rows2 \in [Books -> RowTypes],
         NEW k \in CampaignTypes, NEW w \in [Books -> Int], NEW w2 \in [Books -> Int], NEW mode,
         KeptOf(c, rows, k, w, mode), LeavesAlone(c, rows, rows2, w, w2)
  PROVE  KeptOf(c, rows2, k, w2, mode)
<1>1. k.closes \in SUBSET Books
  BY DEF CampaignTypes
<1>2. Members(rows2, c) = Members(rows, c) /\ Rest(rows2, c, k) = Rest(rows, c, k)
  BY DEF Members, Rest, LeavesAlone
<1>3. \A t \in k.closes : w2[t] = w[t] /\ rows2[t].camp = c /\ rows2[t].state = "CLOSED"
  BY <1>1 DEF KeptOf, LeavesAlone
<1>4. Earn!SumOf(w2, k.closes) = Earn!SumOf(w, k.closes)
  BY <1>1, <1>3, SameSum
<1>5. \A t \in Members(rows, c) : rows2[t].next => rows[t].next
  BY DEF Members, LeavesAlone
<1>6. rows2[c].state = "NONE" => rows[c].state = "NONE"
  BY DEF LeavesAlone
<1> QED
  BY <1>2, <1>3, <1>4, <1>5, <1>6 DEF KeptOf

\* No step but those of an entry and the record of a close adds anything to a campaign.
LEMMA CampaignsStay ==
  ASSUME AccountsInv, AccountTypes', aProfile' = aProfile, aCampaign' = aCampaign,
         \A t \in Books : /\ aRow'[t].camp = aRow[t].camp
                          /\ aRow'[t].next => aRow[t].next
                          /\ aRow[t].state = "CLOSED" => /\ aRow'[t].state = "CLOSED"
                                                         /\ aFills'[t] = aFills[t] /\ aGross'[t] = aGross[t]
                          /\ aRow'[t].state = "NONE" => aRow[t].state = "NONE"
  PROVE  \A c \in Books : CampaignKept(c)'
<1> SUFFICES ASSUME NEW c \in Books PROVE CampaignKept(c)'
  OBVIOUS
<1>1. KeptOf(c, aRow, aCampaign[c], Worth, aProfile)
  BY DEF AccountsInv, CampaignKept
<1>2. aRow \in [Books -> RowTypes] /\ aRow' \in [Books -> RowTypes] /\ aCampaign[c] \in CampaignTypes
  BY DEF AccountsInv, AccountTypes
<1>3. Worth \in [Books -> Int] /\ WorthOf(aFills', aGross') \in [Books -> Int]
  BY WorthIs DEF AccountsInv, AccountTypes, Worth
<1>4. \A t \in Books : aRow[t].state = "CLOSED" => WorthOf(aFills', aGross')[t] = Worth[t]
  BY SameWorth DEF Worth
<1>5. KeptOf(c, aRow', aCampaign[c], WorthOf(aFills', aGross'), aProfile)
  <2> DEFINE w2 == WorthOf(aFills', aGross')
  <2>1. LeavesAlone(c, aRow, aRow', Worth, w2)
    BY <1>4 DEF LeavesAlone
  <2> HIDE DEF w2
  <2>2. w2 \in [Books -> Int]
    BY <1>3 DEF w2
  <2>3. KeptOf(c, aRow', aCampaign[c], w2, aProfile)
    BY <1>1, <1>2, <1>3, <2>1, <2>2, KeptSame
  <2> QED
    BY <2>3 DEF w2
<1> QED
  BY <1>5 DEF CampaignKept, Worth

\* The rows and the fills as they were.
LEMMA RowsStay ==
  ASSUME AccountsInv, aFills' = aFills, aGross' = aGross, aRow' = aRow
  PROVE  \A t \in Books : RowFilled(t)'
  BY DEF AccountsInv, RowFilled

LEMMA RoomStays == aLedger' = aLedger => Room' = Room
  BY DEF Room, Earn!OpenCap, Earn!Reference

LEMMA ApproveKeeps ==
  ASSUME AccountsInv, NEW t \in Books, NEW c \in Books \cup {None}, Earn!Approve(t, c),
         c # None => \E u \in Books : aRow[u].state = "CLOSED" /\ aRow[u].next /\ aRow[u].camp = c
  PROVE  AccountsInv'
<1>0. /\ UNCHANGED <<aProfile, aDay, aCrashes, aFills, aGross, aCharged, aRow, aCampaign, aLedger>>
      /\ aCall' = [at |-> "fill", t |-> t, camp |-> c] /\ aCall.at = "idle"
      /\ Earn!Filled(t) = {}
      /\ aProfile = "STRICT" => Earn!WithinMode /\ Earn!WithinCampaign(c)
  BY DEF Earn!Approve, Earn!durable, Earn!At
<1>1. AccountTypes'
  BY <1>0 DEF AccountsInv, AccountTypes, CallTypes, Arriving
<1>2. aCall'.at = "fill" /\ aCall'.t = t /\ aCall'.camp = c
  BY <1>0
<1>3. \A u \in Books : RowFilled(u)' /\ Chargeable(u)'
  <2>1. \A u \in Books : RowFilled(u)'
    BY <1>0, RowsStay
  <2>2. \A u \in Books : Chargeable(u)'
    BY <1>0 DEF AccountsInv, Chargeable
  <2> QED
    BY <2>1, <2>2
<1>4. \A k \in Books : CampaignKept(k)'
  BY <1>0, <1>1, CampaignsStay
<1>5. aFills[t]["entry"] = None /\ aRow[t].state = "NONE"
  <2>1. aFills[t]["entry"] = None
    BY <1>0 DEF Earn!Filled
  <2> QED
    BY <2>1 DEF AccountsInv, RowFilled
<1>6. ASSUME c # None
      PROVE  /\ aRow[c].state # "NONE" /\ Rest(aRow, c, aCampaign[c]) = {}
             /\ aProfile = "STRICT" => aCampaign[c].estimated - Risk >= -aCampaign[c].limit
  <2>1. PICK u \in Books : aRow[u].state = "CLOSED" /\ aRow[u].next /\ aRow[u].camp = c
    BY <1>6
  <2>2. KeptOf(c, aRow, aCampaign[c], Worth, aProfile) /\ u \in Members(aRow, c)
    BY <1>6, <2>1 DEF AccountsInv, CampaignKept, Members
  <2>3. aRow[c].state # "NONE" /\ Rest(aRow, c, aCampaign[c]) = {}
    BY <2>1, <2>2 DEF KeptOf
  <2>4. ASSUME aProfile = "STRICT" PROVE aCampaign[c].estimated - Risk >= -aCampaign[c].limit
    <3>1. ~(Earn!CampaignNet(aCampaign[c]) - Risk < -aCampaign[c].limit)
      BY <1>0, <1>6, <2>4 DEF Earn!WithinCampaign, Earn!Breached
    <3>2. aCampaign[c].net \in Int /\ aCampaign[c].estimated \in Int /\ aCampaign[c].limit \in Int
      BY <1>6 DEF AccountsInv, AccountTypes, CampaignTypes
    <3>3. Earn!CampaignNet(aCampaign[c]) \in Int /\ Earn!CampaignNet(aCampaign[c]) <= aCampaign[c].estimated
      BY <3>2, Extremes DEF Earn!CampaignNet
    <3> QED
      BY <3>1, <3>2, <3>3
  <2> QED
    BY <2>3, <2>4
<1>7. c = None /\ aProfile = "STRICT" => Risk <= Room
  <2>1. Earn!WithinMode => aLedger.margin + Risk <= Room
    BY DEF Earn!WithinMode, Room
  <2>2. aLedger.margin \in Nat /\ Room \in Int
    <3>1. aLedger.allocated \in Int /\ aLedger.allocated + aLedger.today \in Int /\ aLedger.margin \in Nat
      BY DEF AccountsInv, AccountTypes
    <3>2. Earn!Reference \in Int
      BY <3>1, Extremes DEF Earn!Reference
    <3> QED
      BY <3>1, <3>2 DEF Room, Earn!OpenCap
  <2> QED
    BY <1>0, <2>1, <2>2
<1>8. EntryOf(t, c)'
  BY <1>0, <1>2, <1>5, <1>6, <1>7, RoomStays DEF EntryOf
<1>9. InHandOK'
  BY <1>2, <1>8 DEF InHandOK, Departing
<1> QED
  BY <1>1, <1>3, <1>4, <1>9 DEF AccountsInv

\* The steps that the thread takes, one after the other.
LEMMA CallGoes ==
  ASSUME AccountsInv, NEW step \in Arriving \cup Departing, Earn!Goes(step)
  PROVE  /\ aCall' \in CallTypes
         /\ aCall'.at = step /\ aCall'.t = aCall.t /\ aCall'.camp = aCall.camp
  BY DEF Earn!Goes, AccountsInv, AccountTypes, CallTypes

LEMMA FillPut ==
  ASSUME NEW fills \in [Books -> [Sides -> Fees \cup {None}]], NEW t \in Books, NEW s \in Sides, NEW fee \in Fees,
         NEW fills2, fills2 = [fills EXCEPT ![t][s] = fee]
  PROVE  /\ fills2 \in [Books -> [Sides -> Fees \cup {None}]] /\ fills2[t][s] = fee /\ fee # None
         /\ \A f \in Sides : f # s => fills2[t][f] = fills[t][f]
         /\ \A u \in Books : u # t => fills2[u] = fills[u]
  OBVIOUS

LEMMA FillEntryKeeps ==
  ASSUME AccountsInv, NEW fee \in Fees, Earn!FillEntry(fee)
  PROVE  AccountsInv'
<1>0. /\ UNCHANGED <<aProfile, aDay, aCrashes, aGross, aCharged, aRow, aCampaign, aLedger>>
      /\ aFills' = [aFills EXCEPT ![aCall.t]["entry"] = fee] /\ Earn!Goes("charge") /\ aCall.at = "fill"
  BY DEF Earn!FillEntry, Earn!At
<1>1. EntryOf(aCall.t, aCall.camp) /\ aCall.t \in Books
  BY <1>0 DEF AccountsInv, InHandOK, Arriving, EntryOf
<1> DEFINE t == aCall.t
<1>2. /\ aCall' \in CallTypes /\ aCall'.at = "charge" /\ aCall'.t = t /\ aCall'.camp = aCall.camp
  BY <1>0, CallGoes DEF Arriving
<1>3. /\ aFills' \in [Books -> [Sides -> Fees \cup {None}]]
      /\ aFills'[t]["entry"] # None /\ aFills'[t]["exit"] = aFills[t]["exit"]
      /\ \A u \in Books : u # t => aFills'[u] = aFills[u]
  <2>1. PICK u : u = t
    OBVIOUS
  <2>2. aFills' = [aFills EXCEPT ![u]["entry"] = fee] /\ u \in Books /\ "entry" \in Sides /\ "exit" \in Sides
    BY <1>0, <1>1, <2>1 DEF Sides
  <2>3. aFills \in [Books -> [Sides -> Fees \cup {None}]]
    BY DEF AccountsInv, AccountTypes
  <2>4. /\ aFills' \in [Books -> [Sides -> Fees \cup {None}]] /\ aFills'[u]["entry"] = fee /\ fee # None
        /\ \A f \in Sides : f # "entry" => aFills'[u][f] = aFills[u][f]
        /\ \A x \in Books : x # u => aFills'[x] = aFills[x]
    BY <2>2, <2>3, FillPut
  <2> QED
    BY <2>1, <2>2, <2>4
<1>4. aRow[t].state = "NONE"
  BY <1>1 DEF EntryOf
<1> HIDE DEF t
<1>5. AccountTypes'
  BY <1>0, <1>2, <1>3 DEF AccountsInv, AccountTypes
<1>6. \A u \in Books : RowFilled(u)'
  <2> SUFFICES ASSUME NEW u \in Books PROVE RowFilled(u)'
    OBVIOUS
  <2>1. RowFilled(u)
    BY DEF AccountsInv
  <2> QED
    BY <1>0, <1>3, <1>4, <2>1 DEF RowFilled
<1>7. \A u \in Books : Chargeable(u)'
  <2> SUFFICES ASSUME NEW u \in Books PROVE Chargeable(u)'
    OBVIOUS
  <2>1. Chargeable(u) /\ RowFilled(u)
    BY DEF AccountsInv
  <2> QED
    BY <1>0, <1>2, <1>3, <1>4, <2>1 DEF Chargeable, RowFilled
<1>8. \A c \in Books : CampaignKept(c)'
  BY <1>0, <1>3, <1>4, <1>5, CampaignsStay
<1>9. EntryOf(aCall.t, aCall.camp)'
  BY <1>0, <1>1, <1>2, <1>3, RoomStays DEF EntryOf, t
<1>10. InHandOK'
  BY <1>2, <1>9 DEF InHandOK, Departing
<1> QED
  BY <1>5, <1>6, <1>7, <1>8, <1>10 DEF AccountsInv

LEMMA ChargeEntryKeeps == AccountsInv /\ Earn!ChargeEntry => AccountsInv'
<1> SUFFICES ASSUME AccountsInv, Earn!ChargeEntry PROVE AccountsInv'
  OBVIOUS
<1>0. /\ UNCHANGED <<aProfile, aDay, aCrashes, aFills, aGross, aRow, aCampaign, aLedger>>
      /\ aCharged' = aCharged \cup {<<aCall.t, "entry">>} /\ Earn!Goes("campaign") /\ aCall.at = "charge"
  BY DEF Earn!ChargeEntry, Earn!At
<1>1. EntryOf(aCall.t, aCall.camp) /\ aCall.t \in Books
  BY <1>0 DEF AccountsInv, InHandOK, Arriving, EntryOf
<1>2. aCall' \in CallTypes /\ aCall'.at = "campaign" /\ aCall'.t = aCall.t /\ aCall'.camp = aCall.camp
  BY <1>0, CallGoes DEF Arriving
<1>3. AccountTypes'
  BY <1>0, <1>2 DEF AccountsInv, AccountTypes
<1>4. \A u \in Books : RowFilled(u)'
  BY <1>0, RowsStay
<1>5. \A u \in Books : Chargeable(u)'
  <2> SUFFICES ASSUME NEW u \in Books PROVE Chargeable(u)'
    OBVIOUS
  <2>1. Chargeable(u)
    BY DEF AccountsInv
  <2> QED
    BY <1>0, <1>2, <2>1 DEF Chargeable
<1>6. \A c \in Books : CampaignKept(c)'
  BY <1>0, <1>3, CampaignsStay
<1>7. EntryOf(aCall.t, aCall.camp)'
  BY <1>0, <1>1, <1>2, RoomStays DEF EntryOf
<1>8. InHandOK'
  BY <1>2, <1>7 DEF InHandOK, Departing
<1> QED
  BY <1>3, <1>4, <1>5, <1>6, <1>8 DEF AccountsInv

LEMMA OpenKeeps == AccountsInv /\ Earn!Begin => AccountsInv'
<1> SUFFICES ASSUME AccountsInv, Earn!Begin PROVE AccountsInv'
  OBVIOUS
<1>0. /\ UNCHANGED <<aProfile, aDay, aCrashes, aFills, aGross, aCharged, aRow>>
      /\ Earn!Goes("row") /\ aCall.at = "campaign"
      /\ aLedger' = [aLedger EXCEPT !.margin = aLedger.margin + Risk]
      /\ aCall.camp # None => aCampaign' = aCampaign
      /\ aCall.camp = None => aCampaign' = [aCampaign EXCEPT ![aCall.t] = [Earn!NoCampaign EXCEPT !.limit = Room]]
  BY DEF Earn!Begin, Earn!At, Room
<1>1. EntryOf(aCall.t, aCall.camp) /\ aCall.t \in Books
  BY <1>0 DEF AccountsInv, InHandOK, Arriving, EntryOf
<1>2. aCall' \in CallTypes /\ aCall'.at = "row" /\ aCall'.t = aCall.t /\ aCall'.camp = aCall.camp
  BY <1>0, CallGoes DEF Arriving
<1>3. PICK k : k = [Earn!NoCampaign EXCEPT !.limit = Room]
  OBVIOUS
<1>4. k \in CampaignTypes /\ k.closes = {} /\ k.estimated = 0 /\ k.limit = Room
  <2>1. Room \in Int
    <3>1. aLedger.allocated \in Int /\ aLedger.allocated + aLedger.today \in Int
      BY DEF AccountsInv, AccountTypes
    <3>2. Earn!Reference \in Int
      BY <3>1, Extremes DEF Earn!Reference
    <3> QED
      BY <3>1, <3>2 DEF Room, Earn!OpenCap
  <2> QED
    <3>1. PICK no : no = Earn!NoCampaign
      OBVIOUS
    <3>2. ASSUME NEW b \in BOOLEAN
          PROVE  [closes |-> {}, net |-> 0, estimated |-> 0, high |-> 0, drawdown |-> 0, limit |-> 0, blocked |-> b]
                   \in CampaignTypes
      BY DEF CampaignTypes
    <3>3. FALSE \in BOOLEAN
      OBVIOUS
    <3>4. no \in CampaignTypes
      BY <3>1, <3>2, <3>3, Zenon DEF Earn!NoCampaign
    <3>5. no.closes = {} /\ no.estimated = 0
      BY <3>1 DEF Earn!NoCampaign
    <3>6. k = [no EXCEPT !.limit = Room]
      BY <1>3, <3>1
    <3> QED
      BY <2>1, <3>4, <3>5, <3>6 DEF CampaignTypes
<1>5. AccountTypes'
  <2>1. aCampaign' \in [Books -> CampaignTypes]
    BY <1>0, <1>1, <1>3, <1>4 DEF AccountsInv, AccountTypes
  <2>2. aLedger' \in [allocated : Int, today : Int, margin : Nat]
    BY <1>0 DEF AccountsInv, AccountTypes
  <2> QED
    BY <1>0, <1>2, <2>1, <2>2 DEF AccountsInv, AccountTypes
<1>6. \A u \in Books : RowFilled(u)'
  BY <1>0, RowsStay
<1>7. \A u \in Books : Chargeable(u)'
  <2> SUFFICES ASSUME NEW u \in Books PROVE Chargeable(u)'
    OBVIOUS
  <2>1. Chargeable(u)
    BY DEF AccountsInv
  <2> QED
    BY <1>0, <1>2, <2>1 DEF Chargeable
<1>8. ASSUME NEW c \in Books PROVE CampaignKept(c)'
  <2>1. KeptOf(c, aRow, aCampaign[c], Worth, aProfile)
    BY DEF AccountsInv, CampaignKept
  <2>2. CASE aCall.camp # None \/ c # aCall.t
    <3>1. aCampaign'[c] = aCampaign[c]
      BY <1>0, <1>1, <2>2 DEF AccountsInv, AccountTypes
    <3> QED
      BY <1>0, <2>1, <3>1 DEF CampaignKept, Worth
  <2>3. CASE aCall.camp = None /\ c = aCall.t
    <3>1. aCampaign'[c] = k
      BY <1>0, <1>1, <1>3, <2>3 DEF AccountsInv, AccountTypes
    <3>2. Members(aRow, c) = {}
      BY <1>1, <2>1, <2>3 DEF EntryOf, KeptOf
    <3>3. Earn!SumOf(Worth, {}) = 0
      BY WorthIs, Sums DEF Worth, AccountsInv, AccountTypes
    <3>4. KeptOf(c, aRow, k, Worth, aProfile)
      BY <1>4, <3>2, <3>3 DEF KeptOf, Rest
    <3> QED
      BY <1>0, <3>1, <3>4 DEF CampaignKept, Worth
  <2> QED
    BY <2>2, <2>3
<1>9. ASSUME aCall.camp = None PROVE aCampaign'[aCall.t] = k
  BY <1>0, <1>1, <1>3, <1>9 DEF AccountsInv, AccountTypes
<1>10. EntryOf(aCall.t, aCall.camp)'
  BY <1>0, <1>1, <1>2, <1>4, <1>9 DEF EntryOf
<1>11. InHandOK'
  BY <1>2, <1>10 DEF InHandOK, Departing
<1> QED
  BY <1>5, <1>6, <1>7, <1>8, <1>11 DEF AccountsInv

\* The row that an entry writes, and the rows of its campaign.
Written(rows, t, camp) ==
  [u \in Books |-> IF u = t THEN [Earn!NoRow EXCEPT !.state = "OPEN", !.camp = camp]
                   ELSE IF rows[u].camp = camp THEN [rows[u] EXCEPT !.next = FALSE] ELSE rows[u]]

LEMMA WrittenRows ==
  ASSUME NEW rows \in [Books -> RowTypes], NEW t \in Books, NEW camp \in Books, NEW rows2,
         rows2 = Written(rows, t, camp)
  PROVE  /\ rows2 \in [Books -> RowTypes]
         /\ rows2[t].state = "OPEN" /\ rows2[t].camp = camp /\ ~rows2[t].next
         /\ \A u \in Books : u # t => rows2[u].state = rows[u].state /\ rows2[u].camp = rows[u].camp
         /\ \A u \in Books : rows2[u].camp = camp => ~rows2[u].next
         /\ \A u \in Books : rows2[u].next => rows[u].next
<1>1. PICK new : new = [Earn!NoRow EXCEPT !.state = "OPEN", !.camp = camp]
  OBVIOUS
<1>2. new \in RowTypes /\ new.state = "OPEN" /\ new.camp = camp /\ ~new.next
  BY <1>1 DEF Earn!NoRow, RowTypes
<1>3. ASSUME NEW r \in RowTypes, NEW q, q = [r EXCEPT !.next = FALSE]
      PROVE  q \in RowTypes /\ q.state = r.state /\ q.camp = r.camp /\ ~q.next
  <2>1. \A b \in BOOLEAN : [r EXCEPT !.next = b] \in RowTypes /\ [r EXCEPT !.next = b].next = b
    BY DEF RowTypes
  <2>2. FALSE \in BOOLEAN
    OBVIOUS
  <2>3. q \in RowTypes /\ ~q.next
    BY <1>3, <2>1, <2>2, Zenon
  <2> QED
    BY <1>3, <2>3 DEF RowTypes
<1>4. \A u \in Books : rows2[u] = IF u = t THEN new
                                  ELSE IF rows[u].camp = camp THEN [rows[u] EXCEPT !.next = FALSE] ELSE rows[u]
  BY <1>1 DEF Written
<1>5. DOMAIN rows2 = Books /\ rows2 = [u \in Books |-> rows2[u]]
  BY DEF Written
<1>6. ASSUME NEW u \in Books, u # t
      PROVE  /\ rows2[u] \in RowTypes /\ rows2[u].state = rows[u].state /\ rows2[u].camp = rows[u].camp
             /\ rows[u].camp = camp => ~rows2[u].next
             /\ rows2[u].next => rows[u].next
  <2>1. rows[u] \in RowTypes
    OBVIOUS
  <2>2. CASE rows[u].camp = camp
    <3>1. rows2[u] = [rows[u] EXCEPT !.next = FALSE]
      BY <1>4, <1>6, <2>2
    <3> QED
      BY <1>3, <2>1, <3>1
  <2>3. CASE rows[u].camp # camp
    BY <1>4, <1>6, <2>1, <2>3
  <2> QED
    BY <2>2, <2>3
<1>7. rows2[t] = new
  BY <1>4
<1>8. \A u \in Books : rows2[u] \in RowTypes
  BY <1>2, <1>6, <1>7
<1>9. rows2 \in [Books -> RowTypes]
  BY <1>5, <1>8
<1> QED
  BY <1>2, <1>6, <1>7, <1>9

LEMMA WriteRowKeeps == AccountsInv /\ Earn!WriteRow => AccountsInv'
<1> SUFFICES ASSUME AccountsInv, Earn!WriteRow PROVE AccountsInv'
  OBVIOUS
<1> DEFINE camp == IF aCall.camp = None THEN aCall.t ELSE aCall.camp
<1>0. /\ UNCHANGED <<aProfile, aDay, aCrashes, aFills, aGross, aCharged, aCampaign, aLedger>>
      /\ aRow' = [u \in Books |->
                    IF u = aCall.t THEN [Earn!NoRow EXCEPT !.state = "OPEN", !.camp = camp]
                    ELSE IF aRow[u].camp = camp THEN [aRow[u] EXCEPT !.next = FALSE] ELSE aRow[u]]
      /\ aCall' = Earn!Idle /\ aCall.at = "row"
  BY DEF Earn!WriteRow, Earn!At
<1>1. EntryOf(aCall.t, aCall.camp) /\ aCall.t \in Books
  BY <1>0 DEF AccountsInv, InHandOK, Arriving, EntryOf
<1>2. camp \in Books
  BY <1>1 DEF AccountsInv, AccountTypes, CallTypes
<1>3. PICK t : t = aCall.t
  OBVIOUS
<1>4. PICK c : c = camp
  OBVIOUS
<1>5. /\ aRow' \in [Books -> RowTypes]
      /\ aRow'[t].state = "OPEN" /\ aRow'[t].camp = c /\ ~aRow'[t].next
      /\ \A u \in Books : u # t => aRow'[u].state = aRow[u].state /\ aRow'[u].camp = aRow[u].camp
      /\ \A u \in Books : aRow'[u].camp = c => ~aRow'[u].next
      /\ \A u \in Books : aRow'[u].next => aRow[u].next
  <2>1. aRow \in [Books -> RowTypes]
    BY DEF AccountsInv, AccountTypes
  <2>2. aRow' = Written(aRow, t, c)
    BY <1>0, <1>3, <1>4 DEF Written
  <2>3. t \in Books /\ c \in Books
    BY <1>1, <1>2, <1>3, <1>4
  <2> QED
    BY <2>1, <2>2, <2>3, WrittenRows
<1>6. /\ t \in Books /\ c \in Books /\ aRow[t].state = "NONE" /\ aFills[t]["entry"] # None
      /\ aRow[t].camp = None /\ aFills[t]["exit"] = None
  <2>1. t \in Books /\ c \in Books /\ aRow[t].state = "NONE" /\ aFills[t]["entry"] # None
    BY <1>0, <1>1, <1>2, <1>3, <1>4 DEF EntryOf
  <2>2. RowFilled(t)
    BY <2>1 DEF AccountsInv
  <2> QED
    BY <2>1, <2>2 DEF RowFilled
<1>7. /\ Rest(aRow, c, aCampaign[c]) = {}
      /\ aProfile = "STRICT" => aCampaign[c].estimated - Risk >= -aCampaign[c].limit
  <2>1. KeptOf(c, aRow, aCampaign[c], Worth, aProfile)
    BY <1>6 DEF AccountsInv, CampaignKept
  <2>2. CASE aCall.camp = None
    <3>1. c = t /\ Members(aRow, c) = {} /\ aCampaign[c].closes = {}
      BY <1>0, <1>1, <1>3, <1>4, <1>6, <2>1, <2>2 DEF EntryOf, KeptOf
    <3>2. aCampaign[c].estimated = 0
      <4>1. Earn!SumOf(Worth, {}) = 0
        BY WorthIs, Sums DEF Worth, AccountsInv, AccountTypes
      <4> QED
        BY <2>1, <3>1, <4>1 DEF KeptOf
    <3>3. aProfile = "STRICT" => Risk <= aCampaign[c].limit
      BY <1>0, <1>1, <1>3, <2>2, <3>1 DEF EntryOf
    <3>4. aCampaign[c].limit \in Int
      BY <1>6 DEF AccountsInv, AccountTypes, CampaignTypes
    <3> QED
      BY <3>1, <3>2, <3>3, <3>4 DEF Rest
  <2>3. CASE aCall.camp # None
    <3>1. c = aCall.camp
      BY <1>4, <2>3
    <3> QED
      BY <1>1, <2>3, <3>1 DEF EntryOf
  <2> QED
    BY <2>2, <2>3
<1> HIDE DEF camp
<1>8. aCall' = Earn!Idle /\ aCall'.at = "idle" /\ aCall' \in CallTypes
  BY <1>0 DEF Earn!Idle, CallTypes
<1>9. AccountTypes'
  BY <1>0, <1>5, <1>8 DEF AccountsInv, AccountTypes
<1>10. \A u \in Books : RowFilled(u)'
  <2> SUFFICES ASSUME NEW u \in Books PROVE RowFilled(u)'
    OBVIOUS
  <2>1. RowFilled(u)
    BY DEF AccountsInv
  <2>2. CASE u = t
    BY <1>0, <1>5, <1>6, <2>2 DEF RowFilled
  <2>3. CASE u # t
    BY <1>0, <1>5, <2>1, <2>3 DEF RowFilled
  <2> QED
    BY <2>2, <2>3
<1>11. \A u \in Books : Chargeable(u)'
  <2> SUFFICES ASSUME NEW u \in Books PROVE Chargeable(u)'
    OBVIOUS
  <2>1. Chargeable(u)
    BY DEF AccountsInv
  <2> QED
    BY <1>0, <2>1 DEF Chargeable
<1>12. ASSUME NEW d \in Books PROVE CampaignKept(d)'
  <2>1. KeptOf(d, aRow, aCampaign[d], Worth, aProfile)
    BY DEF AccountsInv, CampaignKept
  <2>2. CASE d # c
    <3>1. LeavesAlone(d, aRow, aRow', Worth, Worth)
      <4>1. None \notin Books
        OBVIOUS
      <4> QED
        BY <1>5, <1>6, <2>2, <4>1 DEF LeavesAlone
    <3>2. /\ aRow \in [Books -> RowTypes] /\ aRow' \in [Books -> RowTypes] /\ aCampaign[d] \in CampaignTypes
          /\ Worth \in [Books -> Int]
      BY <1>9, WorthIs DEF AccountsInv, AccountTypes, Worth
    <3>3. KeptOf(d, aRow', aCampaign[d], Worth, aProfile)
      BY <2>1, <3>1, <3>2, KeptSame
    <3> QED
      BY <1>0, <3>3 DEF CampaignKept, Worth
  <2>3. CASE d = c
    <3>1. PICK k : k = aCampaign[c]
      OBVIOUS
    <3>2. KeptOf(c, aRow, k, Worth, aProfile) /\ Rest(aRow, c, k) = {}
      BY <1>7, <2>1, <2>3, <3>1
    <3>3. t \notin k.closes
      BY <1>6, <3>2 DEF KeptOf
    <3>4. Rest(aRow', c, k) = {t}
      <4>1. Members(aRow', c) = Members(aRow, c) \cup {t}
        BY <1>5, <1>6 DEF Members
      <4> QED
        BY <3>2, <3>3, <4>1 DEF Rest
    <3>5. \A u \in k.closes : aRow'[u].camp = c /\ aRow'[u].state = "CLOSED"
      <4>1. k.closes \in SUBSET Books
        BY <1>6, <3>1 DEF AccountsInv, AccountTypes, CampaignTypes
      <4> QED
        BY <1>5, <3>2, <3>3, <4>1 DEF KeptOf
    <3>6. \A u \in Members(aRow', c) : ~aRow'[u].next
      BY <1>5 DEF Members
    <3>7. aRow'[c].state # "NONE"
      <4>1. c = t \/ aRow[c].state # "NONE"
        BY <1>1, <1>3, <1>4 DEF EntryOf, camp
      <4> QED
        BY <1>5, <1>6, <4>1
    <3>8. k.estimated = Earn!SumOf(Worth, k.closes)
      BY <3>2 DEF KeptOf
    <3>9. aProfile = "STRICT" => k.estimated - Risk >= -k.limit
      BY <1>7, <3>1
    <3>10. KeptOf(c, aRow', k, Worth, aProfile)
      BY <3>4, <3>5, <3>6, <3>7, <3>8, <3>9 DEF KeptOf
    <3> QED
      BY <1>0, <2>3, <3>1, <3>10 DEF CampaignKept, Worth
  <2> QED
    BY <2>2, <2>3
<1>13. InHandOK'
  BY <1>8 DEF InHandOK, Arriving, Departing
<1> QED
  BY <1>9, <1>10, <1>11, <1>12, <1>13 DEF AccountsInv

\* The exit's steps before the close, with the fill or the ids that they write.
LEMMA FillExitKeeps ==
  ASSUME AccountsInv, NEW t \in Books, NEW result \in Results, NEW fee \in Fees, Earn!FillExit(t, result, fee)
  PROVE  AccountsInv'
<1>0. /\ UNCHANGED <<aProfile, aDay, aCrashes, aCharged, aRow, aCampaign, aLedger>>
      /\ aCall.at = "idle" /\ aRow[t].state = "OPEN"
      /\ aCall' = [at |-> "ids", t |-> t, camp |-> None]
      /\ aFills[t]["exit"] = None => /\ aFills' = [aFills EXCEPT ![t]["exit"] = fee]
                                     /\ aGross' = [aGross EXCEPT ![t] = result]
      /\ aFills[t]["exit"] # None => UNCHANGED <<aFills, aGross>>
  BY DEF Earn!FillExit, Earn!At
<1>1. aFills \in [Books -> [Sides -> Fees \cup {None}]] /\ aGross \in [Books -> Int] /\ RowFilled(t)
  BY DEF AccountsInv, AccountTypes
<1>2. /\ aFills' \in [Books -> [Sides -> Fees \cup {None}]]
      /\ aFills'[t]["exit"] # None /\ aFills'[t]["entry"] = aFills[t]["entry"]
      /\ \A u \in Books : u # t => aFills'[u] = aFills[u]
  <2>1. CASE aFills[t]["exit"] = None
    <3>1. aFills' = [aFills EXCEPT ![t]["exit"] = fee] /\ "exit" \in Sides /\ "entry" \in Sides
      BY <1>0, <2>1 DEF Sides
    <3>2. /\ aFills' \in [Books -> [Sides -> Fees \cup {None}]] /\ aFills'[t]["exit"] = fee /\ fee # None
          /\ \A f \in Sides : f # "exit" => aFills'[t][f] = aFills[t][f]
          /\ \A u \in Books : u # t => aFills'[u] = aFills[u]
      BY <1>1, <3>1, FillPut
    <3> QED
      BY <3>1, <3>2
  <2>2. CASE aFills[t]["exit"] # None
    BY <1>0, <1>1, <2>2
  <2> QED
    BY <2>1, <2>2
<1>3. /\ aGross' \in [Books -> Int] /\ aGross'[t] \in Results
      /\ \A u \in Books : u # t => aGross'[u] = aGross[u]
  <2>1. CASE aFills[t]["exit"] = None
    <3>1. aGross' = [aGross EXCEPT ![t] = result] /\ result \in Int
      BY <1>0, <2>1
    <3> QED
      BY <1>1, <3>1
  <2>2. CASE aFills[t]["exit"] # None
    BY <1>0, <1>1, <2>2 DEF RowFilled
  <2> QED
    BY <2>1, <2>2
<1>4. aCall' \in CallTypes /\ aCall'.at = "ids" /\ aCall'.t = t
  BY <1>0 DEF CallTypes, Departing
<1>5. AccountTypes'
  BY <1>0, <1>2, <1>3, <1>4 DEF AccountsInv, AccountTypes
<1>6. \A u \in Books : RowFilled(u)'
  <2> SUFFICES ASSUME NEW u \in Books PROVE RowFilled(u)'
    OBVIOUS
  <2>1. RowFilled(u)
    BY DEF AccountsInv
  <2>2. CASE u = t
    BY <1>0, <1>2, <1>3, <2>1, <2>2 DEF RowFilled
  <2>3. CASE u # t
    BY <1>0, <1>2, <1>3, <2>1, <2>3 DEF RowFilled
  <2> QED
    BY <2>2, <2>3
<1>7. \A u \in Books : Chargeable(u)'
  <2> SUFFICES ASSUME NEW u \in Books PROVE Chargeable(u)'
    OBVIOUS
  <2>1. Chargeable(u)
    BY DEF AccountsInv
  <2>2. CASE u = t
    BY <1>0, <1>2, <1>4, <2>1, <2>2 DEF Chargeable
  <2>3. CASE u # t
    BY <1>0, <1>2, <1>4, <2>1, <2>3 DEF Chargeable
  <2> QED
    BY <2>2, <2>3
<1>8. \A c \in Books : CampaignKept(c)'
  BY <1>0, <1>2, <1>3, <1>5, CampaignsStay
<1>9. aRow[t].camp \in Books /\ t \notin aCampaign[aRow[t].camp].closes
  <2>1. aRow[t].camp \in Books
    BY <1>0, <1>1 DEF RowFilled
  <2>2. KeptOf(aRow[t].camp, aRow, aCampaign[aRow[t].camp], Worth, aProfile)
    BY <2>1 DEF AccountsInv, CampaignKept
  <2> QED
    BY <1>0, <2>1, <2>2 DEF KeptOf
<1>10. InHandOK'
  <2>1. ExitOf(t)'
    BY <1>0, <1>2, <1>4, <1>9 DEF ExitOf
  <2> QED
    BY <1>4, <2>1 DEF InHandOK, Arriving
<1> QED
  BY <1>5, <1>6, <1>7, <1>8, <1>10 DEF AccountsInv

\* A row of another state, and one of another state and day.
LEMMA StatePut ==
  ASSUME NEW rows \in [Books -> RowTypes], NEW t \in Books, NEW state \in {"OPEN", "EXITING", "CLOSED"},
         NEW rows2, rows2 = [rows EXCEPT ![t].state = state]
  PROVE  /\ rows2 \in [Books -> RowTypes]
         /\ rows2[t].state = state /\ rows2[t].camp = rows[t].camp /\ rows2[t].next = rows[t].next
         /\ \A u \in Books : u # t => rows2[u] = rows[u]
  BY DEF RowTypes

LEMMA ClosePut ==
  ASSUME NEW rows \in [Books -> RowTypes], NEW t \in Books, NEW day \in Nat,
         NEW rows2, rows2 = [rows EXCEPT ![t].state = "CLOSED", ![t].day = day]
  PROVE  /\ rows2 \in [Books -> RowTypes]
         /\ rows2[t].state = "CLOSED" /\ rows2[t].camp = rows[t].camp /\ rows2[t].next = rows[t].next
         /\ \A u \in Books : u # t => rows2[u] = rows[u]
  BY DEF RowTypes

LEMMA WriteIdsKeeps == AccountsInv /\ Earn!WriteIds => AccountsInv'
<1> SUFFICES ASSUME AccountsInv, Earn!WriteIds PROVE AccountsInv'
  OBVIOUS
<1>0. /\ UNCHANGED <<aProfile, aDay, aCrashes, aFills, aGross, aCharged, aCampaign, aLedger>>
      /\ aRow' = [aRow EXCEPT ![aCall.t].state = "EXITING"] /\ Earn!Goes("chargeExit") /\ aCall.at = "ids"
  BY DEF Earn!WriteIds, Earn!At
<1>1. ExitOf(aCall.t) /\ aCall.t \in Books
  BY <1>0 DEF AccountsInv, InHandOK, Departing, ExitOf
<1>2. aCall' \in CallTypes /\ aCall'.at = "chargeExit" /\ aCall'.t = aCall.t
  BY <1>0, CallGoes DEF Departing
<1>3. PICK t : t = aCall.t
  OBVIOUS
<1>4. /\ aRow' \in [Books -> RowTypes]
      /\ aRow'[t].state = "EXITING" /\ aRow'[t].camp = aRow[t].camp /\ aRow'[t].next = aRow[t].next
      /\ \A u \in Books : u # t => aRow'[u] = aRow[u]
  <2>1. aRow \in [Books -> RowTypes] /\ t \in Books /\ aRow' = [aRow EXCEPT ![t].state = "EXITING"]
    BY <1>0, <1>1, <1>3 DEF AccountsInv, AccountTypes
  <2> QED
    BY <2>1, StatePut
<1>5. t \in Books /\ aRow[t].state = "OPEN" /\ aFills[t]["exit"] # None
  BY <1>0, <1>1, <1>3 DEF ExitOf
<1>6. AccountTypes'
  BY <1>0, <1>2, <1>4 DEF AccountsInv, AccountTypes
<1>7. \A u \in Books : RowFilled(u)'
  <2> SUFFICES ASSUME NEW u \in Books PROVE RowFilled(u)'
    OBVIOUS
  <2>1. RowFilled(u)
    BY DEF AccountsInv
  <2> QED
    BY <1>0, <1>4, <1>5, <2>1 DEF RowFilled
<1>8. \A u \in Books : Chargeable(u)'
  <2> SUFFICES ASSUME NEW u \in Books PROVE Chargeable(u)'
    OBVIOUS
  <2>1. Chargeable(u)
    BY DEF AccountsInv
  <2> QED
    BY <1>0, <1>2, <2>1 DEF Chargeable
<1>9. \A c \in Books : CampaignKept(c)'
  BY <1>0, <1>4, <1>5, <1>6, CampaignsStay
<1>10. InHandOK'
  <2>1. ExitOf(aCall.t)'
    BY <1>0, <1>1, <1>2, <1>3, <1>4 DEF ExitOf
  <2> QED
    BY <1>2, <2>1 DEF InHandOK, Arriving
<1> QED
  BY <1>6, <1>7, <1>8, <1>9, <1>10 DEF AccountsInv

LEMMA ChargeExitKeeps == AccountsInv /\ Earn!ChargeExit => AccountsInv'
<1> SUFFICES ASSUME AccountsInv, Earn!ChargeExit PROVE AccountsInv'
  OBVIOUS
<1>0. /\ UNCHANGED <<aProfile, aDay, aCrashes, aFills, aGross, aRow, aCampaign, aLedger>>
      /\ aCharged' = aCharged \cup {<<aCall.t, "exit">>} /\ Earn!Goes("close") /\ aCall.at = "chargeExit"
  BY DEF Earn!ChargeExit, Earn!At
<1>1. ExitOf(aCall.t) /\ aCall.t \in Books
  BY <1>0 DEF AccountsInv, InHandOK, Departing, ExitOf
<1>2. aCall' \in CallTypes /\ aCall'.at = "close" /\ aCall'.t = aCall.t
  BY <1>0, CallGoes DEF Departing
<1>3. AccountTypes'
  BY <1>0, <1>2 DEF AccountsInv, AccountTypes
<1>4. \A u \in Books : RowFilled(u)'
  BY <1>0, RowsStay
<1>5. \A u \in Books : Chargeable(u)'
  <2> SUFFICES ASSUME NEW u \in Books PROVE Chargeable(u)'
    OBVIOUS
  <2>1. Chargeable(u)
    BY DEF AccountsInv
  <2> QED
    BY <1>0, <1>2, <2>1 DEF Chargeable
<1>6. \A c \in Books : CampaignKept(c)'
  BY <1>0, <1>3, CampaignsStay
<1>7. ExitOf(aCall.t)'
  BY <1>0, <1>1, <1>2 DEF ExitOf
<1>8. InHandOK'
  BY <1>2, <1>7 DEF InHandOK, Arriving
<1> QED
  BY <1>3, <1>4, <1>5, <1>6, <1>8 DEF AccountsInv

\* A trade whose exit was filled is closed, in the session's step or when it is found.
LEMMA ClosedInKeeps ==
  ASSUME AccountsInv, NEW t \in Books, Earn!ClosedIn(t), aRow[t].state = "EXITING",
         UNCHANGED <<aProfile, aDay, aCrashes, aFills, aGross, aCharged, aCampaign>>,
         aCall' \in CallTypes, aCall'.t = aCall.t, aCall.at \in {"idle", "close"}
  PROVE  /\ AccountTypes'
         /\ \A u \in Books : RowFilled(u)' /\ Chargeable(u)'
         /\ \A c \in Books : CampaignKept(c)'
         /\ aRow'[t].state = "CLOSED" /\ aRow'[t].camp = aRow[t].camp
<1>0. /\ aRow' = [aRow EXCEPT ![t].state = "CLOSED", ![t].day = aDay]
      /\ aLedger' = [aLedger EXCEPT !.margin = Earn!Max({aLedger.margin - Risk, 0})]
  BY DEF Earn!ClosedIn
<1>1. /\ aRow' \in [Books -> RowTypes]
      /\ aRow'[t].state = "CLOSED" /\ aRow'[t].camp = aRow[t].camp /\ aRow'[t].next = aRow[t].next
      /\ \A u \in Books : u # t => aRow'[u] = aRow[u]
  <2>1. aRow \in [Books -> RowTypes] /\ aDay \in Nat
    BY DEF AccountsInv, AccountTypes
  <2> QED
    BY <1>0, <2>1 DEF RowTypes
<1>2. aLedger' \in [allocated : Int, today : Int, margin : Nat]
  <2>1. aLedger \in [allocated : Int, today : Int, margin : Nat] /\ aLedger.margin - Risk \in Int
    BY DEF AccountsInv, AccountTypes
  <2>2. PICK m : m = Earn!Max({aLedger.margin - Risk, 0})
    OBVIOUS
  <2>3. m \in Nat
    <3>1. PICK x \in Int, y \in Int : x = aLedger.margin - Risk /\ y = 0
      BY <2>1
    <3>2. Earn!Max({x, y}) \in Int /\ Earn!Max({x, y}) >= y
      BY Extremes
    <3> QED
      BY <2>2, <3>1, <3>2
  <2>4. aLedger' = [aLedger EXCEPT !.margin = m]
    BY <1>0, <2>2
  <2> QED
    BY <2>1, <2>3, <2>4
<1>3. AccountTypes'
  BY <1>1, <1>2 DEF AccountsInv, AccountTypes
<1>4. \A u \in Books : RowFilled(u)'
  <2> SUFFICES ASSUME NEW u \in Books PROVE RowFilled(u)'
    OBVIOUS
  <2>1. RowFilled(u)
    BY DEF AccountsInv
  <2> QED
    BY <1>1, <2>1 DEF RowFilled
<1>5. \A u \in Books : Chargeable(u)'
  <2> SUFFICES ASSUME NEW u \in Books PROVE Chargeable(u)'
    OBVIOUS
  <2>1. Chargeable(u)
    BY DEF AccountsInv
  <2> QED
    BY <2>1 DEF Chargeable
<1>6. \A c \in Books : CampaignKept(c)'
  BY <1>1, <1>3, CampaignsStay
<1> QED
  BY <1>1, <1>3, <1>4, <1>5, <1>6

LEMMA WriteClosedKeeps == AccountsInv /\ Earn!WriteClosed => AccountsInv'
<1> SUFFICES ASSUME AccountsInv, Earn!WriteClosed PROVE AccountsInv'
  OBVIOUS
<1>0. /\ UNCHANGED <<aProfile, aDay, aCrashes, aFills, aGross, aCharged, aCampaign>>
      /\ Earn!ClosedIn(aCall.t) /\ Earn!Goes("record") /\ aCall.at = "close"
  BY DEF Earn!WriteClosed, Earn!At
<1>1. ExitOf(aCall.t) /\ aCall.t \in Books
  BY <1>0 DEF AccountsInv, InHandOK, Departing, ExitOf
<1>2. aCall' \in CallTypes /\ aCall'.at = "record" /\ aCall'.t = aCall.t
  BY <1>0, CallGoes DEF Departing
<1>3. aRow[aCall.t].state = "EXITING"
  BY <1>0, <1>1 DEF ExitOf
<1>4. PICK t : t = aCall.t
  OBVIOUS
<1>5. /\ AccountTypes'
      /\ \A u \in Books : RowFilled(u)' /\ Chargeable(u)'
      /\ \A c \in Books : CampaignKept(c)'
      /\ aRow'[t].state = "CLOSED" /\ aRow'[t].camp = aRow[t].camp
  BY <1>0, <1>1, <1>2, <1>3, <1>4, ClosedInKeeps
<1>6. ExitOf(aCall.t)'
  BY <1>0, <1>1, <1>2, <1>4, <1>5 DEF ExitOf
<1>7. InHandOK'
  BY <1>2, <1>6 DEF InHandOK, Arriving
<1> QED
  BY <1>5, <1>7 DEF AccountsInv

LEMMA AdoptKeeps ==
  ASSUME AccountsInv, NEW t \in Books, Earn!Adopt(t)
  PROVE  AccountsInv'
<1>0. /\ UNCHANGED <<aProfile, aDay, aCrashes, aFills, aGross, aCharged, aCampaign, aCall>>
      /\ Earn!ClosedIn(t) /\ aCall.at = "idle" /\ aRow[t].state = "EXITING"
  BY DEF Earn!Adopt, Earn!At
<1>1. aCall' \in CallTypes /\ aCall'.at = "idle" /\ aCall'.t = aCall.t
  BY <1>0 DEF AccountsInv, AccountTypes
<1>2. /\ AccountTypes'
      /\ \A u \in Books : RowFilled(u)' /\ Chargeable(u)'
      /\ \A c \in Books : CampaignKept(c)'
  BY <1>0, <1>1, ClosedInKeeps
<1>3. InHandOK'
  BY <1>1 DEF InHandOK, Arriving, Departing
<1> QED
  BY <1>2, <1>3 DEF AccountsInv

\* What a close adds to the row of its campaign.
LEMMA RecordedIs ==
  ASSUME AccountTypes, NEW k \in CampaignTypes, NEW t \in Books, t \notin k.closes
  PROVE  /\ Earn!Recorded(k, t) \in CampaignTypes
         /\ Earn!Recorded(k, t).closes = k.closes \cup {t}
         /\ Earn!Recorded(k, t).estimated = k.estimated + Worth[t]
         /\ Earn!Recorded(k, t).limit = k.limit
<1> DEFINE net == k.net + aGross[t] - Earn!Confirmed(t)
           estimated == k.estimated + aGross[t] - Earn!Estimated(t)
<1>1. PICK n : n = net
  OBVIOUS
<1>2. PICK e : e = estimated
  OBVIOUS
<1>3. aGross[t] \in Int /\ Earn!Confirmed(t) \in Int /\ Earn!Estimated(t) \in Int /\ aGross[t] - Earn!Estimated(t) = Worth[t]
  BY EstimatedIs, ConfirmedIs DEF AccountTypes
<1>4. /\ k.closes \in SUBSET Books /\ k.net \in Int /\ k.estimated \in Int /\ k.high \in Int /\ k.drawdown \in Int
      /\ k.limit \in Int /\ k.blocked \in BOOLEAN
  BY DEF CampaignTypes
<1>5. n \in Int /\ e \in Int /\ e = k.estimated + Worth[t]
  BY <1>1, <1>2, <1>3, <1>4
<1>6. PICK h : h = Earn!Max({k.high, n})
  OBVIOUS
<1>7. h \in Int
  BY <1>4, <1>5, <1>6, Extremes
<1>8. PICK s : s = [k EXCEPT !.closes = k.closes \cup {t}, !.net = n, !.estimated = e, !.high = h]
  OBVIOUS
<1>9. /\ s \in CampaignTypes
      /\ s.closes = k.closes \cup {t} /\ s.estimated = e /\ s.limit = k.limit /\ s.net = n /\ s.high = h
      /\ s.blocked = k.blocked
  BY <1>4, <1>5, <1>7, <1>8 DEF CampaignTypes
<1>10. PICK d : d = Earn!Max({s.high - Earn!CampaignNet(s), 0})
  OBVIOUS
<1>11. d \in Int
  <2>1. Earn!CampaignNet(s) \in Int
    BY <1>5, <1>9, Extremes DEF Earn!CampaignNet
  <2>2. s.high - Earn!CampaignNet(s) \in Int
    BY <1>7, <1>9, <2>1
  <2>3. PICK x \in Int, y \in Int : x = s.high - Earn!CampaignNet(s) /\ y = 0
    BY <2>2
  <2>4. Earn!Max({x, y}) \in Int
    BY Extremes
  <2> QED
    BY <1>10, <2>3, <2>4
<1>12. PICK b \in BOOLEAN : b = (s.blocked \/ Earn!Breached(s, 0))
  BY Zenon
<1>13. Earn!Recorded(k, t) = [s EXCEPT !.drawdown = d, !.blocked = b]
  BY <1>1, <1>2, <1>6, <1>8, <1>10, <1>12, Zenon DEF Earn!Recorded
<1>14. PICK r : r = [s EXCEPT !.drawdown = d, !.blocked = b]
  OBVIOUS
<1>15. r \in CampaignTypes /\ r.closes = s.closes /\ r.estimated = s.estimated /\ r.limit = s.limit
  BY <1>9, <1>11, <1>12, <1>14 DEF CampaignTypes
<1> QED
  BY <1>5, <1>9, <1>13, <1>14, <1>15

LEMMA RecordCloseKeeps ==
  ASSUME AccountsInv, NEW rolls \in BOOLEAN, Earn!RecordClose(rolls)
  PROVE  AccountsInv'
<1>0. /\ UNCHANGED <<aProfile, aDay, aCrashes, aFills, aGross, aCharged, aLedger>>
      /\ aCampaign' = [aCampaign EXCEPT ![aRow[aCall.t].camp] = Earn!Recorded(aCampaign[aRow[aCall.t].camp], aCall.t)]
      /\ aRow' = [aRow EXCEPT ![aCall.t].next = rolls]
      /\ aCall' = Earn!Idle /\ aCall.at = "record"
  BY DEF Earn!RecordClose, Earn!At
<1>1. PICK t : t = aCall.t
  OBVIOUS
<1>2. /\ t \in Books /\ aFills[t]["exit"] # None /\ aRow[t].camp \in Books
      /\ t \notin aCampaign[aRow[t].camp].closes /\ aRow[t].state = "CLOSED"
  BY <1>0, <1>1 DEF AccountsInv, InHandOK, Departing, ExitOf
<1>3. PICK c \in Books : c = aRow[t].camp
  BY <1>2
<1>4. PICK k : k = aCampaign[c]
  OBVIOUS
<1>5. PICK r : r = Earn!Recorded(k, t)
  OBVIOUS
<1>6. /\ k \in CampaignTypes /\ r \in CampaignTypes
      /\ r.closes = k.closes \cup {t} /\ r.estimated = k.estimated + Worth[t] /\ r.limit = k.limit
  <2>1. k \in CampaignTypes /\ t \notin k.closes /\ AccountTypes
    BY <1>2, <1>3, <1>4 DEF AccountsInv, AccountTypes
  <2> QED
    BY <1>2, <1>5, <2>1, RecordedIs
<1>7. /\ aCampaign' \in [Books -> CampaignTypes] /\ aCampaign'[c] = r
      /\ \A d \in Books : d # c => aCampaign'[d] = aCampaign[d]
  <2>1. aCampaign' = [aCampaign EXCEPT ![c] = r] /\ aCampaign \in [Books -> CampaignTypes]
    BY <1>0, <1>1, <1>3, <1>4, <1>5 DEF AccountsInv, AccountTypes
  <2> QED
    BY <1>6, <2>1
<1>8. /\ aRow' \in [Books -> RowTypes]
      /\ aRow'[t].state = "CLOSED" /\ aRow'[t].camp = c /\ aRow'[t].next = rolls
      /\ \A u \in Books : u # t => aRow'[u] = aRow[u]
  <2>1. aRow' = [aRow EXCEPT ![t].next = rolls] /\ aRow \in [Books -> RowTypes]
    BY <1>0, <1>1 DEF AccountsInv, AccountTypes
  <2> QED
    BY <1>2, <1>3, <2>1 DEF RowTypes
<1>9. aCall'.at = "idle" /\ aCall' \in CallTypes
  BY <1>0 DEF Earn!Idle, CallTypes
<1>10. AccountTypes'
  BY <1>0, <1>7, <1>8, <1>9 DEF AccountsInv, AccountTypes
<1>11. \A u \in Books : RowFilled(u)'
  <2> SUFFICES ASSUME NEW u \in Books PROVE RowFilled(u)'
    OBVIOUS
  <2>1. RowFilled(u)
    BY DEF AccountsInv
  <2>2. CASE u = t
    BY <1>0, <1>2, <1>3, <1>8, <2>1, <2>2 DEF RowFilled
  <2>3. CASE u # t
    BY <1>0, <1>8, <2>1, <2>3 DEF RowFilled
  <2> QED
    BY <2>2, <2>3
<1>12. \A u \in Books : Chargeable(u)'
  <2> SUFFICES ASSUME NEW u \in Books PROVE Chargeable(u)'
    OBVIOUS
  <2>1. Chargeable(u)
    BY DEF AccountsInv
  <2> QED
    BY <1>0, <2>1 DEF Chargeable
<1>13. Worth \in [Books -> Int] /\ Worth[t] >= -Risk
  <2>1. aGross[t] \in Results
    BY <1>2 DEF AccountsInv, RowFilled
  <2> QED
    BY <1>2, <2>1, WorthIs DEF Worth, AccountsInv, AccountTypes
<1>14. ASSUME NEW d \in Books PROVE CampaignKept(d)'
  <2>1. KeptOf(d, aRow, aCampaign[d], Worth, aProfile)
    BY DEF AccountsInv, CampaignKept
  <2>2. CASE d # c
    <3>1. LeavesAlone(d, aRow, aRow', Worth, Worth)
      BY <1>2, <1>3, <1>8, <2>2 DEF LeavesAlone
    <3>2. /\ aRow \in [Books -> RowTypes] /\ aRow' \in [Books -> RowTypes] /\ aCampaign[d] \in CampaignTypes
      BY <1>10 DEF AccountsInv, AccountTypes
    <3>3. KeptOf(d, aRow', aCampaign[d], Worth, aProfile)
      BY <1>13, <2>1, <3>1, <3>2, KeptSame
    <3> QED
      BY <1>0, <1>7, <2>2, <3>3 DEF CampaignKept, Worth
  <2>3. CASE d = c
    <3>1. KeptOf(c, aRow, k, Worth, aProfile)
      BY <1>4, <2>1, <2>3
    <3>2. Rest(aRow, c, k) = {t} /\ t \in Members(aRow, c)
      <4>1. t \in Members(aRow, c) /\ t \in Rest(aRow, c, k)
        BY <1>2, <1>3, <1>4 DEF Members, Rest
      <4>2. \A u \in Rest(aRow, c, k) : u = t
        BY <3>1, <4>1 DEF KeptOf
      <4> QED
        BY <4>1, <4>2
    <3>3. Members(aRow', c) = Members(aRow, c)
      BY <1>2, <1>3, <1>8 DEF Members
    <3>4. Rest(aRow', c, r) = {}
      BY <1>6, <3>2, <3>3 DEF Rest
    <3>5. \A u \in r.closes : aRow'[u].camp = c /\ aRow'[u].state = "CLOSED"
      <4>1. k.closes \in SUBSET Books
        BY <1>6 DEF CampaignTypes
      <4>2. ASSUME NEW u \in k.closes PROVE aRow'[u].camp = c /\ aRow'[u].state = "CLOSED"
        BY <1>8, <3>1, <4>1 DEF KeptOf
      <4> QED
        BY <1>6, <1>8, <4>2
    <3>6. aRow'[c].state = "NONE" => Members(aRow', c) = {}
      BY <1>8, <3>1, <3>3 DEF KeptOf
    <3>7. r.estimated = Earn!SumOf(Worth, r.closes)
      <4>1. k.closes \in SUBSET Books /\ t \in Books \ k.closes
        BY <1>2, <1>3, <1>4, <1>6 DEF CampaignTypes
      <4>2. Earn!SumOf(Worth, k.closes \cup {t}) = Earn!SumOf(Worth, k.closes) + Worth[t]
        BY <1>13, <4>1, Sums
      <4>3. k.estimated = Earn!SumOf(Worth, k.closes)
        BY <3>1 DEF KeptOf
      <4> QED
        BY <1>6, <4>2, <4>3
    <3>8. aProfile = "STRICT" => r.estimated >= -r.limit
      <4>1. aProfile = "STRICT" => k.estimated - Risk >= -k.limit
        BY <3>1, <3>2 DEF KeptOf
      <4>2. k.estimated \in Int /\ k.limit \in Int /\ Worth[t] \in Int
        BY <1>2, <1>6, <1>13 DEF CampaignTypes
      <4> QED
        BY <1>6, <1>13, <4>1, <4>2
    <3>9. r.estimated \in Int
      BY <1>6 DEF CampaignTypes
    <3>10. KeptOf(c, aRow', r, Worth, aProfile)
      BY <3>4, <3>5, <3>6, <3>7, <3>8, <3>9 DEF KeptOf
    <3> QED
      BY <1>0, <1>7, <2>3, <3>10 DEF CampaignKept, Worth
  <2> QED
    BY <2>2, <2>3
<1>15. InHandOK'
  BY <1>9 DEF InHandOK, Arriving, Departing
<1> QED
  BY <1>10, <1>11, <1>12, <1>14, <1>15 DEF AccountsInv

\* A start rebuilds the ledger and fills in the charges.
LEMMA StartedKeeps ==
  ASSUME AccountsInv, NEW today \in Nat, Earn!Started(today), aDay' = today
  PROVE  AccountsInv'
<1>0. /\ UNCHANGED <<aProfile, aFills, aGross, aRow, aCampaign>>
      /\ aLedger' = Earn!Rebuilt(today)
      /\ aCharged' = {x \in Books \X {"entry", "exit"} : x[2] \in Earn!Filled(x[1])}
      /\ aCall' = Earn!Idle
  BY DEF Earn!Started
<1>1. aCall'.at = "idle" /\ aCall' \in CallTypes
  BY <1>0 DEF Earn!Idle, CallTypes
<1>2. aLedger' \in [allocated : Int, today : Int, margin : Nat]
  BY <1>0, RebuiltIs DEF AccountsInv
<1>3. AccountTypes'
  BY <1>0, <1>1, <1>2 DEF AccountsInv, AccountTypes
<1>4. \A u \in Books : RowFilled(u)'
  BY <1>0, RowsStay
<1>5. \A u \in Books : Chargeable(u)'
  <2> SUFFICES ASSUME NEW u \in Books PROVE Chargeable(u)'
    OBVIOUS
  <2>1. \A f \in {"entry", "exit"} : aFills[u][f] # None => <<u, f>> \in aCharged'
    BY <1>0 DEF Earn!Filled
  <2> QED
    BY <1>0, <2>1 DEF Chargeable
<1>6. \A c \in Books : CampaignKept(c)'
  BY <1>0, <1>3, CampaignsStay
<1>7. InHandOK'
  BY <1>1 DEF InHandOK, Arriving, Departing
<1> QED
  BY <1>3, <1>4, <1>5, <1>6, <1>7 DEF AccountsInv

LEMMA AccountsStart == Start => AccountsInv
<1> SUFFICES ASSUME Earn!Init PROVE AccountsInv
  BY DEF Start
<1>1. /\ aDay = 1
      /\ aFills = [t \in Books |-> [f \in {"entry", "exit"} |-> None]] /\ aGross = [t \in Books |-> 0]
      /\ aRow = [t \in Books |-> Earn!NoRow] /\ aCampaign = [t \in Books |-> Earn!NoCampaign]
      /\ aLedger = [allocated |-> Funds, today |-> 0, margin |-> 0] /\ aCall = Earn!Idle
  BY DEF Earn!Init
<1>2. PICK blank : blank = Earn!NoRow
  OBVIOUS
<1>3. blank \in RowTypes /\ blank.state = "NONE" /\ blank.camp = None /\ ~blank.next
  <2>1. ASSUME NEW b \in BOOLEAN
        PROVE  [state |-> "NONE", camp |-> None, day |-> 0, next |-> b] \in RowTypes
    BY DEF RowTypes
  <2>2. FALSE \in BOOLEAN
    OBVIOUS
  <2>3. blank \in RowTypes
    BY <1>2, <2>1, <2>2, Zenon DEF Earn!NoRow
  <2> QED
    BY <1>2, <2>3 DEF Earn!NoRow
<1>4. PICK no : no = Earn!NoCampaign
  OBVIOUS
<1>5. no \in CampaignTypes /\ no.closes = {} /\ no.estimated = 0
  <2>1. ASSUME NEW b \in BOOLEAN
        PROVE  [closes |-> {}, net |-> 0, estimated |-> 0, high |-> 0, drawdown |-> 0, limit |-> 0, blocked |-> b]
                 \in CampaignTypes
    BY DEF CampaignTypes
  <2>2. FALSE \in BOOLEAN
    OBVIOUS
  <2>3. no \in CampaignTypes
    BY <1>4, <2>1, <2>2, Zenon DEF Earn!NoCampaign
  <2> QED
    BY <1>4, <2>3 DEF Earn!NoCampaign
<1>6. aCall.at = "idle" /\ aCall \in CallTypes
  BY <1>1 DEF Earn!Idle, CallTypes
<1>7. aRow = [t \in Books |-> blank] /\ aCampaign = [t \in Books |-> no]
  BY <1>1, <1>2, <1>4
<1>8. AccountTypes
  BY <1>1, <1>3, <1>5, <1>6, <1>7 DEF AccountTypes, Sides
<1>9. \A t \in Books : RowFilled(t) /\ Chargeable(t)
  BY <1>1, <1>3, <1>7 DEF RowFilled, Chargeable
<1>10. ASSUME NEW c \in Books PROVE CampaignKept(c)
  <2>1. aCampaign[c] = no /\ Members(aRow, c) = {}
    BY <1>3, <1>7 DEF Members
  <2>2. Earn!SumOf(Worth, {}) = 0
    BY <1>8, WorthIs, Sums DEF Worth, AccountTypes
  <2> QED
    BY <1>5, <2>1, <2>2 DEF CampaignKept, KeptOf, Rest
<1>11. InHandOK
  BY <1>6 DEF InHandOK, Arriving, Departing
<1> QED
  BY <1>8, <1>9, <1>10, <1>11 DEF AccountsInv

LEMMA AccountsStep == AccountsInv /\ [Crashing \/ Steady \/ Days \/ Fills \/ Earnings]_all => AccountsInv'
<1> SUFFICES ASSUME AccountsInv, [Crashing \/ Steady \/ Days \/ Fills \/ Earnings]_all PROVE AccountsInv'
  OBVIOUS
<1>1. CASE UNCHANGED accounts
  <2>1. UNCHANGED <<aProfile, aDay, aFills, aGross, aCharged, aRow, aCampaign, aLedger, aCall>>
    BY <1>1 DEF accounts
  <2>2. AccountTypes'
    BY <2>1 DEF AccountsInv, AccountTypes
  <2>3. \A u \in Books : RowFilled(u)' /\ Chargeable(u)'
    BY <2>1 DEF AccountsInv, RowFilled, Chargeable
  <2>4. \A c \in Books : CampaignKept(c)'
    BY <2>1, <2>2, CampaignsStay
  <2>5. InHandOK'
    BY <2>1, RoomStays DEF AccountsInv, InHandOK, EntryOf, ExitOf
  <2> QED
    BY <2>2, <2>3, <2>4, <2>5 DEF AccountsInv
<1>2. ASSUME Earn!Next PROVE AccountsInv'
  <2>1. CASE \E t \in Books : Earn!Enter(t) \/ Earn!Adopt(t)
    <3>1. PICK t \in Books : Earn!Enter(t) \/ Earn!Adopt(t)
      BY <2>1
    <3>2. Earn!Enter(t) => Earn!Approve(t, None)
      BY DEF Earn!Enter
    <3> QED
      BY <3>1, <3>2, ApproveKeeps, AdoptKeeps
  <2>2. CASE \E t, u \in Books : Earn!Replace(t, u)
    <3>1. PICK t \in Books, u \in Books : Earn!Replace(t, u)
      BY <2>2
    <3>2. aRow[t].state = "CLOSED" /\ aRow[t].next /\ Earn!Approve(u, aRow[t].camp)
      BY <3>1 DEF Earn!Replace
    <3>3. aRow[t].camp \in Books \cup {None}
      BY DEF AccountsInv, AccountTypes, RowTypes
    <3>4. PICK c \in Books \cup {None} : c = aRow[t].camp
      BY <3>3
    <3> QED
      BY <3>2, <3>4, ApproveKeeps
  <2>3. CASE \E fee \in Fees : Earn!FillEntry(fee)
    BY <2>3, FillEntryKeeps
  <2>4. CASE \E t \in Books, result \in Results, fee \in Fees : Earn!FillExit(t, result, fee)
    BY <2>4, FillExitKeeps
  <2>5. CASE \E rolls \in BOOLEAN : Earn!RecordClose(rolls)
    BY <2>5, RecordCloseKeeps
  <2>6. CASE Earn!Crash
    <3>1. Earn!Started(aDay) /\ aDay' = aDay /\ aDay \in Nat
      BY <2>6 DEF Earn!Crash, AccountsInv, AccountTypes
    <3> QED
      BY <3>1, StartedKeeps
  <2>7. CASE Earn!NextDay
    <3>1. PICK today \in Nat : today = aDay + 1
      BY DEF AccountsInv, AccountTypes
    <3>2. Earn!Started(today) /\ aDay' = today
      BY <2>7, <3>1 DEF Earn!NextDay
    <3> QED
      BY <3>2, StartedKeeps
  <2> QED
    BY <1>2, <2>1, <2>2, <2>3, <2>4, <2>5, <2>6, <2>7, ChargeEntryKeeps, OpenKeeps, WriteRowKeeps, WriteIdsKeeps,
       ChargeExitKeeps, WriteClosedKeeps DEF Earn!Next
<1> QED
  BY <1>1, <1>2 DEF Crashing, Steady, Days, Fills, Earnings, all

LEMMA AccountsSafe == TradeLife => []AccountsInv
  BY AccountsStart, AccountsStep, PTL DEF TradeLife

\* Every fill of a closed trade has its charge row, whatever crash cut the writes and
\* however the close was found: the order of the writes and the backfill see to it
\* (record_fill_charge, backfill_fill_charges).
THEOREM ClosesAreCharged == TradeLife => []ClosedIsCharged
<1>1. AccountsInv => ClosedIsCharged
  <2> SUFFICES ASSUME AccountsInv, NEW t \in Earn!Closed, NEW f \in Earn!Filled(t) PROVE <<t, f>> \in aCharged
    BY DEF ClosedIsCharged, Earn!ClosedIsCharged
  <2>1. t \in Books /\ aRow[t].state = "CLOSED" /\ f \in {"entry", "exit"} /\ aFills[t][f] # None
    BY DEF Earn!Closed, Earn!Filled
  <2>2. Chargeable(t) /\ InHandOK
    BY <2>1 DEF AccountsInv
  <2>3. t = aCall.t => aCall.at \notin {"charge", "ids", "chargeExit"}
    BY <2>1, <2>2 DEF InHandOK, Arriving, Departing, EntryOf, ExitOf
  <2> QED
    BY <2>1, <2>2, <2>3 DEF Chargeable
<1> QED
  BY <1>1, AccountsSafe, PTL

\* Under STRICT the closed trades of a campaign have not lost more than its limit
\* together, with the costs that were estimated for them, however many replacements,
\* crashes and adopted exits there were (record_close, evaluate_campaign_limit).
THEOREM CampaignsKeepLimit == TradeLife => []CampaignBounded
<1>1. AccountsInv => CampaignBounded
  <2> SUFFICES ASSUME AccountsInv, aProfile = "STRICT", NEW c \in Books, Earn!Of(c) # {}
               PROVE  Earn!SumOf([t \in Books |-> aGross[t] - Earn!Estimated(t)], Earn!Of(c)) >= -aCampaign[c].limit
    BY DEF CampaignBounded, Earn!CampaignBounded
  <2>1. [t \in Books |-> aGross[t] - Earn!Estimated(t)] = Worth
    <3>1. \A t \in Books : aGross[t] - Earn!Estimated(t) = Worth[t]
      BY EstimatedIs DEF AccountsInv
    <3>2. Worth = [t \in Books |-> Worth[t]]
      BY DEF Worth, WorthOf
    <3> QED
      BY <3>1, <3>2
  <2>2. PICK k \in CampaignTypes : k = aCampaign[c]
    BY DEF AccountsInv, AccountTypes
  <2>3. KeptOf(c, aRow, k, Worth, aProfile)
    BY <2>2 DEF AccountsInv, CampaignKept
  <2>4. /\ k.closes \in SUBSET Books /\ k.limit \in Int /\ k.estimated \in Int
        /\ k.estimated = Earn!SumOf(Worth, k.closes) /\ Worth \in [Books -> Int]
    BY <2>3, WorthIs DEF KeptOf, CampaignTypes, Worth, AccountsInv, AccountTypes
  <2>5. Earn!Of(c) = {t \in Books : aRow[t].state = "CLOSED" /\ aRow[t].camp = c} /\ Members(aRow, c) # {}
    BY DEF Earn!Of, Earn!Closed, Members
  <2>6. k.closes \subseteq Earn!Of(c)
    BY <2>3, <2>4, <2>5 DEF KeptOf
  <2>7. CASE Earn!Of(c) = k.closes
    <3>1. k.estimated >= -k.limit
      BY <2>3, <2>4, <2>5 DEF KeptOf
    <3> QED
      BY <2>1, <2>2, <2>4, <2>7, <3>1
  <2>8. CASE Earn!Of(c) # k.closes
    <3>1. PICK u \in Earn!Of(c) : u \notin k.closes
      BY <2>6, <2>8
    <3>2. Earn!Of(c) = k.closes \cup {u} /\ u \in Books \ k.closes /\ Rest(aRow, c, k) # {}
      <4>1. \A t \in Earn!Of(c) : t \notin k.closes => t \in Rest(aRow, c, k)
        BY <2>5 DEF Rest, Members
      <4>2. \A t \in Earn!Of(c) : t \notin k.closes => t = u
        BY <2>3, <3>1, <4>1 DEF KeptOf
      <4> QED
        BY <2>5, <2>6, <3>1, <4>1, <4>2
    <3>3. k.estimated - Risk >= -k.limit
      BY <2>3, <2>5, <3>2 DEF KeptOf
    <3>4. Earn!SumOf(Worth, k.closes \cup {u}) = k.estimated + Worth[u]
      BY <2>4, <3>2, Sums
    <3>5. Worth[u] >= -Risk /\ Worth[u] \in Int
      <4>1. u \in Books /\ aRow[u].state = "CLOSED" /\ RowFilled(u)
        BY <2>5, <3>1 DEF AccountsInv
      <4>2. aGross[u] \in Results
        BY <4>1 DEF RowFilled
      <4> QED
        BY <2>4, <4>1, <4>2, WorthIs DEF Worth, AccountsInv, AccountTypes
    <3>6. k.estimated + Worth[u] >= -k.limit
      BY <2>4, <3>3, <3>5
    <3> QED
      BY <2>1, <2>2, <3>2, <3>4, <3>6
  <2> QED
    BY <2>7, <2>8
<1> QED
  BY <1>1, AccountsSafe, PTL

-----------------------------------------------------------------------------
\* The bounds of a structure's exit.

HIDE AccountsAssumption

LEMMA ExitLeastIs ==
  ASSUME NEW S \in SUBSET Int, NEW m \in S, \A n \in S : m <= n
  PROVE  Exit!Least(S) = m
<1>1. \E x \in S : \A n \in S : x <= n
  OBVIOUS
<1>2. Exit!Least(S) \in S /\ \A n \in S : Exit!Least(S) <= n
  BY <1>1 DEF Exit!Least
<1>3. Exit!Least(S) \in Int /\ m \in Int
  BY <1>2
<1>4. QED
  BY <1>2, <1>3

LEMMA ExitGreatestIs ==
  ASSUME NEW S \in SUBSET Int, NEW m \in S, \A n \in S : n <= m
  PROVE  Exit!Greatest(S) = m
<1>1. \E x \in S : \A n \in S : n <= x
  OBVIOUS
<1>2. Exit!Greatest(S) \in S /\ \A n \in S : n <= Exit!Greatest(S)
  BY <1>1 DEF Exit!Greatest
<1>3. Exit!Greatest(S) \in Int /\ m \in Int
  BY <1>2
<1>4. QED
  BY <1>2, <1>3

LEMMA LeastOfTwo ==
  ASSUME NEW x \in Int, NEW y \in Int
  PROVE  /\ Exit!Least({x, y}) = IF x <= y THEN x ELSE y
         /\ Exit!Least({x}) = x
<1>1. CASE x <= y
  <2>1. \A n \in {x, y} : x <= n
    BY <1>1
  <2>2. {x, y} \in SUBSET Int /\ {x} \in SUBSET Int /\ \A n \in {x} : x <= n
    OBVIOUS
  <2>3. QED
    BY <1>1, <2>1, <2>2, ExitLeastIs
<1>2. CASE ~(x <= y)
  <2>1. \A n \in {x, y} : y <= n
    BY <1>2
  <2>2. {x, y} \in SUBSET Int /\ {x} \in SUBSET Int /\ \A n \in {x} : x <= n
    OBVIOUS
  <2>3. QED
    BY <1>2, <2>1, <2>2, ExitLeastIs
<1>3. QED
  BY <1>1, <1>2

LEMMA LeastEither ==
  \A x, y \in Int : /\ Exit!Least({x, y}) \in Int /\ Exit!Least({x, y}) <= x /\ Exit!Least({x, y}) <= y
                    /\ Exit!Least({x, y}) = x \/ Exit!Least({x, y}) = y
<1> TAKE x, y \in Int
<1>1. Exit!Least({x, y}) = IF x <= y THEN x ELSE y
  BY LeastOfTwo
<1>2. CASE x <= y
  <2>1. Exit!Least({x, y}) = x
    BY <1>1, <1>2
  <2>2. QED
    BY <1>2, <2>1
<1>3. CASE ~(x <= y)
  <2>1. Exit!Least({x, y}) = y
    BY <1>1, <1>3
  <2>2. QED
    BY <1>3, <2>1
<1>4. QED
  BY <1>2, <1>3

LEMMA LeastBelow ==
  ASSUME NEW x \in Int, NEW y \in Int, NEW z, z = Exit!Least({x, y})
  PROVE  z \in Int /\ z <= x /\ z <= y /\ (z = x \/ z = y)
  BY LeastEither

\* Legs as they were filled: whole prices.
FilledLegs(p) ==
  /\ Len(p) \in 1..4 /\ DOMAIN p = 1..Len(p)
  /\ \A i \in DOMAIN p : /\ p[i].kind \in {"CALL", "PUT"} /\ p[i].side \in {"BUY", "SELL"}
                         /\ p[i].strike \in Nat /\ p[i].premium \in Nat /\ p[i].qty \in Nat \ {0}

\* A vertical that was filled for less than its width.
Narrow(p, b, s, width) ==
  /\ FilledLegs(p) /\ Len(p) = 2 /\ b \in {1, 2} /\ s \in {1, 2} /\ b # s
  /\ p[b].side = "BUY" /\ p[s].side = "SELL" /\ p[b].kind = p[s].kind /\ p[b].qty = p[s].qty
  /\ width \in Nat \ {0} /\ (width = p[b].strike - p[s].strike \/ width = p[s].strike - p[b].strike)
  /\ p[b].premium - p[s].premium < width /\ p[s].premium - p[b].premium < width

\* Whether the option that is bought is the dearer one.
Buying(p, b, s) == IF p[b].kind = "CALL" THEN p[b].strike < p[s].strike ELSE p[s].strike < p[b].strike

\* An outcome at which the policy of the whole asks for an exit.
Crosses(pnl, bounds) == 100 * pnl <= bounds.stop \/ 100 * pnl >= bounds.target

LEMMA Scales ==
  ASSUME NEW q \in Nat \ {0}
  PROVE  \A x, y \in Int : /\ q * x \in Int /\ q * (x - y) = q * x - q * y /\ (-q) * x = -(q * x)
                           /\ (x < y => q * x < q * y) /\ (x <= y => q * x <= q * y)
<1>1. \A x, y \in Int : q * x \in Int /\ q * (x - y) = q * x - q * y /\ (-q) * x = -(q * x)
  OBVIOUS
<1>2. \A z \in Int : z > 0 => q * z > 0
  OBVIOUS
<1>3. ASSUME NEW x \in Int, NEW y \in Int, x < y PROVE q * x < q * y
  <2>1. q * (y - x) > 0
    BY <1>2, <1>3
  <2>2. q * (y - x) = q * y - q * x /\ q * x \in Int /\ q * y \in Int
    BY <1>1
  <2>3. QED
    BY <2>1, <2>2
<1>4. ASSUME NEW x \in Int, NEW y \in Int, x <= y PROVE q * x <= q * y
  <2>1. CASE x = y
    BY <1>1, <2>1
  <2>2. CASE x < y
    BY <1>1, <1>3, <2>2
  <2>3. QED
    BY <1>4, <2>1, <2>2
<1>5. QED
  BY <1>1, <1>3, <1>4

\* What two legs cost, and make.
LEMMA TwoMake ==
  ASSUME NEW p, FilledLegs(p), Len(p) = 2, NEW b \in {1, 2}, NEW s \in {1, 2}, b # s, NEW spot \in Nat
  PROVE  LET x == Exit!Signed(p[b])
             y == Exit!Signed(p[s])
         IN  /\ Exit!Pnl(spot, p) = x * (Exit!Intrinsic(spot, p[b]) - p[b].premium)
                                      + y * (Exit!Intrinsic(spot, p[s]) - p[s].premium)
             /\ Exit!Net(p) = x * p[b].premium + y * p[s].premium
             /\ x \in Int /\ y \in Int
             /\ Exit!Intrinsic(spot, p[b]) \in Nat /\ Exit!Intrinsic(spot, p[s]) \in Nat
<1> DEFINE f == [i \in DOMAIN p |-> Exit!LegPnl(spot, p[i])]
           g == [i \in DOMAIN p |-> Exit!Signed(p[i]) * p[i].premium]
<1>1. DOMAIN p = {1, 2}
  BY DEF FilledLegs
<1>2. \A i \in {1, 2} : Exit!Signed(p[i]) \in Int /\ Exit!Intrinsic(spot, p[i]) \in Nat /\ p[i].premium \in Nat
  BY <1>1 DEF FilledLegs, Exit!Signed, Exit!Intrinsic, Exit!Above
<1>3. Exit!Pnl(spot, p) = Exit!At(f, 1) + Exit!At(f, 2) + Exit!At(f, 3) + Exit!At(f, 4)
  BY DEF Exit!Pnl, Exit!Sum
<1>4. Exit!Net(p) = Exit!At(g, 1) + Exit!At(g, 2) + Exit!At(g, 3) + Exit!At(g, 4)
  BY DEF Exit!Net, Exit!Sum
<1>5. /\ Exit!At(f, 1) = Exit!Signed(p[1]) * (Exit!Intrinsic(spot, p[1]) - p[1].premium)
      /\ Exit!At(f, 2) = Exit!Signed(p[2]) * (Exit!Intrinsic(spot, p[2]) - p[2].premium)
      /\ Exit!At(f, 3) = 0 /\ Exit!At(f, 4) = 0
  BY <1>1 DEF Exit!At, Exit!LegPnl
<1>6. /\ Exit!At(g, 1) = Exit!Signed(p[1]) * p[1].premium /\ Exit!At(g, 2) = Exit!Signed(p[2]) * p[2].premium
      /\ Exit!At(g, 3) = 0 /\ Exit!At(g, 4) = 0
  BY <1>1 DEF Exit!At
<1> HIDE DEF f, g
<1> DEFINE v(i) == Exit!Signed(p[i]) * (Exit!Intrinsic(spot, p[i]) - p[i].premium)
           w(i) == Exit!Signed(p[i]) * p[i].premium
<1>7. v(1) \in Int /\ v(2) \in Int /\ w(1) \in Int /\ w(2) \in Int
  BY <1>2
<1>8. Exit!Pnl(spot, p) = v(1) + v(2) /\ Exit!Net(p) = w(1) + w(2)
  BY <1>3, <1>4, <1>5, <1>6, <1>7
<1>9. (b = 1 /\ s = 2) \/ (b = 2 /\ s = 1)
  OBVIOUS
<1>10. Exit!Pnl(spot, p) = v(b) + v(s) /\ Exit!Net(p) = w(b) + w(s)
  <2> HIDE DEF v, w
  <2>1. QED
    BY <1>7, <1>8, <1>9
<1>11. QED
  BY <1>2, <1>10

\* What a vertical makes, from what it cost.
LEMMA NarrowMakes ==
  ASSUME NEW p, NEW b, NEW s, NEW width, Narrow(p, b, s, width), NEW q, q = p[b].qty,
         NEW m, m = p[b].premium - p[s].premium
  PROVE  /\ q \in Nat \ {0} /\ m \in Int /\ -width < m /\ m < width /\ Exit!Net(p) = q * m
         /\ \A spot \in Nat : LET g == Exit!Intrinsic(spot, p[b]) - Exit!Intrinsic(spot, p[s]) IN
              /\ g \in Int /\ Exit!Pnl(spot, p) = q * (g - m)
              /\ IF Buying(p, b, s) THEN 0 <= g /\ g <= width ELSE -width <= g /\ g <= 0
         /\ Exit!Pnl(p[b].strike, p) = IF Buying(p, b, s) THEN q * (0 - m) ELSE q * ((0 - width) - m)
         /\ Exit!Pnl(p[s].strike, p) = IF Buying(p, b, s) THEN q * (width - m) ELSE q * (0 - m)
<1> USE DEF Narrow
<1>1. b \in DOMAIN p /\ s \in DOMAIN p
  BY DEF FilledLegs
<1>2. /\ q \in Nat \ {0} /\ p[b].strike \in Nat /\ p[s].strike \in Nat /\ p[b].premium \in Nat
      /\ p[s].premium \in Nat /\ p[b].kind \in {"CALL", "PUT"}
  BY <1>1 DEF FilledLegs
<1>3. m \in Int /\ -width < m /\ m < width
  BY <1>2
<1>4. Exit!Signed(p[b]) = q /\ Exit!Signed(p[s]) = -q
  BY DEF Exit!Signed
<1>5. Exit!Net(p) = q * m
  <2>1. Exit!Net(p) = q * p[b].premium + (-q) * p[s].premium
    BY <1>4, TwoMake, 0 \in Nat
  <2>2. QED
    BY <1>2, <2>1, Scales
<1>6. ASSUME NEW spot \in Nat
      PROVE  LET g == Exit!Intrinsic(spot, p[b]) - Exit!Intrinsic(spot, p[s]) IN
             /\ g \in Int /\ Exit!Pnl(spot, p) = q * (g - m)
             /\ IF Buying(p, b, s) THEN 0 <= g /\ g <= width ELSE -width <= g /\ g <= 0
  <2> DEFINE x == Exit!Intrinsic(spot, p[b])
             y == Exit!Intrinsic(spot, p[s])
  <2>1. /\ x \in Nat /\ y \in Nat
        /\ Exit!Pnl(spot, p) = q * (x - p[b].premium) + (-q) * (y - p[s].premium)
    BY <1>4, TwoMake
  <2>2. IF Buying(p, b, s) THEN 0 <= x - y /\ x - y <= width ELSE -width <= x - y /\ x - y <= 0
    <3>1. CASE p[b].kind = "CALL"
      BY <1>2, <3>1 DEF Exit!Intrinsic, Exit!Above, Buying
    <3>2. CASE p[b].kind = "PUT"
      BY <1>2, <3>2 DEF Exit!Intrinsic, Exit!Above, Buying
    <3>3. QED
      BY <1>2, <3>1, <3>2
  <2> HIDE DEF x, y
  <2>3. q * (x - p[b].premium) + (-q) * (y - p[s].premium) = q * ((x - y) - m)
    <3>1. (-q) * (y - p[s].premium) = -(q * (y - p[s].premium))
      BY <1>2, <2>1, Scales
    <3>2. (x - p[b].premium) - (y - p[s].premium) = (x - y) - m
      BY <1>2, <2>1
    <3>3. q * ((x - p[b].premium) - (y - p[s].premium)) = q * (x - p[b].premium) - q * (y - p[s].premium)
      BY <1>2, <2>1, Scales
    <3>4. q * (x - p[b].premium) \in Int /\ q * (y - p[s].premium) \in Int
      BY <1>2, <2>1, Scales
    <3>5. QED
      BY <3>1, <3>2, <3>3, <3>4
  <2>4. QED
    BY <2>1, <2>2, <2>3 DEF x, y
<1>7. /\ Exit!Pnl(p[b].strike, p) = IF Buying(p, b, s) THEN q * (0 - m) ELSE q * ((0 - width) - m)
      /\ Exit!Pnl(p[s].strike, p) = IF Buying(p, b, s) THEN q * (width - m) ELSE q * (0 - m)
  <2> DEFINE g(spot) == Exit!Intrinsic(spot, p[b]) - Exit!Intrinsic(spot, p[s])
  <2>1. g(p[b].strike) = IF Buying(p, b, s) THEN 0 ELSE 0 - width
    BY <1>2 DEF Exit!Intrinsic, Exit!Above, Buying
  <2>2. g(p[s].strike) = IF Buying(p, b, s) THEN width ELSE 0
    BY <1>2 DEF Exit!Intrinsic, Exit!Above, Buying
  <2>3. /\ Exit!Pnl(p[b].strike, p) = q * (g(p[b].strike) - m)
        /\ Exit!Pnl(p[s].strike, p) = q * (g(p[s].strike) - m)
    BY <1>2, <1>6
  <2> HIDE DEF g
  <2>4. QED
    BY <2>1, <2>2, <2>3
<1>8. QED
  BY <1>2, <1>3, <1>5, <1>6, <1>7

LEMMA NarrowWidth ==
  ASSUME NEW p, NEW b, NEW s, NEW width, Narrow(p, b, s, width), NEW w, w = p[b].qty * width
  PROVE  Exit!Capped(p) = {w}
<1>1. DOMAIN p = {1, 2} /\ b \in {1, 2} /\ s \in {1, 2} /\ b # s /\ p[b].qty = p[s].qty
  BY DEF Narrow, FilledLegs
<1>2. Exit!TwoLegs(p)
  BY <1>1 DEF Narrow, Exit!TwoLegs
<1>3. Exit!Distance(p) = width
  <2>1. p[1].strike \in Nat /\ p[2].strike \in Nat
    BY <1>1 DEF Narrow, FilledLegs
  <2>2. width \in Nat /\ (width = p[1].strike - p[2].strike \/ width = p[2].strike - p[1].strike)
    BY <1>1 DEF Narrow
  <2>3. QED
    BY <2>1, <2>2 DEF Exit!Distance, Exit!Larger
<1>4. p[1].qty = p[b].qty
  BY <1>1
<1>5. p[b].qty \in Nat /\ width \in Nat
  BY <1>1 DEF Narrow, FilledLegs
<1>6. width * p[b].qty = p[b].qty * width
  BY <1>5
<1>7. QED
  BY <1>2, <1>3, <1>4, <1>6 DEF Exit!Capped

\* The bounds of a vertical lie within what it can do.
LEMMA NarrowBounds ==
  ASSUME NEW p, NEW n \in Int, n = Exit!Net(p), NEW w \in Nat, Exit!Capped(p) = {w},
         -w < n, n < w, BoundsAssumption
  PROVE  LET bounds == Exit!Bounds(p) IN
         /\ bounds.stop \in Int /\ bounds.target \in Int
         /\ n >= 0 => -(35 * n) <= bounds.stop /\ bounds.target <= 100 * (w - n)
         /\ n < 0 => -(90 * (w + n)) <= bounds.stop /\ bounds.target = -60 * n
<1>2. Exit!Capped(p) = {w}
  OBVIOUS
<1>3. MaxLoss \in Nat \ {0}
  BY DEF BoundsAssumption
<1>4. ASSUME n >= 0
      PROVE  LET bounds == Exit!Bounds(p) IN
             /\ bounds.stop \in Int /\ bounds.target \in Int
             /\ -(35 * n) <= bounds.stop /\ bounds.target <= 100 * (w - n)
  <2> DEFINE a == 35 * n
             c == 100 * MaxLoss
             d == 80 * n
             e == 100 * (w - n)
             first == Exit!Least({a, c})
             second == Exit!Least({d, e})
  <2>0. a \in Int /\ c \in Int /\ d \in Int /\ e \in Int
    BY <1>3
  <2>1. {80 * Exit!Net(p)} \cup {100 * (v - Exit!Net(p)) : v \in {u \in Exit!Capped(p) : u > Exit!Net(p)}} = {d, e}
    <3>1. {u \in Exit!Capped(p) : u > Exit!Net(p)} = {w}
      BY <1>2
    <3>2. {100 * (v - Exit!Net(p)) : v \in {w}} = {e}
      OBVIOUS
    <3>3. 80 * Exit!Net(p) = d
      OBVIOUS
    <3> HIDE DEF d, e
    <3>4. QED
      BY <3>1, <3>2, <3>3
  <2>2. Exit!Bounds(p) = [stop |-> -first, target |-> second]
    <3>1. Exit!Bounds(p) = Exit!DebitBounds(p)
      BY <1>4 DEF Exit!Bounds
    <3>2. 35 * Exit!Net(p) = a /\ 100 * MaxLoss = c
      OBVIOUS
    <3> HIDE DEF a, c, d, e
    <3>3. QED
      BY <2>1, <3>1, <3>2 DEF Exit!DebitBounds
  <2>3. first \in Int /\ first <= a /\ second \in Int /\ second <= e
    <3> HIDE DEF a, c, d, e
    <3>1. QED
      BY <2>0, LeastBelow
  <2> HIDE DEF first, second
  <2>5. QED
    BY <2>2, <2>3
<1>5. ASSUME n < 0
      PROVE  LET bounds == Exit!Bounds(p) IN
             /\ bounds.stop \in Int /\ bounds.target \in Int
             /\ -(90 * (w + n)) <= bounds.stop /\ bounds.target = -60 * n
  <2> DEFINE sum == w + n
             cap == Exit!Least({MaxLoss, sum})
             a == -100 * n
             c == 90 * cap
             second == Exit!Least({a, c})
  <2>0. sum \in Int /\ sum > 0 /\ a \in Int /\ MaxLoss \in Int /\ MaxLoss > 0
    BY <1>3
  <2>1. {MaxLoss} \cup {v + Exit!Net(p) : v \in Exit!Capped(p)} = {MaxLoss, sum}
    <3>1. {v + Exit!Net(p) : v \in {w}} = {sum}
      OBVIOUS
    <3> HIDE DEF sum
    <3>2. QED
      BY <1>2, <3>1
  <2>2. cap \in Int /\ cap > 0 /\ cap <= sum
    <3>1. cap = Exit!Least({MaxLoss, sum})
      OBVIOUS
    <3> HIDE DEF sum, cap, a, c, second
    <3>5. MaxLoss \in Int /\ sum \in Int
      BY <2>0
    <3>2. cap \in Int /\ cap <= MaxLoss /\ cap <= sum /\ (cap = MaxLoss \/ cap = sum)
      BY <3>1, <3>5, LeastEither
    <3>3. QED
      BY <2>0, <3>2
  <2>3. Exit!Bounds(p) = [stop |-> -second, target |-> -60 * n]
    <3>1. ~(Exit!Net(p) >= 0)
      BY <1>5
    <3>2. Exit!Bounds(p) = Exit!CreditBounds(p)
      BY <3>1 DEF Exit!Bounds
    <3>3. Exit!Least({MaxLoss} \cup {v + Exit!Net(p) : v \in Exit!Capped(p)}) = cap
      <4> HIDE DEF sum
      <4>1. QED
        BY <2>1
    <3> HIDE DEF cap
    <3>4. {-100 * Exit!Net(p)} \cup (IF cap > 0 THEN {90 * cap} ELSE {}) = {a, c}
      <4>1. -100 * Exit!Net(p) = a /\ 90 * cap = c
        OBVIOUS
      <4> HIDE DEF a, c
      <4>2. QED
        BY <2>2, <4>1
    <3>5. -60 * Exit!Net(p) = -60 * n
      OBVIOUS
    <3> HIDE DEF a, c
    <3>6. QED
      BY <3>2, <3>3, <3>4, <3>5 DEF Exit!CreditBounds
  <2>4. second \in Int /\ second <= c
    <3>1. c \in Int
      <4> HIDE DEF cap
      <4>1. QED
        BY <2>2
    <3> HIDE DEF a, c, cap
    <3>2. QED
      BY <2>0, <3>1, LeastBelow
  <2> HIDE DEF cap, second
  <2>5. -60 * n \in Int /\ -second \in Int /\ -(90 * (w + n)) <= -second
    BY <2>2, <2>4
  <2>6. QED
    BY <2>3, <2>5
<1>6. QED
  BY <1>4, <1>5

\* A vertical is judged where it has lost, and where it has gained, the most it can.
LEMMA NarrowJudged ==
  ASSUME NEW p, NEW b, NEW s, NEW width, Narrow(p, b, s, width), NEW places \in SUBSET Nat,
         p[b].strike \in places, p[s].strike \in places, BoundsAssumption
  PROVE  LET gains == {Exit!Pnl(spot, p) : spot \in places} IN
         Crosses(Exit!Least(gains), Exit!Bounds(p)) /\ Crosses(Exit!Greatest(gains), Exit!Bounds(p))
<1> DEFINE q == p[b].qty
           m == p[b].premium - p[s].premium
           n == q * m
           w == q * width
           gains == {Exit!Pnl(spot, p) : spot \in places}
           g(spot) == Exit!Intrinsic(spot, p[b]) - Exit!Intrinsic(spot, p[s])
           bounds == Exit!Bounds(p)
<1>1. /\ q \in Nat \ {0} /\ m \in Int /\ -width < m /\ m < width /\ Exit!Net(p) = n
      /\ Exit!Pnl(p[b].strike, p) = IF Buying(p, b, s) THEN q * (0 - m) ELSE q * ((0 - width) - m)
      /\ Exit!Pnl(p[s].strike, p) = IF Buying(p, b, s) THEN q * (width - m) ELSE q * (0 - m)
  BY NarrowMakes
<1>2. \A spot \in Nat : /\ g(spot) \in Int /\ Exit!Pnl(spot, p) = q * (g(spot) - m)
                        /\ IF Buying(p, b, s) THEN 0 <= g(spot) /\ g(spot) <= width
                           ELSE -width <= g(spot) /\ g(spot) <= 0
  BY NarrowMakes
<1>3. width \in Nat \ {0}
  BY DEF Narrow
<1> HIDE DEF q, m, g
<1>4. n \in Int /\ w \in Nat /\ -w < n /\ n < w
  <2>1. n \in Int /\ w \in Int
    BY <1>1, <1>3
  <2>2. q * m < q * width
    BY <1>1, <1>3, Scales
  <2>3. q * (0 - width) < q * m /\ q * (0 - width) = q * 0 - q * width /\ q * 0 = 0
    <3>1. 0 - width \in Int /\ 0 - width < m /\ width \in Int /\ 0 \in Int
      BY <1>1, <1>3
    <3>2. QED
      BY <1>1, <3>1, Scales
  <2>4. QED
    BY <2>1, <2>2, <2>3
<1>5. /\ q * (0 - m) = -n /\ q * ((0 - width) - m) = -w - n /\ q * (width - m) = w - n
  <2>1. q * (0 - m) = q * 0 - q * m /\ q * (width - m) = q * width - q * m
    BY <1>1, <1>3, 0 \in Int, Scales
  <2>2. q * (0 - width) = q * 0 - q * width /\ 0 - width \in Int
    BY <1>1, <1>3, 0 \in Int, Scales
  <2>3. q * ((0 - width) - m) = q * (0 - width) - q * m
    BY <1>1, <2>2, Scales
  <2>4. q * 0 = 0
    BY <1>1
  <2>5. QED
    BY <1>4, <2>1, <2>2, <2>3, <2>4
<1>6. /\ bounds.stop \in Int /\ bounds.target \in Int
      /\ n >= 0 => -(35 * n) <= bounds.stop /\ bounds.target <= 100 * (w - n)
      /\ n < 0 => -(90 * (w + n)) <= bounds.stop /\ bounds.target = -60 * n
  <2>0. w = p[b].qty * width
    BY DEF q
  <2>1. n = Exit!Net(p) /\ Exit!Capped(p) = {w}
    BY <1>1, <2>0, NarrowWidth
  <2> HIDE DEF n, w, gains, bounds
  <2>2. LET limits == Exit!Bounds(p) IN
        /\ limits.stop \in Int /\ limits.target \in Int
        /\ n >= 0 => -(35 * n) <= limits.stop /\ limits.target <= 100 * (w - n)
        /\ n < 0 => -(90 * (w + n)) <= limits.stop /\ limits.target = -60 * n
    BY <1>4, <2>1, NarrowBounds
  <2>3. QED
    BY <2>2 DEF bounds
<1> DEFINE low == IF Buying(p, b, s) THEN -n ELSE -w - n
           high == IF Buying(p, b, s) THEN w - n ELSE -n
<1>7. \A spot \in Nat : Exit!Pnl(spot, p) \in Int /\ low <= Exit!Pnl(spot, p) /\ Exit!Pnl(spot, p) <= high
  <2> TAKE spot \in Nat
  <2>1. g(spot) \in Int /\ Exit!Pnl(spot, p) = q * (g(spot) - m)
    BY <1>2
  <2>2. q * (g(spot) - m) \in Int
    BY <1>1, <2>1
  <2>3. CASE Buying(p, b, s)
    <3>0. 0 <= g(spot) /\ g(spot) <= width
      BY <1>2, <2>3
    <3>1. 0 - m <= g(spot) - m /\ g(spot) - m <= width - m
      BY <1>1, <1>3, <2>1, <3>0
    <3>2. q * (0 - m) <= q * (g(spot) - m) /\ q * (g(spot) - m) <= q * (width - m)
      <4>1. 0 - m \in Int /\ g(spot) - m \in Int /\ width - m \in Int
        BY <1>1, <1>3, <2>1
      <4>2. QED
        BY <1>1, <3>1, <4>1, Scales
    <3>3. QED
      BY <1>5, <2>1, <2>2, <2>3, <3>2
  <2>4. CASE ~Buying(p, b, s)
    <3>0. -width <= g(spot) /\ g(spot) <= 0
      BY <1>2, <2>4
    <3>1. (0 - width) - m <= g(spot) - m /\ g(spot) - m <= 0 - m
      BY <1>1, <1>3, <2>1, <3>0
    <3>2. q * ((0 - width) - m) <= q * (g(spot) - m) /\ q * (g(spot) - m) <= q * (0 - m)
      <4>1. 0 - m \in Int /\ g(spot) - m \in Int /\ (0 - width) - m \in Int
        BY <1>1, <1>3, <2>1
      <4>2. QED
        BY <1>1, <3>1, <4>1, Scales
    <3>3. QED
      BY <1>5, <2>1, <2>2, <2>4, <3>2
  <2>5. QED
    BY <2>3, <2>4
<1>8. low \in gains /\ high \in gains
  <2>1. Exit!Pnl(p[b].strike, p) \in gains /\ Exit!Pnl(p[s].strike, p) \in gains
    OBVIOUS
  <2> HIDE DEF gains, n, w
  <2>2. QED
    BY <1>1, <1>5, <2>1
<1>9. gains \in SUBSET Int /\ (\A x \in gains : low <= x) /\ (\A x \in gains : x <= high)
  <2> HIDE DEF low, high
  <2>1. QED
    BY <1>7
<1>10. Exit!Least(gains) = low /\ Exit!Greatest(gains) = high
  <2> HIDE DEF gains, low, high
  <2>1. QED
    BY <1>8, <1>9, ExitLeastIs, ExitGreatestIs
<1> HIDE DEF n, w, bounds, gains
<1>11. Crosses(low, bounds) /\ Crosses(high, bounds)
  <2>1. low \in {-n, -w - n} /\ high \in {-n, w - n}
    OBVIOUS
  <2> HIDE DEF low, high
  <2>2. Crosses(-n, bounds)
    BY <1>4, <1>6 DEF Crosses
  <2>3. Crosses(-w - n, bounds)
    BY <1>4, <1>6 DEF Crosses
  <2>4. Crosses(w - n, bounds)
    BY <1>4, <1>6 DEF Crosses
  <2>5. QED
    BY <2>1, <2>2, <2>3, <2>4
<1>12. QED
  BY <1>10, <1>11 DEF bounds, gains

\* What is bought can lose no more than it cost, and is judged long before.
LEMMA BoughtJudged ==
  ASSUME NEW p, FilledLegs(p), NEW n, n = Exit!Net(p), n \in Nat, NEW pnl \in Int, pnl <= -n, BoundsAssumption,
         \/ Len(p) = 1
         \/ Len(p) = 2 /\ p[1].side = p[2].side
  PROVE  Crosses(pnl, Exit!Bounds(p))
<1>1. Exit!Capped(p) = {}
  BY DEF Exit!Capped, Exit!TwoLegs
<1>2. MaxLoss \in Nat \ {0}
  BY DEF BoundsAssumption
<1> DEFINE a == 35 * n
           c == 100 * MaxLoss
           first == Exit!Least({a, c})
<1>3. Exit!Bounds(p).stop = -first
  BY DEF Exit!Bounds, Exit!DebitBounds
<1>4. first \in Int /\ first <= a
  <2>1. a \in Int /\ c \in Int
    BY <1>2
  <2> HIDE DEF a, c
  <2>2. QED
    BY <2>1, LeastBelow
<1> HIDE DEF first
<1>5. 100 * pnl <= -first
  BY <1>4
<1>6. QED
  BY <1>3, <1>5 DEF Crosses

PlanLegs == [kind : {"CALL", "PUT"}, side : {"BUY", "SELL"}, strike : Nat, premium : Nat, qty : Nat \ {0}]

PolicyFields == {"scaled", "legStop", "stop", "target", "best", "trail", "count", "pending"}

\* A leg of the plan, where it has been filled, or is not there.
LegsPlaced ==
  \A i \in DOMAIN xPlan :
    /\ xLegs[i] = [xPlan[i] EXCEPT !.premium = xLegs[i].premium]
    /\ xLegs[i].premium = None \/ (xLegs[i].premium \in Nat /\ xLegs[i].premium - xPlan[i].premium \in Slips)

ExitTypes ==
  /\ xPlan \in Structures /\ DOMAIN xLegs = DOMAIN xPlan /\ LegsPlaced
  /\ DOMAIN xPolicy = PolicyFields /\ xPolicy.scaled \in BOOLEAN /\ xPolicy.count \in Nat
  /\ DOMAIN xJudged = {"spot", "times"} /\ xJudged.times \in Nat
  /\ xState = "OPENING" => xJudged.times = 0

\* What the policy of the whole asks for.
Asked(pnl) == IF pnl <= xPolicy.stop THEN "STOP" ELSE IF pnl >= xPolicy.target THEN "TARGET" ELSE "NONE"

\* A whole structure is judged by its own bounds.
PolicyHolds ==
  Exit!Discovery /\ xState \in {"OPEN", "EXIT_PENDING"} /\ Exit!Whole =>
    xPolicy.scaled = TRUE /\ xPolicy.stop = Exit!Bounds(xLegs).stop /\ xPolicy.target = Exit!Bounds(xLegs).target

\* While it stands where an exit is asked for, the confirmations are counted.
JudgedHolds ==
  Exit!Discovery /\ xState = "OPEN" /\ Exit!Whole /\ xJudged.times # 0 =>
    /\ xJudged.spot \in Spots
    /\ Asked(100 * Exit!Pnl(xJudged.spot, xLegs)) # "NONE" =>
         /\ xPolicy.pending = Asked(100 * Exit!Pnl(xJudged.spot, xLegs))
         /\ xJudged.times <= xPolicy.count /\ xPolicy.count < Confirm

BoundsInv == ExitTypes /\ PolicyHolds /\ JudgedHolds

LEMMA PlanIs ==
  ASSUME BoundsAssumption, NEW p \in Structures
  PROVE  /\ Len(p) \in 1..4 /\ DOMAIN p = 1..Len(p)
         /\ \A i \in DOMAIN p : p[i] \in PlanLegs
  BY DEF BoundsAssumption, PlanLegs

\* The legs that are there, by their planned ones.
LEMMA PlannedLegIs ==
  ASSUME BoundsAssumption, ExitTypes, NEW i \in DOMAIN xPlan
  PROVE  /\ xLegs[i].kind = xPlan[i].kind /\ xLegs[i].side = xPlan[i].side
         /\ xLegs[i].strike = xPlan[i].strike /\ xLegs[i].qty = xPlan[i].qty
         /\ xLegs[i].premium = None \/ (xLegs[i].premium \in Nat /\ xLegs[i].premium - xPlan[i].premium \in Slips)
         /\ xPlan[i] \in PlanLegs
<1>1. xPlan[i] \in PlanLegs
  BY PlanIs DEF ExitTypes
<1>2. /\ xLegs[i] = [xPlan[i] EXCEPT !.premium = xLegs[i].premium]
      /\ xLegs[i].premium = None \/ (xLegs[i].premium \in Nat /\ xLegs[i].premium - xPlan[i].premium \in Slips)
  BY DEF ExitTypes, LegsPlaced
<1>3. QED
  BY <1>1, <1>2 DEF PlanLegs

LEMMA WholeIs ==
  ASSUME BoundsAssumption, ExitTypes, Exit!Whole
  PROVE  /\ FilledLegs(xLegs) /\ Len(xLegs) = Len(xPlan)
         /\ \A i \in DOMAIN xPlan : xLegs[i].premium \in Nat /\ xLegs[i].premium - xPlan[i].premium \in Slips
<1>1. \A i \in DOMAIN xPlan : xLegs[i].premium \in Nat /\ xLegs[i].premium - xPlan[i].premium \in Slips
  BY PlannedLegIs DEF Exit!Whole, Exit!Left
<1>2. Len(xPlan) \in 1..4 /\ DOMAIN xPlan = 1..Len(xPlan)
  BY PlanIs DEF ExitTypes
<1>3. DOMAIN xLegs = 1..Len(xPlan)
  BY <1>2 DEF ExitTypes
<1>4. Len(xLegs) = Len(xPlan)
  BY <1>2, <1>3
<1>5. \A i \in DOMAIN xLegs : /\ xLegs[i].kind \in {"CALL", "PUT"} /\ xLegs[i].side \in {"BUY", "SELL"}
                              /\ xLegs[i].strike \in Nat /\ xLegs[i].premium \in Nat /\ xLegs[i].qty \in Nat \ {0}
  BY <1>1, <1>2, <1>3, PlannedLegIs DEF PlanLegs
<1>6. QED
  BY <1>1, <1>2, <1>3, <1>4, <1>5 DEF FilledLegs

\* Under DISCOVERY a whole structure is marked at what it makes.
LEMMA MarkedIs ==
  ASSUME BoundsAssumption, ExitTypes, Exit!Whole, Exit!Discovery, NEW spot \in Nat,
         NEW price, \A i \in DOMAIN xPlan : price[i] = Exit!Intrinsic(spot, xPlan[i])
  PROVE  Exit!Marked(price) = 100 * Exit!Pnl(spot, xLegs) /\ Exit!Pnl(spot, xLegs) \in Int
<1> DEFINE f == [i \in DOMAIN xPlan |->
                   IF i \in Exit!Left THEN 100 * Exit!Signed(xPlan[i]) * (price[i] - xLegs[i].premium) ELSE 0]
           g == [i \in DOMAIN xLegs |-> Exit!LegPnl(spot, xLegs[i])]
<1>1. DOMAIN f = DOMAIN g /\ DOMAIN f = DOMAIN xPlan
  BY DEF ExitTypes
<1>2. \A i \in DOMAIN xPlan : g[i] \in Int /\ f[i] = 100 * g[i]
  <2> TAKE i \in DOMAIN xPlan
  <2>1. /\ xLegs[i].kind = xPlan[i].kind /\ xLegs[i].side = xPlan[i].side
        /\ xLegs[i].strike = xPlan[i].strike /\ xLegs[i].qty = xPlan[i].qty
        /\ xPlan[i] \in PlanLegs
    BY PlannedLegIs
  <2>2. xLegs[i].premium \in Nat
    BY WholeIs
  <2> DEFINE x == Exit!Signed(xLegs[i])
             y == Exit!Intrinsic(spot, xLegs[i]) - xLegs[i].premium
  <2>3. x \in Int /\ y \in Int
    BY <2>1, <2>2 DEF Exit!Signed, Exit!Intrinsic, Exit!Above, PlanLegs
  <2>4. Exit!Signed(xPlan[i]) = x
    BY <2>1 DEF Exit!Signed
  <2>5. price[i] - xLegs[i].premium = y
    BY <2>1 DEF Exit!Intrinsic
  <2>6. f[i] = 100 * x * y
    BY <2>4, <2>5 DEF Exit!Whole
  <2>7. g[i] = x * y
    BY <1>1 DEF Exit!LegPnl
  <2> HIDE DEF x, y, f, g
  <2>8. 100 * x * y = 100 * (x * y) /\ x * y \in Int
    BY <2>3
  <2>9. QED
    BY <2>6, <2>7, <2>8
<1>3. Exit!Marked(price) = Exit!At(f, 1) + Exit!At(f, 2) + Exit!At(f, 3) + Exit!At(f, 4)
  BY DEF Exit!Marked, Exit!Sum
<1>4. Exit!Pnl(spot, xLegs) = Exit!At(g, 1) + Exit!At(g, 2) + Exit!At(g, 3) + Exit!At(g, 4)
  BY DEF Exit!Pnl, Exit!Sum
<1> HIDE DEF f, g
<1>5. \A i \in 1..4 : Exit!At(g, i) \in Int /\ Exit!At(f, i) = 100 * Exit!At(g, i)
  BY <1>1, <1>2 DEF Exit!At
<1> DEFINE a == Exit!At(g, 1)
           b == Exit!At(g, 2)
           c == Exit!At(g, 3)
           d == Exit!At(g, 4)
<1>6. /\ a \in Int /\ b \in Int /\ c \in Int /\ d \in Int
      /\ Exit!At(f, 1) = 100 * a /\ Exit!At(f, 2) = 100 * b /\ Exit!At(f, 3) = 100 * c /\ Exit!At(f, 4) = 100 * d
  BY <1>5
<1>7. Exit!Marked(price) = 100 * a + 100 * b + 100 * c + 100 * d /\ Exit!Pnl(spot, xLegs) = a + b + c + d
  BY <1>3, <1>4, <1>6
<1> HIDE DEF a, b, c, d
<1>8. 100 * a + 100 * b + 100 * c + 100 * d = 100 * (a + b + c + d) /\ a + b + c + d \in Int
  <2>1. a \in Int /\ b \in Int /\ c \in Int /\ d \in Int
    BY <1>6
  <2>2. QED
    BY <2>1
<1>9. QED
  BY <1>7, <1>8

\* A bound that is crossed is what the evaluation reports, whatever the trail and the
\* other rules say.
LEMMA KindIs ==
  ASSUME NEW p, p.stop = xPolicy.stop, p.target = xPolicy.target, NEW pnl, NEW price, Asked(pnl) # "NONE"
  PROVE  Exit!Kind(p, pnl, price) = Asked(pnl)
BY DEF Exit!Kind, Asked

LEMMA TrailedIs ==
  ASSUME DOMAIN xPolicy = PolicyFields, NEW pnl, NEW p, p = Exit!Trailed(pnl)
  PROVE  /\ DOMAIN p = PolicyFields /\ p.scaled = xPolicy.scaled /\ p.stop = xPolicy.stop
         /\ p.target = xPolicy.target /\ p.count = xPolicy.count /\ p.pending = xPolicy.pending
BY DEF Exit!Trailed, PolicyFields

LEMMA CountedSame ==
  ASSUME BoundsAssumption, NEW p, DOMAIN p = PolicyFields, p.count \in Nat, NEW kind
  PROVE  LET q == Exit!Counted(p, kind) IN
         /\ DOMAIN q = PolicyFields /\ q.scaled = p.scaled /\ q.stop = p.stop /\ q.target = p.target
         /\ q.count \in Nat
<1>1. Exit!Least({p.count + 1, Confirm}) \in Nat
  <2> DEFINE m == p.count + 1
  <2>1. m \in Nat /\ Confirm \in Nat /\ m \in Int /\ Confirm \in Int
    BY DEF BoundsAssumption
  <2> HIDE DEF m
  <2>2. Exit!Least({m, Confirm}) \in {m, Confirm}
    BY <2>1, LeastEither
  <2>3. QED
    BY <2>1, <2>2 DEF m
<1>2. QED
  BY <1>1 DEF Exit!Counted, PolicyFields

LEMMA PremiumPut ==
  ASSUME NEW leg \in PlanLegs, NEW n, NEW q, q = [leg EXCEPT !.premium = n]
  PROVE  q.premium = n /\ \A m : [q EXCEPT !.premium = m] = [leg EXCEPT !.premium = m]
BY DEF PlanLegs

LEMMA BoundsStart ==
  ASSUME BoundsAssumption, Exit!Init
  PROVE  BoundsInv
<1>1. /\ xPlan \in Structures /\ xState = "OPENING" /\ xPolicy = Exit!Ticked(1)
      /\ xLegs = [i \in DOMAIN xPlan |-> [xPlan[i] EXCEPT !.premium = None]]
      /\ xJudged = [spot |-> None, times |-> 0]
  BY DEF Exit!Init, Exit!NoPolicy
<1>2. DOMAIN xPolicy = PolicyFields /\ xPolicy.scaled \in BOOLEAN /\ xPolicy.count = 0
  BY <1>1 DEF Exit!Ticked, PolicyFields
<1>3. \A i \in DOMAIN xPlan : /\ xLegs[i] = [xPlan[i] EXCEPT !.premium = None] /\ xLegs[i].premium = None
  <2>1. \A i \in DOMAIN xPlan : xPlan[i] \in PlanLegs
    BY <1>1, PlanIs
  <2>2. \A i \in DOMAIN xPlan : xLegs[i] = [xPlan[i] EXCEPT !.premium = None]
    BY <1>1
  <2>3. ASSUME NEW i \in DOMAIN xPlan PROVE xLegs[i].premium = None
    <3>1. xPlan[i] \in PlanLegs /\ xLegs[i] = [xPlan[i] EXCEPT !.premium = None]
      BY <2>1, <2>2, <2>3
    <3>2. QED
      BY <3>1, PremiumPut
  <2>4. QED
    BY <2>2, <2>3
<1>4. ExitTypes
  <2>1. DOMAIN xLegs = DOMAIN xPlan
    BY <1>1
  <2>2. LegsPlaced
    BY <1>3 DEF LegsPlaced
  <2>3. DOMAIN xJudged = {"spot", "times"} /\ xJudged.times = 0
    BY <1>1
  <2>4. xPlan \in Structures /\ xPolicy.scaled \in BOOLEAN /\ xPolicy.count \in Nat /\ xJudged.times \in Nat
    BY <1>1, <1>2, <2>3
  <2>5. QED
    BY <1>2, <2>1, <2>2, <2>3, <2>4 DEF ExitTypes
<1>5. QED
  BY <1>1, <1>4 DEF BoundsInv, PolicyHolds, JudgedHolds

LEMMA ExitFillKeeps ==
  ASSUME BoundsAssumption, BoundsInv, NEW i \in DOMAIN xPlan, NEW slip \in Slips, Exit!Fill(i, slip)
  PROVE  BoundsInv'
<1> DEFINE v == xPlan[i].premium + slip
<1>1. /\ xState = "OPENING" /\ v >= 0
      /\ xLegs' = [xLegs EXCEPT ![i].premium = v]
      /\ xPolicy' = IF Exit!Discovery /\ i = Len(xPlan) THEN Exit!Scaled(xLegs') ELSE Exit!Ticked(i)
      /\ xState' \in {"FAILED", "OPEN", "OPENING"} /\ (xState' = "OPEN" => i = Len(xPlan))
      /\ UNCHANGED <<xProfile, xPlan, xJudged>>
  BY DEF Exit!Fill
<1>2. xPlan[i] \in PlanLegs
  BY PlanIs DEF BoundsInv, ExitTypes
<1>3. v \in Nat /\ v - xPlan[i].premium \in Slips
  <2>1. xPlan[i].premium \in Nat /\ slip \in Int
    BY <1>2 DEF PlanLegs, BoundsAssumption
  <2>2. v \in Nat /\ v - xPlan[i].premium = slip
    BY <1>1, <2>1
  <2>3. QED
    BY <2>2
<1> HIDE DEF v
<1>4. /\ DOMAIN xPolicy' = PolicyFields /\ xPolicy'.scaled \in BOOLEAN /\ xPolicy'.count = 0
      /\ Exit!Discovery /\ i = Len(xPlan) =>
           /\ xPolicy'.scaled = TRUE /\ xPolicy'.stop = Exit!Bounds(xLegs').stop
           /\ xPolicy'.target = Exit!Bounds(xLegs').target
  <2>1. CASE Exit!Discovery /\ i = Len(xPlan)
    <3>1. xPolicy' = Exit!Scaled(xLegs')
      BY <1>1, <2>1
    <3>2. QED
      BY <3>1 DEF Exit!Scaled, PolicyFields
  <2>2. CASE ~(Exit!Discovery /\ i = Len(xPlan))
    <3>1. xPolicy' = Exit!Ticked(i)
      BY <1>1, <2>2
    <3>2. QED
      BY <2>2, <3>1 DEF Exit!Ticked, PolicyFields
  <2>3. QED
    BY <2>1, <2>2
<1>5. DOMAIN xLegs' = DOMAIN xPlan
  BY <1>1 DEF BoundsInv, ExitTypes
<1>6. ASSUME NEW j \in DOMAIN xPlan
      PROVE  /\ xLegs'[j] = [xPlan[j] EXCEPT !.premium = xLegs'[j].premium]
             /\ \/ xLegs'[j].premium = None
                \/ xLegs'[j].premium \in Nat /\ xLegs'[j].premium - xPlan[j].premium \in Slips
  <2>1. /\ xLegs[j] = [xPlan[j] EXCEPT !.premium = xLegs[j].premium]
        /\ xLegs[j].premium = None \/ (xLegs[j].premium \in Nat /\ xLegs[j].premium - xPlan[j].premium \in Slips)
    BY DEF BoundsInv, ExitTypes, LegsPlaced
  <2>2. CASE j # i
    <3>1. xLegs'[j] = xLegs[j]
      BY <1>1, <2>2 DEF BoundsInv, ExitTypes
    <3>2. QED
      BY <2>1, <3>1
  <2>3. CASE j = i
    <3>1. xLegs'[j] = [xLegs[j] EXCEPT !.premium = v]
      BY <1>1, <2>3 DEF BoundsInv, ExitTypes
    <3>2. xLegs'[j] = [xPlan[j] EXCEPT !.premium = v] /\ xLegs'[j].premium = v
      <4>1. xLegs[j] = [xPlan[j] EXCEPT !.premium = xLegs[j].premium] /\ xPlan[j] \in PlanLegs
        BY <1>2, <2>1, <2>3
      <4>2. [xLegs[j] EXCEPT !.premium = v] = [xPlan[j] EXCEPT !.premium = v]
        BY <4>1, PremiumPut
      <4>3. xLegs'[j] = [xPlan[j] EXCEPT !.premium = v]
        BY <3>1, <4>2
      <4>4. QED
        BY <4>1, <4>3, PremiumPut
    <3>3. QED
      BY <1>3, <2>3, <3>2
  <2>4. QED
    BY <2>2, <2>3
<1>7. ExitTypes'
  <2>1. xPlan' = xPlan /\ xJudged' = xJudged
    BY <1>1
  <2>2. LegsPlaced'
    BY <1>6, <2>1 DEF LegsPlaced
  <2>3. xPlan \in Structures /\ DOMAIN xJudged = {"spot", "times"} /\ xJudged.times = 0
    BY <1>1 DEF BoundsInv, ExitTypes
  <2>4. xPolicy'.count \in Nat
    BY <1>4
  <2>5. QED
    BY <1>4, <1>5, <2>1, <2>2, <2>3, <2>4 DEF ExitTypes
<1>8. (Exit!Discovery)' <=> Exit!Discovery
  BY <1>1 DEF Exit!Discovery
<1>9. (Exit!Bounds(xLegs))' = Exit!Bounds(xLegs')
  BY DEF Exit!Bounds
<1>10. PolicyHolds'
  BY <1>1, <1>4, <1>8, <1>9 DEF PolicyHolds
<1>11. xJudged'.times = 0
  BY <1>1 DEF BoundsInv, ExitTypes
<1>12. QED
  BY <1>7, <1>10, <1>11 DEF BoundsInv, JudgedHolds

\* What an evaluation makes of the policy and of the history.
LEMMA EvaluateKeeps ==
  ASSUME BoundsAssumption, BoundsInv, NEW spot \in Spots, NEW half \in {0, 1}, Exit!Evaluate(spot, half)
  PROVE  BoundsInv'
<1> DEFINE price == [i \in DOMAIN xPlan |-> Exit!Price(i, spot, half)]
           pnl == Exit!Marked(price)
           trailed == IF xPolicy.scaled THEN Exit!Trailed(pnl) ELSE xPolicy
           kind == Exit!Kind(trailed, pnl, price)
           times == IF xJudged.spot = spot THEN Exit!Least({xJudged.times + 1, Confirm}) ELSE 1
<1>1. /\ xState = "OPEN"
      /\ xPolicy' = IF xPolicy.scaled THEN Exit!Counted(trailed, kind) ELSE xPolicy
      /\ xState' = IF kind # "NONE" /\ (xPolicy.scaled => xPolicy'.count >= Confirm) THEN "EXIT_PENDING" ELSE "OPEN"
      /\ xJudged' = [spot |-> spot, times |-> times]
      /\ UNCHANGED <<xProfile, xPlan, xLegs>>
  BY DEF Exit!Evaluate
<1>2. price = [i \in DOMAIN xPlan |-> Exit!Price(i, spot, half)] /\ pnl = Exit!Marked(price)
  OBVIOUS
<1>13. Exit!Whole /\ Exit!Discovery => pnl = 100 * Exit!Pnl(spot, xLegs) /\ Exit!Pnl(spot, xLegs) \in Int
  <2> SUFFICES ASSUME Exit!Whole, Exit!Discovery
               PROVE  pnl = 100 * Exit!Pnl(spot, xLegs) /\ Exit!Pnl(spot, xLegs) \in Int
    OBVIOUS
  <2>1. spot \in Nat /\ ExitTypes
    BY DEF BoundsAssumption, BoundsInv
  <2>2. \A i \in DOMAIN xPlan : price[i] = Exit!Intrinsic(spot, xPlan[i])
    BY DEF Exit!Price
  <2> HIDE DEF price, pnl, trailed, kind, times
  <2>3. Exit!Marked(price) = 100 * Exit!Pnl(spot, xLegs) /\ Exit!Pnl(spot, xLegs) \in Int
    BY <2>1, <2>2, MarkedIs
  <2>4. QED
    BY <1>2, <2>3
<1>3. /\ DOMAIN trailed = PolicyFields /\ trailed.scaled = xPolicy.scaled /\ trailed.stop = xPolicy.stop
      /\ trailed.target = xPolicy.target /\ trailed.count = xPolicy.count /\ trailed.pending = xPolicy.pending
  <2> HIDE DEF pnl
  <2>1. CASE xPolicy.scaled
    <3>1. trailed = Exit!Trailed(pnl)
      BY <2>1
    <3> HIDE DEF trailed
    <3>2. QED
      BY <3>1, TrailedIs DEF BoundsInv, ExitTypes
  <2>2. CASE ~xPolicy.scaled
    BY <2>2 DEF BoundsInv, ExitTypes
  <2>3. QED
    BY <2>1, <2>2
<1>4. Asked(pnl) # "NONE" => kind = Asked(pnl)
  <2> HIDE DEF pnl, trailed, price
  <2>1. QED
    BY <1>3, KindIs
<1>5. /\ xJudged.times \in Nat /\ xPolicy.count \in Nat /\ Confirm \in Nat \ {0} /\ spot \in Nat
      /\ xPolicy.scaled \in BOOLEAN /\ DOMAIN xPolicy = PolicyFields
  BY DEF BoundsInv, ExitTypes, BoundsAssumption
<1> HIDE DEF price, pnl, trailed, kind
<1>6. /\ times \in Nat /\ times <= Confirm
      /\ times = 1 \/ (xJudged.spot = spot /\ times <= xJudged.times + 1)
  <2>1. CASE xJudged.spot = spot
    <3> DEFINE m == xJudged.times + 1
    <3>1. m \in Nat /\ m \in Int /\ Confirm \in Int /\ times = Exit!Least({m, Confirm})
      BY <1>5, <2>1
    <3> HIDE DEF m, times
    <3>2. times \in {m, Confirm} /\ times <= m /\ times <= Confirm
      BY <1>5, <3>1, LeastEither
    <3>3. QED
      BY <1>5, <2>1, <3>1, <3>2 DEF m
  <2>2. CASE xJudged.spot # spot
    BY <1>5, <2>2
  <2>3. QED
    BY <2>1, <2>2
<1> HIDE DEF times
<1>7. /\ DOMAIN xPolicy' = PolicyFields /\ xPolicy'.scaled = xPolicy.scaled /\ xPolicy'.stop = xPolicy.stop
      /\ xPolicy'.target = xPolicy.target /\ xPolicy'.count \in Nat
      /\ xPolicy.scaled = TRUE /\ kind \in {"STOP", "TARGET"} =>
           /\ xPolicy'.pending = kind
           /\ xPolicy.pending = kind => xPolicy'.count = Exit!Least({xPolicy.count + 1, Confirm})
           /\ xPolicy.pending # kind => xPolicy'.count = 1
  <2>1. CASE xPolicy.scaled = TRUE
    <3>1. xPolicy' = Exit!Counted(trailed, kind)
      BY <1>1, <2>1
    <3>2. trailed.count \in Nat
      BY <1>3, <1>5
    <3>3. LET q == Exit!Counted(trailed, kind) IN
          /\ DOMAIN q = PolicyFields /\ q.scaled = trailed.scaled /\ q.stop = trailed.stop
          /\ q.target = trailed.target /\ q.count \in Nat
      BY <1>3, <3>2, CountedSame
    <3>4. ASSUME kind \in {"STOP", "TARGET"}
          PROVE  /\ Exit!Counted(trailed, kind).pending = kind
                 /\ trailed.pending = kind =>
                      Exit!Counted(trailed, kind).count = Exit!Least({trailed.count + 1, Confirm})
                 /\ trailed.pending # kind => Exit!Counted(trailed, kind).count = 1
      <4>1. DOMAIN trailed = PolicyFields
        BY <1>3
      <4> DEFINE q == Exit!Counted(trailed, kind)
      <4>2. q = Exit!Counted(trailed, kind)
        OBVIOUS
      <4> HIDE DEF q
      <4>3. /\ q.pending = kind
            /\ trailed.pending = kind => q.count = Exit!Least({trailed.count + 1, Confirm})
            /\ trailed.pending # kind => q.count = 1
        BY <3>4, <4>1, <4>2 DEF Exit!Counted, PolicyFields
      <4>4. QED
        BY <4>3 DEF q
    <3>5. QED
      BY <1>3, <3>1, <3>3, <3>4
  <2>2. CASE xPolicy.scaled = FALSE
    BY <1>1, <1>5, <2>2
  <2>3. QED
    BY <1>5, <2>1, <2>2
<1>8. xJudged'.times = times /\ xJudged'.spot = spot /\ DOMAIN xJudged' = {"spot", "times"}
  BY <1>1
<1>9. ExitTypes'
  <2>1. xState' # "OPENING"
    BY <1>1
  <2>2. LegsPlaced'
    BY <1>1 DEF BoundsInv, ExitTypes, LegsPlaced
  <2>3. xPlan' \in Structures /\ DOMAIN xLegs' = DOMAIN xPlan'
    BY <1>1 DEF BoundsInv, ExitTypes
  <2>4. QED
    BY <1>5, <1>6, <1>7, <1>8, <2>1, <2>2, <2>3 DEF ExitTypes
<1>10. /\ (Exit!Discovery)' <=> Exit!Discovery
       /\ (Exit!Whole)' <=> Exit!Whole
       /\ (Exit!Bounds(xLegs))' = Exit!Bounds(xLegs)
  BY <1>1 DEF Exit!Discovery, Exit!Whole, Exit!Left
<1>11. PolicyHolds'
  BY <1>1, <1>7, <1>10 DEF BoundsInv, PolicyHolds
<1>12. JudgedHolds'
  <2> SUFFICES ASSUME Exit!Discovery, xState' = "OPEN", Exit!Whole,
                      (Asked(100 * Exit!Pnl(xJudged.spot, xLegs)))' # "NONE"
               PROVE  /\ xPolicy'.pending = (Asked(100 * Exit!Pnl(xJudged.spot, xLegs)))'
                      /\ times <= xPolicy'.count /\ xPolicy'.count < Confirm
    BY <1>8, <1>10 DEF JudgedHolds
  <2>1. xPolicy.scaled = TRUE
    BY <1>1 DEF BoundsInv, PolicyHolds
  <2>2. pnl = 100 * Exit!Pnl(spot, xLegs) /\ Exit!Pnl(spot, xLegs) \in Int
    BY <1>13
  <2>3. (Asked(100 * Exit!Pnl(xJudged.spot, xLegs)))' = Asked(pnl)
    BY <1>1, <1>7, <1>8, <2>2 DEF Asked
  <2>4. kind = Asked(pnl) /\ kind # "NONE" /\ kind \in {"STOP", "TARGET"}
    BY <1>4, <2>3 DEF Asked
  <2>5. /\ xPolicy'.pending = kind
        /\ xPolicy.pending = kind => xPolicy'.count = Exit!Least({xPolicy.count + 1, Confirm})
        /\ xPolicy.pending # kind => xPolicy'.count = 1
    BY <1>7, <2>1, <2>4
  <2>6. xPolicy'.count < Confirm
    BY <1>1, <1>5, <1>7, <2>1, <2>4
  <2>7. xPolicy.pending = kind => (xPolicy'.count = xPolicy.count + 1)
    <3> DEFINE m == xPolicy.count + 1
    <3> SUFFICES ASSUME xPolicy.pending = kind
                 PROVE  xPolicy'.count = m
      OBVIOUS
    <3>1. m \in Nat /\ m \in Int /\ Confirm \in Int /\ xPolicy'.count = Exit!Least({m, Confirm})
      BY <1>5, <2>5
    <3> HIDE DEF m
    <3>2. xPolicy'.count = m \/ xPolicy'.count = Confirm
      BY <3>1, LeastBelow
    <3>3. QED
      BY <1>5, <2>6, <3>2
  <2>8. xPolicy'.count >= 1
    BY <1>5, <2>5, <2>7
  <2>9. times <= xPolicy'.count
    <3>1. CASE times = 1
      BY <1>7, <2>8, <3>1
    <3>2. CASE times # 1 /\ xJudged.times # 0
      <4>1. xJudged.spot = spot /\ times <= xJudged.times + 1
        BY <1>6, <3>2
      <4>2. /\ xPolicy.pending = Asked(100 * Exit!Pnl(xJudged.spot, xLegs))
            /\ xJudged.times <= xPolicy.count
        BY <1>1, <2>2, <2>4, <3>2, <4>1 DEF BoundsInv, JudgedHolds
      <4>3. xPolicy'.count = xPolicy.count + 1
        BY <2>2, <2>4, <2>7, <4>1, <4>2
      <4>4. QED
        BY <1>5, <1>6, <4>1, <4>2, <4>3
    <3>3. CASE times # 1 /\ xJudged.times = 0
      BY <1>5, <1>6, <1>7, <2>8, <3>3
    <3>4. QED
      BY <3>1, <3>2, <3>3
  <2>10. QED
    BY <2>3, <2>4, <2>5, <2>6, <2>9
<1>14. QED
  BY <1>9, <1>11, <1>12 DEF BoundsInv

LEMMA LeavesKeeps ==
  ASSUME BoundsAssumption, BoundsInv, Exit!ExitFills
  PROVE  BoundsInv'
<1>1. PICK i \in Exit!Left : xLegs' = [xLegs EXCEPT ![i].premium = None]
  BY DEF Exit!ExitFills
<1>2. /\ xState = "EXIT_PENDING" /\ xState' \in {"EXIT_PENDING", "CLOSED"}
      /\ xJudged' = [spot |-> None, times |-> 0] /\ UNCHANGED <<xProfile, xPlan, xPolicy>>
  BY DEF Exit!ExitFills
<1>3. i \in DOMAIN xPlan
  BY <1>1 DEF Exit!Left
<1>4. xPlan[i] \in PlanLegs /\ xLegs[i] = [xPlan[i] EXCEPT !.premium = xLegs[i].premium]
  BY <1>3, PlanIs DEF BoundsInv, ExitTypes, LegsPlaced
<1>5. DOMAIN xLegs' = DOMAIN xPlan
  BY <1>1 DEF BoundsInv, ExitTypes
<1>6. xLegs'[i] = [xPlan[i] EXCEPT !.premium = None] /\ xLegs'[i].premium = None
  <2>1. xLegs'[i] = [xLegs[i] EXCEPT !.premium = None]
    BY <1>1, <1>3 DEF BoundsInv, ExitTypes
  <2>2. [xLegs[i] EXCEPT !.premium = None] = [xPlan[i] EXCEPT !.premium = None]
    BY <1>4, PremiumPut
  <2>3. xLegs'[i] = [xPlan[i] EXCEPT !.premium = None]
    BY <2>1, <2>2
  <2>4. QED
    BY <1>4, <2>3, PremiumPut
<1>7. LegsPlaced'
  <2>1. ASSUME NEW j \in DOMAIN xPlan
        PROVE  /\ xLegs'[j] = [xPlan[j] EXCEPT !.premium = xLegs'[j].premium]
               /\ \/ xLegs'[j].premium = None
                  \/ xLegs'[j].premium \in Nat /\ xLegs'[j].premium - xPlan[j].premium \in Slips
    <3>1. CASE j = i
      BY <1>6, <3>1
    <3>2. CASE j # i
      <4>1. xLegs'[j] = xLegs[j]
        BY <1>1, <3>2 DEF BoundsInv, ExitTypes
      <4>2. QED
        BY <4>1 DEF BoundsInv, ExitTypes, LegsPlaced
    <3>3. QED
      BY <3>1, <3>2
  <2>2. QED
    BY <1>2, <2>1 DEF LegsPlaced
<1>8. ExitTypes'
  <2>1. xPlan \in Structures /\ DOMAIN xPolicy = PolicyFields /\ xPolicy.scaled \in BOOLEAN /\ xPolicy.count \in Nat
    BY DEF BoundsInv, ExitTypes
  <2>2. DOMAIN xJudged' = {"spot", "times"} /\ xJudged'.times = 0
    BY <1>2
  <2>3. QED
    BY <1>2, <1>5, <1>7, <2>1, <2>2 DEF ExitTypes
<1>9. ~(Exit!Whole)'
  BY <1>2, <1>3, <1>6 DEF Exit!Whole, Exit!Left
<1>10. QED
  BY <1>8, <1>9 DEF BoundsInv, PolicyHolds, JudgedHolds

LEMMA RefusedKeeps ==
  ASSUME BoundsAssumption, BoundsInv, Exit!ExitRefused
  PROVE  BoundsInv'
<1>1. /\ xState = "EXIT_PENDING" /\ xState' = "OPEN"
      /\ xJudged' = [spot |-> None, times |-> 0] /\ UNCHANGED <<xProfile, xPlan, xLegs, xPolicy>>
  BY DEF Exit!ExitRefused
<1>2. ExitTypes'
  <2>1. LegsPlaced'
    BY <1>1 DEF BoundsInv, ExitTypes, LegsPlaced
  <2>2. DOMAIN xJudged' = {"spot", "times"} /\ xJudged'.times = 0
    BY <1>1
  <2>3. QED
    BY <1>1, <2>1, <2>2 DEF BoundsInv, ExitTypes
<1>3. /\ (Exit!Discovery)' <=> Exit!Discovery
      /\ (Exit!Whole)' <=> Exit!Whole
      /\ (Exit!Bounds(xLegs))' = Exit!Bounds(xLegs)
  BY <1>1 DEF Exit!Discovery, Exit!Whole, Exit!Left
<1>4. PolicyHolds'
  BY <1>1, <1>3 DEF BoundsInv, PolicyHolds
<1>5. xJudged'.times = 0
  BY <1>1
<1>6. QED
  BY <1>2, <1>4, <1>5 DEF BoundsInv, JudgedHolds

LEMMA ExitStays ==
  ASSUME BoundsInv, UNCHANGED exits
  PROVE  BoundsInv'
<1>1. UNCHANGED <<xProfile, xPlan, xLegs, xState, xPolicy, xJudged>>
  BY DEF exits
<1>2. LegsPlaced'
  BY <1>1 DEF BoundsInv, ExitTypes, LegsPlaced
<1>3. ExitTypes'
  BY <1>1, <1>2 DEF BoundsInv, ExitTypes
<1>4. /\ (Exit!Discovery)' <=> Exit!Discovery
      /\ (Exit!Whole)' <=> Exit!Whole
      /\ (Exit!Bounds(xLegs))' = Exit!Bounds(xLegs)
      /\ (Asked(100 * Exit!Pnl(xJudged.spot, xLegs)))' = Asked(100 * Exit!Pnl(xJudged.spot, xLegs))
  BY <1>1 DEF Exit!Discovery, Exit!Whole, Exit!Left, Asked
<1>5. PolicyHolds'
  BY <1>1, <1>4 DEF BoundsInv, PolicyHolds
<1>6. JudgedHolds'
  BY <1>1, <1>4 DEF BoundsInv, JudgedHolds
<1>7. QED
  BY <1>3, <1>5, <1>6 DEF BoundsInv

LEMMA BoundsSafe ==
  ASSUME BoundsAssumption
  PROVE  TradeLife => []BoundsInv
<1>1. Start => BoundsInv
  BY BoundsStart DEF Start
<1>2. BoundsInv /\ [Crashing \/ Steady \/ Days \/ Fills \/ Earnings]_all => BoundsInv'
  <2> SUFFICES ASSUME BoundsInv, [Crashing \/ Steady \/ Days \/ Fills \/ Earnings]_all
               PROVE  BoundsInv'
    OBVIOUS
  <2>1. CASE Fills
    <3>1. Exit!Next
      BY <2>1 DEF Fills
    <3>2. CASE \E i \in 1..4, slip \in Slips : i \in DOMAIN xPlan /\ Exit!Fill(i, slip)
      BY <3>2, ExitFillKeeps
    <3>3. CASE \E spot \in Spots, half \in {0, 1} : Exit!Evaluate(spot, half)
      <4>1. PICK spot \in Spots, half \in {0, 1} : Exit!Evaluate(spot, half)
        BY <3>3
      <4>2. QED
        BY <4>1, EvaluateKeeps
    <3>4. QED
      BY <3>1, <3>2, <3>3, LeavesKeeps, RefusedKeeps DEF Exit!Next
  <2>2. CASE UNCHANGED exits
    BY <2>2, ExitStays
  <2>3. QED
    BY <2>1, <2>2 DEF Crashing, Steady, Days, Earnings, all
<1>3. QED
  BY <1>1, <1>2, PTL DEF TradeLife

\* The underlying may end at each strike of a plan of one or two legs.
LEMMA Planned ==
  ASSUME BoundsAssumption, ExitTypes, Len(xPlan) \in {1, 2}, NEW i \in DOMAIN xPlan
  PROVE  xPlan[i].strike \in Spots
<1>1. \A p \in Structures : Len(p) <= 2 => \A j \in DOMAIN p : p[j].strike \in Spots
  BY DEF BoundsAssumption
<1>2. xPlan \in Structures
  BY DEF ExitTypes
<1>3. CASE Len(xPlan) = 1
  <2>1. Len(xPlan) <= 2
    BY <1>3
  <2>2. QED
    BY <1>1, <1>2, <2>1
<1>4. CASE Len(xPlan) = 2
  <2>1. Len(xPlan) <= 2
    BY <1>4
  <2>2. QED
    BY <1>1, <1>2, <2>1
<1>5. QED
  BY <1>3, <1>4

\* One leg is bought: where it ends at its strike, all that it cost is lost.
LEMMA OneJudged ==
  ASSUME BoundsAssumption, ExitTypes, Exit!Whole, Len(xPlan) = 1
  PROVE  Crosses(Exit!Least(Exit!Gains), Exit!Bounds(xLegs))
<1> DEFINE leg == xLegs[1]
           q == leg.qty
           n == q * leg.premium
<1>1. DOMAIN xPlan = {1}
  BY PlanIs DEF ExitTypes
<1>2. /\ FilledLegs(xLegs) /\ Len(xLegs) = 1 /\ DOMAIN xLegs = {1}
  BY <1>1, WholeIs DEF ExitTypes
<1>3. leg.side = "BUY" /\ leg.strike \in Spots
  <2>1. leg.side = xPlan[1].side /\ leg.strike = xPlan[1].strike
    BY <1>1, PlannedLegIs
  <2>2. xPlan[1].side = "BUY"
    BY DEF ExitTypes, BoundsAssumption
  <2>3. xPlan[1].strike \in Spots
    BY <1>1, Planned
  <2>4. QED
    BY <2>1, <2>2, <2>3
<1>4. leg.premium \in Nat /\ q \in Nat \ {0} /\ leg.strike \in Nat /\ leg.kind \in {"CALL", "PUT"}
  BY <1>2 DEF FilledLegs
<1>5. Exit!Signed(leg) = q
  BY <1>3 DEF Exit!Signed
<1>6. Exit!Net(xLegs) = n
  <2> DEFINE g == [i \in DOMAIN xLegs |-> Exit!Signed(xLegs[i]) * xLegs[i].premium]
  <2>1. Exit!Net(xLegs) = Exit!At(g, 1) + Exit!At(g, 2) + Exit!At(g, 3) + Exit!At(g, 4)
    BY DEF Exit!Net, Exit!Sum
  <2>2. Exit!At(g, 1) = n /\ Exit!At(g, 2) = 0 /\ Exit!At(g, 3) = 0 /\ Exit!At(g, 4) = 0
    BY <1>2, <1>5 DEF Exit!At
  <2>3. n \in Int
    BY <1>4
  <2> HIDE DEF n, g
  <2>4. QED
    BY <2>1, <2>2, <2>3
<1>7. ASSUME NEW spot \in Nat
      PROVE  /\ Exit!Pnl(spot, xLegs) = q * (Exit!Intrinsic(spot, leg) - leg.premium)
             /\ Exit!Intrinsic(spot, leg) \in Nat
  <2> DEFINE g == [i \in DOMAIN xLegs |-> Exit!LegPnl(spot, xLegs[i])]
             v == q * (Exit!Intrinsic(spot, leg) - leg.premium)
  <2>1. Exit!Pnl(spot, xLegs) = Exit!At(g, 1) + Exit!At(g, 2) + Exit!At(g, 3) + Exit!At(g, 4)
    BY DEF Exit!Pnl, Exit!Sum
  <2>2. Exit!At(g, 1) = v /\ Exit!At(g, 2) = 0 /\ Exit!At(g, 3) = 0 /\ Exit!At(g, 4) = 0
    <3>1. DOMAIN g = {1} /\ g[1] = v
      BY <1>2, <1>5 DEF Exit!LegPnl
    <3> HIDE DEF g, v
    <3>2. QED
      BY <3>1 DEF Exit!At
  <2>3. Exit!Intrinsic(spot, leg) \in Nat
    BY SMTT(30), <1>4 DEF Exit!Intrinsic, Exit!Above
  <2>4. v \in Int
    BY <1>4, <2>3
  <2> HIDE DEF v, g
  <2>5. Exit!Pnl(spot, xLegs) = v
    BY <2>1, <2>2, <2>4
  <2>6. QED
    BY <2>3, <2>5 DEF v
<1>8. Exit!Intrinsic(leg.strike, leg) = 0
  BY <1>4 DEF Exit!Intrinsic, Exit!Above
<1> HIDE DEF leg, q
<1>9. n \in Nat /\ q * (0 - leg.premium) = -n
  <2>1. n \in Nat
    BY <1>4
  <2>2. q * (0 - leg.premium) = q * 0 - q * leg.premium /\ q * 0 = 0
    <3>1. 0 \in Int /\ leg.premium \in Int
      BY <1>4
    <3>2. QED
      BY <1>4, <3>1, Scales
  <2>3. QED
    BY <2>1, <2>2
<1>10. -n \in Exit!Gains
  <2>1. Exit!Pnl(leg.strike, xLegs) = q * (0 - leg.premium)
    BY <1>4, <1>7, <1>8
  <2>2. Exit!Pnl(leg.strike, xLegs) \in Exit!Gains
    BY <1>3 DEF Exit!Gains
  <2> HIDE DEF n
  <2>3. QED
    BY <1>9, <2>1, <2>2
<1>11. \A spot \in Spots : Exit!Pnl(spot, xLegs) \in Int /\ -n <= Exit!Pnl(spot, xLegs)
  <2> TAKE spot \in Spots
  <2> DEFINE x == Exit!Intrinsic(spot, leg)
  <2>1. spot \in Nat
    BY DEF BoundsAssumption
  <2>2. x \in Nat /\ Exit!Pnl(spot, xLegs) = q * (x - leg.premium)
    BY <1>7, <2>1
  <2> HIDE DEF x, n
  <2>3. 0 - leg.premium \in Int /\ x - leg.premium \in Int /\ 0 - leg.premium <= x - leg.premium
    BY <1>4, <2>2
  <2>4. q * (0 - leg.premium) <= q * (x - leg.premium) /\ q * (x - leg.premium) \in Int
    BY <1>4, <2>3, Scales
  <2>5. QED
    BY <1>9, <2>2, <2>4
<1> HIDE DEF n
<1>12. Exit!Gains \in SUBSET Int /\ \A x \in Exit!Gains : -n <= x
  BY <1>11 DEF Exit!Gains
<1>13. Exit!Least(Exit!Gains) = -n
  BY <1>10, <1>12, ExitLeastIs
<1>14. -n \in Int /\ -n <= -n
  BY <1>9
<1>15. QED
  BY <1>2, <1>6, <1>9, <1>13, <1>14, BoughtJudged

\* Two options that are bought.
Pair(p, c, s) ==
  /\ FilledLegs(p) /\ Len(p) = 2 /\ c \in {1, 2} /\ s \in {1, 2} /\ c # s
  /\ p[c].side = "BUY" /\ p[s].side = "BUY"

\* What they cost, and make.
LEMMA PairMakes ==
  ASSUME NEW p, NEW c, NEW s, Pair(p, c, s)
  PROVE  /\ Exit!Net(p) = p[c].qty * p[c].premium + p[s].qty * p[s].premium
         /\ \A spot \in Nat :
              /\ Exit!Intrinsic(spot, p[c]) \in Nat /\ Exit!Intrinsic(spot, p[s]) \in Nat
              /\ Exit!Pnl(spot, p) = p[c].qty * (Exit!Intrinsic(spot, p[c]) - p[c].premium)
                                       + p[s].qty * (Exit!Intrinsic(spot, p[s]) - p[s].premium)
<1>1. Exit!Signed(p[c]) = p[c].qty /\ Exit!Signed(p[s]) = p[s].qty
  BY DEF Pair, Exit!Signed
<1>2. Exit!Net(p) = Exit!Signed(p[c]) * p[c].premium + Exit!Signed(p[s]) * p[s].premium
  BY TwoMake, 0 \in Nat DEF Pair
<1>3. ASSUME NEW spot \in Nat
      PROVE  /\ Exit!Intrinsic(spot, p[c]) \in Nat /\ Exit!Intrinsic(spot, p[s]) \in Nat
             /\ Exit!Pnl(spot, p) = Exit!Signed(p[c]) * (Exit!Intrinsic(spot, p[c]) - p[c].premium)
                                      + Exit!Signed(p[s]) * (Exit!Intrinsic(spot, p[s]) - p[s].premium)
  BY TwoMake DEF Pair
<1>4. QED
  BY <1>1, <1>2, <1>3

\* Two options are bought: where the call and the put are both worth nothing.
LEMMA PairJudged ==
  ASSUME BoundsAssumption, ExitTypes, Exit!Whole, Len(xPlan) = 2, xPlan[1].side = xPlan[2].side
  PROVE  Crosses(Exit!Least(Exit!Gains), Exit!Bounds(xLegs))
<1>1. DOMAIN xPlan = {1, 2}
  BY PlanIs DEF ExitTypes
<1>2. /\ FilledLegs(xLegs) /\ Len(xLegs) = 2 /\ DOMAIN xLegs = {1, 2}
  BY <1>1, WholeIs DEF ExitTypes
<1>3. PICK c \in {1, 2} : /\ xPlan[1].side = "BUY" /\ xPlan[c].kind = "CALL" /\ xPlan[3 - c].kind = "PUT"
                          /\ xPlan[3 - c].strike <= xPlan[c].strike
  <2>1. \E c \in 1..2 : /\ xPlan[1].side = "BUY" /\ xPlan[c].kind = "CALL" /\ xPlan[3 - c].kind = "PUT"
                        /\ xPlan[3 - c].strike <= xPlan[c].strike
    BY DEF ExitTypes, BoundsAssumption
  <2>2. 1..2 = {1, 2}
    OBVIOUS
  <2>3. QED
    BY <2>1, <2>2
<1>4. PICK s \in {1, 2} : s = 3 - c
  BY <1>3
<1>5. c # s /\ c \in {1, 2} /\ s \in {1, 2}
  BY <1>3, <1>4
<1>6. /\ xLegs[c].side = "BUY" /\ xLegs[s].side = "BUY" /\ xLegs[c].kind = "CALL" /\ xLegs[s].kind = "PUT"
      /\ xLegs[s].strike <= xLegs[c].strike /\ xLegs[c].strike \in Spots
  <2>1. /\ xLegs[c].side = xPlan[c].side /\ xLegs[c].kind = xPlan[c].kind /\ xLegs[c].strike = xPlan[c].strike
        /\ xLegs[s].side = xPlan[s].side /\ xLegs[s].kind = xPlan[s].kind /\ xLegs[s].strike = xPlan[s].strike
    BY <1>1, <1>5, PlannedLegIs
  <2>2. xPlan[c].side = "BUY" /\ xPlan[s].side = "BUY"
    BY <1>3, <1>5
  <2>3. xPlan[c].strike \in Spots
    BY <1>1, <1>5, Planned
  <2>4. QED
    BY <1>3, <1>4, <2>1, <2>2, <2>3
<1> DEFINE a == xLegs[c].qty
           b == xLegs[s].qty
           v == xLegs[c].premium
           w == xLegs[s].premium
           n == a * v + b * w
<1>7. /\ a \in Nat \ {0} /\ b \in Nat \ {0} /\ v \in Nat /\ w \in Nat
      /\ xLegs[c].strike \in Nat /\ xLegs[s].strike \in Nat
  BY <1>2, <1>5 DEF FilledLegs
<1>8. Pair(xLegs, c, s)
  BY <1>2, <1>5, <1>6 DEF Pair
<1>9. Exit!Net(xLegs) = n
  BY <1>8, PairMakes
<1>10. \A spot \in Nat :
         /\ Exit!Intrinsic(spot, xLegs[c]) \in Nat /\ Exit!Intrinsic(spot, xLegs[s]) \in Nat
         /\ Exit!Pnl(spot, xLegs) = a * (Exit!Intrinsic(spot, xLegs[c]) - v) + b * (Exit!Intrinsic(spot, xLegs[s]) - w)
  <2>1. ASSUME NEW spot \in Nat
        PROVE  /\ Exit!Intrinsic(spot, xLegs[c]) \in Nat /\ Exit!Intrinsic(spot, xLegs[s]) \in Nat
               /\ Exit!Pnl(spot, xLegs) =
                    xLegs[c].qty * (Exit!Intrinsic(spot, xLegs[c]) - xLegs[c].premium)
                      + xLegs[s].qty * (Exit!Intrinsic(spot, xLegs[s]) - xLegs[s].premium)
    BY <1>8, PairMakes
  <2>2. QED
    BY <2>1
<1>11. Exit!Intrinsic(xLegs[c].strike, xLegs[c]) = 0 /\ Exit!Intrinsic(xLegs[c].strike, xLegs[s]) = 0
  BY <1>6, <1>7 DEF Exit!Intrinsic, Exit!Above
<1> HIDE DEF a, b, v, w
<1>12. n \in Nat /\ a * (0 - v) + b * (0 - w) = -n
  <2>1. a * v \in Nat /\ b * w \in Nat
    BY <1>7
  <2>2. a * (0 - v) = a * 0 - a * v /\ a * 0 = 0
    <3>1. 0 \in Int /\ v \in Int
      BY <1>7
    <3>2. QED
      BY <1>7, <3>1, Scales
  <2>3. b * (0 - w) = b * 0 - b * w /\ b * 0 = 0
    <3>1. 0 \in Int /\ w \in Int
      BY <1>7
    <3>2. QED
      BY <1>7, <3>1, Scales
  <2>4. QED
    BY <2>1, <2>2, <2>3
<1>13. -n \in Exit!Gains
  <2>1. Exit!Pnl(xLegs[c].strike, xLegs) = a * (0 - v) + b * (0 - w)
    <3>1. xLegs[c].strike \in Nat
      BY <1>7
    <3>2. Exit!Pnl(xLegs[c].strike, xLegs)
            = a * (Exit!Intrinsic(xLegs[c].strike, xLegs[c]) - v) + b * (Exit!Intrinsic(xLegs[c].strike, xLegs[s]) - w)
      BY <1>10, <3>1
    <3>3. QED
      BY <1>11, <3>2
  <2>2. Exit!Pnl(xLegs[c].strike, xLegs) \in Exit!Gains
    BY <1>6 DEF Exit!Gains
  <2> HIDE DEF n
  <2>3. -n = Exit!Pnl(xLegs[c].strike, xLegs)
    BY <1>12, <2>1
  <2>4. QED
    BY <2>2, <2>3
<1>14. \A spot \in Spots : Exit!Pnl(spot, xLegs) \in Int /\ -n <= Exit!Pnl(spot, xLegs)
  <2> TAKE spot \in Spots
  <2> DEFINE x == Exit!Intrinsic(spot, xLegs[c])
             y == Exit!Intrinsic(spot, xLegs[s])
  <2>1. spot \in Nat
    BY DEF BoundsAssumption
  <2>2. x \in Nat /\ y \in Nat /\ Exit!Pnl(spot, xLegs) = a * (x - v) + b * (y - w)
    BY <1>10, <2>1
  <2> HIDE DEF x, y, n
  <2>3. /\ 0 - v \in Int /\ x - v \in Int /\ 0 - v <= x - v
        /\ 0 - w \in Int /\ y - w \in Int /\ 0 - w <= y - w
    BY <1>7, <2>2
  <2>4. a * (0 - v) <= a * (x - v) /\ a * (x - v) \in Int /\ a * (0 - v) \in Int
    BY <1>7, <2>3, Scales
  <2>5. b * (0 - w) <= b * (y - w) /\ b * (y - w) \in Int /\ b * (0 - w) \in Int
    BY <1>7, <2>3, Scales
  <2>6. QED
    BY <1>12, <2>2, <2>4, <2>5
<1> HIDE DEF n
<1>15. Exit!Gains \in SUBSET Int /\ \A x \in Exit!Gains : -n <= x
  BY <1>14 DEF Exit!Gains
<1>16. Exit!Least(Exit!Gains) = -n
  BY <1>13, <1>15, ExitLeastIs
<1>17. -n \in Int /\ -n <= -n
  BY <1>12
<1>18. xLegs[1].side = xLegs[2].side
  BY <1>5, <1>6
<1>19. QED
  BY <1>2, <1>9, <1>12, <1>16, <1>17, <1>18, BoughtJudged

\* Two legs of which one is sold are a vertical that was filled within its width.
LEMMA IsNarrow ==
  ASSUME BoundsAssumption, ExitTypes, Exit!Whole, Len(xPlan) = 2, xPlan[1].side # xPlan[2].side
  PROVE  /\ Crosses(Exit!Least(Exit!Gains), Exit!Bounds(xLegs))
         /\ Crosses(Exit!Greatest(Exit!Gains), Exit!Bounds(xLegs))
<1>1. DOMAIN xPlan = {1, 2}
  BY PlanIs DEF ExitTypes
<1>2. /\ FilledLegs(xLegs) /\ Len(xLegs) = 2 /\ DOMAIN xLegs = {1, 2}
      /\ \A i \in {1, 2} : xLegs[i].premium \in Nat /\ xLegs[i].premium - xPlan[i].premium \in Slips
  BY <1>1, WholeIs DEF ExitTypes
<1>3. \A i \in {1, 2} : /\ xLegs[i].kind = xPlan[i].kind /\ xLegs[i].side = xPlan[i].side
                        /\ xLegs[i].strike = xPlan[i].strike /\ xLegs[i].qty = xPlan[i].qty
                        /\ xPlan[i] \in PlanLegs
  BY <1>1, PlannedLegIs
<1>4. /\ xPlan[1].kind = xPlan[2].kind /\ xPlan[1].qty = xPlan[2].qty
      /\ \A s, t \in Slips :
           LET a == xPlan[1].premium + s  b == xPlan[2].premium + t IN
           a >= 0 /\ b >= 0 =>
             \E i \in 1..2 : /\ a - b < xPlan[i].strike - xPlan[3 - i].strike
                            /\ b - a < xPlan[i].strike - xPlan[3 - i].strike
  BY DEF ExitTypes, BoundsAssumption
<1>5. PICK i \in {1, 2} :
        /\ xLegs[1].premium - xLegs[2].premium < xPlan[i].strike - xPlan[3 - i].strike
        /\ xLegs[2].premium - xLegs[1].premium < xPlan[i].strike - xPlan[3 - i].strike
  <2> DEFINE s == xLegs[1].premium - xPlan[1].premium
             t == xLegs[2].premium - xPlan[2].premium
  <2>1. s \in Slips /\ t \in Slips
    BY <1>2
  <2>2. /\ xPlan[1].premium \in Nat /\ xPlan[2].premium \in Nat
        /\ xLegs[1].premium \in Nat /\ xLegs[2].premium \in Nat
    BY <1>2, <1>3 DEF PlanLegs
  <2>3. /\ xPlan[1].premium + s = xLegs[1].premium /\ xPlan[2].premium + t = xLegs[2].premium
    BY <2>2
  <2> HIDE DEF s, t
  <2>4. LET a == xPlan[1].premium + s  b == xPlan[2].premium + t IN
           a >= 0 /\ b >= 0 =>
             \E i \in 1..2 : /\ a - b < xPlan[i].strike - xPlan[3 - i].strike
                            /\ b - a < xPlan[i].strike - xPlan[3 - i].strike
    BY <1>4, <2>1
  <2>5. \E i \in 1..2 : /\ xLegs[1].premium - xLegs[2].premium < xPlan[i].strike - xPlan[3 - i].strike
                        /\ xLegs[2].premium - xLegs[1].premium < xPlan[i].strike - xPlan[3 - i].strike
    BY <2>2, <2>3, <2>4
  <2>6. 1..2 = {1, 2}
    OBVIOUS
  <2>7. QED
    BY <2>5, <2>6
<1>6. PICK j \in {1, 2} : j = 3 - i
  BY <1>5
<1>7. PICK b \in {1, 2} : xLegs[b].side = "BUY"
  BY <1>3 DEF PlanLegs
<1>8. PICK s \in {1, 2} : s # b
  BY <1>7
<1>9. xLegs[s].side = "SELL"
  BY <1>3, <1>7, <1>8 DEF PlanLegs
<1> DEFINE width == xPlan[i].strike - xPlan[j].strike
<1>10. Narrow(xLegs, b, s, width)
  <2>1. xPlan[i].strike \in Nat /\ xPlan[j].strike \in Nat /\ width \in Int
    BY <1>3 DEF PlanLegs
  <2>2. xLegs[1].premium - xLegs[2].premium < width /\ xLegs[2].premium - xLegs[1].premium < width
    BY <1>5, <1>6
  <2>3. width \in Nat \ {0}
    BY <1>2, <2>1, <2>2
  <2>4. width = xLegs[i].strike - xLegs[j].strike
    BY <1>3
  <2>5. (i = b /\ j = s) \/ (i = s /\ j = b)
    BY <1>6, <1>8
  <2>6. width = xLegs[b].strike - xLegs[s].strike \/ width = xLegs[s].strike - xLegs[b].strike
    BY <2>4, <2>5
  <2>7. xLegs[b].premium - xLegs[s].premium < width /\ xLegs[s].premium - xLegs[b].premium < width
    BY <1>8, <2>2
  <2>8. xLegs[b].kind = xLegs[s].kind /\ xLegs[b].qty = xLegs[s].qty
    BY <1>3, <1>4, <1>8
  <2> HIDE DEF width
  <2>9. QED
    BY <1>2, <1>7, <1>8, <1>9, <2>3, <2>6, <2>7, <2>8 DEF Narrow
<1>11. xLegs[b].strike \in Spots /\ xLegs[s].strike \in Spots
  BY <1>1, <1>3, Planned
<1>12. Spots \in SUBSET Nat
  BY DEF BoundsAssumption
<1> HIDE DEF width
<1>13. LET gains == {Exit!Pnl(spot, xLegs) : spot \in Spots} IN
       Crosses(Exit!Least(gains), Exit!Bounds(xLegs)) /\ Crosses(Exit!Greatest(gains), Exit!Bounds(xLegs))
  BY <1>10, <1>11, <1>12, NarrowJudged
<1>14. QED
  BY <1>13 DEF Exit!Gains

\* A structure does not stand at an outcome that crosses its bounds.
LEMMA NotThere ==
  ASSUME BoundsAssumption, BoundsInv, Exit!Discovery, xState = "OPEN", Exit!Whole, NEW worst,
         Crosses(worst, Exit!Bounds(xLegs))
  PROVE  ~Exit!StandsAt(worst)
<1> SUFFICES ASSUME xJudged.times >= Confirm, Exit!Pnl(xJudged.spot, xLegs) = worst
             PROVE  FALSE
  BY DEF Exit!StandsAt
<1>1. xPolicy.stop = Exit!Bounds(xLegs).stop /\ xPolicy.target = Exit!Bounds(xLegs).target
  BY DEF BoundsInv, PolicyHolds
<1>2. Asked(100 * worst) # "NONE"
  BY <1>1 DEF Asked, Crosses
<1>3. xJudged.times \in Nat /\ Confirm \in Nat \ {0} /\ xPolicy.count \in Nat
  BY DEF BoundsInv, ExitTypes, BoundsAssumption
<1>4. xJudged.times <= xPolicy.count /\ xPolicy.count < Confirm
  BY <1>2, <1>3 DEF BoundsInv, JudgedHolds
<1>5. QED
  BY <1>3, <1>4

\* Under DISCOVERY no bought option, straddle, strangle or vertical, filled at any price
\* near the plan's and within its width, stands where it has lost, and no vertical where
\* it has gained, all that it can, as long as an exit takes to be confirmed
\* (structure_pnl_bounds, ExitEngine.evaluate, evaluate_discovery_confirmation).
THEOREM BoundsAreReached == TradeLife => []BoundsReached
<1>1. ASSUME BoundsAssumption, BoundsInv PROVE BoundsReached
  <2>0. ExitTypes /\ Len(xPlan) \in 1..4
    BY PlanIs, <1>1 DEF BoundsInv, ExitTypes
  <2>1. ASSUME Exit!Discovery, Len(xPlan) <= 2, xState = "OPEN", Exit!Whole
        PROVE  ~Exit!StandsAt(Exit!Least(Exit!Gains))
    <3>1. Len(xPlan) = 1 \/ Len(xPlan) = 2
      BY <2>0, <2>1
    <3>2. Crosses(Exit!Least(Exit!Gains), Exit!Bounds(xLegs))
      BY <1>1, <2>0, <2>1, <3>1, OneJudged, PairJudged, IsNarrow
    <3>3. QED
      BY <1>1, <2>1, <3>2, NotThere
  <2>2. ASSUME Exit!Discovery, Exit!TwoLegs(xPlan), xState = "OPEN", Exit!Whole
        PROVE  ~Exit!StandsAt(Exit!Greatest(Exit!Gains))
    <3>1. Len(xPlan) = 2 /\ xPlan[1].side # xPlan[2].side
      BY <2>2 DEF Exit!TwoLegs
    <3>2. Crosses(Exit!Greatest(Exit!Gains), Exit!Bounds(xLegs))
      BY <1>1, <2>0, <2>2, <3>1, IsNarrow
    <3>3. QED
      BY <1>1, <2>2, <3>2, NotThere
  <2>3. QED
    BY <2>1, <2>2 DEF BoundsReached, Exit!BoundsReached, Exit!StoppedAtWorst, Exit!TakenAtBest
<1>2. BoundsInv => BoundsReached
  BY <1>1, BoundsAssumption
<1>3. QED
  BY <1>2, BoundsSafe, BoundsAssumption, PTL

=============================================================================
