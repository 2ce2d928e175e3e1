--------------------------- MODULE PaperExit_proofs ---------------------------
(***************************************************************************)
(* Theorems about PaperExit, for any legs, any number of callers and any   *)
(* number of crashes.                                                      *)
(***************************************************************************)
EXTENDS ExitRecovery, WellFoundedInduction, TLAPS

-----------------------------------------------------------------------------

\* The edges that the exit path asks the state machines for.
LEMMA Edges ==
  /\ \A s : CanTrade(s, "CLOSED", "BROKER_EVENT") <=> s = "CLOSING"
  /\ \A s : CanTrade(s, "EXIT_PENDING", "LOCAL_COMMAND") <=> s = "OPEN"
  /\ \A s : CanReservation(s, "RELEASED", "BROKER_EVENT") => s \in {"RESERVED", "COMMITTED"}
<1>1. ASSUME NEW s PROVE CanTrade(s, "CLOSED", "BROKER_EVENT") <=> s = "CLOSING"
  BY DEF CanTrade, TradeEdge, AnyTrigger, Triggers
<1>2. ASSUME NEW s PROVE CanTrade(s, "EXIT_PENDING", "LOCAL_COMMAND") <=> s = "OPEN"
  BY DEF CanTrade, TradeEdge, AnyTrigger, Triggers
<1>3. ASSUME NEW s, CanReservation(s, "RELEASED", "BROKER_EVENT")
      PROVE  s \in {"RESERVED", "COMMITTED"}
  BY <1>3 DEF CanReservation, ReservationEdge
<1> QED
  BY <1>1, <1>2, <1>3

\* The names of the states that the exit path writes.
LEMMA Names ==
  /\ {"NONE", "CREATED", "SUBMITTING", "FILLED", "REJECTED"} \subseteq States
  /\ Outcomes \subseteq States
  /\ {"OPEN", "EXIT_PENDING", "CLOSING", "CLOSED"} \subseteq TradeStates
BY OutcomesAssumption DEF States, OrderStates, TradeStates

\* A nonempty set of naturals has a least member.
LEMMA LeastOne ==
  ASSUME NEW S \in SUBSET Nat, S # {}
  PROVE  \E k \in S : \A j \in S : k <= j
<1>1. PICK k \in S : \A j \in S : ~(<<j, k>> \in OpToRel(<, Nat))
  BY WFMin, NatLessThanWellFounded
<1>2. \A j \in S : ~(j < k)
  BY <1>1 DEF OpToRel
<1> QED
  BY <1>2

\* First takes one of the legs it is given, and a short while there is one.
LEMMA FirstIsOne ==
  ASSUME NEW S \in SUBSET Legs, S # {}
  PROVE  /\ First(S) \in S
         /\ S \cap Shorts # {} => First(S) \in Shorts
<1> DEFINE ahead(j, k) == \/ j \in Shorts /\ k \notin Shorts
                          \/ (j \in Shorts <=> k \in Shorts) /\ j <= k
<1>1. \E k \in S : \A j \in S : ahead(k, j)
  <2>1. CASE S \cap Shorts # {}
    <3>1. PICK k \in S \cap Shorts : \A j \in S \cap Shorts : k <= j
      BY <2>1, LeastOne, LegsAssumption
    <3> QED
      BY <3>1
  <2>2. CASE S \cap Shorts = {}
    <3>1. PICK k \in S : \A j \in S : k <= j
      BY LeastOne, LegsAssumption
    <3> QED
      BY <2>2, <3>1
  <2> QED
    BY <2>1, <2>2
<1>2. First(S) = CHOOSE k \in S : \A j \in S : ahead(k, j)
  BY DEF First
<1>3. First(S) \in S /\ \A j \in S : ahead(First(S), j)
  <2> HIDE DEF ahead
  <2> QED
    BY <1>1, <1>2
<1> QED
  BY <1>3

-----------------------------------------------------------------------------

\* A step of one caller leaves a well-formed call, and the others alone.
LEMMA GoesOne ==
  ASSUME call \in [Threads -> CallType], NEW t \in Threads, NEW c, Goes(t, c)
  PROVE  /\ call'[t] = c
         /\ \A u \in Threads \ {t} : call'[u] = call[u]
         /\ c \in CallType => call' \in [Threads -> CallType]
BY DEF Goes

\* The calls that the actions make are well-formed.
LEMMA Calls ==
  ASSUME call \in [Threads -> CallType], NEW t \in Threads
  PROVE  /\ NoCall \in CallType /\ call[t] \in CallType
         /\ \A stage \in Stages, S \in SUBSET Legs, b \in BOOLEAN :
              [NoCall EXCEPT !.pc = stage, !.todo = S, !.adopting = b] \in CallType
         /\ \A stage \in Stages : [call[t] EXCEPT !.pc = stage] \in CallType
         /\ \A stage \in Stages, S \in SUBSET Legs :
              [call[t] EXCEPT !.pc = stage, !.todo = S] \in CallType
         /\ \A stage \in Stages, e \in States :
              [call[t] EXCEPT !.pc = stage, !.seen[Leg(t)] = e,
                              !.todo = @ \ {Leg(t)}] \in CallType
         /\ \A stage \in Stages, e \in States :
              [[call[t] EXCEPT !.seen[Leg(t)] = e, !.todo = @ \ {Leg(t)}]
                 EXCEPT !.pc = stage] \in CallType
         /\ \A stage \in Stages, e \in States :
              [[call[t] EXCEPT !.seen[Leg(t)] = e, !.todo = @ \ {Leg(t)}]
                 EXCEPT !.pc = stage, !.todo = {}] \in CallType
<1>1. NoCall \in CallType
  BY Names DEF NoCall, CallType, NoEvents, Stages
<1>2. call[t] \in CallType
  OBVIOUS
<1> QED
  BY <1>1, <1>2 DEF CallType, NoCall

\* Move changes the stage of one call.
LEMMA MoveMade ==
  ASSUME call \in [Threads -> CallType], NEW t \in Threads, NEW stage \in Stages,
         Move(t, stage)
  PROVE  /\ call' \in [Threads -> CallType]
         /\ \A u \in Threads \ {t} : call'[u] = call[u]
         /\ call'[t].pc = stage /\ call'[t].todo = call[t].todo
         /\ call'[t].seen = call[t].seen
<1>1. [call[t] EXCEPT !.pc = stage] \in CallType
  BY Calls
<1>2. call[t] \in CallType
  OBVIOUS
<1>3. call'[t] = [call[t] EXCEPT !.pc = stage]
  BY GoesOne DEF Move
<1>4. /\ [call[t] EXCEPT !.pc = stage].pc = stage
      /\ [call[t] EXCEPT !.pc = stage].todo = call[t].todo
      /\ [call[t] EXCEPT !.pc = stage].seen = call[t].seen
  BY <1>2 DEF CallType
<1> QED
  BY <1>1, <1>3, <1>4, GoesOne DEF Move

\* Starts makes a new call, with no event in hand.
LEMMA StartsMade ==
  ASSUME call \in [Threads -> CallType], NEW t \in Threads, NEW stage \in Stages,
         NEW S \in SUBSET Legs, NEW b \in BOOLEAN, Starts(t, stage, S, b)
  PROVE  /\ call' \in [Threads -> CallType]
         /\ \A u \in Threads \ {t} : call'[u] = call[u]
         /\ call'[t].pc = stage /\ call'[t].todo = S /\ call'[t].seen = NoEvents
<1>1. [NoCall EXCEPT !.pc = stage, !.todo = S, !.adopting = b] \in CallType
  BY Calls
<1>2. call'[t] = [NoCall EXCEPT !.pc = stage, !.todo = S, !.adopting = b]
  BY GoesOne DEF Starts
<1> QED
  BY <1>1, <1>2, GoesOne DEF Starts, NoCall

\* A call that has ended is idle and has nothing in hand.
LEMMA EndMade ==
  ASSUME call \in [Threads -> CallType], NEW t \in Threads, Goes(t, NoCall)
  PROVE  /\ call' \in [Threads -> CallType]
         /\ \A u \in Threads \ {t} : call'[u] = call[u]
         /\ call'[t].pc = "idle" /\ call'[t].todo = {} /\ call'[t].seen = NoEvents
<1>1. NoCall \in CallType
  BY Calls
<1> QED
  BY <1>1, GoesOne DEF NoCall

\* One leg's result joins the call.
LEMMA AfterLegMade ==
  ASSUME call \in [Threads -> CallType], NEW t \in Threads, NEW e \in States,
         AfterLeg(t, e)
  PROVE  /\ call' \in [Threads -> CallType]
         /\ \A u \in Threads \ {t} : call'[u] = call[u]
         /\ call'[t].seen = [call[t].seen EXCEPT ![Leg(t)] = e]
         /\ call'[t].pc \in {"record", "lookup"}
         /\ call'[t].pc = "lookup" => call'[t].todo # {}
<1> DEFINE c == [call[t] EXCEPT !.seen[Leg(t)] = e, !.todo = @ \ {Leg(t)}]
<1>0. call[t] \in CallType
  OBVIOUS
<1>1. CASE Goes(t, [c EXCEPT !.pc = "record", !.todo = {}])
  <2>1. [c EXCEPT !.pc = "record", !.todo = {}] \in CallType
    BY Calls DEF Stages
  <2>2. /\ call' \in [Threads -> CallType] /\ call'[t] = [c EXCEPT !.pc = "record", !.todo = {}]
        /\ \A u \in Threads \ {t} : call'[u] = call[u]
    BY <1>1, <2>1, GoesOne
  <2>3. [c EXCEPT !.pc = "record", !.todo = {}].seen = [call[t].seen EXCEPT ![Leg(t)] = e]
        /\ [c EXCEPT !.pc = "record", !.todo = {}].pc = "record"
    BY <1>0 DEF CallType
  <2> QED
    BY <2>2, <2>3
<1>2. CASE c.todo # {} /\ Goes(t, [c EXCEPT !.pc = "lookup"])
  <2>1. [c EXCEPT !.pc = "lookup"] \in CallType
    BY Calls DEF Stages
  <2>2. /\ call' \in [Threads -> CallType] /\ call'[t] = [c EXCEPT !.pc = "lookup"]
        /\ \A u \in Threads \ {t} : call'[u] = call[u]
    BY <1>2, <2>1, GoesOne
  <2>3. [c EXCEPT !.pc = "lookup"].seen = [call[t].seen EXCEPT ![Leg(t)] = e]
        /\ [c EXCEPT !.pc = "lookup"].pc = "lookup"
        /\ [c EXCEPT !.pc = "lookup"].todo = c.todo
    BY <1>0 DEF CallType
  <2> QED
    BY <1>2, <2>2, <2>3
<1>3. \/ Goes(t, [c EXCEPT !.pc = "record", !.todo = {}])
      \/ c.todo # {} /\ Goes(t, [c EXCEPT !.pc = "lookup"])
  BY DEF AfterLeg
<1> QED
  BY <1>1, <1>2, <1>3

\* The plan goes on only past a leg that did not fail, and without that leg.
LEMMA AfterLegPlan ==
  ASSUME call \in [Threads -> CallType], NEW t \in Threads, NEW e \in Outcomes,
         AfterLeg(t, e)
  PROVE  /\ call'[t].pc \in {"record", "lookup"}
         /\ call'[t].pc = "lookup" => e = "FILLED" /\ call'[t].todo = call[t].todo \ {Leg(t)}
<1> DEFINE c == [call[t] EXCEPT !.seen[Leg(t)] = e, !.todo = @ \ {Leg(t)}]
<1>0. call[t] \in CallType /\ e \in States
  BY Names
<1>1. c \in CallType /\ c.todo = call[t].todo \ {Leg(t)}
  <2>1. Leg(t) \in Legs \/ Leg(t) \notin Legs
    OBVIOUS
  <2> QED
    BY <1>0, <2>1, Names DEF CallType
<1>2. CASE Goes(t, [c EXCEPT !.pc = "record", !.todo = {}])
  <2>1. call'[t] = [c EXCEPT !.pc = "record", !.todo = {}]
    BY <1>2, GoesOne
  <2> QED
    BY <1>1, <2>1 DEF CallType
<1>3. CASE e \notin Failed /\ Goes(t, [c EXCEPT !.pc = "lookup"])
  <2>1. call'[t] = [c EXCEPT !.pc = "lookup"]
    BY <1>3, GoesOne
  <2>2. e = "FILLED"
    BY <1>3, OutcomesAssumption DEF Failed
  <2> QED
    BY <1>1, <2>1, <2>2 DEF CallType
<1>4. \/ Goes(t, [c EXCEPT !.pc = "record", !.todo = {}])
      \/ e \notin Failed /\ Goes(t, [c EXCEPT !.pc = "lookup"])
  BY DEF AfterLeg
<1> QED
  BY <1>2, <1>3, <1>4

\* An event that has been applied is one that was seen.
LEMMA NextEventMade ==
  ASSUME call \in [Threads -> CallType], NEW t \in Threads, NEW stage \in Stages,
         Event(t) \in States, NextEvent(t, stage)
  PROVE  /\ call' \in [Threads -> CallType]
         /\ \A u \in Threads \ {t} : call'[u] = call[u]
         /\ call'[t].seen = [call[t].seen EXCEPT ![Leg(t)] = Event(t)]
         /\ call'[t].pc = stage /\ call'[t].todo = call[t].todo \ {Leg(t)}
<1> DEFINE c == [call[t] EXCEPT !.pc = stage, !.seen[Leg(t)] = Event(t),
                                !.todo = @ \ {Leg(t)}]
<1>0. call[t] \in CallType
  OBVIOUS
<1>1. c \in CallType
  BY Calls
<1>2. call' \in [Threads -> CallType] /\ call'[t] = c
  BY <1>1, GoesOne DEF NextEvent
<1>3. /\ c.seen = [call[t].seen EXCEPT ![Leg(t)] = Event(t)] /\ c.pc = stage
      /\ c.todo = call[t].todo \ {Leg(t)}
  BY <1>0 DEF CallType
<1> QED
  BY <1>2, <1>3, GoesOne DEF NextEvent

\* The event applied next is typed, and its leg is one of the call's.
LEMMA EventTyped ==
  ASSUME TypeOK, NEW t \in Threads, call[t].todo # {}
  PROVE  Leg(t) \in call[t].todo /\ Leg(t) \in Legs /\ Event(t) \in States
<1>1. call[t] \in CallType
  BY DEF TypeOK
<1>2. Leg(t) \in call[t].todo /\ Leg(t) \in Legs
  BY <1>1, FirstIsOne DEF Leg, CallType
<1>3. call[t].seen[Leg(t)] \in States
  BY <1>1, <1>2 DEF CallType
<1>4. ExitOrderEvent(Leg(t)) \in States
  BY <1>2, Names DEF ExitOrderEvent, TypeOK
<1> QED
  BY <1>2, <1>3, <1>4 DEF Event

-----------------------------------------------------------------------------

\* A call that is sending orders has one in hand.
Sending == {"lookup", "create", "send", "broker", "adopt"}

HandsFull == \A t \in Threads : call[t].pc \in Sending => call[t].todo # {}

\* When one call moves on, the others keep what they had in hand.
LEMMA StillFull ==
  ASSUME HandsFull, NEW t \in Threads, \A u \in Threads \ {t} : call'[u] = call[u],
         call'[t].pc \in Sending => call'[t].todo # {}
  PROVE  HandsFull'
BY DEF HandsFull

\* Type correctness is inductive, with the calls' hands full.
LEMMA TypeKept ==
  ASSUME TypeOK, HandsFull, [Next]_vars
  PROVE  TypeOK' /\ HandsFull'
<1> USE Names
<1>0. /\ call \in [Threads -> CallType] /\ trade \in Trade /\ row \in Row
      /\ \A t \in Threads : call[t] \in CallType /\ call[t].todo \in SUBSET Legs
      /\ row.ids \in SUBSET Legs /\ row.legs \in SUBSET Legs /\ row.state \in TradeStates
      /\ trade.legs \in SUBSET Legs /\ trade.state \in TradeStates
  BY DEF TypeOK, CallType, Trade, Row
<1>1. ASSUME NEW ids \in SUBSET Legs, WriteRow(ids) PROVE row' \in Row
  BY <1>0, <1>1 DEF WriteRow, Row
<1>2. ASSUME NEW t \in Threads, call[t].pc \in Sending
      PROVE  /\ Leg(t) \in Legs /\ call[t].todo # {}
             /\ log[Leg(t)] \in States /\ cache[Leg(t)] \in States
             /\ order[Leg(t)] \in States
  BY <1>0, <1>2, FirstIsOne DEF Leg, HandsFull, TypeOK
<1>3. ASSUME NEW t \in Threads, Judge(t) PROVE TypeOK' /\ HandsFull'
  <2>1. /\ call' \in [Threads -> CallType] /\ \A u \in Threads \ {t} : call'[u] = call[u]
        /\ call'[t].pc \in Sending => call'[t].todo # {}
    BY <1>0, <1>3, MoveMade DEF Judge, Stages, Sending
  <2> QED
    BY <1>0, <1>3, <2>1, StillFull DEF Judge, TypeOK, orders, Sending
<1>4. ASSUME NEW t \in Threads, RequestExit(t) PROVE TypeOK' /\ HandsFull'
  <2>1. /\ call' \in [Threads -> CallType] /\ \A u \in Threads \ {t} : call'[u] = call[u]
        /\ call'[t].pc \in Sending => call'[t].todo # {}
    <3>1. /\ {} \in SUBSET Legs /\ FALSE \in BOOLEAN /\ "requested" \in Stages
          /\ "requested" \notin Sending
      BY DEF Stages, Sending
    <3> QED
      BY <1>0, <1>4, <3>1, StartsMade DEF RequestExit
  <2>2. trade' \in Trade
    BY <1>0, <1>4 DEF RequestExit, Trade
  <2> QED
    BY <1>0, <1>4, <2>1, <2>2, StillFull DEF RequestExit, TypeOK, orders, Sending
<1>5. ASSUME NEW t \in Threads, WriteRequest(t) PROVE TypeOK' /\ HandsFull'
  <2>1. /\ call' \in [Threads -> CallType] /\ \A u \in Threads \ {t} : call'[u] = call[u]
        /\ call'[t].pc \in Sending => call'[t].todo # {}
    <3>1. "choose" \in Stages \ Sending /\ "idle" \notin Sending
      BY DEF Stages, Sending
    <3> QED
      BY <1>0, <1>5, <3>1, MoveMade, EndMade DEF WriteRequest
  <2>2. row' \in Row
    BY <1>0, <1>1, <1>5 DEF WriteRequest
  <2> QED
    BY <1>0, <1>5, <2>1, <2>2, StillFull DEF WriteRequest, TypeOK, orders, Sending
<1>6. ASSUME NEW t \in Threads, Resume(t) PROVE TypeOK' /\ HandsFull'
  <2>1. /\ call' \in [Threads -> CallType] /\ \A u \in Threads \ {t} : call'[u] = call[u]
        /\ call'[t].pc \in Sending => call'[t].todo # {}
    <3>1. /\ {FALSE, TRUE} \subseteq BOOLEAN
          /\ {"choose", "apply"} \subseteq Stages \ Sending
      BY DEF Stages, Sending
    <3> QED
      BY <1>0, <1>6, <3>1, StartsMade DEF Resume, Adopts
  <2> QED
    BY <1>0, <1>6, <2>1, StillFull DEF Resume, TypeOK, orders, Sending
<1>7. ASSUME NEW t \in Threads, AdoptRecorded(t) PROVE TypeOK' /\ HandsFull'
  <2>1. /\ call' \in [Threads -> CallType] /\ \A u \in Threads \ {t} : call'[u] = call[u]
        /\ call'[t].pc \in Sending => call'[t].todo # {}
    <3>1. /\ {FALSE, TRUE} \subseteq BOOLEAN
          /\ {"choose", "apply"} \subseteq Stages \ Sending
      BY DEF Stages, Sending
    <3> QED
      BY <1>0, <1>7, <3>1, StartsMade DEF AdoptRecorded, Adopts
  <2> QED
    BY <1>0, <1>7, <2>1, StillFull DEF AdoptRecorded, TypeOK, orders, Sending
<1>8. ASSUME NEW t \in Threads, PlanExit(t) PROVE TypeOK' /\ HandsFull'
  <2>1. /\ call' \in [Threads -> CallType] /\ \A u \in Threads \ {t} : call'[u] = call[u]
        /\ call'[t].pc \in Sending => call'[t].todo # {}
    BY <1>0, <1>8, MoveMade DEF PlanExit, Stages, Sending
  <2> QED
    BY <1>0, <1>8, <2>1, StillFull DEF PlanExit, TypeOK, orders, Sending
<1>9. ASSUME NEW t \in Threads, NoPlan(t) PROVE TypeOK' /\ HandsFull'
  <2>1. /\ call' \in [Threads -> CallType] /\ \A u \in Threads \ {t} : call'[u] = call[u]
        /\ call'[t].pc \in Sending => call'[t].todo # {}
    BY <1>0, <1>9, EndMade DEF NoPlan, Sending, Raises
  <2> QED
    BY <1>0, <1>9, <2>1, StillFull DEF NoPlan, TypeOK, orders, Sending
<1>10. ASSUME NEW t \in Threads, LookupKnown(t) PROVE TypeOK' /\ HandsFull'
  <2>1. /\ call' \in [Threads -> CallType] /\ \A u \in Threads \ {t} : call'[u] = call[u]
        /\ call'[t].pc \in Sending => call'[t].todo # {}
    <3>1. "record" \notin Sending
      BY DEF Sending
    <3> QED
      BY <1>0, <1>2, <1>10, <3>1, AfterLegMade DEF LookupKnown, At, Sending
  <2> QED
    BY <1>0, <1>10, <2>1, StillFull DEF LookupKnown, TypeOK, orders, Sending
<1>11. ASSUME NEW t \in Threads, LookupNew(t) PROVE TypeOK' /\ HandsFull'
  <2>1. /\ call' \in [Threads -> CallType] /\ \A u \in Threads \ {t} : call'[u] = call[u]
        /\ call'[t].pc \in Sending => call'[t].todo # {}
    BY <1>0, <1>2, <1>11, MoveMade DEF LookupNew, Stages, Sending, At
  <2> QED
    BY <1>0, <1>11, <2>1, StillFull DEF LookupNew, TypeOK, orders, Sending
<1>12. ASSUME NEW t \in Threads, PersistCreated(t) PROVE TypeOK' /\ HandsFull'
  <2>1. /\ call' \in [Threads -> CallType] /\ \A u \in Threads \ {t} : call'[u] = call[u]
        /\ call'[t].pc \in Sending => call'[t].todo # {}
    BY <1>0, <1>2, <1>12, MoveMade DEF PersistCreated, Stages, Sending, At
  <2>2. log' \in [Legs -> States] /\ cache' \in [Legs -> States]
    BY <1>0, <1>2, <1>12 DEF PersistCreated, Logged, TypeOK, At, Sending
  <2> QED
    BY <1>0, <1>12, <2>1, <2>2, StillFull DEF PersistCreated, TypeOK, orders, Sending
<1>13. ASSUME NEW t \in Threads, PersistSubmitting(t) PROVE TypeOK' /\ HandsFull'
  <2>1. /\ call' \in [Threads -> CallType] /\ \A u \in Threads \ {t} : call'[u] = call[u]
        /\ call'[t].pc \in Sending => call'[t].todo # {}
    BY <1>0, <1>2, <1>13, MoveMade DEF PersistSubmitting, Stages, Sending, At
  <2>2. log' \in [Legs -> States] /\ cache' \in [Legs -> States]
    BY <1>0, <1>2, <1>13 DEF PersistSubmitting, Logged, TypeOK, At, Sending
  <2> QED
    BY <1>0, <1>13, <2>1, <2>2, StillFull DEF PersistSubmitting, TypeOK, orders, Sending
<1>14. ASSUME NEW t \in Threads, BrokerAnswers(t) PROVE TypeOK' /\ HandsFull'
  <2>1. /\ call' \in [Threads -> CallType] /\ \A u \in Threads \ {t} : call'[u] = call[u]
        /\ call'[t].pc \in Sending => call'[t].todo # {}
    BY <1>0, <1>2, <1>14, MoveMade DEF BrokerAnswers, Stages, Sending, At
  <2>2. order' \in [Legs -> Outcomes \cup {"NONE"}] /\ held' \subseteq Legs
    BY <1>14 DEF BrokerAnswers, TypeOK
  <2> QED
    BY <1>0, <1>14, <2>1, <2>2, StillFull DEF BrokerAnswers, TypeOK, orders, Sending
<1>15. ASSUME NEW t \in Threads, BrokerRefuses(t) PROVE TypeOK' /\ HandsFull'
  <2>1. /\ call' \in [Threads -> CallType] /\ \A u \in Threads \ {t} : call'[u] = call[u]
        /\ call'[t].pc \in Sending => call'[t].todo # {}
    BY <1>0, <1>15, EndMade DEF BrokerRefuses, Sending, Raises
  <2> QED
    BY <1>0, <1>15, <2>1, StillFull DEF BrokerRefuses, TypeOK, orders, Sending
<1>16. ASSUME NEW t \in Threads, PersistFinal(t) PROVE TypeOK' /\ HandsFull'
  <2>1. /\ call' \in [Threads -> CallType] /\ \A u \in Threads \ {t} : call'[u] = call[u]
        /\ call'[t].pc \in Sending => call'[t].todo # {}
    <3>1. "record" \notin Sending
      BY DEF Sending
    <3> QED
      BY <1>0, <1>2, <1>16, <3>1, AfterLegMade DEF PersistFinal, At, Sending
  <2>2. log' \in [Legs -> States] /\ cache' \in [Legs -> States]
    BY <1>0, <1>2, <1>16 DEF PersistFinal, Logged, TypeOK, At, Sending
  <2> QED
    BY <1>0, <1>16, <2>1, <2>2, StillFull DEF PersistFinal, TypeOK, orders, Sending
<1>17. ASSUME NEW t \in Threads, RecordIds(t) PROVE TypeOK' /\ HandsFull'
  <2>1. /\ call' \in [Threads -> CallType] /\ \A u \in Threads \ {t} : call'[u] = call[u]
        /\ call'[t].pc \in Sending => call'[t].todo # {}
    <3>1. InHand(t) \in SUBSET Legs /\ "apply" \in Stages \ Sending
      BY DEF InHand, Stages, Sending
    <3>2. [call[t] EXCEPT !.pc = "apply", !.todo = InHand(t)] \in CallType
      BY <1>0, <3>1, Calls
    <3>3. [call[t] EXCEPT !.pc = "apply", !.todo = InHand(t)].pc = "apply"
      BY <1>0 DEF CallType
    <3> QED
      BY <1>0, <1>17, <3>1, <3>2, <3>3, GoesOne DEF RecordIds
  <2>2. row' \in Row
    <3>1. InHand(t) \in SUBSET Legs
      BY DEF InHand
    <3> QED
      BY <1>1, <1>17, <3>1 DEF RecordIds
  <2> QED
    BY <1>0, <1>17, <2>1, <2>2, StillFull DEF RecordIds, TypeOK, orders, Sending
<1>18. ASSUME NEW t \in Threads, ApplySent(t) PROVE TypeOK' /\ HandsFull'
  <2>1. /\ call' \in [Threads -> CallType] /\ \A u \in Threads \ {t} : call'[u] = call[u]
        /\ call'[t].pc \in Sending => call'[t].todo # {}
    <3>1. {"apply", "release"} \subseteq Stages \ Sending /\ "idle" \notin Sending
      BY DEF Stages, Sending
    <3> QED
      BY <1>0, <1>18, <3>1, EventTyped, NextEventMade, EndMade DEF ApplySent, Applying, Raises
  <2>2. trade' \in Trade
    BY <1>0, <1>18 DEF ApplySent, Trade, Closing
  <2> QED
    BY <1>0, <1>18, <2>1, <2>2, StillFull DEF ApplySent, TypeOK, orders, Sending
<1>19. ASSUME NEW t \in Threads, ApplyNothing(t) PROVE TypeOK' /\ HandsFull'
  <2>1. /\ call' \in [Threads -> CallType] /\ \A u \in Threads \ {t} : call'[u] = call[u]
        /\ call'[t].pc \in Sending => call'[t].todo # {}
    <3>1. {"apply", "release"} \subseteq Stages \ Sending /\ "idle" \notin Sending
      BY DEF Stages, Sending
    <3> QED
      BY <1>0, <1>19, <3>1, EventTyped, NextEventMade, EndMade DEF ApplyNothing, Applying, Raises
  <2> QED
    BY <1>0, <1>19, <2>1, StillFull DEF ApplyNothing, TypeOK, orders, Sending
<1>20. ASSUME NEW t \in Threads, ApplyFill(t) PROVE TypeOK' /\ HandsFull'
  <2>1. /\ call' \in [Threads -> CallType] /\ \A u \in Threads \ {t} : call'[u] = call[u]
        /\ call'[t].pc \in Sending => call'[t].todo # {}
    <3>1. {"apply", "release"} \subseteq Stages \ Sending /\ "idle" \notin Sending
      BY DEF Stages, Sending
    <3> QED
      BY ZenonT(60), <1>0, <1>20, <3>1, EventTyped, NextEventMade, EndMade DEF ApplyFill, Applying, Raises
  <2>2. trade' \in Trade
    BY <1>0, <1>20 DEF ApplyFill, Trade, Closing
  <2> QED
    BY <1>0, <1>20, <2>1, <2>2, StillFull DEF ApplyFill, TypeOK, orders, Sending
<1>21. ASSUME NEW t \in Threads, ApplyLastFill(t) PROVE TypeOK' /\ HandsFull'
  <2>1. /\ call' \in [Threads -> CallType] /\ \A u \in Threads \ {t} : call'[u] = call[u]
        /\ call'[t].pc \in Sending => call'[t].todo # {}
    <3>1. {"apply", "release"} \subseteq Stages \ Sending /\ "idle" \notin Sending
      BY DEF Stages, Sending
    <3> QED
      BY <1>0, <1>21, <3>1, EventTyped, NextEventMade, EndMade DEF ApplyLastFill, Applying, Raises
  <2>2. trade' \in Trade
    BY <1>0, <1>21 DEF ApplyLastFill, Trade, Closing
  <2> QED
    BY <1>0, <1>21, <2>1, <2>2, StillFull DEF ApplyLastFill, TypeOK, orders, Sending
<1>22. ASSUME NEW t \in Threads, ApplyFailed(t) PROVE TypeOK' /\ HandsFull'
  <2>1. /\ call' \in [Threads -> CallType] /\ \A u \in Threads \ {t} : call'[u] = call[u]
        /\ call'[t].pc \in Sending => call'[t].todo # {}
    <3>1. {"apply", "release"} \subseteq Stages \ Sending /\ "idle" \notin Sending
      BY DEF Stages, Sending
    <3> QED
      BY <1>0, <1>22, <3>1, EventTyped, NextEventMade, EndMade DEF ApplyFailed, Applying, Raises
  <2>2. trade' \in Trade
    BY <1>0, <1>22 DEF ApplyFailed, Trade, Closing
  <2> QED
    BY <1>0, <1>22, <2>1, <2>2, StillFull DEF ApplyFailed, TypeOK, orders, Sending
<1>23. ASSUME NEW t \in Threads, ReleaseCapital(t) PROVE TypeOK' /\ HandsFull'
  <2>1. /\ call' \in [Threads -> CallType] /\ \A u \in Threads \ {t} : call'[u] = call[u]
        /\ call'[t].pc \in Sending => call'[t].todo # {}
    <3>1. "apply" \in Stages \ Sending /\ "idle" \notin Sending
      BY DEF Stages, Sending
    <3> QED
      BY <1>0, <1>23, <3>1, MoveMade, EndMade DEF ReleaseCapital, Raises
  <2> QED
    BY <1>0, <1>23, <2>1, StillFull DEF ReleaseCapital, TypeOK, orders, Sending
<1>24. ASSUME NEW t \in Threads, Settle(t) PROVE TypeOK' /\ HandsFull'
  <2>1. /\ call' \in [Threads -> CallType] /\ \A u \in Threads \ {t} : call'[u] = call[u]
        /\ call'[t].pc \in Sending => call'[t].todo # {}
    BY <1>0, <1>24, EndMade DEF Settle, Sending, Raises
  <2>2. row' \in Row /\ book' \in BOOLEAN
    <3>1. InHand(t) \in SUBSET Legs /\ {} \in SUBSET Legs
      BY DEF InHand
    <3>2. row' \in Row
      BY <1>1, <1>24, <3>1 DEF Settle
    <3> QED
      BY <1>24, <3>2 DEF Settle, TypeOK
  <2> QED
    BY <1>0, <1>24, <2>1, <2>2, StillFull DEF Settle, TypeOK, orders, Sending
<1>25. ASSUME NEW t \in Threads, SaveBook(t) PROVE TypeOK' /\ HandsFull'
  BY <1>0, <1>1, <1>25 DEF SaveBook, TypeOK, orders, HandsFull
<1>26. ASSUME Crash PROVE TypeOK' /\ HandsFull'
  <2>1. NoCall \in CallType /\ NoCall.pc \notin Sending
    <3>1. NoEvents \in [Legs -> States]
      BY DEF NoEvents
    <3> QED
      BY <3>1 DEF NoCall, CallType, Stages, Sending
  <2>2. trade' \in Trade /\ held' \subseteq Legs /\ book' \in BOOLEAN
    BY <1>0, <1>26 DEF Crash, Trade, Repaired, TypeOK
  <2>3. call' \in [Threads -> CallType] /\ \A t \in Threads : call'[t] = NoCall
    BY <1>26, <2>1 DEF Crash
  <2> QED
    BY <1>26, <2>1, <2>2, <2>3 DEF Crash, TypeOK, HandsFull
<1>27. ASSUME UNCHANGED vars PROVE TypeOK' /\ HandsFull'
  BY <1>27 DEF vars, TypeOK, HandsFull
<1> QED
  BY <1>3, <1>4, <1>5, <1>6, <1>7, <1>8, <1>9, <1>10, <1>11, <1>12, <1>13, <1>14, <1>15, <1>16, <1>17, <1>18, <1>19, <1>20, <1>21, <1>22, <1>23, <1>24, <1>25, <1>26, <1>27
     DEF Next, SteadyNext, Step, BrokerSubmits

\* The program starts with every variable typed and nothing in hand.
LEMMA TypeInit ==
  ASSUME Init
  PROVE  TypeOK /\ HandsFull
<1>1. NoEvents \in [Legs -> States] /\ NoEvents \in [Legs -> Outcomes \cup {"NONE"}]
  BY Names DEF NoEvents
<1>2. NoCall \in CallType /\ NoCall.pc \notin Sending
  BY <1>1 DEF NoCall, CallType, Stages, Sending
<1>3. trade \in Trade /\ row \in Row
  BY Names DEF Init, Trade, Row
<1> QED
  BY <1>1, <1>2, <1>3 DEF Init, TypeOK, HandsFull

\* In every reachable state the variables have their types.
THEOREM TypeCorrect == Spec => []TypeOK
<1>1. Init => TypeOK /\ HandsFull
  BY TypeInit
<1>2. TypeOK /\ HandsFull /\ [Next]_vars => (TypeOK /\ HandsFull)'
  BY TypeKept
<1> QED
  BY <1>1, <1>2, PTL DEF Spec

-----------------------------------------------------------------------------

\* What is called filled, in the log, in the cache or in a call's hands, is
\* filled at the broker.
Confirmed ==
  \A k \in Legs : order[k] # "FILLED" =>
    /\ log[k] # "FILLED" /\ cache[k] # "FILLED"
    /\ \A t \in Threads : call[t].seen[k] # "FILLED"

\* A call that is about to free the capital has every exit order filled.
Releasing ==
  \A t \in Threads : call[t].pc = "release" => \A k \in Legs : order[k] = "FILLED"

\* The inductive invariant behind ReleasedOnFills.
OnFills == Confirmed /\ Releasing /\ ReleasedOnFills

\* A step of one call that leaves the orders alone keeps them confirmed.
LEMMA QuietStep ==
  ASSUME Confirmed, Releasing, NEW t \in Threads, UNCHANGED <<log, cache, order>>,
         \A u \in Threads \ {t} : call'[u] = call[u],
         call'[t].pc = "release" => \A k \in Legs : order[k] = "FILLED",
         \A k \in Legs : call'[t].seen[k] = "FILLED" => order[k] = "FILLED"
  PROVE  Confirmed' /\ Releasing'
BY DEF Confirmed, Releasing

\* So does one that writes of one leg what the broker says, or no fill.
LEMMA LoggingStep ==
  ASSUME Confirmed, Releasing, NEW t \in Threads, UNCHANGED order,
         \A u \in Threads \ {t} : call'[u] = call[u],
         call'[t].pc # "release",
         \A k \in Legs : log'[k] = "FILLED" \/ cache'[k] = "FILLED" => order[k] = "FILLED",
         \A k \in Legs : call'[t].seen[k] = "FILLED" => order[k] = "FILLED"
  PROVE  Confirmed' /\ Releasing'
BY DEF Confirmed, Releasing

\* An event that says filled is of an order the broker filled.
LEMMA EventConfirmed ==
  ASSUME TypeOK, Confirmed, NEW t \in Threads, call[t].todo # {}, Event(t) = "FILLED"
  PROVE  order[Leg(t)] = "FILLED"
<1>1. Leg(t) \in Legs
  BY EventTyped
<1> QED
  BY <1>1 DEF Event, ExitOrderEvent, Confirmed

\* What an applied event adds to the call's hands is confirmed.
LEMMA AppliedConfirmed ==
  ASSUME TypeOK, Confirmed, NEW t \in Threads, NEW stage \in Stages, call[t].todo # {},
         NextEvent(t, stage)
  PROVE  /\ \A u \in Threads \ {t} : call'[u] = call[u]
         /\ call'[t].pc = stage
         /\ \A k \in Legs : call'[t].seen[k] = "FILLED" => order[k] = "FILLED"
<1>1. call \in [Threads -> CallType] /\ call[t] \in CallType
  BY DEF TypeOK
<1>2. call[t].seen \in [Legs -> States]
  BY <1>1 DEF CallType
<1>3. Leg(t) \in Legs /\ Event(t) \in States
  BY EventTyped
<1>4. /\ call'[t].seen = [call[t].seen EXCEPT ![Leg(t)] = Event(t)]
      /\ call'[t].pc = stage
      /\ \A u \in Threads \ {t} : call'[u] = call[u]
  BY <1>1, <1>3, NextEventMade
<1>5. Event(t) = "FILLED" => order[Leg(t)] = "FILLED"
  BY EventConfirmed
<1> QED
  BY <1>2, <1>3, <1>4, <1>5 DEF Confirmed

\* A write of the row takes over what holds of the trade.
LEMMA RowFollows ==
  ASSUME TypeOK, ReleasedOnFills, NEW ids, WriteRow(ids), UNCHANGED <<order, trade, reservation>>
  PROVE  ReleasedOnFills'
BY DEF ReleasedOnFills, WriteRow

\* Capital and legs leave only on fills, from step to step.
LEMMA OnFillsKept ==
  ASSUME TypeOK, HandsFull, OnFills, [Next]_vars
  PROVE  OnFills'
<1>0. /\ call \in [Threads -> CallType]
      /\ \A t \in Threads : call[t] \in CallType /\ call[t].seen \in [Legs -> States]
      /\ \A t \in Threads : call[t].todo \in SUBSET Legs
      /\ row.ids \in SUBSET Legs /\ trade.legs \in SUBSET Legs
      /\ \A t \in Threads, k \in Legs : call[t].seen[k] = "FILLED" => order[k] = "FILLED"
      /\ \A k \in Legs : NoEvents[k] # "FILLED"
  BY DEF TypeOK, CallType, Row, Trade, OnFills, Confirmed, NoEvents
<1>1. {"judged", "requested", "choose", "lookup", "create", "send", "broker", "adopt",
       "record", "apply", "release"} \subseteq Stages /\ {} \in SUBSET Legs
      /\ {TRUE, FALSE} \subseteq BOOLEAN
  BY DEF Stages
<1>2. ASSUME NEW t \in Threads, call[t].pc \in Sending
      PROVE  Leg(t) \in Legs /\ order[Leg(t)] \in States /\ cache[Leg(t)] \in States
  BY <1>0, <1>2, FirstIsOne, Names DEF Leg, HandsFull, TypeOK
<1>3. ASSUME NEW t \in Threads, Judge(t) PROVE OnFills'
  <2>1. /\ \A u \in Threads \ {t} : call'[u] = call[u]
        /\ call'[t].pc # "release"
        /\ \A k \in Legs : call'[t].seen[k] = "FILLED" => order[k] = "FILLED"
    BY <1>0, <1>1, <1>3, MoveMade DEF Judge
  <2>2. ReleasedOnFills'
    BY <1>0, <1>3 DEF Judge, OnFills, ReleasedOnFills, orders
  <2>3. Confirmed' /\ Releasing'
    BY <1>3, <2>1, QuietStep DEF Judge, OnFills, orders
  <2> QED
    BY <2>2, <2>3 DEF OnFills
<1>4. ASSUME NEW t \in Threads, RequestExit(t) PROVE OnFills'
  <2>0. \A S \in SUBSET Legs : Starts(t, "requested", S, FALSE) =>
          /\ \A u \in Threads \ {t} : call'[u] = call[u]
          /\ call'[t].pc # "release" /\ call'[t].seen = NoEvents
    BY <1>0, <1>1, StartsMade
  <2>1. /\ \A u \in Threads \ {t} : call'[u] = call[u]
        /\ call'[t].pc # "release"
        /\ \A k \in Legs : call'[t].seen[k] = "FILLED" => order[k] = "FILLED"
    BY <1>0, <1>1, <1>4, <2>0 DEF RequestExit
  <2>2. ReleasedOnFills'
    BY <1>0, <1>4 DEF RequestExit, OnFills, ReleasedOnFills, orders, TypeOK, Trade
  <2>3. Confirmed' /\ Releasing'
    BY <1>4, <2>1, QuietStep DEF RequestExit, OnFills, orders
  <2> QED
    BY <2>2, <2>3 DEF OnFills
<1>5. ASSUME NEW t \in Threads, WriteRequest(t) PROVE OnFills'
  <2>1. /\ \A u \in Threads \ {t} : call'[u] = call[u]
        /\ call'[t].pc # "release"
        /\ \A k \in Legs : call'[t].seen[k] = "FILLED" => order[k] = "FILLED"
    BY <1>0, <1>1, <1>5, MoveMade, EndMade DEF WriteRequest
  <2>2. ReleasedOnFills'
    BY <1>5, RowFollows DEF WriteRequest, OnFills, orders
  <2>3. Confirmed' /\ Releasing'
    BY <1>5, <2>1, QuietStep DEF WriteRequest, OnFills, orders
  <2> QED
    BY <2>2, <2>3 DEF OnFills
<1>6. ASSUME NEW t \in Threads, Resume(t) PROVE OnFills'
  <2>1. /\ \A u \in Threads \ {t} : call'[u] = call[u]
        /\ call'[t].pc # "release"
        /\ \A k \in Legs : call'[t].seen[k] = "FILLED" => order[k] = "FILLED"
    BY <1>0, <1>1, <1>6, StartsMade DEF Resume, Adopts
  <2>2. ReleasedOnFills'
    BY <1>0, <1>6 DEF Resume, OnFills, ReleasedOnFills, orders
  <2>3. Confirmed' /\ Releasing'
    BY <1>6, <2>1, QuietStep DEF Resume, OnFills, orders
  <2> QED
    BY <2>2, <2>3 DEF OnFills
<1>7. ASSUME NEW t \in Threads, AdoptRecorded(t) PROVE OnFills'
  <2>1. /\ \A u \in Threads \ {t} : call'[u] = call[u]
        /\ call'[t].pc # "release"
        /\ \A k \in Legs : call'[t].seen[k] = "FILLED" => order[k] = "FILLED"
    BY <1>0, <1>1, <1>7, StartsMade DEF AdoptRecorded, Adopts
  <2>2. ReleasedOnFills'
    BY <1>0, <1>7 DEF AdoptRecorded, OnFills, ReleasedOnFills, orders
  <2>3. Confirmed' /\ Releasing'
    BY <1>7, <2>1, QuietStep DEF AdoptRecorded, OnFills, orders
  <2> QED
    BY <2>2, <2>3 DEF OnFills
<1>8. ASSUME NEW t \in Threads, PlanExit(t) PROVE OnFills'
  <2>1. /\ \A u \in Threads \ {t} : call'[u] = call[u]
        /\ call'[t].pc # "release"
        /\ \A k \in Legs : call'[t].seen[k] = "FILLED" => order[k] = "FILLED"
    BY <1>0, <1>1, <1>8, MoveMade DEF PlanExit
  <2>2. ReleasedOnFills'
    BY <1>0, <1>8 DEF PlanExit, OnFills, ReleasedOnFills, orders
  <2>3. Confirmed' /\ Releasing'
    BY <1>8, <2>1, QuietStep DEF PlanExit, OnFills, orders
  <2> QED
    BY <2>2, <2>3 DEF OnFills
<1>9. ASSUME NEW t \in Threads, NoPlan(t) PROVE OnFills'
  <2>1. /\ \A u \in Threads \ {t} : call'[u] = call[u]
        /\ call'[t].pc # "release"
        /\ \A k \in Legs : call'[t].seen[k] = "FILLED" => order[k] = "FILLED"
    BY <1>0, <1>1, <1>9, EndMade DEF NoPlan, Raises
  <2>2. ReleasedOnFills'
    BY <1>0, <1>9 DEF NoPlan, OnFills, ReleasedOnFills, orders
  <2>3. Confirmed' /\ Releasing'
    BY <1>9, <2>1, QuietStep DEF NoPlan, OnFills, orders
  <2> QED
    BY <2>2, <2>3 DEF OnFills
<1>10. ASSUME NEW t \in Threads, LookupKnown(t) PROVE OnFills'
  <2>0. /\ Leg(t) \in Legs /\ cache[Leg(t)] \in States
        /\ cache[Leg(t)] = "FILLED" => order[Leg(t)] = "FILLED"
    BY <1>2, <1>10 DEF LookupKnown, At, Sending, OnFills, Confirmed
  <2>1. /\ \A u \in Threads \ {t} : call'[u] = call[u]
        /\ call'[t].pc # "release"
        /\ call'[t].seen = [call[t].seen EXCEPT ![Leg(t)] = cache[Leg(t)]]
    BY <1>0, <2>0, <1>10, AfterLegMade DEF LookupKnown
  <2>2. \A k \in Legs : call'[t].seen[k] = "FILLED" => order[k] = "FILLED"
    BY <1>0, <2>0, <2>1
  <2>3. ReleasedOnFills'
    BY <1>10 DEF LookupKnown, OnFills, ReleasedOnFills, orders
  <2>4. Confirmed' /\ Releasing'
    BY <1>10, <2>1, <2>2, QuietStep DEF LookupKnown, OnFills, orders
  <2> QED
    BY <2>3, <2>4 DEF OnFills
<1>11. ASSUME NEW t \in Threads, LookupNew(t) PROVE OnFills'
  <2>1. /\ \A u \in Threads \ {t} : call'[u] = call[u]
        /\ call'[t].pc # "release"
        /\ \A k \in Legs : call'[t].seen[k] = "FILLED" => order[k] = "FILLED"
    BY <1>0, <1>1, <1>11, MoveMade DEF LookupNew
  <2>2. ReleasedOnFills'
    BY <1>0, <1>11 DEF LookupNew, OnFills, ReleasedOnFills, orders
  <2>3. Confirmed' /\ Releasing'
    BY <1>11, <2>1, QuietStep DEF LookupNew, OnFills, orders
  <2> QED
    BY <2>2, <2>3 DEF OnFills
<1>12. ASSUME NEW t \in Threads, PersistCreated(t) PROVE OnFills'
  <2>0. Leg(t) \in Legs
    BY <1>2, <1>12 DEF PersistCreated, At, Sending
  <2>1. /\ \A u \in Threads \ {t} : call'[u] = call[u]
        /\ call'[t].pc # "release"
        /\ \A k \in Legs : call'[t].seen[k] = "FILLED" => order[k] = "FILLED"
    BY <1>0, <1>1, <1>12, MoveMade DEF PersistCreated
  <2>2. \A k \in Legs : log'[k] = "FILLED" \/ cache'[k] = "FILLED" => order[k] = "FILLED"
    BY <2>0, <1>12 DEF PersistCreated, Logged, OnFills, Confirmed, TypeOK
  <2>3. ReleasedOnFills'
    BY <1>12 DEF PersistCreated, OnFills, ReleasedOnFills
  <2>4. Confirmed' /\ Releasing'
    BY <1>12, <2>1, <2>2, LoggingStep DEF PersistCreated, OnFills
  <2> QED
    BY <2>3, <2>4 DEF OnFills
<1>13. ASSUME NEW t \in Threads, PersistSubmitting(t) PROVE OnFills'
  <2>0. Leg(t) \in Legs
    BY <1>2, <1>13 DEF PersistSubmitting, At, Sending
  <2>1. /\ \A u \in Threads \ {t} : call'[u] = call[u]
        /\ call'[t].pc # "release"
        /\ \A k \in Legs : call'[t].seen[k] = "FILLED" => order[k] = "FILLED"
    BY <1>0, <1>1, <1>13, MoveMade DEF PersistSubmitting
  <2>2. \A k \in Legs : log'[k] = "FILLED" \/ cache'[k] = "FILLED" => order[k] = "FILLED"
    BY <2>0, <1>13 DEF PersistSubmitting, Logged, OnFills, Confirmed, TypeOK
  <2>3. ReleasedOnFills'
    BY <1>13 DEF PersistSubmitting, OnFills, ReleasedOnFills
  <2>4. Confirmed' /\ Releasing'
    BY <1>13, <2>1, <2>2, LoggingStep DEF PersistSubmitting, OnFills
  <2> QED
    BY <2>3, <2>4 DEF OnFills
<1>14. ASSUME NEW t \in Threads, BrokerAnswers(t) PROVE OnFills'
  <2>0. Leg(t) \in Legs
    BY <1>2, <1>14 DEF BrokerAnswers, At, Sending
  <2>1. /\ \A u \in Threads \ {t} : call'[u] = call[u]
        /\ call'[t].pc # "release" /\ call'[t].seen = call[t].seen
    BY <1>0, <1>1, <1>14, MoveMade DEF BrokerAnswers
  <2>2. \A k \in Legs : order[k] = "FILLED" => order'[k] = "FILLED"
    BY <2>0, <1>14 DEF BrokerAnswers, TypeOK
  <2>3. ReleasedOnFills'
    BY <1>14, <2>2 DEF BrokerAnswers, OnFills, ReleasedOnFills
  <2>4. Confirmed'
    BY <1>14, <2>1, <2>2 DEF BrokerAnswers, OnFills, Confirmed
  <2>5. Releasing'
    BY <1>14, <2>1, <2>2 DEF BrokerAnswers, OnFills, Releasing
  <2> QED
    BY <2>3, <2>4, <2>5 DEF OnFills
<1>15. ASSUME NEW t \in Threads, BrokerRefuses(t) PROVE OnFills'
  <2>1. /\ \A u \in Threads \ {t} : call'[u] = call[u]
        /\ call'[t].pc # "release"
        /\ \A k \in Legs : call'[t].seen[k] = "FILLED" => order[k] = "FILLED"
    BY <1>0, <1>1, <1>15, EndMade DEF BrokerRefuses, Raises
  <2>2. ReleasedOnFills'
    BY <1>0, <1>15 DEF BrokerRefuses, OnFills, ReleasedOnFills, orders
  <2>3. Confirmed' /\ Releasing'
    BY <1>15, <2>1, QuietStep DEF BrokerRefuses, OnFills, orders
  <2> QED
    BY <2>2, <2>3 DEF OnFills
<1>16. ASSUME NEW t \in Threads, PersistFinal(t) PROVE OnFills'
  <2>0. /\ Leg(t) \in Legs /\ order[Leg(t)] \in States
        /\ order[Leg(t)] = "FILLED" => order[Leg(t)] = "FILLED"
    BY <1>2, <1>16 DEF PersistFinal, At, Sending, OnFills, Confirmed
  <2>1. /\ \A u \in Threads \ {t} : call'[u] = call[u]
        /\ call'[t].pc # "release"
        /\ call'[t].seen = [call[t].seen EXCEPT ![Leg(t)] = order[Leg(t)]]
    BY <1>0, <2>0, <1>16, AfterLegMade DEF PersistFinal
  <2>2. \A k \in Legs : call'[t].seen[k] = "FILLED" => order[k] = "FILLED"
    BY <1>0, <2>0, <2>1
  <2>3. \A k \in Legs : log'[k] = "FILLED" \/ cache'[k] = "FILLED" => order[k] = "FILLED"
    BY <2>0, <1>16 DEF PersistFinal, Logged, OnFills, Confirmed, TypeOK
  <2>4. ReleasedOnFills'
    BY <1>16 DEF PersistFinal, OnFills, ReleasedOnFills
  <2>5. Confirmed' /\ Releasing'
    BY <1>16, <2>1, <2>2, <2>3, LoggingStep DEF PersistFinal, OnFills
  <2> QED
    BY <2>4, <2>5 DEF OnFills
<1>17. ASSUME NEW t \in Threads, RecordIds(t) PROVE OnFills'
  <2>0. InHand(t) \in SUBSET Legs
    BY DEF InHand
  <2>1. [call[t] EXCEPT !.pc = "apply", !.todo = InHand(t)] \in CallType
    BY <1>0, <1>1, <2>0, Calls
  <2>2. /\ [call[t] EXCEPT !.pc = "apply", !.todo = InHand(t)].pc = "apply"
        /\ [call[t] EXCEPT !.pc = "apply", !.todo = InHand(t)].seen = call[t].seen
    BY <1>0 DEF CallType
  <2>3. /\ \A u \in Threads \ {t} : call'[u] = call[u]
        /\ call'[t].pc # "release" /\ call'[t].seen = call[t].seen
    BY <1>0, <1>17, <2>1, <2>2, GoesOne DEF RecordIds
  <2>4. ReleasedOnFills'
    BY <1>17, RowFollows DEF RecordIds, OnFills, orders
  <2>5. Confirmed' /\ Releasing'
    BY <1>0, <1>17, <2>3, QuietStep DEF RecordIds, OnFills, orders
  <2> QED
    BY <2>4, <2>5 DEF OnFills
<1>18. ASSUME NEW t \in Threads, ApplySent(t) PROVE OnFills'
  <2>1. /\ \A u \in Threads \ {t} : call'[u] = call[u]
        /\ call'[t].pc # "release"
        /\ \A k \in Legs : call'[t].seen[k] = "FILLED" => order[k] = "FILLED"
    BY <1>1, <1>18, AppliedConfirmed DEF ApplySent, Applying, OnFills
  <2>2. ReleasedOnFills'
    BY <1>0, <1>18 DEF ApplySent, OnFills, ReleasedOnFills, orders, TypeOK, Trade
  <2>3. Confirmed' /\ Releasing'
    BY <1>18, <2>1, QuietStep DEF ApplySent, OnFills, orders
  <2> QED
    BY <2>2, <2>3 DEF OnFills
<1>19. ASSUME NEW t \in Threads, ApplyNothing(t) PROVE OnFills'
  <2>1. /\ \A u \in Threads \ {t} : call'[u] = call[u]
        /\ call'[t].pc # "release"
        /\ \A k \in Legs : call'[t].seen[k] = "FILLED" => order[k] = "FILLED"
    BY <1>1, <1>19, AppliedConfirmed DEF ApplyNothing, Applying, OnFills
  <2>2. ReleasedOnFills'
    BY <1>19 DEF ApplyNothing, OnFills, ReleasedOnFills, orders
  <2>3. Confirmed' /\ Releasing'
    BY <1>19, <2>1, QuietStep DEF ApplyNothing, OnFills, orders
  <2> QED
    BY <2>2, <2>3 DEF OnFills
<1>20. ASSUME NEW t \in Threads, ApplyFill(t) PROVE OnFills'
  <2>0. order[Leg(t)] = "FILLED"
    BY <1>20, EventConfirmed DEF ApplyFill, Applying, OnFills
  <2>1. /\ \A u \in Threads \ {t} : call'[u] = call[u]
        /\ call'[t].pc # "release"
        /\ \A k \in Legs : call'[t].seen[k] = "FILLED" => order[k] = "FILLED"
    BY <1>1, <1>20, AppliedConfirmed DEF ApplyFill, Applying, OnFills
  <2>2. ReleasedOnFills'
    BY <2>0, <1>20 DEF ApplyFill, OnFills, ReleasedOnFills, orders, Closing
  <2>3. Confirmed' /\ Releasing'
    BY <1>20, <2>1, QuietStep DEF ApplyFill, OnFills, orders
  <2> QED
    BY <2>2, <2>3 DEF OnFills
<1>21. ASSUME NEW t \in Threads, ApplyLastFill(t) PROVE OnFills'
  <2>0. order[Leg(t)] = "FILLED"
    BY <1>21, EventConfirmed DEF ApplyLastFill, Applying, OnFills
  <2>1. \A k \in Legs : order[k] = "FILLED"
    BY <2>0, <1>21 DEF ApplyLastFill, OnFills, ReleasedOnFills
  <2>2. /\ \A u \in Threads \ {t} : call'[u] = call[u]
        /\ \A k \in Legs : call'[t].seen[k] = "FILLED" => order[k] = "FILLED"
    <3>1. CASE NextEvent(t, "release")
      BY <1>1, <1>21, <3>1, AppliedConfirmed DEF ApplyLastFill, Applying, OnFills
    <3>2. CASE Raises(t)
      BY <1>0, <3>2, EndMade DEF Raises
    <3> QED
      BY <1>21, <3>1, <3>2 DEF ApplyLastFill
  <2>3. ReleasedOnFills'
    BY <2>1, <1>21 DEF ApplyLastFill, ReleasedOnFills, orders
  <2>4. Confirmed' /\ Releasing'
    BY <1>21, <2>1, <2>2, QuietStep DEF ApplyLastFill, OnFills, orders
  <2> QED
    BY <2>3, <2>4 DEF OnFills
<1>22. ASSUME NEW t \in Threads, ApplyFailed(t) PROVE OnFills'
  <2>1. /\ \A u \in Threads \ {t} : call'[u] = call[u]
        /\ call'[t].pc # "release"
        /\ \A k \in Legs : call'[t].seen[k] = "FILLED" => order[k] = "FILLED"
    BY <1>1, <1>22, AppliedConfirmed DEF ApplyFailed, Applying, OnFills
  <2>2. ReleasedOnFills'
    BY <1>0, <1>22 DEF ApplyFailed, OnFills, ReleasedOnFills, orders, TypeOK, Trade
  <2>3. Confirmed' /\ Releasing'
    BY <1>22, <2>1, QuietStep DEF ApplyFailed, OnFills, orders
  <2> QED
    BY <2>2, <2>3 DEF OnFills
<1>23. ASSUME NEW t \in Threads, ReleaseCapital(t) PROVE OnFills'
  <2>1. /\ \A u \in Threads \ {t} : call'[u] = call[u]
        /\ call'[t].pc # "release"
        /\ \A k \in Legs : call'[t].seen[k] = "FILLED" => order[k] = "FILLED"
    BY <1>0, <1>1, <1>23, MoveMade, EndMade DEF ReleaseCapital, Raises
  <2>2. ReleasedOnFills'
    BY <1>23 DEF ReleaseCapital, At, OnFills, Releasing, ReleasedOnFills, orders
  <2>3. Confirmed' /\ Releasing'
    BY <1>23, <2>1, QuietStep DEF ReleaseCapital, OnFills, orders
  <2> QED
    BY <2>2, <2>3 DEF OnFills
<1>24. ASSUME NEW t \in Threads, Settle(t) PROVE OnFills'
  <2>1. /\ \A u \in Threads \ {t} : call'[u] = call[u]
        /\ call'[t].pc # "release"
        /\ \A k \in Legs : call'[t].seen[k] = "FILLED" => order[k] = "FILLED"
    BY <1>0, <1>1, <1>24, EndMade DEF Settle
  <2>2. ReleasedOnFills'
    BY <1>24, RowFollows DEF Settle, OnFills, orders
  <2>3. Confirmed' /\ Releasing'
    BY <1>24, <2>1, QuietStep DEF Settle, OnFills, orders
  <2> QED
    BY <2>2, <2>3 DEF OnFills
<1>25. ASSUME NEW t \in Threads, SaveBook(t) PROVE OnFills'
  <2>1. ReleasedOnFills'
    BY <1>25, RowFollows DEF SaveBook, OnFills, orders
  <2>2. Confirmed' /\ Releasing'
    BY <1>25 DEF SaveBook, OnFills, Confirmed, Releasing, orders
  <2> QED
    BY <2>1, <2>2 DEF OnFills
<1>26. ASSUME Crash PROVE OnFills'
  <2>1. \A t \in Threads : call'[t].seen = NoEvents /\ call'[t].pc = "idle"
    BY <1>26 DEF Crash, NoCall
  <2>2. ReleasedOnFills'
    BY <1>26 DEF Crash, OnFills, ReleasedOnFills
  <2>3. Confirmed' /\ Releasing'
    BY <1>0, <1>26, <2>1 DEF Crash, OnFills, Confirmed, Releasing
  <2> QED
    BY <2>2, <2>3 DEF OnFills
<1>27. ASSUME UNCHANGED vars PROVE OnFills'
  BY <1>27 DEF vars, OnFills, Confirmed, Releasing, ReleasedOnFills
<1> QED
  BY <1>3, <1>4, <1>5, <1>6, <1>7, <1>8, <1>9, <1>10, <1>11, <1>12, <1>13, <1>14, <1>15, <1>16, <1>17, <1>18, <1>19, <1>20, <1>21, <1>22, <1>23, <1>24, <1>25, <1>26, <1>27
     DEF Next, SteadyNext, Step, BrokerSubmits

\* A new trade has nothing filled yet.
LEMMA OnFillsInit ==
  ASSUME Init
  PROVE  OnFills
<1>1. Confirmed
  BY DEF Init, Confirmed, NoCall, NoEvents
<1>2. Releasing
  BY DEF Init, Releasing, NoCall
<1>3. ReleasedOnFills
  BY DEF Init, ReleasedOnFills
<1> QED
  BY <1>1, <1>2, <1>3 DEF OnFills

\* Capital is freed, and a leg leaves the trade or its row, only on the broker's
\* fill of that leg's exit order, whatever the callers and the crashes do.
THEOREM CapitalFreedOnFills == Spec => []ReleasedOnFills
<1>1. Init => TypeOK /\ HandsFull /\ OnFills
  BY TypeInit, OnFillsInit
<1>2. TypeOK /\ HandsFull /\ OnFills /\ [Next]_vars => (TypeOK /\ HandsFull /\ OnFills)'
  BY TypeKept, OnFillsKept
<1>3. OnFills => ReleasedOnFills
  BY DEF OnFills
<1> QED
  BY <1>1, <1>2, <1>3, PTL DEF Spec

-----------------------------------------------------------------------------

\* A single caller of manage_exits.
OneCaller == \A t, u \in Threads : t = u

Planned == Sending \cup {"requested", "choose"}

\* The orders of a process that does not die: the cache is the log, the broker
\* holds what it has not filled, and an order without an answer is in hand.
OrdersInHand ==
  /\ cache = log
  /\ held = {k \in Legs : order[k] # "FILLED"}
  /\ \A k \in Legs : /\ cache[k] \in {"NONE", "CREATED", "SUBMITTING"} \cup Outcomes
                     /\ order[k] # "NONE" => cache[k] # "NONE"
                     /\ cache[k] \in {"CREATED", "SUBMITTING"} =>
                          \E t \in Threads : /\ call[t].pc \in {"send", "broker", "adopt"}
                                             /\ Leg(t) = k

\* Where a call stands in submit_plan: a short is bought back or still to do,
\* and the leg in hand is at the broker when its answer is.
PlanInHand ==
  \A t \in Threads :
    /\ call[t].pc \in Planned /\ call[t].todo # {} =>
         \A k \in Shorts : k \in call[t].todo \/ order[k] = "FILLED"
    /\ call[t].pc \in {"create", "send", "broker"} => order[Leg(t)] = "NONE"
    /\ call[t].pc = "create" => cache[Leg(t)] = "NONE"
    /\ call[t].pc \in {"send", "broker", "adopt"} => cache[Leg(t)] # "NONE"
    /\ call[t].pc = "adopt" => order[Leg(t)] # "NONE"

\* The inductive invariant behind Covered.
CoverInv == OrdersInHand /\ PlanInHand /\ Covered

\* A step of the one caller, outside submit_plan, that leaves the orders alone.
LEMMA OutsideStep ==
  ASSUME OneCaller, CoverInv, UNCHANGED orders, NEW t \in Threads,
         call[t].pc \notin {"send", "broker", "adopt"}, call'[t].pc \notin Sending \ {"lookup"},
         call'[t].pc \in Planned /\ call'[t].todo # {} =>
           \A k \in Shorts : k \in call'[t].todo \/ order[k] = "FILLED"
  PROVE  CoverInv'
<1>1. \A u \in Threads : u = t
  BY DEF OneCaller
<1>2. OrdersInHand'
  BY <1>1 DEF CoverInv, OrdersInHand, orders
<1>3. PlanInHand'
  BY <1>1 DEF CoverInv, PlanInHand, orders, Sending
<1>4. Covered'
  BY DEF CoverInv, Covered, orders
<1> QED
  BY <1>2, <1>3, <1>4 DEF CoverInv

\* The leg in hand stays when the legs to do stay.
LEMMA SameLeg ==
  ASSUME NEW t \in Threads, call'[t].todo = call[t].todo
  PROVE  Leg(t)' = Leg(t)
BY DEF Leg, First

\* One caller in a process that does not die keeps CoverInv.
LEMMA CoverKept ==
  ASSUME OneCaller, TypeOK, HandsFull, OnFills, CoverInv, [SteadyNext]_vars
  PROVE  CoverInv'
<1>0. /\ call \in [Threads -> CallType]
      /\ \A t \in Threads : call[t] \in CallType
      /\ \A t \in Threads : call[t].todo \in SUBSET Legs
      /\ row.ids \in SUBSET Legs /\ trade.legs \in SUBSET Legs
      /\ \A k \in Shorts : k \in trade.legs \/ order[k] = "FILLED"
  BY ShortsAssumption DEF TypeOK, CallType, Row, Trade, OnFills, ReleasedOnFills
<1>1. {"judged", "requested", "choose", "lookup", "create", "send", "broker", "adopt",
       "record", "apply", "release"} \subseteq Stages /\ {} \in SUBSET Legs
      /\ {TRUE, FALSE} \subseteq BOOLEAN
      /\ {"idle", "judged", "record", "apply", "release"} \cap Planned = {}
      /\ {"lookup", "create", "send", "broker", "adopt"} = Sending
      /\ Sending \cup {"requested", "choose"} = Planned
  BY DEF Stages, Planned, Sending
<1>2. ASSUME NEW t \in Threads, call[t].pc \in Sending
      PROVE  /\ Leg(t) \in Legs /\ Leg(t) \in call[t].todo /\ call[t].todo # {}
             /\ call[t].todo \cap Shorts # {} => Leg(t) \in Shorts
  BY <1>0, <1>2, FirstIsOne DEF Leg, HandsFull
<1>3. \A t, u \in Threads : t = u
  BY DEF OneCaller
<1>4. ASSUME NEW t \in Threads, Judge(t) PROVE CoverInv'
  <2>1. /\ call[t].pc \notin {"send", "broker", "adopt"}
        /\ call'[t].pc \notin Sending \ {"lookup"}
    BY <1>0, <1>1, <1>4, MoveMade DEF Judge, At
  <2>2. call'[t].pc \in Planned /\ call'[t].todo # {} =>
          \A k \in Shorts : k \in call'[t].todo \/ order[k] = "FILLED"
    BY <1>0, <1>1, <1>4, MoveMade DEF Judge, At, CoverInv, PlanInHand
  <2>3. UNCHANGED orders
    BY <1>4 DEF Judge
  <2> QED
    BY <2>1, <2>2, <2>3, OutsideStep
<1>5. ASSUME NEW t \in Threads, RequestExit(t) PROVE CoverInv'
  <2>0. \A S \in SUBSET Legs, b \in BOOLEAN, stage \in {"requested"} :
          Starts(t, stage, S, b) => call'[t].pc = stage /\ call'[t].todo = S
    BY <1>0, <1>1, StartsMade
  <2>1. /\ call[t].pc \notin {"send", "broker", "adopt"}
        /\ call'[t].pc \notin Sending \ {"lookup"}
    BY <1>0, <1>1, <1>5, <2>0 DEF RequestExit, At
  <2>2. call'[t].pc \in Planned /\ call'[t].todo # {} =>
          \A k \in Shorts : k \in call'[t].todo \/ order[k] = "FILLED"
    BY <1>0, <1>1, <1>5, <2>0 DEF RequestExit, At, CoverInv, PlanInHand
  <2>3. UNCHANGED orders
    BY <1>5 DEF RequestExit
  <2> QED
    BY <2>1, <2>2, <2>3, OutsideStep
<1>6. ASSUME NEW t \in Threads, WriteRequest(t) PROVE CoverInv'
  <2>1. /\ call[t].pc \notin {"send", "broker", "adopt"}
        /\ call'[t].pc \notin Sending \ {"lookup"}
    BY <1>0, <1>1, <1>6, MoveMade, EndMade DEF WriteRequest, At
  <2>2. call'[t].pc \in Planned /\ call'[t].todo # {} =>
          \A k \in Shorts : k \in call'[t].todo \/ order[k] = "FILLED"
    BY <1>0, <1>1, <1>6, MoveMade, EndMade DEF WriteRequest, At, CoverInv, PlanInHand
  <2>3. UNCHANGED orders
    BY <1>6 DEF WriteRequest
  <2> QED
    BY <2>1, <2>2, <2>3, OutsideStep
<1>7. ASSUME NEW t \in Threads, Resume(t) PROVE CoverInv'
  <2>0. \A S \in SUBSET Legs, b \in BOOLEAN, stage \in {"choose", "apply"} :
          Starts(t, stage, S, b) => call'[t].pc = stage /\ call'[t].todo = S
    BY <1>0, <1>1, StartsMade
  <2>1. /\ call[t].pc \notin {"send", "broker", "adopt"}
        /\ call'[t].pc \notin Sending \ {"lookup"}
    BY <1>0, <1>1, <1>7, <2>0 DEF Resume, At, Adopts
  <2>2. call'[t].pc \in Planned /\ call'[t].todo # {} =>
          \A k \in Shorts : k \in call'[t].todo \/ order[k] = "FILLED"
    BY <1>0, <1>1, <1>7, <2>0 DEF Resume, Adopts, At, CoverInv, PlanInHand
  <2>3. UNCHANGED orders
    BY <1>7 DEF Resume
  <2> QED
    BY <2>1, <2>2, <2>3, OutsideStep
<1>8. ASSUME NEW t \in Threads, AdoptRecorded(t) PROVE CoverInv'
  <2>0. \A S \in SUBSET Legs, b \in BOOLEAN, stage \in {"apply"} :
          Starts(t, stage, S, b) => call'[t].pc = stage /\ call'[t].todo = S
    BY <1>0, <1>1, StartsMade
  <2>1. /\ call[t].pc \notin {"send", "broker", "adopt"}
        /\ call'[t].pc \notin Sending \ {"lookup"}
    BY <1>0, <1>1, <1>8, <2>0 DEF AdoptRecorded, At, Adopts
  <2>2. call'[t].pc \in Planned /\ call'[t].todo # {} =>
          \A k \in Shorts : k \in call'[t].todo \/ order[k] = "FILLED"
    BY <1>0, <1>1, <1>8, <2>0 DEF AdoptRecorded, Adopts, At, CoverInv, PlanInHand
  <2>3. UNCHANGED orders
    BY <1>8 DEF AdoptRecorded
  <2> QED
    BY <2>1, <2>2, <2>3, OutsideStep
<1>9. ASSUME NEW t \in Threads, PlanExit(t) PROVE CoverInv'
  <2>1. /\ call[t].pc \notin {"send", "broker", "adopt"}
        /\ call'[t].pc \notin Sending \ {"lookup"}
    BY <1>0, <1>1, <1>9, MoveMade DEF PlanExit, At, MustPlan
  <2>2. call'[t].pc \in Planned /\ call'[t].todo # {} =>
          \A k \in Shorts : k \in call'[t].todo \/ order[k] = "FILLED"
    BY <1>0, <1>1, <1>9, MoveMade DEF PlanExit, MustPlan, At, CoverInv, PlanInHand
  <2>3. UNCHANGED orders
    BY <1>9 DEF PlanExit
  <2> QED
    BY <2>1, <2>2, <2>3, OutsideStep
<1>10. ASSUME NEW t \in Threads, NoPlan(t) PROVE CoverInv'
  <2>1. /\ call[t].pc \notin {"send", "broker", "adopt"}
        /\ call'[t].pc \notin Sending \ {"lookup"}
    BY <1>0, <1>1, <1>10, EndMade DEF NoPlan, At, Raises, MustPlan
  <2>2. call'[t].pc \in Planned /\ call'[t].todo # {} =>
          \A k \in Shorts : k \in call'[t].todo \/ order[k] = "FILLED"
    BY <1>0, <1>1, <1>10, EndMade DEF NoPlan, Raises, MustPlan, At, CoverInv, PlanInHand
  <2>3. UNCHANGED orders
    BY <1>10 DEF NoPlan
  <2> QED
    BY <2>1, <2>2, <2>3, OutsideStep
<1>11. ASSUME NEW t \in Threads, LookupKnown(t) PROVE CoverInv'
  <2>0. /\ Leg(t) \in Legs /\ call[t].pc = "lookup"
        /\ cache[Leg(t)] \in Outcomes /\ cache[Leg(t)] \in States
        /\ cache[Leg(t)] = "FILLED" => order[Leg(t)] = "FILLED"
    BY <1>1, <1>2, <1>3, <1>11, Names DEF LookupKnown, At, CoverInv, OrdersInHand, PlanInHand, OnFills, Confirmed, TypeOK
  <2>1. /\ call'[t].pc \in {"record", "lookup"}
        /\ call'[t].pc = "lookup" => /\ cache[Leg(t)] = "FILLED"
                                     /\ call'[t].todo = call[t].todo \ {Leg(t)}
    BY <1>0, <1>1, <2>0, <1>11, AfterLegPlan DEF LookupKnown
  <2>2. call'[t].pc \in Planned /\ call'[t].todo # {} =>
          \A k \in Shorts : k \in call'[t].todo \/ order[k] = "FILLED"
    BY <1>1, <1>2, <2>0, <2>1 DEF CoverInv, PlanInHand
  <2> QED
    BY <1>1, <2>0, <2>1, <2>2, <1>11, OutsideStep DEF LookupKnown
<1>12. ASSUME NEW t \in Threads, LookupNew(t) PROVE CoverInv'
  <2>0. Leg(t) \in Legs /\ call[t].pc = "lookup" /\ call[t].pc \in Sending
    BY <1>1, <1>2, <1>12 DEF LookupNew, At
  <2>1. /\ call'[t].pc = "create" /\ call'[t].todo = call[t].todo /\ Leg(t)' = Leg(t)
    BY <1>0, <1>1, <1>12, MoveMade, SameLeg DEF LookupNew
  <2>2. OrdersInHand'
    BY <1>3, <2>0, <2>1, <1>12 DEF LookupNew, CoverInv, OrdersInHand, orders
  <2>3. PlanInHand'
    BY <1>1, <1>3, <2>0, <2>1, <1>12 DEF LookupNew, CoverInv, OrdersInHand, PlanInHand, orders
  <2>4. Covered'
    BY <1>12 DEF LookupNew, CoverInv, Covered, orders
  <2> QED
    BY <2>2, <2>3, <2>4 DEF CoverInv
<1>13. ASSUME NEW t \in Threads, PersistCreated(t) PROVE CoverInv'
  <2>0. Leg(t) \in Legs /\ call[t].pc = "create" /\ call[t].pc \in Sending
    BY <1>1, <1>2, <1>13 DEF PersistCreated, At
  <2>1. /\ call'[t].pc = "send" /\ call'[t].todo = call[t].todo /\ Leg(t)' = Leg(t)
    BY <1>0, <1>1, <1>13, MoveMade, SameLeg DEF PersistCreated
  <2>a. /\ log' = [log EXCEPT ![Leg(t)] = "CREATED"]
        /\ cache' = [cache EXCEPT ![Leg(t)] = "CREATED"]
    BY <2>0, <1>13 DEF PersistCreated, CoverInv, OrdersInHand, PlanInHand
  <2>2. OrdersInHand'
    BY <1>3, <2>0, <2>1, <2>a, <1>13 DEF PersistCreated, CoverInv, OrdersInHand, TypeOK
  <2>3. PlanInHand'
    <3>1. cache'[Leg(t)] # "NONE"
      BY <2>0, <2>a DEF TypeOK
    <3> QED
      BY <1>1, <1>3, <2>0, <2>1, <3>1, <1>13 DEF PersistCreated, CoverInv, PlanInHand
  <2>4. Covered'
    BY <1>13 DEF PersistCreated, CoverInv, Covered, orders
  <2> QED
    BY <2>2, <2>3, <2>4 DEF CoverInv
<1>14. ASSUME NEW t \in Threads, PersistSubmitting(t) PROVE CoverInv'
  <2>0. Leg(t) \in Legs /\ call[t].pc = "send" /\ call[t].pc \in Sending
    BY <1>1, <1>2, <1>14 DEF PersistSubmitting, At
  <2>1. /\ call'[t].pc = "broker" /\ call'[t].todo = call[t].todo /\ Leg(t)' = Leg(t)
    BY <1>0, <1>1, <1>14, MoveMade, SameLeg DEF PersistSubmitting
  <2>a. /\ log' = [log EXCEPT ![Leg(t)] = "SUBMITTING"]
        /\ cache' = [cache EXCEPT ![Leg(t)] = "SUBMITTING"]
    BY <1>3, <1>14 DEF PersistSubmitting, Logged
  <2>2. OrdersInHand'
    BY <1>3, <2>0, <2>1, <2>a, <1>14 DEF PersistSubmitting, CoverInv, OrdersInHand, TypeOK
  <2>3. PlanInHand'
    BY <1>1, <1>3, <2>0, <2>1, <1>14 DEF PersistSubmitting, CoverInv, PlanInHand
  <2>4. Covered'
    BY <1>14 DEF PersistSubmitting, CoverInv, Covered, orders
  <2> QED
    BY <2>2, <2>3, <2>4 DEF CoverInv
<1>15. ASSUME NEW t \in Threads, BrokerAnswers(t) PROVE CoverInv'
  <2>0. Leg(t) \in Legs /\ call[t].pc = "broker" /\ call[t].pc \in Sending
    BY <1>1, <1>2, <1>15 DEF BrokerAnswers, At
  <2>1. /\ call'[t].pc = "adopt" /\ call'[t].todo = call[t].todo /\ Leg(t)' = Leg(t)
    BY <1>0, <1>1, <1>15, MoveMade, SameLeg DEF BrokerAnswers
  <2>a. PICK state \in Outcomes :
          /\ order' = [order EXCEPT ![Leg(t)] = state]
          /\ held' = IF state = "FILLED" THEN held \ {Leg(t)} ELSE held
    BY <1>15 DEF BrokerAnswers
  <2>b. state \in {"FILLED", "REJECTED"} /\ order[Leg(t)] = "NONE"
    BY <1>15, OutcomesAssumption DEF BrokerAnswers
  <2>2. OrdersInHand'
    <3>1. held' = {k \in Legs : order'[k] # "FILLED"}
      BY <2>0, <2>a, <2>b DEF CoverInv, OrdersInHand, TypeOK
    <3>2. \A k \in Legs : order'[k] # "NONE" => cache[k] # "NONE"
      <4>1. cache[Leg(t)] # "NONE"
        BY <1>3, <2>0, <1>15 DEF CoverInv, PlanInHand, BrokerAnswers, At
      <4> QED
        BY <2>0, <2>a, <2>b, <4>1 DEF CoverInv, OrdersInHand, TypeOK
    <3>3. \A k \in Legs : cache[k] \in {"CREATED", "SUBMITTING"} =>
            \E u \in Threads : /\ call'[u].pc \in {"send", "broker", "adopt"}
                              /\ Leg(u)' = k
      BY <1>3, <2>0, <2>1 DEF CoverInv, OrdersInHand
    <3> QED
      BY <3>1, <3>2, <3>3, <1>15 DEF BrokerAnswers, CoverInv, OrdersInHand
  <2>3. PlanInHand'
    <3>1. /\ \A k \in Shorts : order[k] = "FILLED" => order'[k] = "FILLED"
          /\ order'[Leg(t)] # "NONE"
      BY <2>0, <2>a, <2>b, ShortsAssumption DEF TypeOK
    <3> QED
      BY <1>1, <1>3, <2>0, <2>1, <3>1, <1>15 DEF BrokerAnswers, CoverInv, PlanInHand
  <2>4. Covered'
    <3>1. CASE Leg(t) \in Shorts \/ state # "FILLED"
      BY <2>a, <3>1 DEF CoverInv, Covered
    <3>2. CASE Leg(t) \notin Shorts /\ state = "FILLED"
      <4>1. \A k \in Shorts : order[k] = "FILLED"
        BY <1>1, <1>2, <2>0, <3>2 DEF CoverInv, PlanInHand
      <4>2. held \cap Shorts = {}
        BY <4>1 DEF CoverInv, OrdersInHand
      <4> QED
        BY <2>a, <4>2 DEF Covered
    <3> QED
      BY <3>1, <3>2
  <2> QED
    BY <2>2, <2>3, <2>4 DEF CoverInv
<1>16. ASSUME NEW t \in Threads, BrokerRefuses(t) PROVE CoverInv'
  BY <1>16 DEF BrokerRefuses, At, CoverInv, PlanInHand
<1>17. ASSUME NEW t \in Threads, PersistFinal(t) PROVE CoverInv'
  <2>0. /\ Leg(t) \in Legs /\ call[t].pc = "adopt"
        /\ order[Leg(t)] \in Outcomes /\ order[Leg(t)] \in States
        /\ order[Leg(t)] = "FILLED" => order[Leg(t)] = "FILLED"
    BY <1>1, <1>2, <1>3, <1>17, Names DEF PersistFinal, At, CoverInv, OrdersInHand, PlanInHand, OnFills, Confirmed, TypeOK
  <2>1. /\ call'[t].pc \in {"record", "lookup"}
        /\ call'[t].pc = "lookup" => /\ order[Leg(t)] = "FILLED"
                                     /\ call'[t].todo = call[t].todo \ {Leg(t)}
    BY <1>0, <1>1, <2>0, <1>17, AfterLegPlan DEF PersistFinal
  <2>2. call'[t].pc \in Planned /\ call'[t].todo # {} =>
          \A k \in Shorts : k \in call'[t].todo \/ order[k] = "FILLED"
    BY <1>1, <1>2, <2>0, <2>1 DEF CoverInv, PlanInHand
  <2>a. /\ log' = [log EXCEPT ![Leg(t)] = order[Leg(t)]]
        /\ cache' = [cache EXCEPT ![Leg(t)] = order[Leg(t)]]
    BY <1>3, <1>17 DEF PersistFinal, Logged
  <2>b. order[Leg(t)] \in {"FILLED", "REJECTED"}
    BY <2>0, OutcomesAssumption
  <2>3. OrdersInHand'
    BY <1>3, <2>0, <2>1, <2>a, <2>b, <1>17 DEF PersistFinal, CoverInv, OrdersInHand, TypeOK
  <2>4. PlanInHand'
    BY <1>3, <2>1, <2>2, <1>17 DEF PersistFinal, CoverInv, PlanInHand
  <2>5. Covered'
    BY <1>17 DEF PersistFinal, CoverInv, Covered
  <2> QED
    BY <2>3, <2>4, <2>5 DEF CoverInv
<1>18. ASSUME NEW t \in Threads, RecordIds(t) PROVE CoverInv'
  <2>0. InHand(t) \in SUBSET Legs
    BY DEF InHand
  <2>1. [call[t] EXCEPT !.pc = "apply", !.todo = InHand(t)] \in CallType
    BY <1>0, <1>1, <2>0, Calls
  <2>2. [call[t] EXCEPT !.pc = "apply", !.todo = InHand(t)].pc = "apply"
    BY <1>0 DEF CallType
  <2>3. call[t].pc = "record" /\ call'[t].pc = "apply" /\ UNCHANGED orders
    BY <1>0, <1>18, <2>1, <2>2, GoesOne DEF RecordIds, At
  <2> QED
    BY <1>1, <2>3, OutsideStep
<1>19. ASSUME NEW t \in Threads, ApplySent(t) PROVE CoverInv'
  <2>1. /\ call[t].pc = "apply" /\ call'[t].pc \in {"apply", "release", "idle"}
        /\ UNCHANGED orders
    BY <1>0, <1>1, <1>19, EventTyped, NextEventMade, EndMade DEF ApplySent, Applying, At, Raises
  <2> QED
    BY <1>1, <2>1, OutsideStep
<1>20. ASSUME NEW t \in Threads, ApplyNothing(t) PROVE CoverInv'
  <2>1. /\ call[t].pc = "apply" /\ call'[t].pc \in {"apply", "release", "idle"}
        /\ UNCHANGED orders
    BY <1>0, <1>1, <1>20, EventTyped, NextEventMade, EndMade DEF ApplyNothing, Applying, At, Raises
  <2> QED
    BY <1>1, <2>1, OutsideStep
<1>21. ASSUME NEW t \in Threads, ApplyFill(t) PROVE CoverInv'
  <2>1. /\ call[t].pc = "apply" /\ call'[t].pc \in {"apply", "release", "idle"}
        /\ UNCHANGED orders
    BY <1>0, <1>1, <1>21, EventTyped, NextEventMade, EndMade DEF ApplyFill, Applying, At, Raises
  <2> QED
    BY <1>1, <2>1, OutsideStep
<1>22. ASSUME NEW t \in Threads, ApplyLastFill(t) PROVE CoverInv'
  <2>1. /\ call[t].pc = "apply" /\ call'[t].pc \in {"apply", "release", "idle"}
        /\ UNCHANGED orders
    BY <1>0, <1>1, <1>22, EventTyped, NextEventMade, EndMade DEF ApplyLastFill, Applying, At, Raises
  <2> QED
    BY <1>1, <2>1, OutsideStep
<1>23. ASSUME NEW t \in Threads, ApplyFailed(t) PROVE CoverInv'
  <2>1. /\ call[t].pc = "apply" /\ call'[t].pc \in {"apply", "release", "idle"}
        /\ UNCHANGED orders
    BY <1>0, <1>1, <1>23, EventTyped, NextEventMade, EndMade DEF ApplyFailed, Applying, At, Raises
  <2> QED
    BY <1>1, <2>1, OutsideStep
<1>24. ASSUME NEW t \in Threads, ReleaseCapital(t) PROVE CoverInv'
  <2>1. /\ call[t].pc = "release" /\ call'[t].pc \in {"apply", "idle"}
        /\ UNCHANGED orders
    BY <1>0, <1>1, <1>24, MoveMade, EndMade DEF ReleaseCapital, At, Raises
  <2> QED
    BY <1>1, <2>1, OutsideStep
<1>25. ASSUME NEW t \in Threads, Settle(t) PROVE CoverInv'
  <2>1. call[t].pc = "apply" /\ call'[t].pc = "idle" /\ UNCHANGED orders
    BY <1>0, <1>1, <1>25, EndMade DEF Settle, At
  <2> QED
    BY <1>1, <2>1, OutsideStep
<1>26. ASSUME NEW t \in Threads, SaveBook(t) PROVE CoverInv'
  BY <1>26 DEF SaveBook, orders, CoverInv, OrdersInHand, PlanInHand, Covered, Leg
<1>27. ASSUME UNCHANGED vars PROVE CoverInv'
  BY <1>27 DEF vars, CoverInv, OrdersInHand, PlanInHand, Covered, Leg
<1> QED
  BY <1>4, <1>5, <1>6, <1>7, <1>8, <1>9, <1>10, <1>11, <1>12, <1>13, <1>14, <1>15, <1>16, <1>17, <1>18, <1>19, <1>20, <1>21, <1>22, <1>23, <1>24, <1>25, <1>26, <1>27
     DEF SteadyNext, Step, BrokerSubmits

\* What a steady process with one caller keeps true.
LEMMA SteadyInvariant ==
  ASSUME OneCaller
  PROVE  SteadySpec => [](TypeOK /\ HandsFull /\ OnFills /\ CoverInv)
<1>1. Init => TypeOK /\ HandsFull /\ OnFills /\ CoverInv
  <2> SUFFICES ASSUME Init PROVE TypeOK /\ HandsFull /\ OnFills /\ CoverInv
    OBVIOUS
  <2>1. TypeOK /\ HandsFull /\ OnFills
    BY TypeInit, OnFillsInit
  <2>2. OrdersInHand
    BY DEF Init, OrdersInHand, NoEvents
  <2>3. PlanInHand
    BY DEF Init, PlanInHand, NoCall, Planned, Sending
  <2>4. Covered
    BY DEF Init, Covered
  <2> QED
    BY <2>1, <2>2, <2>3, <2>4 DEF CoverInv
<1>2. TypeOK /\ HandsFull /\ OnFills /\ CoverInv /\ [SteadyNext]_vars
        => (TypeOK /\ HandsFull /\ OnFills /\ CoverInv)'
  <2>1. [SteadyNext]_vars => [Next]_vars
    BY DEF Next
  <2> QED
    BY <2>1, TypeKept, OnFillsKept, CoverKept
<1> QED
  BY <1>1, <1>2, PTL DEF SteadySpec

\* Whatever legs a trade has and whichever of its exit orders are rejected and
\* retried, one caller that is not cut short never leaves a short uncovered.
THEOREM SteadyExitIsCovered ==
  ASSUME OneCaller
  PROVE  SteadySpec => []Covered
<1>1. CoverInv => Covered
  BY DEF CoverInv
<1> QED
  BY <1>1, SteadyInvariant, PTL

\* Such a caller closes a trade, and frees its capital, only when the broker
\* holds none of its legs.
THEOREM SteadyCloseIsFlat ==
  ASSUME OneCaller
  PROVE  SteadySpec => []ClosedMeansFlat
<1>1. OnFills /\ CoverInv => ClosedMeansFlat
  BY DEF OnFills, ReleasedOnFills, CoverInv, OrdersInHand, ClosedMeansFlat
<1> QED
  BY <1>1, SteadyInvariant, PTL

-----------------------------------------------------------------------------

\* An order that has an event in the durable log.
Known(k) == log[k] # "NONE"

\* What a call has in hand, sends, or is to apply is of known orders.
CallKnown(t) ==
  /\ \A k \in Legs : call[t].seen[k] # "NONE" => Known(k)
  /\ call[t].pc \in {"send", "broker", "adopt"} => Known(Leg(t))
  /\ call[t].pc = "adopt" => order[Leg(t)] # "NONE"
  /\ call[t].pc \in {"apply", "release"} => \A k \in call[t].todo : Known(k)

OrdersKnown ==
  \A k \in Legs : k \in row.ids \/ cache[k] # "NONE" \/ order[k] # "NONE" => Known(k)

\* The inductive invariant behind RecordedIdsAreLogged.
LogInv == OrdersKnown /\ \A t \in Threads : CallKnown(t)

\* A step of one call that forgets no order, of the log or of the broker.
LEMMA OthersKnow ==
  ASSUME TypeOK, HandsFull, LogInv, NEW t \in Threads, CallKnown(t)', OrdersKnown',
         \A u \in Threads \ {t} : call'[u] = call[u],
         \A k \in Legs : (Known(k) => Known(k)') /\ (order[k] # "NONE" => order'[k] # "NONE")
  PROVE  LogInv'
<1>1. ASSUME NEW u \in Threads \ {t} PROVE CallKnown(u)'
  <2>1. Leg(u)' = Leg(u) /\ call'[u] = call[u]
    BY DEF Leg, First
  <2>2. call[u].pc \in Sending => Leg(u) \in Legs
    BY EventTyped DEF HandsFull
  <2>3. call[u].todo \in SUBSET Legs
    BY DEF TypeOK, CallType
  <2> QED
    BY <2>1, <2>2, <2>3 DEF LogInv, CallKnown, Sending
<1> QED
  BY <1>1 DEF LogInv

\* A call that ends, or that starts over, knows what it is to do.
LEMMA FreshKnows ==
  ASSUME LogInv, UNCHANGED log, NEW t \in Threads, call'[t].seen = NoEvents,
         \/ call'[t].pc \in {"idle", "requested", "choose"}
         \/ call'[t].pc = "apply" /\ call'[t].todo = row.ids /\ row.ids \subseteq Legs
  PROVE  CallKnown(t)'
BY DEF CallKnown, LogInv, OrdersKnown, NoEvents, Known

\* A call that moves on with the legs and the events it has.
LEMMA MoverKnows ==
  ASSUME LogInv, UNCHANGED <<log, order>>, NEW t \in Threads,
         call'[t].seen = call[t].seen, call'[t].todo = call[t].todo,
         call'[t].pc \in {"judged", "requested", "choose", "lookup", "create"}
           \/ (call[t].pc = "release" /\ call'[t].pc = "apply")
  PROVE  CallKnown(t)'
<1>1. CallKnown(t)
  BY DEF LogInv
<1> QED
  BY <1>1 DEF CallKnown, Known

\* The event that is applied next is of a known order, and joins the hand.
LEMMA ApplierKnows ==
  ASSUME TypeOK, LogInv, UNCHANGED log, NEW t \in Threads, Applying(t),
         NEW stage \in {"apply", "release"}, NextEvent(t, stage)
  PROVE  CallKnown(t)' /\ \A u \in Threads \ {t} : call'[u] = call[u]
<1>1. /\ call \in [Threads -> CallType] /\ call[t] \in CallType
      /\ Leg(t) \in call[t].todo /\ Leg(t) \in Legs /\ Event(t) \in States
      /\ stage \in Stages
  BY EventTyped DEF TypeOK, Applying, Stages
<1>2. /\ call'[t].seen = [call[t].seen EXCEPT ![Leg(t)] = Event(t)]
      /\ call'[t].pc = stage /\ call'[t].todo = call[t].todo \ {Leg(t)}
      /\ \A u \in Threads \ {t} : call'[u] = call[u]
  BY <1>1, NextEventMade
<1>3. call[t].seen \in [Legs -> States]
  BY <1>1 DEF CallType
<1>4. CallKnown(t) /\ Known(Leg(t))
  BY <1>1 DEF LogInv, CallKnown, Applying, At
<1>5. \A k \in Legs : call'[t].seen[k] # "NONE" => log'[k] # "NONE"
  BY <1>2, <1>3, <1>4 DEF CallKnown, Known
<1>6. \A k \in call[t].todo : log'[k] # "NONE"
  BY <1>1, <1>4 DEF CallKnown, Known, Applying, At
<1> QED
  BY <1>2, <1>5, <1>6 DEF CallKnown, Known

\* A result of submit_plan is of a known order.
LEMMA ResultKnown ==
  ASSUME TypeOK, HandsFull, LogInv, NEW t \in Threads, call[t].pc \in Sending,
         NEW e \in States, AfterLeg(t, e), \A k \in Legs : Known(k) => Known(k)',
         log'[Leg(t)] # "NONE"
  PROVE  CallKnown(t)' /\ \A u \in Threads \ {t} : call'[u] = call[u]
<1>1. /\ call \in [Threads -> CallType] /\ call[t].seen \in [Legs -> States]
  BY DEF TypeOK, CallType
<1>2. /\ call'[t].seen = [call[t].seen EXCEPT ![Leg(t)] = e]
      /\ call'[t].pc \in {"record", "lookup"}
      /\ \A u \in Threads \ {t} : call'[u] = call[u]
  BY <1>1, AfterLegMade
<1>3. CallKnown(t)
  BY DEF LogInv
<1>4. \A k \in Legs : call'[t].seen[k] # "NONE" => log'[k] # "NONE"
  BY <1>1, <1>2, <1>3 DEF CallKnown, Known
<1> QED
  BY <1>2, <1>4 DEF CallKnown, Known

\* No step forgets an order, or has one in hand that the log does not know.
LEMMA LogKept ==
  ASSUME TypeOK, HandsFull, LogInv, [Next]_vars
  PROVE  LogInv'
<1>0. /\ call \in [Threads -> CallType]
      /\ \A t \in Threads : call[t] \in CallType /\ call[t].todo \in SUBSET Legs
      /\ row.ids \in SUBSET Legs /\ trade.legs \in SUBSET Legs
      /\ log \in [Legs -> States] /\ cache \in [Legs -> States]
      /\ order \in [Legs -> Outcomes \cup {"NONE"}]
  BY DEF TypeOK, CallType, Row, Trade
<1>1. {"judged", "requested", "choose", "lookup", "create", "send", "broker", "adopt",
       "record", "apply", "release"} \subseteq Stages /\ {} \in SUBSET Legs
      /\ {TRUE, FALSE} \subseteq BOOLEAN
  BY DEF Stages
<1>2. ASSUME NEW t \in Threads, call[t].pc \in Sending
      PROVE  Leg(t) \in Legs
  BY <1>2, EventTyped DEF HandsFull
<1>3. \A t \in Threads : CallKnown(t)
  BY DEF LogInv
<1>4. UNCHANGED <<log, cache, order>> /\ (row'.ids = row.ids \/ \A k \in row'.ids : Known(k))
        => OrdersKnown'
  BY DEF LogInv, OrdersKnown, Known
<1>5. \A ids : WriteRow(ids) => row'.ids = ids
  BY DEF WriteRow
<1>6. ASSUME NEW t \in Threads, Judge(t) PROVE LogInv'
  <2>1. CallKnown(t)' /\ \A u \in Threads \ {t} : call'[u] = call[u]
    BY <1>0, <1>1, <1>6, MoveMade, MoverKnows DEF Judge, orders, At
  <2> QED
    BY <1>6, <1>4, <2>1, OthersKnow DEF Judge, orders, Known
<1>7. ASSUME NEW t \in Threads, RequestExit(t) PROVE LogInv'
  <2>0. \A S \in SUBSET Legs : Starts(t, "requested", S, FALSE) =>
          /\ \A u \in Threads \ {t} : call'[u] = call[u]
          /\ call'[t].pc = "requested" /\ call'[t].seen = NoEvents
    BY <1>0, <1>1, StartsMade
  <2>1. CallKnown(t)' /\ \A u \in Threads \ {t} : call'[u] = call[u]
    BY <1>0, <1>1, <1>7, <2>0, FreshKnows DEF RequestExit, orders
  <2> QED
    BY <1>7, <1>4, <2>1, OthersKnow DEF RequestExit, orders, Known
<1>8. ASSUME NEW t \in Threads, WriteRequest(t) PROVE LogInv'
  <2>1. CallKnown(t)' /\ \A u \in Threads \ {t} : call'[u] = call[u]
    <3>1. CASE Goes(t, NoCall)
      BY <1>0, <1>8, <3>1, EndMade, FreshKnows DEF WriteRequest, orders
    <3>2. CASE Move(t, "choose")
      BY <1>0, <1>1, <1>8, <3>2, MoveMade, MoverKnows DEF WriteRequest, orders
    <3> QED
      BY <1>8, <3>1, <3>2 DEF WriteRequest
  <2>2. row'.ids = row.ids
    BY <1>5, <1>8 DEF WriteRequest
  <2> QED
    BY <1>8, <1>4, <2>1, <2>2, OthersKnow DEF WriteRequest, orders, Known
<1>9. ASSUME NEW t \in Threads, Resume(t) PROVE LogInv'
  <2>0. \A S \in SUBSET Legs, b \in BOOLEAN, stage \in {"choose", "apply"} :
          Starts(t, stage, S, b) =>
            /\ \A u \in Threads \ {t} : call'[u] = call[u]
            /\ call'[t].pc = stage /\ call'[t].todo = S /\ call'[t].seen = NoEvents
    BY <1>0, <1>1, StartsMade
  <2>1. CallKnown(t)' /\ \A u \in Threads \ {t} : call'[u] = call[u]
    BY <1>0, <1>1, <1>9, <2>0, FreshKnows DEF Resume, Adopts, orders
  <2> QED
    BY <1>9, <1>4, <2>1, OthersKnow DEF Resume, orders, Known
<1>10. ASSUME NEW t \in Threads, AdoptRecorded(t) PROVE LogInv'
  <2>0. \A S \in SUBSET Legs, b \in BOOLEAN, stage \in {"choose", "apply"} :
          Starts(t, stage, S, b) =>
            /\ \A u \in Threads \ {t} : call'[u] = call[u]
            /\ call'[t].pc = stage /\ call'[t].todo = S /\ call'[t].seen = NoEvents
    BY <1>0, <1>1, StartsMade
  <2>1. CallKnown(t)' /\ \A u \in Threads \ {t} : call'[u] = call[u]
    BY <1>0, <1>1, <1>10, <2>0, FreshKnows DEF AdoptRecorded, Adopts, orders
  <2> QED
    BY <1>10, <1>4, <2>1, OthersKnow DEF AdoptRecorded, orders, Known
<1>11. ASSUME NEW t \in Threads, PlanExit(t) PROVE LogInv'
  <2>1. CallKnown(t)' /\ \A u \in Threads \ {t} : call'[u] = call[u]
    BY <1>0, <1>1, <1>11, MoveMade, MoverKnows DEF PlanExit, orders, At
  <2> QED
    BY <1>11, <1>4, <2>1, OthersKnow DEF PlanExit, orders, Known
<1>12. ASSUME NEW t \in Threads, NoPlan(t) PROVE LogInv'
  <2>1. CallKnown(t)' /\ \A u \in Threads \ {t} : call'[u] = call[u]
    BY <1>0, <1>12, EndMade, FreshKnows DEF NoPlan, Raises, orders
  <2> QED
    BY <1>12, <1>4, <2>1, OthersKnow DEF NoPlan, orders, Known
<1>13. ASSUME NEW t \in Threads, LookupKnown(t) PROVE LogInv'
  <2>0. call[t].pc \in Sending /\ Leg(t) \in Legs
    BY <1>2, <1>13 DEF LookupKnown, At, Sending
  <2>1. CallKnown(t)' /\ \A u \in Threads \ {t} : call'[u] = call[u]
    <3>1. log'[Leg(t)] # "NONE" /\ cache[Leg(t)] \in States /\ \A k \in Legs : Known(k) => Known(k)'
      BY <1>0, <1>13, <2>0 DEF LookupKnown, LogInv, OrdersKnown, Known, orders
    <3> QED
      BY <1>13, <2>0, <3>1, ResultKnown DEF LookupKnown
  <2> QED
    BY <1>13, <1>4, <2>1, OthersKnow DEF LookupKnown, orders, Known
<1>14. ASSUME NEW t \in Threads, LookupNew(t) PROVE LogInv'
  <2>1. CallKnown(t)' /\ \A u \in Threads \ {t} : call'[u] = call[u]
    BY <1>0, <1>1, <1>14, MoveMade, MoverKnows DEF LookupNew, orders, At
  <2> QED
    BY <1>14, <1>4, <2>1, OthersKnow DEF LookupNew, orders, Known
<1>15. ASSUME NEW t \in Threads, PersistCreated(t) PROVE LogInv'
  <2>0. /\ Leg(t) \in Legs
        /\ \A u \in Threads \ {t} : call'[u] = call[u]
        /\ call'[t].pc = "send" /\ call'[t].todo = call[t].todo /\ call'[t].seen = call[t].seen
        /\ Leg(t)' = Leg(t)
    BY <1>0, <1>1, <1>2, <1>15, MoveMade, SameLeg DEF PersistCreated, At, Sending
  <2>1. Known(Leg(t))' /\ \A k \in Legs : Known(k) => Known(k)'
    BY <1>0, <1>15, <2>0 DEF PersistCreated, Known
  <2>2. OrdersKnown'
    BY <1>0, <1>15, <2>0, <2>1 DEF PersistCreated, LogInv, OrdersKnown, Known
  <2>3. CallKnown(t)'
    BY <1>3, <2>0, <2>1 DEF CallKnown
  <2> QED
    BY <1>15, <2>0, <2>1, <2>2, <2>3, OthersKnow DEF PersistCreated
<1>16. ASSUME NEW t \in Threads, PersistSubmitting(t) PROVE LogInv'
  <2>0. /\ Leg(t) \in Legs
        /\ \A u \in Threads \ {t} : call'[u] = call[u]
        /\ call'[t].pc = "broker" /\ call'[t].todo = call[t].todo /\ call'[t].seen = call[t].seen
        /\ Leg(t)' = Leg(t)
    BY <1>0, <1>1, <1>2, <1>16, MoveMade, SameLeg DEF PersistSubmitting, At, Sending
  <2>1. Known(Leg(t))
    BY <1>3, <1>16 DEF PersistSubmitting, CallKnown, At
  <2>2. \A k \in Legs : Known(k) => Known(k)'
    BY <1>0, <1>16, <2>0 DEF PersistSubmitting, Logged, Known
  <2>3. OrdersKnown'
    BY <1>0, <1>16, <2>0, <2>1, <2>2 DEF PersistSubmitting, LogInv, OrdersKnown
  <2>4. CallKnown(t)'
    BY <1>3, <2>0, <2>1, <2>2 DEF CallKnown
  <2> QED
    BY <1>16, <2>0, <2>2, <2>3, <2>4, OthersKnow DEF PersistSubmitting
<1>17. ASSUME NEW t \in Threads, BrokerAnswers(t) PROVE LogInv'
  <2>0. /\ Leg(t) \in Legs
        /\ \A u \in Threads \ {t} : call'[u] = call[u]
        /\ call'[t].pc = "adopt" /\ call'[t].todo = call[t].todo /\ call'[t].seen = call[t].seen
        /\ Leg(t)' = Leg(t)
    BY <1>0, <1>1, <1>2, <1>17, MoveMade, SameLeg DEF BrokerAnswers, At, Sending
  <2>1. Known(Leg(t))
    BY <1>3, <1>17 DEF BrokerAnswers, CallKnown, At
  <2>2. /\ \A k \in Legs : Known(k)' <=> Known(k)
        /\ \A k \in Legs : order[k] # "NONE" => order'[k] # "NONE"
        /\ order'[Leg(t)] # "NONE" /\ \A k \in Legs : k # Leg(t) => order'[k] = order[k]
    BY <1>0, <1>17, <2>0, OutcomesAssumption DEF BrokerAnswers, Known
  <2>3. OrdersKnown'
    BY <1>17, <2>1, <2>2 DEF BrokerAnswers, LogInv, OrdersKnown
  <2>4. CallKnown(t)'
    BY <1>3, <2>0, <2>1, <2>2 DEF CallKnown
  <2> QED
    BY <2>0, <2>2, <2>3, <2>4, OthersKnow
<1>18. ASSUME NEW t \in Threads, BrokerRefuses(t) PROVE LogInv'
  <2>1. CallKnown(t)' /\ \A u \in Threads \ {t} : call'[u] = call[u]
    BY <1>0, <1>18, EndMade, FreshKnows DEF BrokerRefuses, Raises, orders
  <2> QED
    BY <1>18, <1>4, <2>1, OthersKnow DEF BrokerRefuses, orders, Known
<1>19. ASSUME NEW t \in Threads, PersistFinal(t) PROVE LogInv'
  <2>0. call[t].pc \in Sending /\ Leg(t) \in Legs
    BY <1>2, <1>19 DEF PersistFinal, At, Sending
  <2>1. Known(Leg(t)) /\ order[Leg(t)] \in Outcomes /\ order[Leg(t)] # "NONE"
    BY <1>0, <1>3, <1>19, <2>0 DEF PersistFinal, CallKnown, At
  <2>2. \A k \in Legs : Known(k) => Known(k)'
    BY <1>0, <1>19, <2>0, <2>1 DEF PersistFinal, Logged, Known
  <2>3. CallKnown(t)' /\ \A u \in Threads \ {t} : call'[u] = call[u]
    <3>1. log'[Leg(t)] # "NONE"
      BY <2>0, <2>1, <2>2 DEF Known
    <3> QED
      BY <1>19, <2>0, <2>1, <2>2, <3>1, Names, ResultKnown DEF PersistFinal
  <2>4. OrdersKnown'
    BY <1>0, <1>19, <2>0, <2>1, <2>2 DEF PersistFinal, LogInv, OrdersKnown
  <2> QED
    BY <1>19, <2>2, <2>3, <2>4, OthersKnow DEF PersistFinal
<1>20. ASSUME NEW t \in Threads, RecordIds(t) PROVE LogInv'
  <2>1. InHand(t) \in SUBSET Legs /\ \A k \in InHand(t) : Known(k)
    BY <1>3 DEF InHand, CallKnown
  <2>2. [call[t] EXCEPT !.pc = "apply", !.todo = InHand(t)] \in CallType
    BY <1>0, <1>1, <2>1, Calls
  <2>3. call'[t] = [call[t] EXCEPT !.pc = "apply", !.todo = InHand(t)]
        /\ \A u \in Threads \ {t} : call'[u] = call[u]
    BY <1>0, <1>20, GoesOne DEF RecordIds
  <2>4. call'[t].pc = "apply" /\ call'[t].todo = InHand(t) /\ call'[t].seen = call[t].seen
    BY <1>0, <2>3 DEF CallType
  <2>5. CallKnown(t)'
    BY <1>3, <1>20, <2>1, <2>4 DEF CallKnown, RecordIds, orders, Known
  <2>6. row'.ids = InHand(t)
    BY <1>5, <1>20 DEF RecordIds
  <2> QED
    BY <1>20, <1>4, <2>1, <2>3, <2>5, <2>6, OthersKnow DEF RecordIds, orders, Known
<1>21. ASSUME NEW t \in Threads, ApplySent(t) PROVE LogInv'
  <2>1. CallKnown(t)' /\ \A u \in Threads \ {t} : call'[u] = call[u]
    BY <1>21, ApplierKnows DEF ApplySent, orders
  <2> QED
    BY <1>21, <1>4, <2>1, OthersKnow DEF ApplySent, orders, Known
<1>22. ASSUME NEW t \in Threads, ApplyNothing(t) PROVE LogInv'
  <2>1. CallKnown(t)' /\ \A u \in Threads \ {t} : call'[u] = call[u]
    BY <1>22, ApplierKnows DEF ApplyNothing, orders
  <2> QED
    BY <1>22, <1>4, <2>1, OthersKnow DEF ApplyNothing, orders, Known
<1>23. ASSUME NEW t \in Threads, ApplyFill(t) PROVE LogInv'
  <2>1. CallKnown(t)' /\ \A u \in Threads \ {t} : call'[u] = call[u]
    BY <1>23, ApplierKnows DEF ApplyFill, orders
  <2> QED
    BY <1>23, <1>4, <2>1, OthersKnow DEF ApplyFill, orders, Known
<1>24. ASSUME NEW t \in Threads, ApplyFailed(t) PROVE LogInv'
  <2>1. CallKnown(t)' /\ \A u \in Threads \ {t} : call'[u] = call[u]
    BY <1>24, ApplierKnows DEF ApplyFailed, orders
  <2> QED
    BY <1>24, <1>4, <2>1, OthersKnow DEF ApplyFailed, orders, Known
<1>25. ASSUME NEW t \in Threads, ApplyLastFill(t) PROVE LogInv'
  <2>1. CallKnown(t)' /\ \A u \in Threads \ {t} : call'[u] = call[u]
    <3>1. CASE NextEvent(t, "release")
      BY <1>25, <3>1, ApplierKnows DEF ApplyLastFill, orders
    <3>2. CASE Raises(t)
      BY <1>0, <1>25, <3>2, EndMade, FreshKnows DEF ApplyLastFill, Raises, orders
    <3> QED
      BY <1>25, <3>1, <3>2 DEF ApplyLastFill
  <2> QED
    BY <1>25, <1>4, <2>1, OthersKnow DEF ApplyLastFill, orders, Known
<1>26. ASSUME NEW t \in Threads, ReleaseCapital(t) PROVE LogInv'
  <2>1. CallKnown(t)' /\ \A u \in Threads \ {t} : call'[u] = call[u]
    <3>1. CASE Move(t, "apply")
      BY <1>0, <1>1, <1>26, <3>1, MoveMade, MoverKnows DEF ReleaseCapital, orders, At
    <3>2. CASE Raises(t)
      BY <1>0, <1>26, <3>2, EndMade, FreshKnows DEF ReleaseCapital, Raises, orders
    <3> QED
      BY <1>26, <3>1, <3>2 DEF ReleaseCapital
  <2> QED
    BY <1>26, <1>4, <2>1, OthersKnow DEF ReleaseCapital, orders, Known
<1>27. ASSUME NEW t \in Threads, Settle(t) PROVE LogInv'
  <2>1. CallKnown(t)' /\ \A u \in Threads \ {t} : call'[u] = call[u]
    BY <1>0, <1>27, EndMade, FreshKnows DEF Settle, orders
  <2>2. \A k \in row'.ids : Known(k)
    BY <1>3, <1>5, <1>27 DEF Settle, InHand, CallKnown
  <2> QED
    BY <1>27, <1>4, <2>1, <2>2, OthersKnow DEF Settle, orders, Known
<1>28. ASSUME NEW t \in Threads, SaveBook(t) PROVE LogInv'
  <2>1. row'.ids = row.ids
    BY <1>5, <1>28 DEF SaveBook
  <2> QED
    BY <1>4, <1>28, <2>1 DEF SaveBook, orders, LogInv, CallKnown, Known, Leg, First
<1>29. CASE Crash
  <2>1. \A t \in Threads : call'[t] = NoCall
    BY <1>29 DEF Crash
  <2> QED
    BY <1>29, <2>1 DEF Crash, NoCall, NoEvents, LogInv, OrdersKnown, CallKnown, Known
<1>30. CASE UNCHANGED vars
  BY <1>30 DEF vars, LogInv, OrdersKnown, CallKnown, Known, Leg, First
<1> QED
  BY <1>6, <1>7, <1>8, <1>9, <1>10, <1>11, <1>12, <1>13, <1>14, <1>15, <1>16, <1>17, <1>18, <1>19, <1>20, <1>21, <1>22, <1>23, <1>24, <1>25, <1>26, <1>27, <1>28, <1>29, <1>30
     DEF Next, SteadyNext, Step, BrokerSubmits

\* Every exit order id that a row names has an event in the durable log, for
\* any number of callers and across crashes: adopting it finds the order.
THEOREM IdsAreLogged == Spec => []RecordedIdsAreLogged
<1>1. Init => LogInv
  BY DEF Init, LogInv, OrdersKnown, CallKnown, NoCall, NoEvents
<1>2. TypeOK /\ HandsFull /\ LogInv /\ [Next]_vars => (TypeOK /\ HandsFull /\ LogInv)'
  BY TypeKept, LogKept
<1>3. TypeOK /\ LogInv => RecordedIdsAreLogged
  BY DEF TypeOK, Row, LogInv, OrdersKnown, RecordedIdsAreLogged, Known
<1>4. Init => TypeOK /\ HandsFull
  BY TypeInit
<1> QED
  BY <1>1, <1>2, <1>3, <1>4, PTL DEF Spec

-----------------------------------------------------------------------------

\* A closed trade has freed its capital, or its call is about to.
ClosedFrees ==
  /\ ClosedRowFreesCapital
  /\ trade.state = "CLOSED" =>
       reservation = "RELEASED" \/ \E t \in Threads : call[t].pc = "release"

\* A step of the one caller that is not about to free the capital closes neither
\* the trade, nor the row of a trade that is not closed.
LEMMA NothingCloses ==
  ASSUME OneCaller, ClosedFrees, NEW t \in Threads, call[t].pc # "release", UNCHANGED reservation,
         trade'.state = "CLOSED" => trade.state = "CLOSED",
         row'.state = row.state \/ row'.state = trade.state
  PROVE  ClosedFrees'
BY DEF OneCaller, ClosedFrees, ClosedRowFreesCapital

LEMMA ClosedFreesKept ==
  ASSUME OneCaller, TypeOK, HandsFull, ClosedFrees, [Next]_vars
  PROVE  ClosedFrees'
<1>0. /\ call \in [Threads -> CallType] /\ trade \in Trade /\ row \in Row
      /\ \A t \in Threads : call[t] \in CallType
      /\ reservation \in {"COMMITTED", "RELEASED"}
  BY DEF TypeOK
<1>1. \A ids : WriteRow(ids) => row'.state = trade.state
  BY DEF WriteRow
<1>2. \A t \in Threads : \A stage : At(t, stage) /\ stage # "release" => call[t].pc # "release"
  BY DEF At
<1>3. ASSUME NEW t \in Threads, Judge(t) PROVE ClosedFrees'
  BY <1>2, <1>3, NothingCloses DEF Judge
<1>4. ASSUME NEW t \in Threads, Resume(t) PROVE ClosedFrees'
  BY <1>2, <1>4, NothingCloses DEF Resume
<1>5. ASSUME NEW t \in Threads, AdoptRecorded(t) PROVE ClosedFrees'
  BY <1>2, <1>5, NothingCloses DEF AdoptRecorded
<1>6. ASSUME NEW t \in Threads, PlanExit(t) PROVE ClosedFrees'
  BY <1>2, <1>6, NothingCloses DEF PlanExit, MustPlan
<1>7. ASSUME NEW t \in Threads, NoPlan(t) PROVE ClosedFrees'
  BY <1>2, <1>7, NothingCloses DEF NoPlan, MustPlan
<1>8. ASSUME NEW t \in Threads, LookupKnown(t) PROVE ClosedFrees'
  BY <1>2, <1>8, NothingCloses DEF LookupKnown
<1>9. ASSUME NEW t \in Threads, LookupNew(t) PROVE ClosedFrees'
  BY <1>2, <1>9, NothingCloses DEF LookupNew
<1>10. ASSUME NEW t \in Threads, PersistCreated(t) PROVE ClosedFrees'
  BY <1>2, <1>10, NothingCloses DEF PersistCreated
<1>11. ASSUME NEW t \in Threads, PersistSubmitting(t) PROVE ClosedFrees'
  BY <1>2, <1>11, NothingCloses DEF PersistSubmitting
<1>12. ASSUME NEW t \in Threads, BrokerAnswers(t) PROVE ClosedFrees'
  BY <1>2, <1>12, NothingCloses DEF BrokerAnswers
<1>13. ASSUME NEW t \in Threads, BrokerRefuses(t) PROVE ClosedFrees'
  BY <1>2, <1>13, NothingCloses DEF BrokerRefuses
<1>14. ASSUME NEW t \in Threads, PersistFinal(t) PROVE ClosedFrees'
  BY <1>2, <1>14, NothingCloses DEF PersistFinal
<1>15. ASSUME NEW t \in Threads, WriteRequest(t) PROVE ClosedFrees'
  BY <1>1, <1>2, <1>15, NothingCloses DEF WriteRequest
<1>16. ASSUME NEW t \in Threads, RecordIds(t) PROVE ClosedFrees'
  BY <1>1, <1>2, <1>16, NothingCloses DEF RecordIds
<1>17. ASSUME NEW t \in Threads, SaveBook(t) PROVE ClosedFrees'
  BY <1>1, <1>2, <1>17, NothingCloses DEF SaveBook
<1>18. ASSUME NEW t \in Threads, Settle(t) PROVE ClosedFrees'
  BY <1>1, <1>2, <1>18, NothingCloses DEF Settle
<1>19. ASSUME NEW t \in Threads, RequestExit(t) PROVE ClosedFrees'
  <2>1. trade'.state = "CLOSED" => trade.state = "CLOSED"
    BY <1>0, <1>19 DEF RequestExit, Trade, Closing
  <2> QED
    BY <1>2, <1>19, <2>1, NothingCloses DEF RequestExit, Applying
<1>20. ASSUME NEW t \in Threads, ApplySent(t) PROVE ClosedFrees'
  <2>1. trade'.state = "CLOSED" => trade.state = "CLOSED"
    BY <1>0, <1>20 DEF ApplySent, Trade, Closing
  <2> QED
    BY <1>2, <1>20, <2>1, NothingCloses DEF ApplySent, Applying
<1>21. ASSUME NEW t \in Threads, ApplyNothing(t) PROVE ClosedFrees'
  <2>1. trade'.state = "CLOSED" => trade.state = "CLOSED"
    BY <1>0, <1>21 DEF ApplyNothing, Trade, Closing
  <2> QED
    BY <1>2, <1>21, <2>1, NothingCloses DEF ApplyNothing, Applying
<1>22. ASSUME NEW t \in Threads, ApplyFill(t) PROVE ClosedFrees'
  <2>1. trade'.state = "CLOSED" => trade.state = "CLOSED"
    BY <1>0, <1>22 DEF ApplyFill, Trade, Closing
  <2> QED
    BY <1>2, <1>22, <2>1, NothingCloses DEF ApplyFill, Applying
<1>23. ASSUME NEW t \in Threads, ApplyFailed(t) PROVE ClosedFrees'
  <2>1. trade'.state = "CLOSED" => trade.state = "CLOSED"
    BY <1>0, <1>23 DEF ApplyFailed, Trade, Closing
  <2> QED
    BY <1>2, <1>23, <2>1, NothingCloses DEF ApplyFailed, Applying
<1>24. ASSUME NEW t \in Threads, ApplyLastFill(t) PROVE ClosedFrees'
  <2>1. call[t].pc # "release" /\ UNCHANGED <<row, reservation>>
    BY <1>2, <1>24 DEF ApplyLastFill, Applying
  <2>2. CASE NextEvent(t, "release")
    <3>1. call'[t].pc = "release"
      BY <1>0, <1>24, <2>2, EventTyped, NextEventMade DEF ApplyLastFill, Applying, Stages
    <3> QED
      BY <2>1, <3>1 DEF ClosedFrees, ClosedRowFreesCapital
  <2>3. CASE trade' = [trade EXCEPT !.state = Closing]
    <3>1. trade'.state = "CLOSED" => trade.state = "CLOSED"
      BY <1>0, <2>3 DEF Trade, Closing
    <3> QED
      BY <2>1, <3>1, NothingCloses
  <2> QED
    BY <1>24, <2>2, <2>3 DEF ApplyLastFill
<1>25. ASSUME NEW t \in Threads, ReleaseCapital(t) PROVE ClosedFrees'
  <2>1. CanReservation("COMMITTED", "RELEASED", "BROKER_EVENT")
    BY DEF CanReservation, ReservationEdge
  <2>2. reservation' = "RELEASED"
    BY <1>0, <1>25, <2>1 DEF ReleaseCapital
  <2> QED
    BY <2>2 DEF ClosedFrees, ClosedRowFreesCapital
<1>26. CASE Crash
  BY <1>26 DEF Crash, ClosedFrees, ClosedRowFreesCapital
<1>27. CASE UNCHANGED vars
  BY <1>27 DEF vars, ClosedFrees, ClosedRowFreesCapital
<1> QED
  BY <1>3, <1>4, <1>5, <1>6, <1>7, <1>8, <1>9, <1>10, <1>11, <1>12, <1>13, <1>14, <1>15, <1>16, <1>17, <1>18, <1>19, <1>20, <1>21, <1>22, <1>23, <1>24, <1>25, <1>26, <1>27
     DEF Next, SteadyNext, Step, BrokerSubmits

\* With one caller of manage_exits, wherever it is cut by a crash and however
\* the exit is taken up again, a row says CLOSED only when the capital is free.
THEOREM ClosedFreesItsCapital ==
  ASSUME OneCaller
  PROVE  Spec => []ClosedRowFreesCapital
<1>1. Init => TypeOK /\ HandsFull /\ ClosedFrees
  BY TypeInit DEF Init, ClosedFrees, ClosedRowFreesCapital
<1>2. TypeOK /\ HandsFull /\ ClosedFrees /\ [Next]_vars => (TypeOK /\ HandsFull /\ ClosedFrees)'
  BY TypeKept, ClosedFreesKept
<1>3. ClosedFrees => ClosedRowFreesCapital
  BY DEF ClosedFrees
<1> QED
  BY <1>1, <1>2, <1>3, PTL DEF Spec

-----------------------------------------------------------------------------

\* An order that the log calls begun, that the broker has not filled, and that
\* no call is sending: what a crash, or a refusal, left.
LeftOver(k) ==
  /\ cache[k] \in {"CREATED", "SUBMITTING"} /\ order[k] # "FILLED"
  /\ \A t \in Threads : call[t].pc \in {"send", "broker", "adopt"} => Leg(t) # k

Done(k) == order[k] = "FILLED" \/ LeftOver(k)

\* The orders across crashes: the repair only brings legs back.
OrdersCut ==
  /\ cache = log
  /\ \A k \in Legs : /\ k \notin held => order[k] = "FILLED"
                     /\ order[k] # "NONE" => cache[k] # "NONE"
                     /\ cache[k] \in {"NONE", "CREATED", "SUBMITTING"} \cup Outcomes

\* Where a call stands: a short is bought back, stuck, or still to do.
PlanCut ==
  \A t \in Threads :
    /\ call[t].pc \in Planned /\ call[t].todo # {} =>
         \A k \in Shorts : k \in call[t].todo \/ Done(k)
    /\ call[t].pc = "create" => cache[Leg(t)] = "NONE"
    /\ call[t].pc \in {"send", "broker", "adopt"} => cache[Leg(t)] # "NONE"
    /\ call[t].pc = "adopt" => order[Leg(t)] # "NONE"

LongsLast ==
  \A l \in Legs \ Shorts : order[l] = "FILLED" => \A k \in Shorts : Done(k)

\* The inductive invariant behind CoveredUnlessCut.
CutInv == OrdersCut /\ PlanCut /\ LongsLast

\* What is done stays done: an order that is stuck is not sent again.
LEMMA DoneStays ==
  ASSUME OneCaller, NEW t \in Threads,
         \A k \in Legs : k # Leg(t) => cache'[k] = cache[k] /\ order'[k] = order[k],
         order[Leg(t)] = "FILLED" => order'[Leg(t)] = "FILLED", ~LeftOver(Leg(t)),
         call'[t].pc \in {"send", "broker", "adopt"} => Leg(t)' = Leg(t)
  PROVE  \A k \in Legs : Done(k) => Done(k)'
<1> SUFFICES ASSUME NEW k \in Legs, Done(k) PROVE Done(k)'
  OBVIOUS
<1>1. \A u \in Threads : u = t
  BY DEF OneCaller
<1>2. CASE k = Leg(t)
  BY <1>2 DEF Done
<1>3. CASE k # Leg(t)
  BY <1>1, <1>3 DEF Done, LeftOver
<1> QED
  BY <1>2, <1>3

\* A step of the one caller, outside submit_plan, that leaves the orders alone.
LEMMA OutsideCut ==
  ASSUME OneCaller, CutInv, UNCHANGED orders, NEW t \in Threads,
         call[t].pc \notin {"send", "broker", "adopt"}, call'[t].pc \notin Sending \ {"lookup"},
         call'[t].pc \in Planned /\ call'[t].todo # {} =>
           \A k \in Shorts : k \in call'[t].todo \/ Done(k)
  PROVE  CutInv'
<1>1. \A u \in Threads : u = t
  BY DEF OneCaller
<1>2. \A k : Done(k) => Done(k)'
  BY <1>1 DEF Done, LeftOver, orders, Sending
<1>3. OrdersCut'
  BY DEF CutInv, OrdersCut, orders
<1>4. PlanCut'
  BY <1>1, <1>2 DEF CutInv, PlanCut, orders, Sending
<1>5. LongsLast'
  BY <1>2 DEF CutInv, LongsLast, orders
<1> QED
  BY <1>3, <1>4, <1>5 DEF CutInv

\* The plan goes on past any leg that is not known to have failed.
LEMMA AfterLegOn ==
  ASSUME call \in [Threads -> CallType], NEW t \in Threads, NEW e \in States,
         AfterLeg(t, e)
  PROVE  /\ call'[t].pc \in {"record", "lookup"}
         /\ call'[t].pc = "lookup" => e \notin Failed /\ call'[t].todo = call[t].todo \ {Leg(t)}
<1> DEFINE c == [call[t] EXCEPT !.seen[Leg(t)] = e, !.todo = @ \ {Leg(t)}]
<1>0. call[t] \in CallType
  OBVIOUS
<1>1. c \in CallType /\ c.todo = call[t].todo \ {Leg(t)}
  <2>1. Leg(t) \in Legs \/ Leg(t) \notin Legs
    OBVIOUS
  <2> QED
    BY <1>0, <2>1, Names DEF CallType
<1>2. CASE Goes(t, [c EXCEPT !.pc = "record", !.todo = {}])
  <2>1. call'[t] = [c EXCEPT !.pc = "record", !.todo = {}]
    BY <1>2, GoesOne
  <2> QED
    BY <1>1, <2>1 DEF CallType
<1>3. CASE e \notin Failed /\ Goes(t, [c EXCEPT !.pc = "lookup"])
  <2>1. call'[t] = [c EXCEPT !.pc = "lookup"]
    BY <1>3, GoesOne
  <2> QED
    BY <1>1, <1>3, <2>1 DEF CallType
<1>4. \/ Goes(t, [c EXCEPT !.pc = "record", !.todo = {}])
      \/ e \notin Failed /\ Goes(t, [c EXCEPT !.pc = "lookup"])
  BY DEF AfterLeg
<1> QED
  BY <1>2, <1>3, <1>4

\* One caller keeps CutInv, wherever it is cut.
LEMMA CutKept ==
  ASSUME OneCaller, TypeOK, HandsFull, OnFills, CutInv, [Next]_vars
  PROVE  CutInv'
<1>0. /\ call \in [Threads -> CallType]
      /\ \A t \in Threads : call[t] \in CallType
      /\ \A t \in Threads : call[t].todo \in SUBSET Legs
      /\ row.ids \in SUBSET Legs /\ trade.legs \in SUBSET Legs
      /\ \A k \in Shorts : k \in trade.legs \/ Done(k)
  BY ShortsAssumption DEF TypeOK, CallType, Row, Trade, OnFills, ReleasedOnFills, Done
<1>1. {"judged", "requested", "choose", "lookup", "create", "send", "broker", "adopt",
       "record", "apply", "release"} \subseteq Stages /\ {} \in SUBSET Legs
      /\ {TRUE, FALSE} \subseteq BOOLEAN
      /\ {"idle", "judged", "record", "apply", "release"} \cap Planned = {}
      /\ {"lookup", "create", "send", "broker", "adopt"} = Sending
      /\ Sending \cup {"requested", "choose"} = Planned
  BY DEF Stages, Planned, Sending
<1>2. ASSUME NEW t \in Threads, call[t].pc \in Sending
      PROVE  /\ Leg(t) \in Legs /\ Leg(t) \in call[t].todo /\ call[t].todo # {}
             /\ call[t].todo \cap Shorts # {} => Leg(t) \in Shorts
  BY <1>0, <1>2, FirstIsOne DEF Leg, HandsFull
<1>3. \A t, u \in Threads : t = u
  BY DEF OneCaller
<1>4. ASSUME NEW t \in Threads, Judge(t) PROVE CutInv'
  <2>1. /\ call[t].pc \notin {"send", "broker", "adopt"}
        /\ call'[t].pc \notin Sending \ {"lookup"}
    BY <1>0, <1>1, <1>4, MoveMade DEF Judge, At
  <2>2. call'[t].pc \in Planned /\ call'[t].todo # {} =>
          \A k \in Shorts : k \in call'[t].todo \/ Done(k)
    BY <1>0, <1>1, <1>4, MoveMade DEF Judge, At, CutInv, PlanCut
  <2>3. UNCHANGED orders
    BY <1>4 DEF Judge
  <2> QED
    BY <2>1, <2>2, <2>3, OutsideCut
<1>5. ASSUME NEW t \in Threads, RequestExit(t) PROVE CutInv'
  <2>0. \A S \in SUBSET Legs, b \in BOOLEAN, stage \in {"requested"} :
          Starts(t, stage, S, b) => call'[t].pc = stage /\ call'[t].todo = S
    BY <1>0, <1>1, StartsMade
  <2>1. /\ call[t].pc \notin {"send", "broker", "adopt"}
        /\ call'[t].pc \notin Sending \ {"lookup"}
    BY <1>0, <1>1, <1>5, <2>0 DEF RequestExit, At
  <2>2. call'[t].pc \in Planned /\ call'[t].todo # {} =>
          \A k \in Shorts : k \in call'[t].todo \/ Done(k)
    BY <1>0, <1>1, <1>5, <2>0 DEF RequestExit, At, CutInv, PlanCut
  <2>3. UNCHANGED orders
    BY <1>5 DEF RequestExit
  <2> QED
    BY <2>1, <2>2, <2>3, OutsideCut
<1>6. ASSUME NEW t \in Threads, WriteRequest(t) PROVE CutInv'
  <2>1. /\ call[t].pc \notin {"send", "broker", "adopt"}
        /\ call'[t].pc \notin Sending \ {"lookup"}
    BY <1>0, <1>1, <1>6, MoveMade, EndMade DEF WriteRequest, At
  <2>2. call'[t].pc \in Planned /\ call'[t].todo # {} =>
          \A k \in Shorts : k \in call'[t].todo \/ Done(k)
    BY <1>0, <1>1, <1>6, MoveMade, EndMade DEF WriteRequest, At, CutInv, PlanCut
  <2>3. UNCHANGED orders
    BY <1>6 DEF WriteRequest
  <2> QED
    BY <2>1, <2>2, <2>3, OutsideCut
<1>7. ASSUME NEW t \in Threads, Resume(t) PROVE CutInv'
  <2>0. \A S \in SUBSET Legs, b \in BOOLEAN, stage \in {"choose", "apply"} :
          Starts(t, stage, S, b) => call'[t].pc = stage /\ call'[t].todo = S
    BY <1>0, <1>1, StartsMade
  <2>1. /\ call[t].pc \notin {"send", "broker", "adopt"}
        /\ call'[t].pc \notin Sending \ {"lookup"}
    BY <1>0, <1>1, <1>7, <2>0 DEF Resume, At, Adopts
  <2>2. call'[t].pc \in Planned /\ call'[t].todo # {} =>
          \A k \in Shorts : k \in call'[t].todo \/ Done(k)
    BY <1>0, <1>1, <1>7, <2>0 DEF Resume, Adopts, At, CutInv, PlanCut
  <2>3. UNCHANGED orders
    BY <1>7 DEF Resume
  <2> QED
    BY <2>1, <2>2, <2>3, OutsideCut
<1>8. ASSUME NEW t \in Threads, AdoptRecorded(t) PROVE CutInv'
  <2>0. \A S \in SUBSET Legs, b \in BOOLEAN, stage \in {"apply"} :
          Starts(t, stage, S, b) => call'[t].pc = stage /\ call'[t].todo = S
    BY <1>0, <1>1, StartsMade
  <2>1. /\ call[t].pc \notin {"send", "broker", "adopt"}
        /\ call'[t].pc \notin Sending \ {"lookup"}
    BY <1>0, <1>1, <1>8, <2>0 DEF AdoptRecorded, At, Adopts
  <2>2. call'[t].pc \in Planned /\ call'[t].todo # {} =>
          \A k \in Shorts : k \in call'[t].todo \/ Done(k)
    BY <1>0, <1>1, <1>8, <2>0 DEF AdoptRecorded, Adopts, At, CutInv, PlanCut
  <2>3. UNCHANGED orders
    BY <1>8 DEF AdoptRecorded
  <2> QED
    BY <2>1, <2>2, <2>3, OutsideCut
<1>9. ASSUME NEW t \in Threads, PlanExit(t) PROVE CutInv'
  <2>1. /\ call[t].pc \notin {"send", "broker", "adopt"}
        /\ call'[t].pc \notin Sending \ {"lookup"}
    BY <1>0, <1>1, <1>9, MoveMade DEF PlanExit, At, MustPlan
  <2>2. call'[t].pc \in Planned /\ call'[t].todo # {} =>
          \A k \in Shorts : k \in call'[t].todo \/ Done(k)
    BY <1>0, <1>1, <1>9, MoveMade DEF PlanExit, MustPlan, At, CutInv, PlanCut
  <2>3. UNCHANGED orders
    BY <1>9 DEF PlanExit
  <2> QED
    BY <2>1, <2>2, <2>3, OutsideCut
<1>10. ASSUME NEW t \in Threads, NoPlan(t) PROVE CutInv'
  <2>1. /\ call[t].pc \notin {"send", "broker", "adopt"}
        /\ call'[t].pc \notin Sending \ {"lookup"}
    BY <1>0, <1>1, <1>10, EndMade DEF NoPlan, At, Raises, MustPlan
  <2>2. call'[t].pc \in Planned /\ call'[t].todo # {} =>
          \A k \in Shorts : k \in call'[t].todo \/ Done(k)
    BY <1>0, <1>1, <1>10, EndMade DEF NoPlan, Raises, MustPlan, At, CutInv, PlanCut
  <2>3. UNCHANGED orders
    BY <1>10 DEF NoPlan
  <2> QED
    BY <2>1, <2>2, <2>3, OutsideCut
<1>11. ASSUME NEW t \in Threads, LookupKnown(t) PROVE CutInv'
  <2>0. /\ Leg(t) \in Legs /\ call[t].pc = "lookup" /\ cache[Leg(t)] \in States
        /\ cache[Leg(t)] = "FILLED" => order[Leg(t)] = "FILLED"
    BY <1>1, <1>2, <1>11 DEF LookupKnown, At, OnFills, Confirmed, TypeOK
  <2>1. /\ call'[t].pc \in {"record", "lookup"}
        /\ call'[t].pc = "lookup" => /\ cache[Leg(t)] \notin Failed
                                     /\ call'[t].todo = call[t].todo \ {Leg(t)}
    BY <1>0, <1>1, <2>0, <1>11, AfterLegOn DEF LookupKnown
  <2>2. cache[Leg(t)] \notin Failed => Done(Leg(t))
    <3>1. cache[Leg(t)] \in {"CREATED", "SUBMITTING", "FILLED", "REJECTED"}
      BY <1>11, <2>0, OutcomesAssumption DEF LookupKnown, CutInv, OrdersCut
    <3>2. cache[Leg(t)] \in {"CREATED", "SUBMITTING"} => Done(Leg(t))
      BY <1>3, <2>0 DEF Done, LeftOver
    <3> QED
      BY <2>0, <3>1, <3>2 DEF Done, Failed
  <2>3. call'[t].pc \in Planned /\ call'[t].todo # {} =>
          \A k \in Shorts : k \in call'[t].todo \/ Done(k)
    BY <1>1, <1>2, <2>0, <2>1, <2>2 DEF CutInv, PlanCut
  <2> QED
    BY <1>1, <2>0, <2>1, <2>3, <1>11, OutsideCut DEF LookupKnown
<1>12. ASSUME NEW t \in Threads, LookupNew(t) PROVE CutInv'
  <2>0. Leg(t) \in Legs /\ call[t].pc = "lookup" /\ call[t].pc \in Sending
    BY <1>1, <1>2, <1>12 DEF LookupNew, At
  <2>1. /\ call'[t].pc = "create" /\ call'[t].todo = call[t].todo /\ Leg(t)' = Leg(t)
    BY <1>0, <1>1, <1>12, MoveMade, SameLeg DEF LookupNew
  <2>2. \A k \in Legs : Done(k) => Done(k)'
    BY <1>3, <1>12, <2>1 DEF LookupNew, orders, Done, LeftOver
  <2>a. UNCHANGED orders /\ cache[Leg(t)] = "NONE"
    BY <1>12 DEF LookupNew
  <2>3. OrdersCut'
    BY <2>a DEF CutInv, OrdersCut, orders
  <2>4. PlanCut'
    BY <1>1, <1>3, <2>0, <2>1, <2>2, <2>a, ShortsAssumption DEF CutInv, PlanCut, orders
  <2>5. LongsLast'
    BY <2>2, <2>a, ShortsAssumption DEF CutInv, LongsLast, orders
  <2> QED
    BY <2>3, <2>4, <2>5 DEF CutInv
<1>13. ASSUME NEW t \in Threads, PersistCreated(t) PROVE CutInv'
  <2>0. Leg(t) \in Legs /\ call[t].pc = "create" /\ call[t].pc \in Sending
    BY <1>1, <1>2, <1>13 DEF PersistCreated, At
  <2>1. /\ call'[t].pc = "send" /\ call'[t].todo = call[t].todo /\ Leg(t)' = Leg(t)
    BY <1>0, <1>1, <1>13, MoveMade, SameLeg DEF PersistCreated
  <2>a. /\ log' = [log EXCEPT ![Leg(t)] = "CREATED"]
        /\ cache' = [cache EXCEPT ![Leg(t)] = "CREATED"]
        /\ cache[Leg(t)] = "NONE" /\ order' = order
    BY <1>13, <2>0 DEF PersistCreated, CutInv, OrdersCut, PlanCut
  <2>2. \A k \in Legs : Done(k) => Done(k)'
    <3>1. ~LeftOver(Leg(t)) /\ \A k \in Legs : k # Leg(t) => cache'[k] = cache[k]
      BY <2>0, <2>a DEF LeftOver, TypeOK
    <3> QED
      BY <2>1, <2>a, <3>1, DoneStays
  <2>3. OrdersCut'
    BY <1>13, <2>0, <2>a DEF PersistCreated, CutInv, OrdersCut, TypeOK
  <2>4. PlanCut'
    BY <1>1, <1>3, <1>13, <2>0, <2>1, <2>2, <2>a, ShortsAssumption DEF PersistCreated, CutInv, PlanCut, TypeOK
  <2>5. LongsLast'
    BY <1>13, <2>2, ShortsAssumption DEF PersistCreated, CutInv, LongsLast
  <2> QED
    BY <2>3, <2>4, <2>5 DEF CutInv
<1>14. ASSUME NEW t \in Threads, PersistSubmitting(t) PROVE CutInv'
  <2>0. Leg(t) \in Legs /\ call[t].pc = "send" /\ call[t].pc \in Sending
    BY <1>1, <1>2, <1>14 DEF PersistSubmitting, At
  <2>1. /\ call'[t].pc = "broker" /\ call'[t].todo = call[t].todo /\ Leg(t)' = Leg(t)
    BY <1>0, <1>1, <1>14, MoveMade, SameLeg DEF PersistSubmitting
  <2>a. /\ log' = [log EXCEPT ![Leg(t)] = "SUBMITTING"]
        /\ cache' = [cache EXCEPT ![Leg(t)] = "SUBMITTING"]
        /\ order' = order
    BY <1>3, <1>14 DEF PersistSubmitting, Logged
  <2>2. \A k \in Legs : Done(k) => Done(k)'
    <3>1. ~LeftOver(Leg(t)) /\ \A k \in Legs : k # Leg(t) => cache'[k] = cache[k]
      BY <2>0, <2>a DEF LeftOver, TypeOK
    <3> QED
      BY <2>1, <2>a, <3>1, DoneStays
  <2>3. OrdersCut'
    BY <1>14, <2>0, <2>a DEF PersistSubmitting, CutInv, OrdersCut, TypeOK
  <2>4. PlanCut'
    BY <1>1, <1>3, <1>14, <2>0, <2>1, <2>2, <2>a, ShortsAssumption DEF PersistSubmitting, CutInv, PlanCut, TypeOK
  <2>5. LongsLast'
    BY <1>14, <2>2, ShortsAssumption DEF PersistSubmitting, CutInv, LongsLast
  <2> QED
    BY <2>3, <2>4, <2>5 DEF CutInv
<1>15. ASSUME NEW t \in Threads, BrokerAnswers(t) PROVE CutInv'
  <2>0. Leg(t) \in Legs /\ call[t].pc = "broker" /\ call[t].pc \in Sending
    BY <1>1, <1>2, <1>15 DEF BrokerAnswers, At
  <2>1. /\ call'[t].pc = "adopt" /\ call'[t].todo = call[t].todo /\ Leg(t)' = Leg(t)
    BY <1>0, <1>1, <1>15, MoveMade, SameLeg DEF BrokerAnswers
  <2>a. PICK state \in Outcomes :
          /\ order' = [order EXCEPT ![Leg(t)] = state]
          /\ held' = IF state = "FILLED" THEN held \ {Leg(t)} ELSE held
    BY <1>15 DEF BrokerAnswers
  <2>b. /\ state \in {"FILLED", "REJECTED"} /\ order[Leg(t)] = "NONE"
        /\ \A k \in Legs : k # Leg(t) => order'[k] = order[k]
        /\ order'[Leg(t)] = state /\ cache' = cache /\ log' = log
    BY <1>15, <2>0, <2>a, OutcomesAssumption DEF BrokerAnswers, TypeOK
  <2>c. cache[Leg(t)] # "NONE"
    BY <2>0 DEF CutInv, PlanCut
  <2>2. \A k \in Legs : Done(k) => Done(k)'
    <3>1. ~LeftOver(Leg(t))
      BY <2>0 DEF LeftOver
    <3> QED
      BY <2>1, <2>b, <3>1, DoneStays
  <2>3. OrdersCut'
    BY <2>0, <2>a, <2>b, <2>c DEF CutInv, OrdersCut
  <2>4. PlanCut'
    BY <1>1, <1>3, <2>0, <2>1, <2>2, <2>b, <2>c, ShortsAssumption DEF CutInv, PlanCut
  <2>5. LongsLast'
    <3>1. ASSUME NEW l \in Legs \ Shorts, order'[l] = "FILLED", NEW k \in Shorts PROVE Done(k)
      <4>1. CASE l = Leg(t)
        <5>1. call[t].todo \cap Shorts = {} /\ call[t].todo # {} /\ call[t].pc \in Planned
          BY <1>1, <1>2, <2>0, <4>1
        <5> QED
          BY <5>1 DEF CutInv, PlanCut
      <4>2. CASE l # Leg(t)
        BY <2>b, <3>1, <4>2 DEF CutInv, LongsLast
      <4> QED
        BY <4>1, <4>2
    <3> QED
      BY <2>2, <3>1, ShortsAssumption DEF LongsLast
  <2> QED
    BY <2>3, <2>4, <2>5 DEF CutInv
<1>16. ASSUME NEW t \in Threads, BrokerRefuses(t) PROVE CutInv'
  <2>1. call'[t].pc = "idle" /\ UNCHANGED orders /\ call[t].pc = "broker"
    BY <1>0, <1>16, EndMade DEF BrokerRefuses, Raises, At
  <2>2. \A k : Done(k) => Done(k)'
    BY <1>3, <2>1 DEF Done, LeftOver, orders
  <2>3. OrdersCut'
    BY <2>1 DEF CutInv, OrdersCut, orders
  <2>4. PlanCut'
    BY <1>1, <1>3, <2>1 DEF PlanCut
  <2>5. LongsLast'
    BY <2>1, <2>2 DEF CutInv, LongsLast, orders
  <2> QED
    BY <2>3, <2>4, <2>5 DEF CutInv
<1>17. ASSUME NEW t \in Threads, PersistFinal(t) PROVE CutInv'
  <2>0. /\ Leg(t) \in Legs /\ call[t].pc = "adopt"
        /\ order[Leg(t)] \in Outcomes /\ order[Leg(t)] \in States
    BY <1>1, <1>2, <1>17, Names DEF PersistFinal, At, CutInv, PlanCut, TypeOK
  <2>1. /\ call'[t].pc \in {"record", "lookup"}
        /\ call'[t].pc = "lookup" => /\ order[Leg(t)] \notin Failed
                                     /\ call'[t].todo = call[t].todo \ {Leg(t)}
    BY <1>0, <1>1, <2>0, <1>17, AfterLegOn DEF PersistFinal
  <2>a. /\ log' = [log EXCEPT ![Leg(t)] = order[Leg(t)]]
        /\ cache' = [cache EXCEPT ![Leg(t)] = order[Leg(t)]]
        /\ order' = order /\ held' = held
    BY <1>3, <1>17 DEF PersistFinal, Logged
  <2>b. order[Leg(t)] \in {"FILLED", "REJECTED"}
    BY <2>0, OutcomesAssumption
  <2>2. \A k \in Legs : Done(k) => Done(k)'
    <3>1. ~LeftOver(Leg(t)) /\ \A k \in Legs : k # Leg(t) => cache'[k] = cache[k]
      BY <2>0, <2>a DEF LeftOver, TypeOK
    <3> QED
      BY <2>1, <2>a, <3>1, DoneStays
  <2>3. OrdersCut'
    BY <2>0, <2>a, <2>b DEF CutInv, OrdersCut, TypeOK
  <2>4. PlanCut'
    <3>1. call'[t].pc = "lookup" => \A k \in Shorts : k \in call'[t].todo \/ Done(k)
      BY <1>1, <1>2, <2>0, <2>1, <2>b DEF CutInv, PlanCut, Done, Failed
    <3> QED
      BY <1>1, <1>3, <2>1, <2>2, <3>1, ShortsAssumption DEF PlanCut
  <2>5. LongsLast'
    BY <2>2, <2>a, ShortsAssumption DEF CutInv, LongsLast
  <2> QED
    BY <2>3, <2>4, <2>5 DEF CutInv
<1>18. ASSUME NEW t \in Threads, RecordIds(t) PROVE CutInv'
  <2>0. InHand(t) \in SUBSET Legs
    BY DEF InHand
  <2>1. [call[t] EXCEPT !.pc = "apply", !.todo = InHand(t)] \in CallType
    BY <1>0, <1>1, <2>0, Calls
  <2>2. [call[t] EXCEPT !.pc = "apply", !.todo = InHand(t)].pc = "apply"
    BY <1>0 DEF CallType
  <2>3. call[t].pc = "record" /\ call'[t].pc = "apply" /\ UNCHANGED orders
    BY <1>0, <1>18, <2>1, <2>2, GoesOne DEF RecordIds, At
  <2> QED
    BY <1>1, <2>3, OutsideCut
<1>19. ASSUME NEW t \in Threads, ApplySent(t) PROVE CutInv'
  <2>1. /\ call[t].pc = "apply" /\ call'[t].pc \in {"apply", "release", "idle"}
        /\ UNCHANGED orders
    BY <1>0, <1>1, <1>19, EventTyped, NextEventMade, EndMade DEF ApplySent, Applying, At, Raises
  <2> QED
    BY <1>1, <2>1, OutsideCut
<1>20. ASSUME NEW t \in Threads, ApplyNothing(t) PROVE CutInv'
  <2>1. /\ call[t].pc = "apply" /\ call'[t].pc \in {"apply", "release", "idle"}
        /\ UNCHANGED orders
    BY <1>0, <1>1, <1>20, EventTyped, NextEventMade, EndMade DEF ApplyNothing, Applying, At, Raises
  <2> QED
    BY <1>1, <2>1, OutsideCut
<1>21. ASSUME NEW t \in Threads, ApplyFill(t) PROVE CutInv'
  <2>1. /\ call[t].pc = "apply" /\ call'[t].pc \in {"apply", "release", "idle"}
        /\ UNCHANGED orders
    BY <1>0, <1>1, <1>21, EventTyped, NextEventMade, EndMade DEF ApplyFill, Applying, At, Raises
  <2> QED
    BY <1>1, <2>1, OutsideCut
<1>22. ASSUME NEW t \in Threads, ApplyLastFill(t) PROVE CutInv'
  <2>1. /\ call[t].pc = "apply" /\ call'[t].pc \in {"apply", "release", "idle"}
        /\ UNCHANGED orders
    BY <1>0, <1>1, <1>22, EventTyped, NextEventMade, EndMade DEF ApplyLastFill, Applying, At, Raises
  <2> QED
    BY <1>1, <2>1, OutsideCut
<1>23. ASSUME NEW t \in Threads, ApplyFailed(t) PROVE CutInv'
  <2>1. /\ call[t].pc = "apply" /\ call'[t].pc \in {"apply", "release", "idle"}
        /\ UNCHANGED orders
    BY <1>0, <1>1, <1>23, EventTyped, NextEventMade, EndMade DEF ApplyFailed, Applying, At, Raises
  <2> QED
    BY <1>1, <2>1, OutsideCut
<1>24. ASSUME NEW t \in Threads, ReleaseCapital(t) PROVE CutInv'
  <2>1. /\ call[t].pc = "release" /\ call'[t].pc \in {"apply", "idle"}
        /\ UNCHANGED orders
    BY <1>0, <1>1, <1>24, MoveMade, EndMade DEF ReleaseCapital, At, Raises
  <2> QED
    BY <1>1, <2>1, OutsideCut
<1>25. ASSUME NEW t \in Threads, Settle(t) PROVE CutInv'
  <2>1. call[t].pc = "apply" /\ call'[t].pc = "idle" /\ UNCHANGED orders
    BY <1>0, <1>1, <1>25, EndMade DEF Settle, At
  <2> QED
    BY <1>1, <2>1, OutsideCut
<1>26. ASSUME NEW t \in Threads, SaveBook(t) PROVE CutInv'
  BY <1>26 DEF SaveBook, orders, CutInv, OrdersCut, PlanCut, LongsLast, Done, LeftOver, Leg
<1>27. ASSUME UNCHANGED vars PROVE CutInv'
  BY <1>27 DEF vars, CutInv, OrdersCut, PlanCut, LongsLast, Done, LeftOver, Leg
<1>28. CASE Crash
  <2>1. /\ cache' = cache /\ log' = log /\ order' = order /\ held \subseteq held'
        /\ \A t \in Threads : call'[t].pc = "idle"
    BY <1>28 DEF Crash, CutInv, OrdersCut, Repaired, NoCall
  <2>2. \A k : Done(k) => Done(k)'
    BY <2>1 DEF Done, LeftOver
  <2>3. OrdersCut'
    BY <2>1 DEF CutInv, OrdersCut
  <2>4. PlanCut'
    BY <1>1, <2>1 DEF PlanCut
  <2>5. LongsLast'
    BY <2>1, <2>2 DEF CutInv, LongsLast
  <2> QED
    BY <2>3, <2>4, <2>5 DEF CutInv
<1> QED
  BY <1>4, <1>5, <1>6, <1>7, <1>8, <1>9, <1>10, <1>11, <1>12, <1>13, <1>14, <1>15, <1>16, <1>17, <1>18, <1>19, <1>20, <1>21, <1>22, <1>23, <1>24, <1>25, <1>26, <1>27, <1>28
     DEF Next, SteadyNext, Step, BrokerSubmits

\* One caller of manage_exits, wherever and however often it is cut by a crash:
\* a short is left without the longs that cover it only behind an exit order that
\* the log calls begun and nobody sends, or a leg that the repair brought back.
THEOREM CutExitIsCovered ==
  ASSUME OneCaller
  PROVE  Spec => []CoveredUnlessCut
<1>1. Init => TypeOK /\ HandsFull /\ OnFills /\ CutInv
  <2> SUFFICES ASSUME Init PROVE TypeOK /\ HandsFull /\ OnFills /\ CutInv
    OBVIOUS
  <2>1. TypeOK /\ HandsFull /\ OnFills
    BY TypeInit, OnFillsInit
  <2>2. OrdersCut /\ LongsLast
    BY DEF Init, OrdersCut, LongsLast, NoEvents
  <2>3. PlanCut
    BY DEF Init, PlanCut, NoCall, Planned, Sending
  <2> QED
    BY <2>1, <2>2, <2>3 DEF CutInv
<1>2. TypeOK /\ HandsFull /\ OnFills /\ CutInv /\ [Next]_vars
        => (TypeOK /\ HandsFull /\ OnFills /\ CutInv)'
  BY TypeKept, OnFillsKept, CutKept
<1>3. CutInv => CoveredUnlessCut
  <2> SUFFICES ASSUME CutInv, ~Phantom, ~Covered PROVE LeftBehind
    BY DEF CoveredUnlessCut
  <2>1. PICK k \in held \cap Shorts : TRUE
    BY DEF Covered
  <2>2. PICK l \in Legs \ Shorts : l \notin held
    BY DEF Covered
  <2>3. order[l] = "FILLED"
    BY <2>2 DEF CutInv, OrdersCut
  <2>4. Done(k) /\ order[k] # "FILLED"
    BY <2>1, <2>3 DEF CutInv, LongsLast, Phantom
  <2> QED
    BY <2>1, <2>4, ShortsAssumption DEF Done, LeftOver, LeftBehind, CutInv, OrdersCut
<1> QED
  BY <1>1, <1>2, <1>3, PTL DEF Spec

-----------------------------------------------------------------------------
\* The operator's commands (ExitRecovery).

Stops == {"session", "purge", "drop", "exit", "close", "exposure", "boot", "done", "dead"}

ProcessType ==
  [pc : Stops, reset : BOOLEAN, quoted : Books \cup {{}}, clean : BOOLEAN, told : BOOLEAN]

RecoveryTypes ==
  /\ log \in [Legs -> States] /\ cache \in [Legs -> States]
  /\ order \in [Legs -> Outcomes \cup {"NONE"}] /\ held \in SUBSET Legs
  /\ file \in [order : [Legs -> Outcomes \cup {"NONE"}], held : SUBSET Legs]
  /\ trade \in Trade /\ row \in Row
  /\ reservation \in {"COMMITTED", "RELEASED", "DELETED"}
  /\ book \in BOOLEAN
  /\ call \in [Threads -> CallType]
  /\ process \in ProcessType
  /\ keys \in SUBSET Legs /\ failed \in SUBSET Legs
  /\ fills \in [Legs -> {0, 1}]

AllIdle == \A t \in Threads : call[t] = NoCall

\* One call at most is at work for a command, and none outside its exit.
OneAtWork ==
  /\ process.pc \in {"purge", "drop", "close", "exposure", "boot"} => AllIdle
  /\ process.pc = "exit" => \E t \in Threads : \A u \in Threads \ {t} : call[u] = NoCall

\* What the steps of a reset leave for the next.
ResetSteps ==
  /\ process.pc \in {"exposure", "boot"} => row.state = "CLOSED" /\ process.reset
  /\ process.pc = "boot" => reservation = "DELETED" /\ held = {}
  /\ process.pc = "done" /\ process.reset => ResetIsFlat

\* The trade is closed for good, and nobody is at work on it.
Over ==
  /\ row.state = "CLOSED" /\ AllIdle
  /\ \/ process.pc \in {"close", "exposure", "boot", "done"}
     \/ process.pc = "session" /\ trade.state = "CLOSED" /\ ~book

\* Until then what is filled is so in memory, in the file and in the count.
SameFills ==
  \A k \in Legs : /\ order[k] = "FILLED" <=> file.order[k] = "FILLED"
                  /\ order[k] = "FILLED" <=> fills[k] = 1

\* The inductive invariant of the commands.
RecoveryInv ==
  /\ RecoveryTypes /\ HandsFull /\ OneAtWork /\ ResetSteps
  /\ Over \/ (reservation # "DELETED" /\ OnFills /\ SameFills)

\* A command that goes to its next step is the same command.
LEMMA GotoMade ==
  ASSUME process \in ProcessType, NEW stop \in Stops, Goto(stop)
  PROVE  /\ process' \in ProcessType /\ process'.pc = stop
         /\ process'.reset = process.reset /\ process'.quoted = process.quoted
         /\ process'.clean = process.clean
BY DEF Goto, ProcessType

\* The steps of a call are those of PaperExit, but for the keys of the orders, the
\* file of the broker and the count of its fills; nobody takes them when all is over.
LEMMA CallSteps ==
  ASSUME RecoveryTypes, HandsFull, NEW t \in Threads, Session(t) \/ CommandExits(t)
  PROVE  /\ ~Over /\ (call[t] # NoCall \/ process.pc = "session")
         /\ \/ Create(t) \/ Answer(t)
            \/ Next /\ UNCHANGED <<order, keys, file, fills>>
         /\ failed' \in SUBSET Legs
         /\ \A u \in Threads \ {t} : call'[u] = call[u]
<1> DEFINE Alone == \A u \in Threads \ {t} : call'[u] = call[u]
<1>0. call \in [Threads -> CallType] /\ failed \in SUBSET Legs
  BY DEF RecoveryTypes
<1>a. ASSUME NEW c, Goes(t, c) PROVE Alone
  BY <1>0, <1>a, GoesOne
<1>b. ASSUME NEW stage, stage # "idle", At(t, stage) PROVE ~Over /\ call[t] # NoCall
  BY <1>b DEF At, Over, AllIdle, NoCall
<1>c. ASSUME NEW stage, Move(t, stage) PROVE Alone
  BY <1>a, <1>c DEF Move
<1>d. ASSUME NEW e, AfterLeg(t, e) PROVE Alone
  BY <1>a, <1>d DEF AfterLeg
<1>e. ASSUME NEW stage, NextEvent(t, stage) PROVE Alone
  BY <1>a, <1>e DEF NextEvent
<1>f. ASSUME NEW stage, NEW S, NEW b, Starts(t, stage, S, b) PROVE Alone
  BY <1>a, <1>f DEF Starts
<1> HIDE DEF Alone
<1>1. CASE Create(t)
  BY <1>0, <1>b, <1>c, <1>1 DEF Create, Alone
<1>2. CASE Answer(t)
  BY <1>0, <1>b, <1>c, <1>2 DEF Answer, BrokerAnswers, Alone
<1>3. CASE Finish(t)
  <2>1. Alone /\ ~Over /\ call[t] # NoCall
    BY <1>b, <1>d, <1>3 DEF Finish, PersistFinal
  <2>2. failed' \in SUBSET Legs
    <3>1. failed' = failed \cup {k \in {Leg(t)} : order[k] \in Failed}
      BY <1>3 DEF Finish
    <3>2. Leg(t) \in Legs
      <4>1. call[t].todo \in SUBSET Legs /\ call[t].todo # {}
        BY <1>0, <1>3 DEF Finish, PersistFinal, At, HandsFull, Sending, CallType
      <4> QED
        BY <4>1, FirstIsOne DEF Leg
    <3> QED
      BY <1>0, <3>1, <3>2
  <2>3. Next /\ UNCHANGED <<order, keys, file, fills>>
    BY <1>3 DEF Finish, PersistFinal, Next, SteadyNext, Step, BrokerSubmits
  <2> QED
    BY <2>1, <2>2, <2>3 DEF Alone
<1> DEFINE Rest == \/ LookupKnown(t) \/ LookupNew(t) \/ PersistSubmitting(t) \/ RecordIds(t)
                   \/ ApplySent(t) \/ ApplyNothing(t) \/ ApplyFill(t) \/ ApplyFailed(t)
           Raising == BrokerRefuses(t) \/ ApplyLastFill(t) \/ ReleaseCapital(t)
           Own == \/ RequestExit(t) \/ WriteRequest(t) \/ AdoptRecorded(t) \/ PlanExit(t)
                  \/ NoPlan(t) \/ Settle(t)
<1>4. CASE (Rest \/ Raising \/ Own) /\ UNCHANGED <<keys, file, failed, fills>>
  <2>1. Alone
    BY <1>a, <1>c, <1>d, <1>e, <1>f, <1>4
       DEF LookupKnown, LookupNew, PersistSubmitting, RecordIds, ApplySent, ApplyNothing, ApplyFill,
           ApplyFailed, BrokerRefuses, ApplyLastFill, ReleaseCapital, Raises, RequestExit, WriteRequest,
           AdoptRecorded, Adopts, PlanExit, NoPlan, Settle
  <2>2. ~Over /\ call[t] # NoCall
    BY <1>b, <1>4
       DEF LookupKnown, LookupNew, PersistSubmitting, RecordIds, ApplySent, ApplyNothing, ApplyFill,
           ApplyFailed, BrokerRefuses, ApplyLastFill, ReleaseCapital, RequestExit, WriteRequest,
           AdoptRecorded, PlanExit, NoPlan, MustPlan, Settle, Applying
  <2>3. UNCHANGED order
    BY <1>4 DEF LookupKnown, LookupNew, PersistSubmitting, RecordIds, ApplySent, ApplyNothing, ApplyFill,
           ApplyFailed, BrokerRefuses, ApplyLastFill, ReleaseCapital, RequestExit, WriteRequest,
           AdoptRecorded, PlanExit, NoPlan, Settle, orders
  <2>4. Next
    BY <1>4 DEF BrokerRefuses, Next, SteadyNext, Step, BrokerSubmits
  <2> QED
    BY <1>0, <1>4, <2>1, <2>2, <2>3, <2>4 DEF Alone
<1>5. CASE (Judge(t) \/ Resume(t)) /\ Kept /\ Runs("session")
  <2>1. Alone
    BY <1>a, <1>c, <1>f, <1>5 DEF Judge, Resume, Adopts
  <2>2. ~Over /\ process.pc = "session"
    BY <1>5 DEF Judge, Resume, Over, Runs
  <2>3. Next /\ UNCHANGED order
    BY <1>5 DEF Judge, Resume, Next, SteadyNext, orders
  <2> QED
    BY <1>0, <1>5, <2>1, <2>2, <2>3 DEF Alone, Kept
<1>6. \/ Create(t) \/ Answer(t) \/ Finish(t)
      \/ (Rest \/ Raising \/ Own) /\ UNCHANGED <<keys, file, failed, fills>>
      \/ (Judge(t) \/ Resume(t)) /\ Kept /\ Runs("session")
  BY DEF Session, CommandExits, Submits, MayRaise, Kept
<1> QED
  BY <1>1, <1>2, <1>3, <1>4, <1>5, <1>6

\* An exit order keeps the steps of a call before its end.
LEMMA CallKept ==
  ASSUME RecoveryTypes, HandsFull, Over \/ (reservation # "DELETED" /\ OnFills /\ SameFills),
         NEW t \in Threads, Session(t) \/ CommandExits(t), process' \in ProcessType
  PROVE  RecoveryTypes' /\ HandsFull' /\ reservation' # "DELETED" /\ OnFills' /\ SameFills'
<1>0. /\ reservation # "DELETED" /\ OnFills /\ SameFills /\ TypeOK
      /\ call \in [Threads -> CallType] /\ call[t] \in CallType
      /\ failed' \in SUBSET Legs /\ fills \in [Legs -> {0, 1}]
      /\ file \in [order : [Legs -> Outcomes \cup {"NONE"}], held : SUBSET Legs]
      /\ keys \in SUBSET Legs
  BY CallSteps DEF RecoveryTypes, TypeOK
<1>1. CASE Create(t)
  <2>0. At(t, "create") /\ Leg(t) \in Legs
    BY <1>0, <1>1, FirstIsOne DEF Create, At, HandsFull, Sending, CallType, Leg
  <2>1. /\ call' \in [Threads -> CallType] /\ \A u \in Threads \ {t} : call'[u] = call[u]
        /\ call'[t].pc = "send" /\ call'[t].todo = call[t].todo /\ call'[t].seen = call[t].seen
    BY <1>0, <1>1, MoveMade DEF Create, Stages
  <2>2. /\ log' \in [Legs -> States] /\ cache' \in [Legs -> States] /\ keys' \in SUBSET Legs
        /\ \A k \in Legs : log'[k] = "FILLED" => log[k] = "FILLED"
        /\ \A k \in Legs : cache'[k] = "FILLED" => cache[k] = "FILLED" \/ log[k] = "FILLED"
    BY <1>0, <1>1, <2>0, Names DEF Create, TypeOK
  <2>3. UNCHANGED <<order, held, trade, row, reservation, book, file, fills>>
    BY <1>1 DEF Create
  <2>4. RecoveryTypes'
    BY <1>0, <2>1, <2>2, <2>3 DEF RecoveryTypes
  <2>5. HandsFull'
    BY <2>0, <2>1, StillFull DEF HandsFull, At, Sending
  <2>6. Confirmed' /\ Releasing'
    <3>1. \A k \in Legs : log'[k] = "FILLED" \/ cache'[k] = "FILLED" => order[k] = "FILLED"
      BY <1>0, <2>2 DEF OnFills, Confirmed
    <3>2. \A k \in Legs : call'[t].seen[k] = "FILLED" => order[k] = "FILLED"
      BY <1>0, <2>1 DEF OnFills, Confirmed
    <3> QED
      BY <1>0, <2>1, <2>3, <3>1, <3>2, LoggingStep DEF OnFills
  <2>7. ReleasedOnFills' /\ SameFills'
    BY <1>0, <2>3 DEF OnFills, ReleasedOnFills, SameFills
  <2> QED
    BY <1>0, <2>3, <2>4, <2>5, <2>6, <2>7 DEF OnFills
<1>2. CASE Answer(t)
  <2>0. At(t, "broker") /\ Leg(t) \in Legs /\ order[Leg(t)] = "NONE"
    BY <1>0, <1>2, FirstIsOne DEF Answer, BrokerAnswers, At, HandsFull, Sending, CallType, Leg
  <2>1. Next
    BY <1>2 DEF Answer, BrokerAnswers, Next, SteadyNext, Step, BrokerSubmits
  <2>2. TypeOK' /\ HandsFull' /\ OnFills'
    BY <1>0, <2>1, TypeKept, OnFillsKept
  <2>3. file' = [order |-> order', held |-> held'] /\ UNCHANGED keys
    BY <1>2 DEF Answer, Persisted
  <2>4. PICK e \in Outcomes : order' = [order EXCEPT ![Leg(t)] = e]
    BY <1>2 DEF Answer, BrokerAnswers
  <2>5. fills[Leg(t)] = 0 /\ order'[Leg(t)] = e
    BY <1>0, <2>0, <2>4 DEF SameFills, TypeOK
  <2>6. fills' \in [Legs -> {0, 1}] /\ \A k \in Legs : fills'[k] = 1 <=> order'[k] = "FILLED"
    <3>1. CASE e = "FILLED"
      <4>1. fills' = [fills EXCEPT ![Leg(t)] = @ + 1]
        BY <1>2, <2>5, <3>1 DEF Answer
      <4> QED
        BY <1>0, <2>0, <2>4, <2>5, <3>1, <4>1 DEF SameFills, TypeOK
    <3>2. CASE e # "FILLED"
      <4>1. fills' = fills
        BY <1>2, <2>5, <3>2 DEF Answer
      <4> QED
        BY <1>0, <2>0, <2>4, <2>5, <3>2, <4>1 DEF SameFills, TypeOK
    <3> QED
      BY <3>1, <3>2
  <2>7. SameFills'
    BY <2>3, <2>6 DEF SameFills
  <2>8. RecoveryTypes' /\ reservation' # "DELETED"
    BY <1>0, <2>2, <2>3, <2>6 DEF RecoveryTypes, TypeOK
  <2> QED
    BY <2>2, <2>7, <2>8
<1>3. CASE Next /\ UNCHANGED <<order, keys, file, fills>>
  <2>1. TypeOK' /\ HandsFull' /\ OnFills'
    BY <1>0, <1>3, TypeKept, OnFillsKept
  <2>2. SameFills'
    BY <1>0, <1>3 DEF SameFills
  <2>3. RecoveryTypes' /\ reservation' # "DELETED"
    BY <1>0, <1>3, <2>1 DEF RecoveryTypes, TypeOK
  <2> QED
    BY <2>1, <2>2, <2>3
<1> QED
  BY <1>1, <1>2, <1>3, CallSteps

\* A step of the session keeps the invariant.
LEMMA SessionKept ==
  ASSUME RecoveryInv, NEW t \in Threads, Session(t)
  PROVE  RecoveryInv'
<1>1. process.pc = "session" /\ process' = process /\ process \in ProcessType
  BY DEF Session, Runs, RecoveryInv, RecoveryTypes
<1>2. RecoveryTypes' /\ HandsFull' /\ reservation' # "DELETED" /\ OnFills' /\ SameFills'
  BY <1>1, CallKept DEF RecoveryInv
<1>3. OneAtWork' /\ ResetSteps'
  BY <1>1 DEF OneAtWork, ResetSteps
<1> QED
  BY <1>2, <1>3 DEF RecoveryInv

\* What a step of a command's exit does to the command.
LEMMA CommandGoesOn ==
  ASSUME process \in ProcessType, NEW t \in Threads, CommandExits(t)
  PROVE  /\ process.pc = "exit" /\ process' \in ProcessType
         /\ process'.reset = process.reset /\ process'.quoted = process.quoted
         /\ \/ process' = process
            \/ process'.pc = "dead" /\ process'.clean = process.clean
            \/ /\ process'.pc = "close" /\ Settle(t)
               /\ process'.clean = (process.clean /\ \A k \in InHand(t) : call[t].seen[k] \notin Failed)
<1>1. process.pc = "exit"
  BY DEF CommandExits, Runs
<1>2. CASE Goto("dead")
  BY <1>1, <1>2, GotoMade DEF Stops
<1>3. CASE process' = process
  BY <1>1, <1>3
<1>4. CASE /\ Settle(t)
           /\ process' = [process EXCEPT !.pc = "close",
                            !.clean = @ /\ \A k \in InHand(t) : call[t].seen[k] \notin Failed]
  <2> DEFINE good == process.clean /\ \A k \in InHand(t) : call[t].seen[k] \notin Failed
  <2>1. good \in BOOLEAN
    BY DEF ProcessType
  <2>2. process' = [process EXCEPT !.pc = "close", !.clean = good]
    BY <1>4
  <2> HIDE DEF good
  <2>3. /\ process' \in ProcessType /\ process'.reset = process.reset /\ process'.quoted = process.quoted
        /\ process'.pc = "close" /\ process'.clean = good
    BY <2>1, <2>2 DEF ProcessType, Stops
  <2> QED
    BY <1>1, <1>4, <2>3 DEF good
<1> QED
  BY <1>1, <1>2, <1>3, <1>4 DEF CommandExits

\* So does a step of a command's exit.
LEMMA CommandExitsKept ==
  ASSUME RecoveryInv, NEW t \in Threads, CommandExits(t)
  PROVE  RecoveryInv'
<1>1. /\ process.pc = "exit" /\ process' \in ProcessType
      /\ \/ process' = process \/ process'.pc = "dead"
         \/ process'.pc = "close" /\ Settle(t)
  BY CommandGoesOn DEF RecoveryInv, RecoveryTypes
<1>2. RecoveryTypes' /\ HandsFull' /\ reservation' # "DELETED" /\ OnFills' /\ SameFills'
  BY <1>1, CallKept DEF RecoveryInv
<1>3. ResetSteps'
  BY <1>1 DEF ResetSteps
<1>4. OneAtWork'
  <2>1. PICK one \in Threads : \A u \in Threads \ {one} : call[u] = NoCall
    BY <1>1 DEF RecoveryInv, OneAtWork
  <2>2. \A u \in Threads \ {t} : call'[u] = call[u]
    BY CallSteps DEF RecoveryInv
  <2>3. one = t
    BY <1>1, <2>1, CallSteps DEF RecoveryInv
  <2>4. CASE process'.pc = "close" /\ Settle(t)
    <3>1. call'[t] = NoCall
      BY <2>4, GoesOne DEF Settle, RecoveryInv, RecoveryTypes
    <3> QED
      BY <2>1, <2>2, <2>3, <2>4, <3>1 DEF OneAtWork, AllIdle
  <2>5. CASE process'.pc \in {"exit", "dead"}
    BY <2>1, <2>2, <2>3, <2>5 DEF OneAtWork
  <2> QED
    BY <1>1, <2>4, <2>5
<1> QED
  BY <1>2, <1>3, <1>4 DEF RecoveryInv

\* A process that opens what the last one left keeps the books.
LEMMA OpensKept ==
  ASSUME RecoveryInv, Opens, process' \in ProcessType,
         process'.pc \in {"session", "purge", "close"},
         row.state = "CLOSED" => process'.pc # "purge"
  PROVE  RecoveryInv'
<1>1. /\ RecoveryTypes /\ trade' = [state |-> row.state, legs |-> row.legs]
      /\ order' = file.order /\ cache' = log /\ book' = (row.state # "CLOSED")
      /\ call' = [t \in Threads |-> NoCall]
      /\ UNCHANGED <<log, row, reservation, keys, failed, fills>>
  BY DEF Opens, RecoveryInv
<1>2. held' \in SUBSET Legs /\ file' \in [order : [Legs -> Outcomes \cup {"NONE"}], held : SUBSET Legs]
      /\ file'.order = file.order
  <2>1. held' \in SUBSET Legs
    BY <1>1 DEF Opens, RecoveryTypes, Row
  <2>2. file' = file \/ file' = [order |-> order', held |-> held']
    BY DEF Opens, Persisted
  <2> QED
    BY <1>1, <2>1, <2>2 DEF RecoveryTypes
<1>3. RecoveryTypes'
  <2>1. NoCall \in CallType
    BY Names DEF NoCall, CallType, NoEvents, Stages
  <2>2. trade' \in Trade
    BY <1>1 DEF RecoveryTypes, Row, Trade
  <2>3. book' \in BOOLEAN
    BY <1>1
  <2>4. call' \in [Threads -> CallType]
    BY <1>1, <2>1
  <2> QED
    BY <1>1, <1>2, <2>2, <2>3, <2>4 DEF RecoveryTypes
<1>4. AllIdle' /\ HandsFull'
  BY <1>1 DEF AllIdle, HandsFull, NoCall, Sending
<1>5. OneAtWork' /\ ResetSteps'
  BY <1>4 DEF OneAtWork, ResetSteps
<1>6. CASE row.state = "CLOSED"
  BY <1>1, <1>3, <1>4, <1>5, <1>6 DEF RecoveryInv, Over
<1>7. CASE row.state # "CLOSED"
  <2>1. reservation # "DELETED" /\ OnFills /\ SameFills
    BY <1>7 DEF RecoveryInv, Over
  <2>2. SameFills'
    BY <1>1, <1>2, <2>1 DEF SameFills
  <2>3. \A k \in Legs : order'[k] = "FILLED" <=> order[k] = "FILLED"
    BY <1>1, <2>1 DEF SameFills
  <2>4. Confirmed' /\ Releasing'
    BY <1>1, <2>1, <2>3 DEF OnFills, Confirmed, Releasing, NoCall, NoEvents
  <2>5. ReleasedOnFills'
    BY <1>1, <2>1, <2>3 DEF OnFills, ReleasedOnFills
  <2> QED
    BY <1>1, <1>3, <1>4, <1>5, <2>1, <2>2, <2>4, <2>5 DEF RecoveryInv, OnFills
<1> QED
  BY <1>6, <1>7

\* What a command starts with.
LEMMA StartMade ==
  ASSUME row \in Row, NEW reset \in BOOLEAN, NEW named \in BOOLEAN, NEW quoted \in Books,
         StartCommand(reset, named, quoted)
  PROVE  /\ Opens /\ process' \in ProcessType /\ process'.pc \in {"purge", "close"}
         /\ process'.pc = "purge" => row.state # "CLOSED"
         /\ process'.quoted = quoted
         /\ process'.clean => row.state # "CLOSED" /\ row.legs \subseteq quoted
                              /\ (row.legs # {} => process'.pc = "purge")
<1> DEFINE taken == row.state # "CLOSED" /\ (reset \/ named \/ Stuck)
           clean == taken /\ row.legs \subseteq quoted
           pc == IF taken /\ quoted \cap row.legs # {} THEN "purge" ELSE "close"
<1>1. Opens /\ process' = [Process EXCEPT !.reset = reset, !.quoted = quoted, !.clean = clean, !.pc = pc]
  BY DEF StartCommand
<1>2. clean \in BOOLEAN /\ pc \in {"purge", "close"}
  OBVIOUS
<1>3. /\ pc = "purge" => row.state # "CLOSED"
      /\ clean => row.state # "CLOSED" /\ row.legs \subseteq quoted /\ (row.legs # {} => pc = "purge")
  OBVIOUS
<1> HIDE DEF taken, clean, pc
<1>4. /\ process' \in ProcessType /\ process'.pc = pc /\ process'.quoted = quoted /\ process'.clean = clean
  BY <1>1, <1>2 DEF Process, ProcessType, Stops
<1> QED
  BY <1>1, <1>2, <1>3, <1>4

\* So does every start.
LEMMA RestartsKept ==
  ASSUME RecoveryInv, Restarts
  PROVE  RecoveryInv'
<1>0. row \in Row
  BY DEF RecoveryInv, RecoveryTypes
<1>1. CASE StartSession
  <2>1. process' \in ProcessType /\ process'.pc = "session"
    BY <1>1 DEF StartSession, Process, ProcessType, Stops
  <2> QED
    BY <1>1, <2>1, OpensKept DEF StartSession
<1>2. ASSUME NEW reset \in BOOLEAN, NEW named \in BOOLEAN, NEW quoted \in Books,
             StartCommand(reset, named, quoted)
      PROVE  RecoveryInv'
  BY <1>0, <1>2, StartMade, OpensKept
<1>3. {TRUE, FALSE} \subseteq BOOLEAN
  OBVIOUS
<1> QED
  BY <1>1, <1>2, <1>3 DEF Restarts

\* The steps of a command outside its exit.
LEMMA CommandKept ==
  ASSUME RecoveryInv, \/ PurgeKeys \/ AdministrativeClose \/ PurgeExposure \/ Boot
                      \/ \E t \in Threads : PurgeOrders(t)
  PROVE  RecoveryInv'
<1>0. /\ RecoveryTypes /\ process \in ProcessType /\ trade \in Trade /\ row \in Row
      /\ call \in [Threads -> CallType]
  BY DEF RecoveryInv, RecoveryTypes
<1>1. CASE PurgeKeys
  <2>1. /\ process.pc = "purge" /\ process' \in ProcessType /\ process'.pc = "drop"
        /\ process'.reset = process.reset
    BY <1>0, <1>1, GotoMade DEF PurgeKeys, Runs, Stops
  <2>2. /\ UNCHANGED <<log, order, held, trade, row, reservation, book, call, file, failed, fills>>
        /\ cache' = Gone(cache, PurgedKeys) /\ keys' = keys \ PurgedKeys
    BY <1>1 DEF PurgeKeys
  <2>3. cache' \in [Legs -> States] /\ \A k \in Legs : cache'[k] = "FILLED" => cache[k] = "FILLED"
    BY <1>0, <2>2, Names DEF Gone, RecoveryTypes
  <2>4. RecoveryTypes'
    BY <1>0, <2>1, <2>2, <2>3 DEF RecoveryTypes
  <2>5. HandsFull' /\ OneAtWork' /\ ResetSteps'
    BY <2>1, <2>2 DEF RecoveryInv, HandsFull, OneAtWork, ResetSteps, AllIdle
  <2>6. reservation # "DELETED" /\ OnFills /\ SameFills
    BY <2>1 DEF RecoveryInv, Over
  <2>7. OnFills' /\ SameFills'
    BY <2>2, <2>3, <2>6 DEF OnFills, Confirmed, Releasing, ReleasedOnFills, SameFills
  <2> QED
    BY <2>2, <2>4, <2>5, <2>6, <2>7 DEF RecoveryInv
<1>2. ASSUME NEW t \in Threads, PurgeOrders(t) PROVE RecoveryInv'
  <2>1. /\ process.pc = "drop" /\ process' \in ProcessType /\ process'.pc = "exit"
        /\ process'.reset = process.reset
    BY <1>0, <1>2, GotoMade DEF PurgeOrders, Runs, Stops
  <2>2. /\ UNCHANGED <<log, cache, held, reservation, book, keys, file, failed, fills>>
        /\ order' = Gone(order, {k \in Legs : order[k] \in Failed})
        /\ row' = [state |-> trade.state, legs |-> trade.legs, ids |-> {}]
        /\ trade' = IF trade.state = "OPEN" THEN [trade EXCEPT !.state = "EXIT_PENDING"] ELSE trade
    BY <1>2 DEF PurgeOrders, WriteRow
  <2>3. /\ call' \in [Threads -> CallType] /\ \A u \in Threads \ {t} : call'[u] = call[u]
        /\ call'[t].pc = "choose" /\ call'[t].seen = NoEvents
    <3>1. trade.legs \cap process.quoted \in SUBSET Legs /\ "choose" \in Stages /\ FALSE \in BOOLEAN
      BY <1>0 DEF Trade, Stages
    <3>2. Starts(t, "choose", trade.legs \cap process.quoted, FALSE)
      BY <1>2 DEF PurgeOrders
    <3>3. call \in [Threads -> CallType]
      BY <1>0 DEF RecoveryTypes
    <3> QED
      BY <3>1, <3>2, <3>3, StartsMade
  <2>4. order' \in [Legs -> Outcomes \cup {"NONE"}]
        /\ \A k \in Legs : order'[k] = "FILLED" <=> order[k] = "FILLED"
    BY <1>0, <2>2 DEF Gone, RecoveryTypes, Failed
  <2>5. /\ trade' \in Trade /\ row' \in Row /\ trade'.legs = trade.legs
        /\ trade'.state = "CLOSED" => trade.state = "CLOSED"
    BY <1>0, <2>2, Names DEF Trade, Row
  <2>6. RecoveryTypes'
    BY <1>0, <2>1, <2>2, <2>3, <2>4, <2>5 DEF RecoveryTypes
  <2>7. AllIdle
    BY <2>1 DEF RecoveryInv, OneAtWork
  <2>8. HandsFull' /\ OneAtWork' /\ ResetSteps'
    BY <2>1, <2>3, <2>7 DEF RecoveryInv, HandsFull, OneAtWork, ResetSteps, AllIdle, Sending
  <2>9. reservation # "DELETED" /\ OnFills /\ SameFills
    BY <2>1 DEF RecoveryInv, Over
  <2>10. Confirmed' /\ Releasing'
    BY <2>2, <2>3, <2>4, <2>9 DEF OnFills, Confirmed, Releasing, NoEvents
  <2>11. ReleasedOnFills' /\ SameFills'
    BY <2>2, <2>4, <2>5, <2>9 DEF OnFills, ReleasedOnFills, SameFills
  <2> QED
    BY <2>2, <2>6, <2>8, <2>9, <2>10, <2>11 DEF RecoveryInv, OnFills
<1>3. CASE AdministrativeClose
  <2>1. /\ process.pc = "close" /\ process.reset /\ process' \in ProcessType
        /\ process'.pc = "exposure" /\ process'.reset = process.reset
    BY <1>0, <1>3, GotoMade DEF AdministrativeClose, Runs, Stops
  <2>2. UNCHANGED <<log, cache, order, trade, reservation, book, call, keys, file, failed, fills>>
    BY <1>3 DEF AdministrativeClose
  <2>3. row' \in Row /\ row'.state = "CLOSED" /\ held' \in SUBSET Legs
    BY <1>0, <1>3, Names DEF AdministrativeClose, Row, RecoveryTypes
  <2>4. RecoveryTypes'
    BY <1>0, <2>1, <2>2, <2>3 DEF RecoveryTypes
  <2>5. AllIdle' /\ HandsFull'
    BY <2>1, <2>2 DEF RecoveryInv, HandsFull, OneAtWork, AllIdle
  <2>6. OneAtWork' /\ ResetSteps' /\ Over'
    BY <2>1, <2>3, <2>5 DEF OneAtWork, ResetSteps, Over
  <2> QED
    BY <2>4, <2>5, <2>6 DEF RecoveryInv
<1>4. CASE PurgeExposure
  <2>1. /\ process.pc = "exposure" /\ process' \in ProcessType
        /\ process'.pc = "boot" /\ process'.reset = process.reset
    BY <1>0, <1>4, GotoMade DEF PurgeExposure, Runs, Stops
  <2>2. /\ UNCHANGED <<log, cache, trade, row, book, call, keys, file, failed, fills>>
        /\ order' = NoEvents /\ held' = {} /\ reservation' = "DELETED"
    BY <1>4 DEF PurgeExposure
  <2>3. RecoveryTypes'
    BY <1>0, <2>1, <2>2 DEF RecoveryTypes, NoEvents
  <2>4. AllIdle' /\ HandsFull' /\ row'.state = "CLOSED" /\ process'.reset
    BY <2>1, <2>2 DEF RecoveryInv, HandsFull, OneAtWork, AllIdle, ResetSteps
  <2>5. OneAtWork' /\ ResetSteps' /\ Over'
    BY <2>1, <2>2, <2>4 DEF OneAtWork, ResetSteps, Over
  <2> QED
    BY <2>3, <2>4, <2>5 DEF RecoveryInv
<1>5. CASE Boot
  <2>1. /\ UNCHANGED <<log, cache, order, held, trade, row, reservation, book, call, keys, failed, fills>>
        /\ file' = [order |-> order, held |-> held]
        /\ process.pc = "boot" \/ (process.pc = "close" /\ ~process.reset)
    BY <1>5 DEF Boot, vars, Broker, Runs
  <2>2. process' \in ProcessType /\ process'.pc = "done" /\ process'.reset = process.reset
    <3>1. process' = [process EXCEPT !.pc = "done", !.told = ~Blocked] /\ (~Blocked) \in BOOLEAN
      BY <1>5 DEF Boot
    <3> QED
      BY <1>0, <3>1 DEF ProcessType, Stops
  <2>3. RecoveryTypes'
    BY <1>0, <2>1, <2>2 DEF RecoveryTypes
  <2>4. HandsFull' /\ OneAtWork' /\ AllIdle'
    BY <2>1, <2>2 DEF RecoveryInv, HandsFull, OneAtWork, AllIdle
  <2>5. ResetSteps'
    BY <2>1, <2>2 DEF RecoveryInv, ResetSteps, ResetIsFlat
  <2>6. CASE row.state = "CLOSED"
    BY <2>1, <2>2, <2>3, <2>4, <2>5, <2>6 DEF RecoveryInv, Over
  <2>7. CASE row.state # "CLOSED"
    <3>1. reservation # "DELETED" /\ OnFills /\ SameFills
      BY <2>7 DEF RecoveryInv, Over
    <3>2. OnFills' /\ SameFills'
      BY <2>1, <3>1 DEF OnFills, Confirmed, Releasing, ReleasedOnFills, SameFills
    <3> QED
      BY <2>1, <2>3, <2>4, <2>5, <3>1, <3>2 DEF RecoveryInv
  <2> QED
    BY <2>6, <2>7
<1> QED
  BY <1>1, <1>2, <1>3, <1>4, <1>5

\* The invariant holds of every state that the session and the commands reach.
LEMMA RecoveryInvariant == RecoverySpec => []RecoveryInv
<1>1. RecoveryInit => RecoveryInv
  <2> SUFFICES ASSUME RecoveryInit PROVE RecoveryInv
    OBVIOUS
  <2>1. TypeOK /\ HandsFull /\ OnFills
    BY TypeInit, OnFillsInit DEF RecoveryInit
  <2>2. Process \in ProcessType
    BY DEF Process, ProcessType, Stops
  <2>3. RecoveryTypes
    BY <2>1, <2>2 DEF RecoveryInit, RecoveryTypes, TypeOK, Broker
  <2>4. SameFills /\ OneAtWork /\ ResetSteps /\ reservation # "DELETED"
    BY <2>1 DEF RecoveryInit, Init, SameFills, OneAtWork, ResetSteps, Process, Broker, NoEvents
  <2> QED
    BY <2>1, <2>3, <2>4 DEF RecoveryInv
<1>2. RecoveryInv /\ [RecoveryNext]_all => RecoveryInv'
  <2> SUFFICES ASSUME RecoveryInv, [RecoveryNext]_all PROVE RecoveryInv'
    OBVIOUS
  <2>1. CASE UNCHANGED all
    <3>1. /\ UNCHANGED <<log, cache, order, held, trade, row, reservation, book, call>>
          /\ UNCHANGED <<process, file, keys, failed, fills>>
      BY <2>1 DEF all, vars
    <3>2. RecoveryTypes' /\ HandsFull' /\ OneAtWork' /\ ResetSteps'
      BY <3>1 DEF RecoveryInv, RecoveryTypes, HandsFull, OneAtWork, ResetSteps, ResetIsFlat, Runs, AllIdle
    <3>3. Over => Over'
      BY <3>1 DEF Over, AllIdle
    <3>4. OnFills => OnFills'
      BY <3>1 DEF OnFills, Confirmed, Releasing, ReleasedOnFills
    <3>5. SameFills => SameFills'
      BY <3>1 DEF SameFills
    <3> QED
      BY <3>1, <3>2, <3>3, <3>4, <3>5 DEF RecoveryInv
  <2>2. CASE RecoveryNext
    BY <2>2, SessionKept, CommandExitsKept, RestartsKept, CommandKept DEF RecoveryNext, Command
  <2> QED
    BY <2>1, <2>2
<1> QED
  BY <1>1, <1>2, PTL DEF RecoverySpec

\* No leg is exited twice at the broker, whatever the commands purge.
THEOREM ExitsHappenOnce == RecoverySpec => []ExitedOnce
<1>1. RecoveryInv => ExitedOnce
  BY DEF RecoveryInv, RecoveryTypes, ExitedOnce
<1> QED
  BY <1>1, RecoveryInvariant, PTL

\* A reset that gets through leaves nothing.
THEOREM ResetsLeaveNothing == RecoverySpec => []ResetIsFlat
<1>1. RecoveryInv => ResetIsFlat
  BY DEF RecoveryInv, ResetSteps, ResetIsFlat, Runs
<1> QED
  BY <1>1, RecoveryInvariant, PTL

-----------------------------------------------------------------------------
\* The retry of an exit.

Live == {"OPEN", "EXIT_PENDING", "CLOSING", "CLOSED"}

\* A trade that is not closed has a leg left, in memory and in its row.
Shape ==
  /\ trade.state \in Live /\ (trade.state # "CLOSED" => trade.legs # {})
  /\ row.state \in Live /\ (row.state # "CLOSED" => row.legs # {})

\* No order of the leg is known, to the log's readers or by its key.
Unsent(k) == cache[k] = "NONE" /\ k \notin keys

Spoiled(t) == \E k \in Legs : call[t].seen[k] \in Failed

AllInHandFilled(t) == \A k \in InHand(t) : call[t].seen[k] = "FILLED"

\* The exit of a retry that began with a quote for every leg: what is left of the
\* trade is filled or yet to be sent anew, and a fill of each leg closes it, unless
\* an order has failed.
Retries(t) ==
  /\ ~call[t].adopting
  /\ call[t].pc \in {"choose"} \cup Sending \cup {"record", "apply", "release"}
  /\ call[t].pc \in {"choose"} \cup Sending =>
       /\ trade.state \in InFlight /\ AllInHandFilled(t)
       /\ trade.legs = call[t].todo \cup InHand(t)
       /\ \A k \in call[t].todo : /\ k \notin InHand(t)
                                  /\ \/ Unsent(k)
                                     \/ k = Leg(t) /\ call[t].pc \in {"send", "broker", "adopt"}
  /\ call[t].pc = "adopt" => order[Leg(t)] # "NONE"
  /\ call[t].pc = "record" =>
       Spoiled(t) \/ (trade.state \in InFlight /\ AllInHandFilled(t) /\ trade.legs = InHand(t))
  /\ call[t].pc = "apply" =>
       \/ Spoiled(t)
       \/ /\ AllInHandFilled(t)
          /\ \/ /\ trade.state \in InFlight /\ trade.legs = call[t].todo
                /\ call[t].todo \subseteq InHand(t)
             \/ trade.state = "CLOSED" /\ call[t].todo = {} /\ reservation = "RELEASED"
  /\ call[t].pc = "release" =>
       Spoiled(t) \/ (AllInHandFilled(t) /\ trade.state = "CLOSED" /\ call[t].todo = {})

Closed ==
  row.state = "CLOSED" /\ reservation = "RELEASED" /\ \A k \in Legs : fills[k] = 1

\* What a command that may yet be clean relies on, from stop to stop.
CleanSoFar ==
  process.clean =>
    /\ process.pc \in {"purge", "drop"} =>
         /\ row.state # "CLOSED" /\ trade.state = row.state /\ trade.legs = row.legs
         /\ row.legs \subseteq process.quoted
    /\ process.pc = "drop" => \A k \in row.legs : Unsent(k)
    /\ process.pc = "exit" => \A t \in Threads : call[t] # NoCall => Retries(t)
    /\ process.pc = "close" => Closed
    /\ process.pc = "done" /\ ~process.reset => Closed

RetryInv == RecoveryInv /\ Shape /\ CleanSoFar

\* A step of a call writes the row from the trade, or leaves it; and a trade that is
\* not closed keeps a leg.
LEMMA ShapeOfCall ==
  ASSUME RecoveryTypes, HandsFull, Shape, NEW t \in Threads, Session(t) \/ CommandExits(t)
  PROVE  Shape'
<1>0. trade \in Trade /\ row \in Row
  BY DEF RecoveryTypes
<1>1. row' = row \/ (row'.state = trade.state /\ row'.legs = trade.legs)
  <2>1. ASSUME NEW ids, WriteRow(ids) PROVE row'.state = trade.state /\ row'.legs = trade.legs
    BY <2>1 DEF WriteRow
  <2>2. CASE RecordIds(t) \/ WriteRequest(t) \/ Settle(t)
    BY <2>1, <2>2 DEF RecordIds, WriteRequest, Settle
  <2>3. \/ RecordIds(t) \/ WriteRequest(t) \/ Settle(t) \/ row' = row
    BY DEF Session, CommandExits, Submits, MayRaise, Create, Answer, BrokerAnswers, Finish, PersistFinal,
     LookupKnown, LookupNew, PersistSubmitting, ApplySent, ApplyNothing, ApplyFill,
     ApplyFailed, BrokerRefuses, ApplyLastFill, ReleaseCapital, RequestExit,
     AdoptRecorded, PlanExit, NoPlan, Judge, Resume
  <2> QED
    BY <2>2, <2>3
<1>2. \/ trade' = trade
      \/ \E s \in Live : trade' = [trade EXCEPT !.state = s] /\ (s # "CLOSED" => trade.state # "CLOSED")
      \/ trade' = [state |-> Closing, legs |-> trade.legs \ {Leg(t)}] /\ trade.legs \ {Leg(t)} # {}
      \/ trade' = [state |-> "CLOSED", legs |-> Legs]
  <2>1. {"OPEN", "EXIT_PENDING", "CLOSING", "CLOSED"} \subseteq Live /\ Closing \in Live
        /\ (trade.state = "CLOSED" => Closing = "CLOSED")
    BY DEF Live, Closing, Shape
  <2>2. CASE RequestExit(t)
    BY <2>1, <2>2, Edges DEF RequestExit
  <2>3. CASE ApplySent(t)
    BY <2>1, <2>3 DEF ApplySent
  <2>4. CASE ApplyFill(t)
    BY <2>4 DEF ApplyFill
  <2>5. CASE ApplyLastFill(t)
    BY <2>1, <2>5 DEF ApplyLastFill
  <2>6. CASE ApplyFailed(t)
    BY <2>1, <2>6 DEF ApplyFailed, InFlight
  <2>7. \/ RequestExit(t) \/ ApplySent(t) \/ ApplyFill(t) \/ ApplyLastFill(t) \/ ApplyFailed(t)
        \/ trade' = trade
    BY DEF Session, CommandExits, Submits, MayRaise, Create, Answer, BrokerAnswers, Finish, PersistFinal,
     LookupKnown, LookupNew, PersistSubmitting, RecordIds, ApplyNothing, BrokerRefuses,
     ReleaseCapital, WriteRequest, AdoptRecorded, PlanExit, NoPlan, Settle, Judge, Resume
  <2> QED
    BY <2>2, <2>3, <2>4, <2>5, <2>6, <2>7
<1>3. Closing \in Live /\ Legs # {}
  BY LegsAssumption DEF Shape, Closing, Live
<1>4. trade'.state \in Live /\ (trade'.state # "CLOSED" => trade'.legs # {})
  BY <1>0, <1>2, <1>3 DEF Shape, Trade, Live
<1> QED
  BY <1>1, <1>4 DEF Shape

\* The result of a leg, in full.
LEMMA AfterLegFields ==
  ASSUME call \in [Threads -> CallType], NEW t \in Threads, NEW e \in States,
         Leg(t) \in Legs, AfterLeg(t, e)
  PROVE  /\ call'[t].adopting = call[t].adopting
         /\ call'[t].seen = [call[t].seen EXCEPT ![Leg(t)] = e]
         /\ \/ call'[t].pc = "record" /\ (e \in Failed \/ call[t].todo \ {Leg(t)} = {})
            \/ /\ call'[t].pc = "lookup" /\ e \notin Failed
               /\ call'[t].todo = call[t].todo \ {Leg(t)} /\ call'[t].todo # {}
<1> DEFINE c == [call[t] EXCEPT !.seen[Leg(t)] = e, !.todo = @ \ {Leg(t)}]
<1>0. call[t] \in CallType
  OBVIOUS
<1>1. /\ c \in CallType /\ c.todo = call[t].todo \ {Leg(t)} /\ c.adopting = call[t].adopting
      /\ c.seen = [call[t].seen EXCEPT ![Leg(t)] = e]
  BY <1>0 DEF CallType
<1>2. CASE (e \in Failed \/ c.todo = {}) /\ Goes(t, [c EXCEPT !.pc = "record", !.todo = {}])
  <2>1. call'[t] = [c EXCEPT !.pc = "record", !.todo = {}]
    BY <1>2, GoesOne
  <2> HIDE DEF c
  <2> QED
    BY <1>1, <1>2, <2>1 DEF CallType
<1>3. CASE e \notin Failed /\ c.todo # {} /\ Goes(t, [c EXCEPT !.pc = "lookup"])
  <2>1. call'[t] = [c EXCEPT !.pc = "lookup"]
    BY <1>3, GoesOne
  <2> HIDE DEF c
  <2> QED
    BY <1>1, <1>3, <2>1 DEF CallType
<1>4. \/ (e \in Failed \/ c.todo = {}) /\ Goes(t, [c EXCEPT !.pc = "record", !.todo = {}])
      \/ e \notin Failed /\ c.todo # {} /\ Goes(t, [c EXCEPT !.pc = "lookup"])
  BY DEF AfterLeg
<1> QED
  BY <1>2, <1>3, <1>4

\* A move leaves all but the stage.
LEMMA MoveFields ==
  ASSUME call \in [Threads -> CallType], NEW t \in Threads, NEW stage, Move(t, stage)
  PROVE  /\ call'[t].pc = stage /\ call'[t].todo = call[t].todo /\ call'[t].seen = call[t].seen
         /\ call'[t].adopting = call[t].adopting
<1>1. call[t] \in CallType /\ call'[t] = [call[t] EXCEPT !.pc = stage]
  BY GoesOne DEF Move
<1> QED
  BY <1>1 DEF CallType

\* The next event of orders that are not adopted is known already.
LEMMA NextEventFields ==
  ASSUME call \in [Threads -> CallType], NEW t \in Threads, NEW stage, Leg(t) \in Legs,
         ~call[t].adopting, NextEvent(t, stage)
  PROVE  /\ call'[t].pc = stage /\ call'[t].todo = call[t].todo \ {Leg(t)}
         /\ call'[t].seen = call[t].seen /\ ~call'[t].adopting
<1> DEFINE e == call[t].seen[Leg(t)]
<1>1. call[t] \in CallType /\ Event(t) = e
  BY DEF Event
<1>2. call'[t] = [call[t] EXCEPT !.pc = stage, !.seen[Leg(t)] = e, !.todo = @ \ {Leg(t)}]
  BY <1>1, GoesOne DEF NextEvent
<1>3. [call[t].seen EXCEPT ![Leg(t)] = e] = call[t].seen
  BY <1>1 DEF CallType
<1> QED
  BY <1>1, <1>2, <1>3 DEF CallType

\* A step of a clean retry's exit: it goes on as it should, or the trade is closed.
LEMMA RetryStep ==
  ASSUME RecoveryInv, Shape, NEW t \in Threads, Retries(t), CommandExits(t)
  PROVE  \/ Retries(t)'
         \/ process'.pc = "dead"
         \/ process'.pc = "close" /\ (Spoiled(t) \/ (row'.state = "CLOSED" /\ reservation' = "RELEASED"))
<1>0. /\ call \in [Threads -> CallType] /\ call[t] \in CallType
      /\ call[t].seen \in [Legs -> States] /\ call[t].todo \in SUBSET Legs
      /\ cache \in [Legs -> States] /\ keys \in SUBSET Legs /\ trade \in Trade
      /\ order \in [Legs -> Outcomes \cup {"NONE"}] /\ HandsFull /\ process \in ProcessType
  BY DEF RecoveryInv, RecoveryTypes, CallType
<1>1. call[t].todo # {} => Leg(t) \in call[t].todo /\ Leg(t) \in Legs
  BY <1>0, FirstIsOne DEF Leg
<1>2. call[t].pc \in Sending => call[t].todo # {}
  BY <1>0 DEF HandsFull
<1>4. call'[t].seen = call[t].seen => InHand(t)' = InHand(t) /\ (AllInHandFilled(t)' <=> AllInHandFilled(t))
                                     /\ (Spoiled(t)' <=> Spoiled(t))
  BY DEF InHand, AllInHandFilled, Spoiled
<1>5. ASSUME PlanExit(t), Kept PROVE Retries(t)'
  <2>1. /\ call'[t].pc = "lookup" /\ call'[t].todo = call[t].todo /\ call'[t].seen = call[t].seen
        /\ call'[t].adopting = call[t].adopting
    BY <1>0, <1>5, MoveFields DEF PlanExit
  <2>2. call[t].pc = "choose" /\ UNCHANGED <<cache, keys, trade, reservation>>
    BY <1>5 DEF PlanExit, MustPlan, At, orders, Kept
  <2> QED
    BY <1>4, <2>1, <2>2 DEF Retries, Sending, Unsent
<1>6. ASSUME LookupKnown(t) PROVE FALSE
  BY <1>1, <1>2, <1>6 DEF LookupKnown, At, Retries, Sending, Unsent
<1>7. ASSUME LookupNew(t), Kept PROVE Retries(t)'
  <2>1. /\ call'[t].pc = "create" /\ call'[t].todo = call[t].todo /\ call'[t].seen = call[t].seen
        /\ call'[t].adopting = call[t].adopting
    BY <1>0, <1>7, MoveFields DEF LookupNew
  <2> QED
    BY <1>4, <1>7, <2>1 DEF LookupNew, At, Retries, Sending, Unsent, orders, Kept
<1>8. ASSUME Create(t) PROVE Retries(t)'
  <2>0. call[t].pc = "create"
    BY <1>8 DEF Create, At
  <2>1. /\ call'[t].pc = "send" /\ call'[t].todo = call[t].todo /\ call'[t].seen = call[t].seen
        /\ call'[t].adopting = call[t].adopting
    BY <1>0, <1>8, MoveFields DEF Create
  <2>2. Leg(t) \in call[t].todo /\ Unsent(Leg(t))
    BY <1>1, <1>2, <2>0 DEF Retries, Sending
  <2>3. cache' = [cache EXCEPT ![Leg(t)] = "CREATED"] /\ keys' = keys \cup {Leg(t)}
    BY <1>8, <2>2 DEF Create, Unsent
  <2>4. \A k \in call[t].todo : k = Leg(t) \/ (Unsent(k) /\ Unsent(k)')
    BY <1>0, <2>0, <2>3 DEF Retries, Unsent, Sending
  <2>5. UNCHANGED <<trade, reservation>>
    BY <1>8 DEF Create
  <2>6. Leg(t)' = Leg(t)
    BY <2>1 DEF Leg
  <2> QED
    BY <1>4, <2>0, <2>1, <2>4, <2>5, <2>6 DEF Retries, Sending
<1>9. ASSUME PersistSubmitting(t), Kept PROVE Retries(t)'
  <2>0. call[t].pc = "send"
    BY <1>9 DEF PersistSubmitting, At
  <2>1. /\ call'[t].pc = "broker" /\ call'[t].todo = call[t].todo /\ call'[t].seen = call[t].seen
        /\ call'[t].adopting = call[t].adopting
    BY <1>0, <1>9, MoveFields DEF PersistSubmitting
  <2>2. cache' = [cache EXCEPT ![Leg(t)] = "SUBMITTING"] /\ UNCHANGED <<keys, trade, reservation>>
    BY <1>9 DEF PersistSubmitting, Kept
  <2>3. \A k \in call[t].todo : k = Leg(t) \/ (Unsent(k) /\ Unsent(k)')
    BY <1>0, <2>0, <2>2 DEF Retries, Unsent, Sending
  <2>4. Leg(t)' = Leg(t)
    BY <2>1 DEF Leg
  <2> QED
    BY <1>4, <2>0, <2>1, <2>2, <2>3, <2>4 DEF Retries, Sending
<1>10. ASSUME Answer(t) PROVE Retries(t)'
  <2>0. call[t].pc = "broker"
    BY <1>10 DEF Answer, BrokerAnswers, At
  <2>1. /\ call'[t].pc = "adopt" /\ call'[t].todo = call[t].todo /\ call'[t].seen = call[t].seen
        /\ call'[t].adopting = call[t].adopting
    BY <1>0, <1>10, MoveFields DEF Answer, BrokerAnswers
  <2>2. UNCHANGED <<cache, keys, trade, reservation>>
    BY <1>10 DEF Answer, BrokerAnswers
  <2>3. Leg(t)' = Leg(t)
    BY <2>1 DEF Leg
  <2>4. order'[Leg(t)] # "NONE"
    <3>1. PICK e \in Outcomes : order' = [order EXCEPT ![Leg(t)] = e]
      BY <1>10 DEF Answer, BrokerAnswers
    <3>2. Leg(t) \in Legs
      BY <1>0, <1>1, <1>2, <2>0 DEF Sending
    <3> QED
      BY <1>0, <3>1, <3>2, OutcomesAssumption DEF Failed
  <2> QED
    BY <1>4, <2>0, <2>1, <2>2, <2>3, <2>4 DEF Retries, Sending, Unsent
<1>11. ASSUME Finish(t) PROVE Retries(t)'
  <2>0. call[t].pc = "adopt" /\ AfterLeg(t, order[Leg(t)])
    BY <1>11 DEF Finish, PersistFinal, At
  <2>1. Leg(t) \in call[t].todo /\ Leg(t) \in Legs /\ order[Leg(t)] \in States
    BY <1>0, <1>1, <1>2, <2>0, Names DEF Sending
  <2>2. /\ call'[t].adopting = call[t].adopting
        /\ call'[t].seen = [call[t].seen EXCEPT ![Leg(t)] = order[Leg(t)]]
        /\ \/ call'[t].pc = "record" /\ (order[Leg(t)] \in Failed \/ call[t].todo \ {Leg(t)} = {})
           \/ /\ call'[t].pc = "lookup" /\ order[Leg(t)] \notin Failed
              /\ call'[t].todo = call[t].todo \ {Leg(t)} /\ call'[t].todo # {}
    BY <1>0, <2>0, <2>1, AfterLegFields
  <2>3. cache' = [cache EXCEPT ![Leg(t)] = order[Leg(t)]] /\ UNCHANGED <<keys, trade, reservation>>
    BY <1>11 DEF Finish, PersistFinal
  <2>4. order[Leg(t)] # "NONE"
    BY <2>0 DEF Retries
  <2>5. CASE order[Leg(t)] \in Failed
    <3>1. Spoiled(t)'
      BY <1>0, <2>1, <2>2, <2>5 DEF Spoiled
    <3> QED
      BY <2>0, <2>2, <2>5, <3>1 DEF Retries, Sending
  <2>6. CASE order[Leg(t)] \notin Failed
    <3>1. order[Leg(t)] = "FILLED"
      BY <1>0, <2>1, <2>4, <2>6, OutcomesAssumption DEF Failed
    <3>2. InHand(t)' = InHand(t) \cup {Leg(t)} /\ AllInHandFilled(t)'
      BY <1>0, <2>0, <2>1, <2>2, <3>1 DEF InHand, AllInHandFilled, Retries, Sending
    <3>3. \A k \in call[t].todo \ {Leg(t)} : Unsent(k)' /\ k \notin InHand(t)'
      BY <1>0, <2>0, <2>3, <3>2 DEF Retries, Unsent, Sending
    <3>4. trade.legs = call[t].todo \cup InHand(t) /\ trade.state \in InFlight /\ ~call[t].adopting
      BY <2>0 DEF Retries, Sending
    <3>5. CASE call'[t].pc = "record"
      <4>1. trade'.legs = InHand(t)'
        BY <2>1, <2>2, <2>3, <2>6, <3>2, <3>4, <3>5
      <4> QED
        BY <2>2, <2>3, <3>2, <3>4, <3>5, <4>1 DEF Retries, Sending
    <3>6. CASE call'[t].pc = "lookup"
      <4>1. trade'.legs = call'[t].todo \cup InHand(t)'
        BY <2>1, <2>2, <2>3, <3>2, <3>4, <3>6
      <4> QED
        BY <2>2, <2>3, <3>2, <3>3, <3>4, <3>6, <4>1 DEF Retries, Sending
    <3> QED
      BY <2>2, <3>5, <3>6
  <2> QED
    BY <2>5, <2>6
<1>12. ASSUME RecordIds(t) PROVE Retries(t)'
  <2>0. call[t].pc = "record"
    BY <1>12 DEF RecordIds, At
  <2>1. call'[t] = [call[t] EXCEPT !.pc = "apply", !.todo = InHand(t)]
    BY <1>0, <1>12, GoesOne DEF RecordIds
  <2>2. /\ call'[t].pc = "apply" /\ call'[t].todo = InHand(t) /\ call'[t].seen = call[t].seen
        /\ call'[t].adopting = call[t].adopting
    BY <1>0, <2>1 DEF CallType
  <2>3. UNCHANGED <<trade, reservation>>
    BY <1>12 DEF RecordIds
  <2> QED
    BY <1>4, <2>0, <2>2, <2>3 DEF Retries, Sending
<1>13. ASSUME call[t].pc = "apply", NEW stage \in {"apply", "release"}, call[t].todo # {}, NextEvent(t, stage)
       PROVE  /\ call'[t].pc = stage /\ call'[t].todo = call[t].todo \ {Leg(t)}
              /\ call'[t].seen = call[t].seen /\ ~call'[t].adopting
              /\ Leg(t) \in call[t].todo /\ Event(t) = call[t].seen[Leg(t)]
              /\ Spoiled(t) => Retries(t)'
              /\ ~Spoiled(t) => /\ AllInHandFilled(t) /\ trade.state \in InFlight
                                /\ trade.legs = call[t].todo /\ call[t].todo \subseteq InHand(t)
                                /\ Event(t) = "FILLED"
  <2>1. ~call[t].adopting /\ Leg(t) \in call[t].todo /\ Leg(t) \in Legs
    BY <1>1, <1>13 DEF Retries
  <2>2. /\ call'[t].pc = stage /\ call'[t].todo = call[t].todo \ {Leg(t)}
        /\ call'[t].seen = call[t].seen /\ ~call'[t].adopting
    BY <1>0, <1>13, <2>1, NextEventFields
  <2>3. Event(t) = call[t].seen[Leg(t)]
    BY <2>1 DEF Event
  <2>4. Spoiled(t) => Retries(t)'
    BY <1>4, <1>13, <2>2 DEF Retries, Sending
  <2>5. ~Spoiled(t) => /\ AllInHandFilled(t) /\ trade.state \in InFlight
                       /\ trade.legs = call[t].todo /\ call[t].todo \subseteq InHand(t)
    BY <1>13 DEF Retries
  <2>6. ~Spoiled(t) => Event(t) = "FILLED"
    BY <2>1, <2>3, <2>5 DEF AllInHandFilled
  <2> QED
    BY <2>1, <2>2, <2>3, <2>4, <2>5, <2>6
<1>14. ASSUME ApplySent(t) PROVE Retries(t)'
  BY <1>13, <1>14 DEF ApplySent, Applying, At
<1>15. ASSUME ApplyNothing(t) PROVE Retries(t)'
  BY <1>13, <1>15 DEF ApplyNothing, Applying, At
<1>16. ASSUME ApplyFailed(t) PROVE Retries(t)'
  BY <1>13, <1>16 DEF ApplyFailed, Applying, At, Failed
<1>17. ASSUME ApplyFill(t) PROVE Retries(t)'
  <2>1. call[t].pc = "apply" /\ call[t].todo # {} /\ NextEvent(t, "apply")
    BY <1>17 DEF ApplyFill, Applying, At
  <2>2. trade' = [state |-> Closing, legs |-> trade.legs \ {Leg(t)}]
    BY <1>17 DEF ApplyFill
  <2>3. CASE ~Spoiled(t)
    <3>1. trade'.state \in InFlight /\ trade'.legs = call'[t].todo
      BY <1>13, <2>1, <2>2, <2>3 DEF Closing, InFlight
    <3> QED
      BY <1>4, <1>13, <2>1, <2>3, <3>1 DEF Retries, Sending
  <2> QED
    BY <1>13, <2>1, <2>3
<1>18. ASSUME ApplyLastFill(t) PROVE Retries(t)' \/ call'[t] = NoCall
  <2>1. call[t].pc = "apply" /\ call[t].todo # {} /\ trade.legs \ {Leg(t)} = {}
    BY <1>18 DEF ApplyLastFill, Applying, At
  <2>2. CASE Raises(t)
    BY <1>0, <2>2, GoesOne DEF Raises
  <2>3. CASE trade' = [state |-> "CLOSED", legs |-> Legs] /\ NextEvent(t, "release")
    <3>1. CASE ~Spoiled(t)
      <4>1. call'[t].todo = {}
        BY <1>13, <2>1, <2>3, <3>1
      <4> QED
        BY <1>4, <1>13, <2>1, <2>3, <3>1, <4>1 DEF Retries, Sending
    <3> QED
      BY <1>13, <2>1, <2>3, <3>1
  <2> QED
    BY <1>18, <2>2, <2>3 DEF ApplyLastFill
<1>19. ASSUME ReleaseCapital(t) PROVE Retries(t)' \/ call'[t] = NoCall
  <2>1. CASE Raises(t)
    BY <1>0, <2>1, GoesOne DEF Raises
  <2>2. CASE reservation' = "RELEASED" /\ Move(t, "apply")
    <3>1. /\ call'[t].pc = "apply" /\ call'[t].todo = call[t].todo /\ call'[t].seen = call[t].seen
          /\ call'[t].adopting = call[t].adopting
      BY <1>0, <2>2, MoveFields
    <3>2. call[t].pc = "release" /\ UNCHANGED trade
      BY <1>19 DEF ReleaseCapital, At
    <3> QED
      BY <1>4, <2>2, <3>1, <3>2 DEF Retries, Sending
  <2> QED
    BY <1>19, <2>1, <2>2 DEF ReleaseCapital
<1>20. ASSUME BrokerRefuses(t) PROVE call'[t] = NoCall
  BY <1>0, <1>20, GoesOne DEF BrokerRefuses, Raises
<1>21. ASSUME Settle(t) PROVE Spoiled(t) \/ (row'.state = "CLOSED" /\ reservation' = "RELEASED")
  <2>1. call[t].pc = "apply" /\ call[t].todo = {} /\ UNCHANGED reservation /\ row'.state = trade.state
    BY <1>21 DEF Settle, At, WriteRow
  <2>2. trade.state \in InFlight => trade.legs # {}
    BY DEF Shape, InFlight
  <2> QED
    BY <2>1, <2>2 DEF Retries
<1>22. ASSUME MayRaise(t), IF call'[t].pc = "idle" THEN Goto("dead") ELSE UNCHANGED process
       PROVE  Retries(t)' \/ process'.pc = "dead"
  <2>1. call'[t] = NoCall => process'.pc = "dead"
    BY <1>0, <1>22, GotoMade DEF NoCall, Stops
  <2> QED
    BY <1>18, <1>19, <1>20, <1>22, <2>1 DEF MayRaise
<1>23. ASSUME Settle(t),
              process' = [process EXCEPT !.pc = "close",
                            !.clean = @ /\ \A k \in InHand(t) : call[t].seen[k] \notin Failed]
       PROVE  process'.pc = "close" /\ (Spoiled(t) \/ (row'.state = "CLOSED" /\ reservation' = "RELEASED"))
  <2>1. process'.pc = "close"
    BY <1>0, <1>23 DEF ProcessType
  <2> QED
    BY <1>21, <1>23, <2>1
<1>24. ASSUME Submits(t) PROVE Retries(t)'
  BY <1>6, <1>7, <1>8, <1>9, <1>10, <1>11, <1>12, <1>14, <1>15, <1>16, <1>17, <1>24 DEF Submits, Kept
<1> QED
  BY <1>5, <1>22, <1>23, <1>24 DEF CommandExits

\* A step of the session, or a command's start, keeps what the retry relies on.
LEMMA RetryRestarts ==
  ASSUME RetryInv, Restarts
  PROVE  Shape' /\ CleanSoFar'
<1>0. row \in Row /\ trade \in Trade /\ (row.state # "CLOSED" => row.legs # {}) /\ row.state \in Live
  BY DEF RetryInv, RecoveryInv, RecoveryTypes, Shape
<1>1. ASSUME Opens
      PROVE  Shape' /\ row' = row /\ trade' = [state |-> row.state, legs |-> row.legs]
  BY <1>0, <1>1 DEF Opens, Shape
<1>2. CASE StartSession
  <2>1. process'.pc = "session" /\ ~process'.clean
    BY <1>2 DEF StartSession, Process
  <2> QED
    BY <1>1, <1>2, <2>1 DEF StartSession, CleanSoFar
<1>3. ASSUME NEW reset \in BOOLEAN, NEW named \in BOOLEAN, NEW quoted \in Books,
             StartCommand(reset, named, quoted)
      PROVE  Shape' /\ CleanSoFar'
  <2>1. /\ Opens /\ process'.quoted = quoted /\ process'.pc \in {"purge", "close"}
        /\ process'.clean => row.state # "CLOSED" /\ row.legs \subseteq quoted
                             /\ (row.legs # {} => process'.pc = "purge")
    BY <1>0, <1>3, StartMade
  <2>2. process'.clean => /\ process'.pc = "purge" /\ row'.state # "CLOSED" /\ trade'.state = row'.state
                          /\ trade'.legs = row'.legs /\ row'.legs \subseteq process'.quoted
    BY <1>0, <1>1, <2>1
  <2> QED
    BY <1>1, <2>1, <2>2 DEF CleanSoFar
<1>4. {TRUE, FALSE} \subseteq BOOLEAN
  OBVIOUS
<1> QED
  BY <1>2, <1>3, <1>4 DEF Restarts

\* So do the steps of a command before and after its exit.
LEMMA RetryCommand ==
  ASSUME RetryInv, \/ PurgeKeys \/ AdministrativeClose \/ PurgeExposure \/ Boot
                   \/ \E t \in Threads : PurgeOrders(t)
  PROVE  Shape' /\ CleanSoFar'
<1>0. /\ process \in ProcessType /\ trade \in Trade /\ row \in Row /\ call \in [Threads -> CallType]
      /\ cache \in [Legs -> States] /\ keys \in SUBSET Legs
      /\ OneAtWork /\ ResetSteps /\ Shape /\ CleanSoFar
  BY DEF RetryInv, RecoveryInv, RecoveryTypes
<1>1. CASE PurgeKeys
  <2>1. /\ process.pc = "purge" /\ process'.pc = "drop" /\ process'.quoted = process.quoted
        /\ process'.clean = process.clean
    BY <1>0, <1>1, GotoMade DEF PurgeKeys, Runs, Stops
  <2>2. UNCHANGED <<trade, row>> /\ cache' = Gone(cache, PurgedKeys) /\ keys' = keys \ PurgedKeys
    BY <1>1 DEF PurgeKeys
  <2>3. \A k \in row.legs : Unsent(k)'
    BY <1>0, <2>2 DEF Unsent, Gone, PurgedKeys, Row
  <2> QED
    BY <1>0, <2>1, <2>2, <2>3 DEF Shape, CleanSoFar
<1>2. ASSUME NEW t \in Threads, PurgeOrders(t) PROVE Shape' /\ CleanSoFar'
  <2>1. /\ process.pc = "drop" /\ process'.pc = "exit" /\ process'.clean = process.clean
    BY <1>0, <1>2, GotoMade DEF PurgeOrders, Runs, Stops
  <2>2. /\ UNCHANGED <<cache, reservation, keys>>
        /\ row' = [state |-> trade.state, legs |-> trade.legs, ids |-> {}]
        /\ trade' = IF trade.state = "OPEN" THEN [trade EXCEPT !.state = "EXIT_PENDING"] ELSE trade
    BY <1>2 DEF PurgeOrders, WriteRow
  <2>3. /\ trade'.legs = trade.legs
        /\ trade'.state = IF trade.state = "OPEN" THEN "EXIT_PENDING" ELSE trade.state
    BY <1>0, <2>2 DEF Trade
  <2>4. Shape'
    BY <1>0, <2>2, <2>3 DEF Shape, Live
  <2>5. \A u \in Threads \ {t} : call[u] = NoCall /\ call'[u] = NoCall
    <3>1. AllIdle
      BY <1>0, <2>1 DEF OneAtWork
    <3>2. \A u \in Threads \ {t} : call'[u] = call[u]
      BY <1>0, <1>2, GoesOne DEF PurgeOrders, Starts
    <3> QED
      BY <3>1, <3>2 DEF AllIdle
  <2>6. ASSUME process.clean PROVE Retries(t)'
    <3>1. /\ trade.state = row.state /\ trade.legs = row.legs /\ row.state # "CLOSED"
          /\ row.legs \subseteq process.quoted /\ \A k \in row.legs : Unsent(k)
      BY <1>0, <2>1, <2>6 DEF CleanSoFar
    <3>2. trade.legs \cap process.quoted = trade.legs
      BY <3>1
    <3>3. call'[t] = [NoCall EXCEPT !.pc = "choose", !.todo = trade.legs, !.adopting = FALSE]
      BY <1>0, <1>2, <3>2, GoesOne DEF PurgeOrders, Starts
    <3>4. /\ call'[t].pc = "choose" /\ call'[t].todo = trade.legs /\ call'[t].seen = NoEvents
          /\ call'[t].adopting = FALSE
      BY <3>3 DEF NoCall
    <3>5. InHand(t)' = {}
      BY <3>4 DEF InHand, NoEvents
    <3>6. trade'.state \in InFlight
      BY <1>0, <2>3, <3>1 DEF Shape, Live, InFlight
    <3>7. \A k \in trade.legs : Unsent(k)'
      BY <2>2, <3>1 DEF Unsent
    <3>8. AllInHandFilled(t)'
      BY <3>5 DEF AllInHandFilled
    <3> QED
      BY <2>3, <3>4, <3>5, <3>6, <3>7, <3>8 DEF Retries, Sending
  <2> QED
    BY <2>1, <2>4, <2>5, <2>6 DEF CleanSoFar
<1>3. CASE AdministrativeClose
  <2>1. process.pc = "close" /\ process'.pc = "exposure"
    BY <1>0, <1>3, GotoMade DEF AdministrativeClose, Runs, Stops
  <2>2. trade' = trade /\ row'.state = "CLOSED"
    BY <1>3 DEF AdministrativeClose
  <2> QED
    BY <1>0, <2>1, <2>2 DEF Shape, CleanSoFar, Live
<1>4. CASE PurgeExposure
  <2>1. process'.pc = "boot" /\ UNCHANGED <<trade, row>>
    BY <1>0, <1>4, GotoMade DEF PurgeExposure, Stops
  <2> QED
    BY <1>0, <2>1 DEF Shape, CleanSoFar
<1>5. CASE Boot
  <2>1. /\ UNCHANGED <<trade, row, reservation, fills>>
        /\ process.pc = "boot" \/ (process.pc = "close" /\ ~process.reset)
    BY <1>5 DEF Boot, vars, Runs
  <2>2. process'.pc = "done" /\ process'.reset = process.reset /\ process'.clean = process.clean
    <3>1. process' = [process EXCEPT !.pc = "done", !.told = ~Blocked] /\ (~Blocked) \in BOOLEAN
      BY <1>5 DEF Boot
    <3> QED
      BY <1>0, <3>1 DEF ProcessType
  <2>3. process.pc = "boot" => process.reset
    BY <1>0 DEF ResetSteps
  <2>4. Closed => Closed'
    BY <2>1 DEF Closed
  <2> QED
    BY <1>0, <2>1, <2>2, <2>3, <2>4 DEF Shape, CleanSoFar
<1> QED
  BY <1>1, <1>2, <1>3, <1>4, <1>5

\* So does its exit.
LEMMA RetryExit ==
  ASSUME RetryInv, NEW t \in Threads, CommandExits(t)
  PROVE  Shape' /\ CleanSoFar'
<1>0. /\ process \in ProcessType /\ call \in [Threads -> CallType] /\ RecoveryTypes /\ HandsFull
      /\ OneAtWork /\ Shape /\ CleanSoFar /\ RecoveryInv
  BY DEF RetryInv, RecoveryInv, RecoveryTypes
<1>1. Shape'
  BY <1>0, ShapeOfCall
<1>2. /\ process.pc = "exit" /\ process' \in ProcessType
      /\ \/ process' = process
         \/ process'.pc = "dead" /\ process'.clean = process.clean
         \/ /\ process'.pc = "close" /\ Settle(t)
            /\ process'.clean = (process.clean /\ \A k \in InHand(t) : call[t].seen[k] \notin Failed)
  BY <1>0, CommandGoesOn
<1>3. call[t] # NoCall /\ \A u \in Threads \ {t} : call'[u] = call[u]
  BY <1>0, <1>2, CallSteps
<1>4. \A u \in Threads \ {t} : call'[u] = NoCall
  <2>1. PICK one \in Threads : \A u \in Threads \ {one} : call[u] = NoCall
    BY <1>0, <1>2 DEF OneAtWork
  <2> QED
    BY <1>3, <2>1
<1>5. ASSUME process.clean
      PROVE  \/ Retries(t)' \/ process'.pc = "dead"
             \/ process'.pc = "close" /\ (Spoiled(t) \/ (row'.state = "CLOSED" /\ reservation' = "RELEASED"))
  <2>1. Retries(t)
    BY <1>0, <1>2, <1>3, <1>5 DEF CleanSoFar
  <2> QED
    BY <1>0, <2>1, RetryStep
<1>6. CASE process'.pc = "close" /\ Settle(t)
  <2>1. Spoiled(t) => ~process'.clean
    <3>1. \A k \in Legs : call[t].seen[k] \in Failed => k \in InHand(t)
      BY DEF InHand, Failed
    <3> QED
      BY <1>2, <1>6, <3>1 DEF Spoiled
  <2>2. process'.clean => process.clean
    BY <1>2, <1>6
  <2>3. call'[t] = NoCall
    BY <1>0, <1>6, GoesOne DEF Settle
  <2>4. ~Retries(t)'
    BY <2>3 DEF Retries, NoCall, Sending
  <2>5. process'.clean => row'.state = "CLOSED" /\ reservation' = "RELEASED"
    BY <1>5, <1>6, <2>1, <2>2, <2>4
  <2>6. OnFills' /\ SameFills'
    BY <1>0, <1>2, CallKept DEF RecoveryInv
  <2>7. process'.clean => Closed'
    BY <2>5, <2>6 DEF OnFills, ReleasedOnFills, SameFills, Closed
  <2> QED
    BY <1>1, <1>6, <2>7 DEF CleanSoFar
<1>7. CASE process'.pc = "dead"
  BY <1>1, <1>7 DEF CleanSoFar
<1>8. CASE process' = process
  <2>1. process.clean => Retries(t)'
    BY <1>2, <1>5, <1>8
  <2> QED
    BY <1>1, <1>2, <1>4, <1>8, <2>1 DEF CleanSoFar
<1> QED
  BY <1>2, <1>6, <1>7, <1>8
\* And the steps of the session, which is no command.
LEMMA RetryInvariant == RecoverySpec => []RetryInv
<1>1. RecoveryInit => Shape /\ CleanSoFar
  <2> SUFFICES ASSUME RecoveryInit PROVE Shape /\ CleanSoFar
    OBVIOUS
  <2>1. process = Process /\ trade.state = "OPEN" /\ trade.legs = Legs /\ row.state = "OPEN" /\ row.legs = Legs
    BY DEF RecoveryInit, Init
  <2> QED
    BY <2>1, LegsAssumption DEF Process, Shape, Live, CleanSoFar
<1>2. RecoveryInv /\ Shape /\ CleanSoFar /\ [RecoveryNext]_all => Shape' /\ CleanSoFar'
  <2> SUFFICES ASSUME RetryInv, [RecoveryNext]_all PROVE Shape' /\ CleanSoFar'
    BY DEF RetryInv
  <2>1. CASE UNCHANGED all
    <3>1. /\ UNCHANGED <<cache, order, trade, row, reservation, call>>
          /\ UNCHANGED <<process, keys, fills>>
      BY <2>1 DEF all, vars
    <3>2. \A t \in Threads : Retries(t) => Retries(t)'
      BY <3>1 DEF Retries, Leg, Spoiled, AllInHandFilled, InHand, Unsent
    <3> QED
      BY <3>1, <3>2 DEF RetryInv, Shape, CleanSoFar, Unsent, Closed
  <2>2. ASSUME NEW t \in Threads, Session(t) PROVE Shape' /\ CleanSoFar'
    <3>1. process.pc = "session" /\ process' = process
      BY <2>2 DEF Session, Runs
    <3>2. Shape'
      BY <2>2, ShapeOfCall DEF RetryInv, RecoveryInv
    <3> QED
      BY <3>1, <3>2 DEF CleanSoFar
  <2>3. CASE RecoveryNext
    BY <2>2, <2>3, RetryExit, RetryRestarts, RetryCommand DEF RecoveryNext, Command
  <2> QED
    BY <2>1, <2>3
<1> QED
  BY <1>1, <1>2, RecoveryInvariant, PTL DEF RecoverySpec, RetryInv

\* A retry that gets through, with a quote for every leg and no order that failed,
\* has closed the trade, freed its capital and exited every leg.
THEOREM RetriesClose == RecoverySpec => []RetryCloses
<1>1. RetryInv => RetryCloses
  BY DEF RetryInv, CleanSoFar, Closed, RetryCloses, Runs
<1> QED
  BY <1>1, RetryInvariant, PTL

=============================================================================
