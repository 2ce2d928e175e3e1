-------------------------- MODULE OmsEngine_proofs --------------------------
(***************************************************************************)
(* Proofs about OmsEngine.  The first two theorems hold for any number of  *)
(* callers; the others need that submit_plan has one caller at a time      *)
(* (OneCaller), and OmsEngine_race.cfg shows that they do.                 *)
(***************************************************************************)
EXTENDS OmsEngine, TLAPS

OneCaller == \A t, u \in Threads : t = u

-----------------------------------------------------------------------------

\* Newer keeps one of its two events, and the later stamp.
LEMMA NewerKeepsOne ==
  ASSUME NEW old \in StampedState, NEW e \in StampedState
  PROVE  /\ Newer(old, e) \in StampedState
         /\ Newer(old, e) \in {old, e}
         /\ e.at >= old.at => Newer(old, e) = e
  BY DEF Newer, StampedState

\* What the broker may answer to an order just sent.
LEMMA LegalAnswers ==
  ASSUME NEW s, CanOrder("SUBMITTING", s, "BROKER_EVENT")
  PROVE  s \in {"ACKNOWLEDGED", "PARTIAL", "FILLED", "REJECTED"}
  BY DEF CanOrder, OrderEdge, Working

\* The outcomes and the stages are what their types say.
LEMMA StateNames ==
  /\ Replies \subseteq OrderStates
  /\ SubmitStop \subseteq OrderStates
  /\ "UNKNOWN" \in OrderStates
  /\ "SUBMITTING" \in OrderStates
  /\ "CREATED" \in OrderStates
  /\ "ACKNOWLEDGED" \in OrderStates
  BY DEF Replies, SubmitStop, OrderStates

\* The fields of a call keep their types when one step sets some of them.
LEMMA CallFields ==
  ASSUME NEW c \in CallType
  PROVE  /\ \A s \in Stages : [c EXCEPT !.pc = s] \in CallType
         /\ \A s \in Stages, a \in Nat : [c EXCEPT !.pc = s, !.at = a] \in CallType
         /\ \A s \in Stages, l \in Legs : [c EXCEPT !.pc = s, !.leg = l] \in CallType
         /\ \A s \in Stages, a \in Nat, r \in OrderStatesOrNone :
               [c EXCEPT !.pc = s, !.at = a, !.reply = r] \in CallType
  BY DEF CallType

\* A fresh call is a call, wherever it starts and whichever plan it brings.
LEMMA FreshCalls ==
  /\ NoCall \in CallType
  /\ [NoCall EXCEPT !.pc = "raised"] \in CallType
  /\ \A p \in Plans : [NoCall EXCEPT !.pc = "lookup", !.plan = p] \in CallType
<1>1. 1 \in Legs /\ 0 \in Nat
  BY LegsAssumption DEF Legs
<1>2. "idle" \in Stages /\ "raised" \in Stages /\ "lookup" \in Stages
  BY DEF Stages, Resting
<1>3. "NONE" \in OrderStatesOrNone
  BY DEF OrderStatesOrNone
<1>4. NoCall \in CallType
  BY <1>1, <1>2, <1>3 DEF NoCall, CallType
<1>5. [NoCall EXCEPT !.pc = "raised"] \in CallType
  BY <1>2, <1>4 DEF CallType
<1>6. \A p \in Plans : [NoCall EXCEPT !.pc = "lookup", !.plan = p] \in CallType
  BY <1>2, <1>4 DEF CallType
<1> QED
  BY <1>4, <1>5, <1>6

\* The stages that the steps of submit_plan move a call to are all stages.
LEMMA StageNames ==
  /\ "lookup" \in Stages /\ "create" \in Stages /\ "send" \in Stages
  /\ "broker" \in Stages /\ "accept" \in Stages /\ "timedout" \in Stages
  /\ "adopt" \in Stages /\ "raised" \in Stages /\ "frozen" \in Stages
  /\ "returned" \in Stages
  BY DEF Stages, Resting

\* Moving on within a leg, or from a leg to what follows it, keeps the type.
LEMMA MoveType ==
  ASSUME call \in [Threads -> CallType], NEW t \in Threads, NEW s \in Stages,
         Move(t, s)
  PROVE  call' \in [Threads -> CallType]
  BY CallFields DEF Move, Goes

\* submit_plan's move from one leg to the next, or out of the loop, keeps the
\* type of the calls: the next leg is a leg.
LEMMA AfterLegType ==
  ASSUME call \in [Threads -> CallType], NEW t \in Threads, NEW s, AfterLeg(t, s)
  PROVE  call' \in [Threads -> CallType]
<1>1. CASE s \in SubmitStop \/ Leg(t) = N
  BY <1>1, MoveType, StageNames DEF AfterLeg
<1>2. CASE ~(s \in SubmitStop \/ Leg(t) = N)
  <2>0. call[t] \in CallType
    OBVIOUS
  <2>1. Leg(t) \in 1..N /\ Leg(t) # N
    BY <1>2, <2>0 DEF CallType, Leg, Legs
  <2>2. Leg(t) + 1 \in Legs
    BY <2>1, LegsAssumption DEF Legs
  <2> QED
    <3>1. [call[t] EXCEPT !.pc = "lookup", !.leg = Leg(t) + 1] \in CallType
      BY <2>0, <2>2, CallFields, StageNames
    <3>2. call' = [call EXCEPT ![t] =
                     [call[t] EXCEPT !.pc = "lookup", !.leg = Leg(t) + 1]]
      BY <1>2 DEF AfterLeg, Goes
    <3> QED
      BY <3>1, <3>2
<1> QED
  BY <1>1, <1>2

\* A row added to the log keeps the types of log and cache.
LEMMA AppendType ==
  ASSUME TypeOK, NEW k \in Legs, NEW e \in StampedState, Append(k, e)
  PROVE  durable' \in [Legs -> StampedState] /\ cache' \in [Legs -> StampedState]
  BY NewerKeepsOne DEF Append, TypeOK

\* An order state with the stamp it was written under is an event of the log.
LEMMA EventTypes ==
  ASSUME NEW s \in OrderStates \cup {"NONE"}, NEW a \in Nat
  PROVE  [state |-> s, at |-> a] \in StampedState
  BY DEF StampedState, OrderStatesOrNone

\* An event the adapter keeps is one of its map's.
LEMMA RememberType ==
  ASSUME TypeOK, NEW t \in Threads, NEW s \in OrderStates, NEW a \in Nat,
         Remember(t, s, a)
  PROVE  memo' \in [Legs -> MemoType]
<1>1. call[t].plan \in Plans \cup {"NONE"}
  BY DEF TypeOK, CallType
<1> QED
  BY <1>1 DEF Remember, TypeOK, MemoType, OrderStatesOrNone

\* An order that the broker takes keeps the types of the venue and its count.
LEMMA PlaceType ==
  ASSUME TypeOK, NEW k \in Legs, NEW s \in OrderStates, Place(k, s)
  PROVE  broker' \in [Legs -> OrderStatesOrNone] /\ placed' \in [Legs -> Nat]
  BY DEF Place, TypeOK, OrderStatesOrNone

\* Every value stays in its type, for any number of legs, callers and plans
\* and any broker.
THEOREM TypeCorrect == Spec => []TypeOK
<1>1. Init => TypeOK
  <2>1. Absent \in StampedState /\ NoMemo \in MemoType /\ "NONE" \in OrderStatesOrNone
    BY DEF Absent, StampedState, OrderStatesOrNone, NoMemo, MemoType
  <2>2. NoCall \in CallType
    BY FreshCalls
  <2> QED
    BY <2>1, <2>2 DEF Init, TypeOK
<1>2. TypeOK /\ [Next]_vars => TypeOK'
  <2> SUFFICES ASSUME TypeOK, [Next]_vars PROVE TypeOK'
    OBVIOUS
  <2>0. /\ call \in [Threads -> CallType]
        /\ \A t \in Threads : call[t] \in CallType /\ Leg(t) \in Legs
                              /\ call[t].at \in Nat
    BY DEF TypeOK, CallType, Leg
  <2>1. ASSUME NEW t \in Threads, Begin(t) PROVE TypeOK'
    BY <2>0, <2>1, FreshCalls DEF Begin, Goes, TypeOK
  <2>2. ASSUME NEW t \in Threads, Expired(t) PROVE TypeOK'
    BY <2>0, <2>2, FreshCalls DEF Expired, Goes, TypeOK
  <2>3. ASSUME NEW t \in Threads, RateLimited(t) PROVE TypeOK'
    BY <2>0, <2>3, MoveType, StageNames DEF RateLimited, TypeOK
  <2>4. ASSUME NEW t \in Threads, LookupUnknown(t) PROVE TypeOK'
    BY <2>0, <2>4, MoveType, StageNames DEF LookupUnknown, TypeOK
  <2>5. ASSUME NEW t \in Threads, LookupKnown(t) PROVE TypeOK'
    BY <2>0, <2>5, AfterLegType DEF LookupKnown, TypeOK
  <2>6. ASSUME NEW t \in Threads, LookupNew(t) PROVE TypeOK'
    BY <2>0, <2>6, MoveType, StageNames DEF LookupNew, TypeOK
  <2>7. ASSUME NEW t \in Threads, PersistCreated(t) PROVE TypeOK'
    <3>0. now + 1 \in Nat
      BY DEF TypeOK
    <3>1. now' \in Nat /\ call' \in [Threads -> CallType]
      BY <2>0, <2>7, <3>0, CallFields, StageNames DEF PersistCreated, Goes
    <3>2. durable' \in [Legs -> StampedState] /\ cache' \in [Legs -> StampedState]
      <4>1. CASE durable[Leg(t)].state = "NONE"
        <5>1. [state |-> "CREATED", at |-> now + 1] \in StampedState
          BY StateNames, EventTypes DEF TypeOK
        <5> QED
          BY <2>0, <2>7, <4>1, <5>1, AppendType DEF PersistCreated
      <4>2. CASE durable[Leg(t)].state # "NONE"
        BY <2>0, <2>7, <4>2, NewerKeepsOne DEF PersistCreated, Replay, TypeOK
      <4> QED
        BY <4>1, <4>2
    <3> QED
      BY <2>7, <3>1, <3>2 DEF PersistCreated, TypeOK
  <2>8. ASSUME NEW t \in Threads, PersistSubmitting(t) PROVE TypeOK'
    <3>1. [state |-> "SUBMITTING", at |-> call[t].at] \in StampedState
      BY <2>0, StateNames, EventTypes
    <3>2. durable' \in [Legs -> StampedState] /\ cache' \in [Legs -> StampedState]
      BY <2>0, <2>8, <3>1, AppendType DEF PersistSubmitting
    <3> QED
      BY <2>0, <2>8, <3>2, MoveType, StageNames DEF PersistSubmitting, TypeOK
  <2>9. ASSUME NEW t \in Threads, BrokerSeesKey(t) PROVE TypeOK'
    <3> DEFINE known == memo[Leg(t)]
    <3>1. known.at \in Nat /\ known.state \in OrderStatesOrNone
      BY <2>0 DEF TypeOK, MemoType
    <3>2. call' \in [Threads -> CallType]
      <4>1. CASE known.plan = call[t].plan
        <5>1. [call[t] EXCEPT !.pc = "adopt", !.at = known.at, !.reply = known.state]
                \in CallType
          BY <2>0, <3>1, CallFields, StageNames
        <5> QED
          BY <2>0, <2>9, <4>1, <5>1 DEF BrokerSeesKey, Goes
      <4>2. CASE known.plan # call[t].plan
        BY <2>0, <2>9, <4>2, MoveType, StageNames DEF BrokerSeesKey
      <4> QED
        BY <4>1, <4>2
    <3> QED
      BY <2>9, <3>2 DEF BrokerSeesKey, TypeOK
  <2>10. ASSUME NEW t \in Threads, BrokerSeesNone(t) PROVE TypeOK'
    BY <2>0, <2>10, MoveType, StageNames DEF BrokerSeesNone, TypeOK
  <2>11. ASSUME NEW t \in Threads, BrokerReplies(t) PROVE TypeOK'
    <3>1. PICK s \in Outcomes \cap Replies :
            /\ Place(Leg(t), s)
            /\ Goes(t, [call[t] EXCEPT !.pc = "adopt", !.at = now + 1, !.reply = s])
            /\ Remember(t, s, now + 1)
      BY <2>11 DEF BrokerReplies
    <3>2. s \in OrderStates /\ s \in OrderStatesOrNone /\ now + 1 \in Nat
      BY StateNames DEF TypeOK, OrderStatesOrNone
    <3>3. call' \in [Threads -> CallType]
      BY <2>0, <3>1, <3>2, CallFields, StageNames DEF Goes
    <3>4. memo' \in [Legs -> MemoType]
      BY <2>0, <3>1, <3>2, RememberType
    <3>5. broker' \in [Legs -> OrderStatesOrNone] /\ placed' \in [Legs -> Nat]
      BY <2>0, <3>1, <3>2, PlaceType
    <3> QED
      BY <2>11, <3>2, <3>3, <3>4, <3>5 DEF BrokerReplies, TypeOK
  <2>12. ASSUME NEW t \in Threads, BrokerTimesOut(t) PROVE TypeOK'
    <3>1. memo' \in [Legs -> MemoType]
      BY <2>0, <2>12, RememberType, StateNames DEF BrokerTimesOut, TypeOK
    <3>2. broker' \in [Legs -> OrderStatesOrNone] /\ placed' \in [Legs -> Nat]
      BY <2>0, <2>12, PlaceType, StateNames DEF BrokerTimesOut, TypeOK
    <3> QED
      BY <2>0, <2>12, <3>1, <3>2, MoveType, StageNames DEF BrokerTimesOut, TypeOK
  <2>13. ASSUME NEW t \in Threads, BrokerFails(t) PROVE TypeOK'
    <3>1. broker' \in [Legs -> OrderStatesOrNone] /\ placed' \in [Legs -> Nat]
      BY <2>0, <2>13, PlaceType, StateNames DEF BrokerFails, TypeOK
    <3> QED
      BY <2>0, <2>13, <3>1, MoveType, StageNames DEF BrokerFails, TypeOK
  <2>14. ASSUME NEW t \in Threads, PersistUnknown(t) PROVE TypeOK'
    <3>1. [state |-> "UNKNOWN", at |-> call[t].at] \in StampedState
      BY <2>0, StateNames, EventTypes
    <3>2. durable' \in [Legs -> StampedState] /\ cache' \in [Legs -> StampedState]
      BY <2>0, <2>14, <3>1, AppendType DEF PersistUnknown
    <3> QED
      BY <2>0, <2>14, <3>2, MoveType, StageNames DEF PersistUnknown, TypeOK
  <2>15. ASSUME NEW t \in Threads, PersistFinal(t) PROVE TypeOK'
    <3>1. CASE CanOrder("SUBMITTING", call[t].reply, "BROKER_EVENT")
      <4>1. [state |-> call[t].reply, at |-> call[t].at] \in StampedState
        BY <2>0 DEF CallType, StampedState
      <4>2. durable' \in [Legs -> StampedState] /\ cache' \in [Legs -> StampedState]
        BY <2>0, <2>15, <3>1, <4>1, AppendType DEF PersistFinal
      <4> QED
        BY <2>0, <2>15, <3>1, <4>2, AfterLegType DEF PersistFinal, TypeOK
    <3>2. CASE ~CanOrder("SUBMITTING", call[t].reply, "BROKER_EVENT")
      BY <2>0, <2>15, <3>2, MoveType, StageNames DEF PersistFinal, TypeOK
    <3> QED
      BY <3>1, <3>2
  <2>16. ASSUME NEW k \in Legs, BrokerAdvances(k) PROVE TypeOK'
    BY <2>16 DEF BrokerAdvances, TypeOK, OrderStatesOrNone
  <2>17. CASE Crash
    <3>1. NoMemo \in MemoType
      BY DEF NoMemo, MemoType, OrderStatesOrNone
    <3> QED
      BY <2>17, <3>1, FreshCalls DEF Crash, TypeOK
  <2>18. CASE UNCHANGED vars
    BY <2>18 DEF vars, TypeOK
  <2> QED
    BY <2>1, <2>2, <2>3, <2>4, <2>5, <2>6, <2>7, <2>8, <2>9, <2>10, <2>11, <2>12, <2>13, <2>14, <2>15, <2>16, <2>17, <2>18 DEF Next, Step
<1> QED
  BY <1>1, <1>2, PTL DEF Spec

-----------------------------------------------------------------------------

\* The stages in which a caller is already past the durable SUBMITTING.
Sending == {"broker", "accept"}

\* What the log holds of the leg that caller t has in hand.  A second caller
\* writes SUBMITTING under its own later stamp, so CREATED cannot outlive it.
SentIsLogged(t) ==
  LET d == durable[Leg(t)]
  IN  /\ At(t, "send") => d.state # "NONE" /\ (d.state = "CREATED" => d.at <= call[t].at)
      /\ call[t].pc \in Sending => d.state \notin {"NONE", "CREATED"}

CallsLogged == \A t \in Threads : SentIsLogged(t)

\* The log of a leg only starts, or moves on past CREATED.
LogMovesOn ==
  \A k \in Legs : \/ durable'[k] = durable[k]
                  \/ durable[k].state = "NONE"
                  \/ durable'[k].state \notin {"NONE", "CREATED"}

\* A step of one caller that only moves the log on keeps the others' part.
LEMMA OthersStayLogged ==
  ASSUME TypeOK, CallsLogged, LogMovesOn, NEW t \in Threads,
         \A u \in Threads \ {t} : call'[u] = call[u], SentIsLogged(t)'
  PROVE  CallsLogged'
<1> SUFFICES ASSUME NEW u \in Threads, u # t PROVE SentIsLogged(u)'
  BY DEF CallsLogged
<1>1. SentIsLogged(u) /\ call'[u] = call[u] /\ Leg(u) \in Legs
  BY DEF CallsLogged, TypeOK, CallType, Leg
<1> QED
  BY <1>1 DEF SentIsLogged, LogMovesOn, Leg, At, Sending

\* Appending an event past CREATED moves the log on.
LEMMA AppendMovesOn ==
  ASSUME TypeOK, NEW k \in Legs, NEW e \in StampedState, Append(k, e),
         e.state \notin {"NONE", "CREATED"}
  PROVE  LogMovesOn
<1> SUFFICES ASSUME NEW j \in Legs PROVE \/ durable'[j] = durable[j]
                                         \/ durable'[j].state \notin {"NONE", "CREATED"}
  BY DEF LogMovesOn
<1> QED
  BY NewerKeepsOne DEF Append, TypeOK

\* No stamp of the log is ahead of the clock when an event that is not joins it.
LEMMA AppendStamped ==
  ASSUME TypeOK, NEW k \in Legs, NEW e \in StampedState, Append(k, e),
         e.at <= now, \A j \in Legs : durable[j].at <= now
  PROVE  \A j \in Legs : durable'[j].at <= now
<1> SUFFICES ASSUME NEW j \in Legs PROVE durable'[j].at <= now
  OBVIOUS
<1>1. durable[j] \in StampedState /\ durable[k] \in StampedState
  BY DEF TypeOK
<1>2. CASE j = k
  <2>1. durable'[j] = Newer(durable[k], e)
    BY <1>2 DEF Append, TypeOK
  <2>2. Newer(durable[k], e) \in {durable[k], e}
    BY <1>1, NewerKeepsOne
  <2> QED
    BY <2>1, <2>2, <1>2
<1>3. CASE j # k
  BY <1>3 DEF Append, TypeOK
<1> QED
  BY <1>2, <1>3

\* What the broker has taken stays logged while the log moves on.
LEMMA PlacedStaysLogged ==
  ASSUME DurableBeforeBroker, LogMovesOn, UNCHANGED placed
  PROVE  DurableBeforeBroker'
  BY DEF DurableBeforeBroker, LogMovesOn

\* No stamp lies ahead of the clock.
StampsPast ==
  /\ \A k \in Legs : durable[k].at <= now /\ memo[k].at <= now
  /\ \A t \in Threads : call[t].at <= now

\* What every step of one caller does to the calls.
LEMMA GoesOne ==
  ASSUME call \in [Threads -> CallType], NEW t \in Threads, NEW c, Goes(t, c)
  PROVE  call'[t] = c /\ \A u \in Threads \ {t} : call'[u] = call[u]
  BY DEF Goes

\* Moving on within a leg changes the stage of one thread's call and nothing
\* else.
LEMMA MoveOne ==
  ASSUME call \in [Threads -> CallType], NEW t \in Threads, NEW s, Move(t, s)
  PROVE  /\ call'[t].pc = s /\ call'[t].leg = call[t].leg /\ call'[t].at = call[t].at
         /\ call'[t].reply = call[t].reply
         /\ \A u \in Threads \ {t} : call'[u] = call[u]
<1>1. call[t] \in CallType
  OBVIOUS
<1> QED
  BY <1>1, GoesOne DEF Move, CallType

\* After a leg one thread's call has returned or looks up the next leg, which
\* it does only when the leg did not fail.
LEMMA AfterLegOne ==
  ASSUME call \in [Threads -> CallType], NEW t \in Threads, NEW s, AfterLeg(t, s)
  PROVE  /\ call'[t].at = call[t].at
         /\ \/ call'[t].pc = "returned" /\ call'[t].leg = call[t].leg
            \/ /\ call'[t].pc = "lookup" /\ call'[t].leg = call[t].leg + 1
               /\ s \notin SubmitStop
         /\ \A u \in Threads \ {t} : call'[u] = call[u]
<1>1. call[t] \in CallType
  OBVIOUS
<1>2. CASE s \in SubmitStop \/ Leg(t) = N
  BY <1>2, MoveOne DEF AfterLeg
<1>3. CASE ~(s \in SubmitStop \/ Leg(t) = N)
  <2> DEFINE c == [call[t] EXCEPT !.pc = "lookup", !.leg = Leg(t) + 1]
  <2>1. Goes(t, c)
    BY <1>3 DEF AfterLeg
  <2>2. c.at = call[t].at /\ c.pc = "lookup" /\ c.leg = call[t].leg + 1
    BY <1>1 DEF CallType, Leg
  <2> QED
    BY <1>3, <2>1, <2>2, GoesOne
<1> QED
  BY <1>2, <1>3

\* The inductive strengthening of DurableBeforeBroker: what callers past the
\* durable SUBMITTING rely on, and stamps that only a later clock can beat.
LoggedInv == DurableBeforeBroker /\ CallsLogged /\ StampsPast

\* Whatever interleaves or dies, the strengthening is an invariant.
THEOREM LoggedInvariant == Spec => []LoggedInv
<1> DEFINE Inv == DurableBeforeBroker /\ CallsLogged /\ StampsPast
<1>1. Init => Inv
  <2> SUFFICES ASSUME Init PROVE Inv
    OBVIOUS
  <2>1. DurableBeforeBroker
    BY DEF Init, DurableBeforeBroker
  <2>2. CallsLogged
    BY DEF Init, CallsLogged, SentIsLogged, NoCall, At, Sending
  <2>3. StampsPast
    BY DEF Init, StampsPast, Absent, NoMemo, NoCall
  <2> QED
    BY <2>1, <2>2, <2>3
<1>2. TypeOK /\ Inv /\ [Next]_vars => Inv'
  <2> SUFFICES ASSUME TypeOK, Inv, [Next]_vars PROVE Inv'
    OBVIOUS
  <2>0. /\ call \in [Threads -> CallType] /\ now \in Nat
        /\ \A t \in Threads : /\ call[t] \in CallType /\ Leg(t) \in Legs
                              /\ call[t].at \in Nat /\ call[t].at <= now
                              /\ SentIsLogged(t)
        /\ \A k \in Legs : durable[k] \in StampedState /\ durable[k].at \in Nat
                           /\ durable[k].at <= now /\ memo[k].at <= now
    BY DEF TypeOK, CallType, Leg, CallsLogged, StampsPast, StampedState
  <2>1. ASSUME NEW t \in Threads, Begin(t) PROVE Inv'
    <3>1. /\ \A u \in Threads \ {t} : call'[u] = call[u]
          /\ call'[t].at <= now
          /\ call'[t].pc \notin {"send"} \cup Sending
      <4>1. PICK p \in Plans : Goes(t, [NoCall EXCEPT !.pc = "lookup", !.plan = p])
        BY <2>1 DEF Begin
      <4>2. call'[t] = [NoCall EXCEPT !.pc = "lookup", !.plan = p]
        BY <2>0, <4>1, GoesOne
      <4>3. call'[t].pc = "lookup" /\ call'[t].at = 0
        BY <4>2 DEF NoCall
      <4> QED
        BY <2>0, <4>1, <4>3, GoesOne DEF Sending
    <3>2. LogMovesOn /\ UNCHANGED <<durable, memo, placed, now>>
      BY <2>1 DEF Begin, LogMovesOn
    <3>3. SentIsLogged(t)'
      BY <3>1 DEF SentIsLogged, At
    <3> QED
      BY <2>0, <3>1, <3>2, <3>3, OthersStayLogged, PlacedStaysLogged DEF StampsPast
  <2>2. ASSUME NEW t \in Threads, Expired(t) PROVE Inv'
    <3>1. /\ \A u \in Threads \ {t} : call'[u] = call[u]
          /\ call'[t].at <= now
          /\ call'[t].pc \notin {"send"} \cup Sending
      BY <2>0, <2>2, GoesOne DEF Expired, Sending, NoCall, CallType
    <3>2. LogMovesOn /\ UNCHANGED <<durable, memo, placed, now>>
      BY <2>2 DEF Expired, LogMovesOn
    <3>3. SentIsLogged(t)'
      BY <3>1 DEF SentIsLogged, At
    <3> QED
      BY <2>0, <3>1, <3>2, <3>3, OthersStayLogged, PlacedStaysLogged DEF StampsPast
  <2>3. ASSUME NEW t \in Threads, RateLimited(t) PROVE Inv'
    <3>1. /\ \A u \in Threads \ {t} : call'[u] = call[u]
          /\ call'[t].at <= now
          /\ call'[t].pc \notin {"send"} \cup Sending
      BY <2>0, <2>3, MoveOne DEF RateLimited, Sending
    <3>2. LogMovesOn /\ UNCHANGED <<durable, memo, placed, now>>
      BY <2>3 DEF RateLimited, LogMovesOn
    <3>3. SentIsLogged(t)'
      BY <3>1 DEF SentIsLogged, At
    <3> QED
      BY <2>0, <3>1, <3>2, <3>3, OthersStayLogged, PlacedStaysLogged DEF StampsPast
  <2>4. ASSUME NEW t \in Threads, LookupUnknown(t) PROVE Inv'
    <3>1. /\ \A u \in Threads \ {t} : call'[u] = call[u]
          /\ call'[t].at <= now
          /\ call'[t].pc \notin {"send"} \cup Sending
      BY <2>0, <2>4, MoveOne DEF LookupUnknown, Sending
    <3>2. LogMovesOn /\ UNCHANGED <<durable, memo, placed, now>>
      BY <2>4 DEF LookupUnknown, LogMovesOn
    <3>3. SentIsLogged(t)'
      BY <3>1 DEF SentIsLogged, At
    <3> QED
      BY <2>0, <3>1, <3>2, <3>3, OthersStayLogged, PlacedStaysLogged DEF StampsPast
  <2>5. ASSUME NEW t \in Threads, LookupKnown(t) PROVE Inv'
    <3>1. /\ \A u \in Threads \ {t} : call'[u] = call[u]
          /\ call'[t].at <= now
          /\ call'[t].pc \notin {"send"} \cup Sending
      BY <2>0, <2>5, AfterLegOne DEF LookupKnown, Sending
    <3>2. LogMovesOn /\ UNCHANGED <<durable, memo, placed, now>>
      BY <2>5 DEF LookupKnown, LogMovesOn
    <3>3. SentIsLogged(t)'
      BY <3>1 DEF SentIsLogged, At
    <3> QED
      BY <2>0, <3>1, <3>2, <3>3, OthersStayLogged, PlacedStaysLogged DEF StampsPast
  <2>6. ASSUME NEW t \in Threads, LookupNew(t) PROVE Inv'
    <3>1. /\ \A u \in Threads \ {t} : call'[u] = call[u]
          /\ call'[t].at <= now
          /\ call'[t].pc \notin {"send"} \cup Sending
      BY <2>0, <2>6, MoveOne DEF LookupNew, Sending
    <3>2. LogMovesOn /\ UNCHANGED <<durable, memo, placed, now>>
      BY <2>6 DEF LookupNew, LogMovesOn
    <3>3. SentIsLogged(t)'
      BY <3>1 DEF SentIsLogged, At
    <3> QED
      BY <2>0, <3>1, <3>2, <3>3, OthersStayLogged, PlacedStaysLogged DEF StampsPast
  <2>7. ASSUME NEW t \in Threads, PersistCreated(t) PROVE Inv'
    <3>1. /\ \A u \in Threads \ {t} : call'[u] = call[u]
          /\ call'[t].pc = "send" /\ call'[t].leg = Leg(t)
          /\ call'[t].at = now + 1 /\ now' = now + 1
      <4> DEFINE c == [call[t] EXCEPT !.pc = "send", !.at = now + 1]
      <4>1. Goes(t, c) /\ now' = now + 1
        BY <2>7 DEF PersistCreated
      <4>2. c.pc = "send" /\ c.leg = Leg(t) /\ c.at = now + 1
        BY <2>0 DEF CallType, Leg
      <4> QED
        BY <2>0, <4>1, <4>2, GoesOne
    <3>2. /\ LogMovesOn /\ UNCHANGED <<memo, placed>>
          /\ \A k \in Legs : durable'[k].at <= now'
          /\ durable'[Leg(t)].state # "NONE"
      <4>1. CASE durable[Leg(t)].state = "NONE"
        <5>1. durable' = [durable EXCEPT ![Leg(t)] = [state |-> "CREATED", at |-> now + 1]]
          BY <2>0, <2>7, <4>1 DEF PersistCreated, Append, Newer
        <5> QED
          BY <2>0, <2>7, <3>1, <4>1, <5>1 DEF PersistCreated, LogMovesOn, TypeOK
      <4>2. CASE durable[Leg(t)].state # "NONE"
        BY <2>0, <2>7, <3>1, <4>2 DEF PersistCreated, LogMovesOn
      <4> QED
        BY <4>1, <4>2
    <3>3. SentIsLogged(t)'
      BY <2>0, <3>1, <3>2 DEF SentIsLogged, At, Leg, Sending
    <3>4. DurableBeforeBroker'
      BY <2>0, <3>2 DEF LogMovesOn, DurableBeforeBroker
    <3>5. StampsPast'
      <4>1. \A u \in Threads : call'[u].at <= now'
        BY <2>0, <3>1
      <4>2. \A k \in Legs : memo'[k].at <= now'
        BY <2>0, <3>1, <3>2 DEF TypeOK, MemoType
      <4> QED
        BY <3>2, <4>1, <4>2 DEF StampsPast
    <3> QED
      BY <3>1, <3>2, <3>3, <3>4, <3>5, OthersStayLogged
  <2>8. ASSUME NEW t \in Threads, PersistSubmitting(t) PROVE Inv'
    <3> DEFINE e == [state |-> "SUBMITTING", at |-> call[t].at]
    <3>1. /\ \A u \in Threads \ {t} : call'[u] = call[u]
          /\ call'[t].pc = "broker" /\ call'[t].leg = Leg(t)
          /\ call'[t].at = call[t].at
      BY <2>0, <2>8, MoveOne DEF PersistSubmitting, Leg
    <3>2. e \in StampedState /\ Append(Leg(t), e) /\ e.state \notin {"NONE", "CREATED"}
      BY <2>0, <2>8, EventTypes, StateNames DEF PersistSubmitting
    <3>3. LogMovesOn
      BY <2>0, <3>2, AppendMovesOn
    <3>4. \A k \in Legs : durable'[k].at <= now
      BY <2>0, <3>2, AppendStamped
    <3>5. SentIsLogged(t)'
      <4>1. durable'[Leg(t)].state \notin {"NONE", "CREATED"}
        BY <2>0, <2>8, <3>2, NewerKeepsOne DEF Append, TypeOK, SentIsLogged, At,
           PersistSubmitting, Newer
      <4> QED
        BY <3>1, <4>1 DEF SentIsLogged, At, Leg, Sending
    <3> QED
      BY <2>0, <2>8, <3>1, <3>3, <3>4, <3>5, OthersStayLogged, PlacedStaysLogged
         DEF PersistSubmitting, StampsPast
  <2>9. ASSUME NEW t \in Threads, BrokerSeesKey(t) PROVE Inv'
    <3>1. /\ \A u \in Threads \ {t} : call'[u] = call[u]
          /\ call'[t].at <= now /\ call'[t].pc \in {"adopt", "raised"}
      <4> DEFINE known == memo[Leg(t)]
                 c == [call[t] EXCEPT !.pc = "adopt", !.at = known.at,
                                      !.reply = known.state]
      <4>1. Goes(t, c) \/ Move(t, "raised")
        BY <2>9 DEF BrokerSeesKey
      <4>2. c.pc = "adopt" /\ c.at = known.at
        BY <2>0 DEF CallType
      <4>3. CASE Goes(t, c)
        BY <2>0, <4>2, <4>3, GoesOne
      <4>4. CASE Move(t, "raised")
        BY <2>0, <4>4, MoveOne
      <4> QED
        BY <4>1, <4>3, <4>4
    <3>2. LogMovesOn /\ UNCHANGED <<durable, memo, placed, now>>
      BY <2>9 DEF BrokerSeesKey, LogMovesOn
    <3>3. SentIsLogged(t)'
      BY <3>1 DEF SentIsLogged, At, Sending
    <3> QED
      BY <2>0, <3>1, <3>2, <3>3, OthersStayLogged, PlacedStaysLogged DEF StampsPast
  <2>10. ASSUME NEW t \in Threads, BrokerSeesNone(t) PROVE Inv'
    <3>1. /\ \A u \in Threads \ {t} : call'[u] = call[u]
          /\ call'[t].at = call[t].at /\ call'[t].pc = "accept" /\ call'[t].leg = Leg(t)
      BY <2>0, <2>10, MoveOne DEF BrokerSeesNone, Leg
    <3>2. LogMovesOn /\ UNCHANGED <<durable, memo, placed, now>>
      BY <2>10 DEF BrokerSeesNone, LogMovesOn
    <3>3. SentIsLogged(t)'
      BY <2>0, <2>10, <3>1, <3>2 DEF SentIsLogged, At, Leg, Sending, BrokerSeesNone
    <3> QED
      BY <2>0, <3>1, <3>2, <3>3, OthersStayLogged, PlacedStaysLogged DEF StampsPast
  <2>11. ASSUME NEW t \in Threads, BrokerReplies(t) PROVE Inv'
    <3>1. /\ \A u \in Threads \ {t} : call'[u] = call[u]
          /\ call'[t].at = now + 1 /\ call'[t].pc = "adopt"
      <4>1. PICK s \in Outcomes \cap Replies :
              Goes(t, [call[t] EXCEPT !.pc = "adopt", !.at = now + 1, !.reply = s])
        BY <2>11 DEF BrokerReplies
      <4> DEFINE c == [call[t] EXCEPT !.pc = "adopt", !.at = now + 1, !.reply = s]
      <4>2. c.pc = "adopt" /\ c.at = now + 1
        BY <2>0 DEF CallType
      <4> QED
        BY <2>0, <4>1, <4>2, GoesOne
    <3>2. /\ LogMovesOn /\ UNCHANGED durable
          /\ \A k \in Legs \ {Leg(t)} : placed'[k] = placed[k]
          /\ durable[Leg(t)].state \notin {"NONE", "CREATED"}
      BY <2>0, <2>11 DEF BrokerReplies, LogMovesOn, SentIsLogged, At, Sending, Place, TypeOK
    <3>3. SentIsLogged(t)'
      BY <3>1 DEF SentIsLogged, At, Sending
    <3>4. DurableBeforeBroker'
      BY <2>0, <3>2 DEF DurableBeforeBroker
    <3>5. StampsPast'
      <4>1. now' = now + 1 /\ \A u \in Threads : call'[u].at <= now'
        BY <2>0, <2>11, <3>1 DEF BrokerReplies
      <4>2. \A k \in Legs : memo[k].at \in Nat
        BY DEF TypeOK, MemoType
      <4>3. \A k \in Legs : memo'[k].at <= now'
        BY <2>0, <2>11, <4>1, <4>2 DEF BrokerReplies, Remember, TypeOK
      <4>4. \A k \in Legs : durable'[k].at <= now'
        BY <2>0, <3>2, <4>1
      <4> QED
        BY <4>1, <4>3, <4>4 DEF StampsPast
    <3> QED
      BY <2>0, <3>1, <3>2, <3>3, <3>4, <3>5, OthersStayLogged
  <2>12. ASSUME NEW t \in Threads, BrokerTimesOut(t) PROVE Inv'
    <3>1. /\ \A u \in Threads \ {t} : call'[u] = call[u]
          /\ call'[t].at = call[t].at /\ call'[t].pc = "timedout"
      BY <2>0, <2>12, MoveOne DEF BrokerTimesOut, CallType
    <3>2. /\ LogMovesOn /\ UNCHANGED durable
          /\ \A k \in Legs \ {Leg(t)} : placed'[k] = placed[k]
          /\ durable[Leg(t)].state \notin {"NONE", "CREATED"}
      BY <2>0, <2>12 DEF BrokerTimesOut, LogMovesOn, SentIsLogged, At, Sending, Place, TypeOK
    <3>3. SentIsLogged(t)'
      BY <3>1 DEF SentIsLogged, At, Sending
    <3>4. DurableBeforeBroker'
      BY <2>0, <3>2 DEF DurableBeforeBroker
    <3>5. StampsPast'
      BY <2>0, <2>12, <3>1, <3>2 DEF StampsPast, BrokerTimesOut, Remember, TypeOK
    <3> QED
      BY <2>0, <3>1, <3>2, <3>3, <3>4, <3>5, OthersStayLogged
  <2>13. ASSUME NEW t \in Threads, BrokerFails(t) PROVE Inv'
    <3>1. /\ \A u \in Threads \ {t} : call'[u] = call[u]
          /\ call'[t].at = call[t].at /\ call'[t].pc = "raised"
      BY <2>0, <2>13, MoveOne DEF BrokerFails, CallType
    <3>2. /\ LogMovesOn /\ UNCHANGED durable
          /\ \A k \in Legs \ {Leg(t)} : placed'[k] = placed[k]
          /\ durable[Leg(t)].state \notin {"NONE", "CREATED"}
      BY <2>0, <2>13 DEF BrokerFails, LogMovesOn, SentIsLogged, At, Sending, Place, TypeOK
    <3>3. SentIsLogged(t)'
      BY <3>1 DEF SentIsLogged, At, Sending
    <3>4. DurableBeforeBroker'
      BY <2>0, <3>2 DEF DurableBeforeBroker
    <3>5. StampsPast'
      BY <2>0, <2>13, <3>1, <3>2 DEF StampsPast, BrokerFails, Remember, TypeOK
    <3> QED
      BY <2>0, <3>1, <3>2, <3>3, <3>4, <3>5, OthersStayLogged
  <2>14. ASSUME NEW t \in Threads, PersistUnknown(t) PROVE Inv'
    <3> DEFINE e == [state |-> "UNKNOWN", at |-> call[t].at]
    <3>1. /\ \A u \in Threads \ {t} : call'[u] = call[u]
          /\ call'[t].pc = "frozen" /\ call'[t].leg = Leg(t)
          /\ call'[t].at = call[t].at
      BY <2>0, <2>14, MoveOne DEF PersistUnknown, Leg
    <3>2. e \in StampedState /\ Append(Leg(t), e) /\ e.state \notin {"NONE", "CREATED"}
      BY <2>0, <2>14, EventTypes, StateNames DEF PersistUnknown
    <3>3. LogMovesOn
      BY <2>0, <3>2, AppendMovesOn
    <3>4. \A k \in Legs : durable'[k].at <= now
      BY <2>0, <3>2, AppendStamped
    <3>5. SentIsLogged(t)'
      BY <3>1 DEF SentIsLogged, At, Sending
    <3> QED
      BY <2>0, <2>14, <3>1, <3>3, <3>4, <3>5, OthersStayLogged, PlacedStaysLogged
         DEF PersistUnknown, StampsPast
  <2>15. ASSUME NEW t \in Threads, PersistFinal(t) PROVE Inv'
    <3> DEFINE e == [state |-> call[t].reply, at |-> call[t].at]
    <3>1. /\ \A u \in Threads \ {t} : call'[u] = call[u]
          /\ call'[t].at = call[t].at
          /\ call'[t].pc \in {"returned", "lookup", "raised"}
      BY <2>0, <2>15, MoveOne, AfterLegOne DEF PersistFinal
    <3>2. LogMovesOn /\ \A k \in Legs : durable'[k].at <= now
      <4>1. CASE CanOrder("SUBMITTING", call[t].reply, "BROKER_EVENT")
        <5>1. /\ e \in StampedState /\ Append(Leg(t), e)
              /\ e.state \notin {"NONE", "CREATED"}
          BY <2>0, <2>15, <4>1, LegalAnswers DEF PersistFinal, StampedState, CallType
        <5>2. LogMovesOn
          BY <2>0, <5>1, AppendMovesOn
        <5>3. e.at <= now
          BY <2>0
        <5>4. \A k \in Legs : durable'[k] = durable[k] \/ durable'[k] = e
          BY <2>0, <5>1, NewerKeepsOne DEF Append, TypeOK
        <5> QED
          BY <2>0, <5>2, <5>3, <5>4
      <4>2. CASE ~CanOrder("SUBMITTING", call[t].reply, "BROKER_EVENT")
        BY <2>0, <2>15, <4>2 DEF PersistFinal, LogMovesOn
      <4> QED
        BY <4>1, <4>2
    <3>3. SentIsLogged(t)'
      BY <3>1 DEF SentIsLogged, At, Sending
    <3>4. UNCHANGED <<placed, memo, now>>
      BY <2>15 DEF PersistFinal
    <3> QED
      BY <2>0, <3>1, <3>2, <3>3, <3>4, OthersStayLogged, PlacedStaysLogged DEF StampsPast
  <2>16. ASSUME NEW k \in Legs, BrokerAdvances(k) PROVE Inv'
    BY <2>16 DEF BrokerAdvances, DurableBeforeBroker, CallsLogged, SentIsLogged,
       StampsPast, At, Leg
  <2>17. CASE Crash
    <3>1. DurableBeforeBroker'
      BY <2>17 DEF Crash, DurableBeforeBroker
    <3>2. CallsLogged'
      BY <2>17 DEF Crash, CallsLogged, SentIsLogged, NoCall, At, Sending
    <3>3. StampsPast'
      BY <2>0, <2>17 DEF Crash, StampsPast, NoCall, NoMemo
    <3> QED
      BY <3>1, <3>2, <3>3
  <2>18. CASE UNCHANGED vars
    BY <2>18 DEF vars, DurableBeforeBroker, CallsLogged, SentIsLogged, StampsPast, At, Leg
  <2> QED
    BY <2>1, <2>2, <2>3, <2>4, <2>5, <2>6, <2>7, <2>8, <2>9, <2>10, <2>11, <2>12, <2>13, <2>14, <2>15, <2>16, <2>17, <2>18 DEF Next, Step
<1>3. Inv <=> LoggedInv
  BY DEF LoggedInv
<1> QED
  BY <1>1, <1>2, <1>3, TypeCorrect, PTL DEF Spec

\* The broker never has an order of which a restart would know nothing, or
\* only CREATED: for any number of callers, whatever interleaves or dies.
THEOREM DurableFirst == Spec => []DurableBeforeBroker
<1>1. LoggedInv => DurableBeforeBroker
  BY DEF LoggedInv
<1> QED
  BY <1>1, LoggedInvariant, PTL

-----------------------------------------------------------------------------

\* One caller at a time: the engine's cache is the log, and what the caller
\* has in hand fixes what the log and the broker hold of its leg.
CacheIsLog == cache = durable

\* The legs before k are in the log, and none of them as a reason to stop.
GoodBefore(k) ==
  \A j \in Legs : j < k => durable[j].state \notin SubmitStop \cup {"NONE"}

NothingAfter(k) == \A j \in Legs : j > k => durable[j].state = "NONE"

InHand(t) ==
  LET k == Leg(t)
      stage == call[t].pc
      Sent == durable[k].state = "SUBMITTING" /\ durable[k].at <= call[t].at
  IN  /\ stage \notin Resting => GoodBefore(k)
      /\ stage = "create" => durable[k].state = "NONE"
      /\ stage = "send" => durable[k].state = "CREATED" /\ durable[k].at <= call[t].at
      /\ stage \in Sending => Sent /\ placed[k] = 0 /\ memo[k] = NoMemo
      /\ stage = "timedout" => Sent
      /\ stage = "adopt" => /\ Sent /\ placed[k] = 1
                            /\ call[t].reply \in OrderTerminal => broker[k] = call[t].reply
      /\ stage \in Sending \cup {"send", "timedout", "adopt"} => NothingAfter(k)

\* What the log says of a leg, whoever is at work.
LegInOrder(k) ==
  /\ durable[k].state # "NONE" => GoodBefore(k)
  /\ placed[k] \in {0, 1}
  /\ placed[k] > 0 \/ memo[k] # NoMemo => durable[k].state \notin {"NONE", "CREATED"}
  /\ durable[k].state \in OrderTerminal => broker[k] = durable[k].state

OneCallerInv ==
  /\ CacheIsLog
  /\ \A t \in Threads : InHand(t)
  /\ \A k \in Legs : LegInOrder(k)

\* An event appended to the leg in hand, under a stamp no older than the
\* log's, is what log and cache then hold, and leaves every leg in order.
LEMMA AppendInOrder ==
  ASSUME TypeOK, CacheIsLog, \A j \in Legs : LegInOrder(j),
         NEW k \in Legs, NEW e \in StampedState, Append(k, e),
         UNCHANGED <<placed, memo, broker>>,
         e.at >= durable[k].at, e.state # "NONE",
         e.state = "CREATED" => placed[k] = 0 /\ memo[k] = NoMemo,
         e.state \in OrderTerminal => broker[k] = e.state,
         GoodBefore(k), NothingAfter(k)
  PROVE  /\ durable' = [durable EXCEPT ![k] = e]
         /\ CacheIsLog' /\ \A j \in Legs : LegInOrder(j)'
         /\ GoodBefore(k)' /\ NothingAfter(k)'
<1>1. durable' = [durable EXCEPT ![k] = e]
  BY NewerKeepsOne DEF Append, TypeOK
<1>2. /\ durable'[k] = e
      /\ \A j \in Legs \ {k} : durable'[j] = durable[j]
  BY <1>1 DEF TypeOK
<1>3. CacheIsLog'
  BY <1>1 DEF Append, CacheIsLog
<1>4. GoodBefore(k)' /\ NothingAfter(k)'
  BY <1>2 DEF GoodBefore, NothingAfter, Legs
<1>5. ASSUME NEW j \in Legs PROVE LegInOrder(j)'
  <2>1. CASE j = k
    BY <1>2, <1>4, <2>1 DEF LegInOrder
  <2>2. CASE j # k
    <3>1. durable'[j] = durable[j] /\ LegInOrder(j)
      BY <1>2, <2>2
    <3>2. durable[j].state # "NONE" => GoodBefore(j)'
      <4> SUFFICES ASSUME durable[j].state # "NONE" PROVE GoodBefore(j)'
        OBVIOUS
      <4>1. j < k /\ GoodBefore(j)
        BY <2>2, <3>1 DEF NothingAfter, LegInOrder, Legs
      <4> QED
        BY <1>2, <4>1 DEF GoodBefore, Legs
    <3> QED
      BY <3>1, <3>2 DEF LegInOrder
  <2> QED
    BY <2>1, <2>2
<1> QED
  BY <1>1, <1>3, <1>4, <1>5

\* A step that touches only the calls leaves every leg in order.
LEMMA CallsOnly ==
  ASSUME CacheIsLog, \A j \in Legs : LegInOrder(j),
         UNCHANGED <<durable, cache, broker, placed, memo>>
  PROVE  CacheIsLog' /\ \A j \in Legs : LegInOrder(j)'
  BY DEF CacheIsLog, LegInOrder, GoodBefore

\* A call that is not running has no order in hand at the broker.
LEMMA RestingInHand ==
  ASSUME NEW t \in Threads, call'[t].pc \in Resting
  PROVE  InHand(t)'
  BY DEF InHand, Resting, Sending

\* One caller: where it stands, log, cache and broker agree as OneCallerInv says.
THEOREM OneCallerInvariant ==
  ASSUME OneCaller
  PROVE  Spec => []OneCallerInv
<1>1. Init => OneCallerInv
  <2> SUFFICES ASSUME Init PROVE OneCallerInv
    OBVIOUS
  <2>1. CacheIsLog
    BY DEF Init, CacheIsLog
  <2>2. \A t \in Threads : InHand(t)
    BY DEF Init, InHand, NoCall, Resting, Sending
  <2>3. \A k \in Legs : LegInOrder(k)
    BY DEF Init, LegInOrder, Absent, OrderTerminal
  <2> QED
    BY <2>1, <2>2, <2>3 DEF OneCallerInv
<1>2. TypeOK /\ LoggedInv /\ OneCallerInv /\ [Next]_vars => OneCallerInv'
  <2> SUFFICES ASSUME TypeOK, LoggedInv, OneCallerInv, [Next]_vars PROVE OneCallerInv'
    OBVIOUS
  <2>0. /\ call \in [Threads -> CallType] /\ now \in Nat
        /\ CacheIsLog /\ \A j \in Legs : LegInOrder(j)
        /\ \A t \in Threads : /\ call[t] \in CallType /\ Leg(t) \in Legs
                              /\ call[t].at \in Nat /\ call[t].at <= now
                              /\ InHand(t)
        /\ \A k \in Legs : /\ durable[k] \in StampedState /\ durable[k].at \in Nat
                           /\ durable[k].at <= now
    BY DEF TypeOK, CallType, Leg, OneCallerInv, LoggedInv, StampsPast, StampedState
  <2>a. ASSUME NEW t \in Threads, InHand(t)', CacheIsLog', \A j \in Legs : LegInOrder(j)'
        PROVE  OneCallerInv'
    BY <2>a, OneCaller DEF OneCallerInv, OneCaller
  <2>1. ASSUME NEW t \in Threads, Begin(t) PROVE OneCallerInv'
    <3>1. PICK p \in Plans : Goes(t, [NoCall EXCEPT !.pc = "lookup", !.plan = p])
      BY <2>1 DEF Begin
    <3>2. call'[t] = [NoCall EXCEPT !.pc = "lookup", !.plan = p]
      BY <2>0, <3>1, GoesOne
    <3>3. call'[t].pc = "lookup" /\ call'[t].leg = 1
      BY <3>2 DEF NoCall
    <3>4. InHand(t)'
      BY <3>3 DEF InHand, Leg, GoodBefore, Legs, Sending
    <3> QED
      BY <2>0, <2>1, <2>a, <3>4, CallsOnly DEF Begin
  <2>2. ASSUME NEW t \in Threads, Expired(t) \/ RateLimited(t) \/ LookupUnknown(t)
        PROVE  OneCallerInv'
    <3>1. call'[t].pc \in Resting
      <4>1. CASE Expired(t)
        <5>1. call'[t] = [NoCall EXCEPT !.pc = "raised"]
          BY <2>0, <4>1, GoesOne DEF Expired
        <5> QED
          BY <5>1 DEF NoCall, Resting
      <4>2. CASE RateLimited(t) \/ LookupUnknown(t)
        BY <2>0, <4>2, MoveOne DEF RateLimited, LookupUnknown, Resting
      <4> QED
        BY <2>2, <4>1, <4>2
    <3> QED
      BY <2>0, <2>2, <2>a, <3>1, RestingInHand, CallsOnly
         DEF Expired, RateLimited, LookupUnknown
  <2>3. ASSUME NEW t \in Threads, LookupKnown(t) PROVE OneCallerInv'
    <3>1. /\ durable[Leg(t)].state # "NONE" /\ GoodBefore(Leg(t))
          /\ AfterLeg(t, durable[Leg(t)].state)
      BY <2>0, <2>3 DEF LookupKnown, CacheIsLog, LegInOrder
    <3>2. InHand(t)'
      <4>1. CASE call'[t].pc = "returned"
        BY <4>1, RestingInHand DEF Resting
      <4>2. CASE /\ call'[t].pc = "lookup" /\ call'[t].leg = call[t].leg + 1
                 /\ durable[Leg(t)].state \notin SubmitStop
        <5>1. GoodBefore(Leg(t) + 1)
          BY <2>0, <3>1, <4>2, LegsAssumption DEF GoodBefore, Legs
        <5>2. GoodBefore(Leg(t))'
          BY <2>3, <4>2, <5>1 DEF LookupKnown, Leg, GoodBefore
        <5> QED
          BY <4>2, <5>2 DEF InHand, Sending
      <4> QED
        BY <2>0, <3>1, <4>1, <4>2, AfterLegOne
    <3> QED
      BY <2>0, <2>3, <2>a, <3>2, CallsOnly DEF LookupKnown
  <2>4. ASSUME NEW t \in Threads, LookupNew(t) PROVE OneCallerInv'
    <3>1. /\ durable[Leg(t)].state = "NONE" /\ GoodBefore(Leg(t))
          /\ call'[t].pc = "create" /\ call'[t].leg = call[t].leg
      BY <2>0, <2>4, MoveOne DEF LookupNew, CacheIsLog, InHand, At, Resting
    <3>2. InHand(t)'
      BY <2>4, <3>1 DEF InHand, Sending, LookupNew, Leg, GoodBefore
    <3> QED
      BY <2>0, <2>4, <2>a, <3>2, CallsOnly DEF LookupNew
  <2>5. ASSUME NEW t \in Threads, PersistCreated(t) PROVE OneCallerInv'
    <3>0. PICK k \in Legs : k = Leg(t)
      BY <2>0
    <3> DEFINE e == [state |-> "CREATED", at |-> now + 1]
               c == [call[t] EXCEPT !.pc = "send", !.at = now + 1]
    <3>1. durable[k].state = "NONE" /\ GoodBefore(k)
      BY <2>0, <3>0, <2>5 DEF PersistCreated, InHand, At, Resting
    <3>2. NothingAfter(k)
      BY <2>0, <3>0, <3>1 DEF NothingAfter, LegInOrder, GoodBefore
    <3>3. placed[k] = 0 /\ memo[k] = NoMemo
      BY <2>0, <3>0, <3>1 DEF LegInOrder
    <3>4. e \in StampedState /\ Append(k, e) /\ e.at >= durable[k].at
      BY <2>0, <3>0, <2>5, <3>1, EventTypes, StateNames DEF PersistCreated
    <3>5. /\ durable' = [durable EXCEPT ![k] = e]
          /\ CacheIsLog' /\ \A j \in Legs : LegInOrder(j)'
          /\ GoodBefore(k)' /\ NothingAfter(k)'
      BY <2>0, <3>0, <2>5, <3>1, <3>2, <3>3, <3>4, AppendInOrder DEF PersistCreated, OrderTerminal
    <3>6. c.pc = "send" /\ c.leg = k /\ c.at = now + 1 /\ call'[t] = c
      BY <2>0, <3>0, <2>5, GoesOne DEF PersistCreated, CallType, Leg
    <3>7. InHand(t)'
      BY <2>0, <3>0, <3>5, <3>6 DEF InHand, Sending, Leg, GoodBefore, NothingAfter, Resting, TypeOK
    <3> QED
      BY <2>a, <3>5, <3>7
  <2>6. ASSUME NEW t \in Threads, PersistSubmitting(t) PROVE OneCallerInv'
    <3>0. PICK k \in Legs : k = Leg(t)
      BY <2>0
    <3> DEFINE e == [state |-> "SUBMITTING", at |-> call[t].at]
    <3>1. /\ durable[k].state = "CREATED" /\ durable[k].at <= call[t].at
          /\ GoodBefore(k) /\ NothingAfter(k)
      BY <2>0, <3>0, <2>6 DEF PersistSubmitting, InHand, At, Resting
    <3>2. placed[k] = 0 /\ memo[k] = NoMemo
      BY <2>0, <3>0, <3>1 DEF LegInOrder
    <3>3. e \in StampedState /\ Append(k, e) /\ e.at >= durable[k].at
      BY <2>0, <3>0, <2>6, <3>1, EventTypes, StateNames DEF PersistSubmitting
    <3>4. /\ durable' = [durable EXCEPT ![k] = e]
          /\ CacheIsLog' /\ \A j \in Legs : LegInOrder(j)'
          /\ GoodBefore(k)' /\ NothingAfter(k)'
      BY <2>0, <3>0, <2>6, <3>1, <3>3, AppendInOrder DEF PersistSubmitting, OrderTerminal
    <3>5. call'[t].pc = "broker" /\ call'[t].leg = k /\ call'[t].at = call[t].at
      BY <2>0, <3>0, <2>6, MoveOne DEF PersistSubmitting, Leg
    <3>6. durable'[k] = e /\ placed'[k] = 0 /\ memo'[k] = NoMemo
      BY <2>0, <3>0, <2>6, <3>2, <3>4 DEF PersistSubmitting, TypeOK
    <3>7. InHand(t)'
      BY <2>0, <3>0, <3>4, <3>5, <3>6 DEF InHand, Sending, Leg, GoodBefore, NothingAfter, Resting
    <3> QED
      BY <2>a, <3>4, <3>7
  <2>7. ASSUME NEW t \in Threads, BrokerSeesKey(t) PROVE OneCallerInv'
    BY <2>0, <2>7 DEF BrokerSeesKey, InHand, At, Sending
  <2>8. ASSUME NEW t \in Threads, BrokerSeesNone(t) PROVE OneCallerInv'
    <3>1. call'[t].pc = "accept" /\ call'[t].leg = call[t].leg /\ call'[t].at = call[t].at
      BY <2>0, <2>8, MoveOne DEF BrokerSeesNone
    <3>2. InHand(t)'
      BY <2>0, <2>8, <3>1
         DEF BrokerSeesNone, InHand, At, Sending, Resting, Leg, GoodBefore, NothingAfter
    <3> QED
      BY <2>0, <2>8, <2>a, <3>2, CallsOnly DEF BrokerSeesNone
  <2>9. ASSUME NEW t \in Threads, BrokerReplies(t) PROVE OneCallerInv'
    <3>0. PICK k \in Legs : k = Leg(t)
      BY <2>0
    <3>1. /\ durable[k].state = "SUBMITTING" /\ durable[k].at <= call[t].at
          /\ placed[k] = 0 /\ GoodBefore(k) /\ NothingAfter(k)
      BY <2>0, <3>0, <2>9 DEF BrokerReplies, InHand, At, Sending, Resting
    <3>2. /\ UNCHANGED <<durable, cache>> /\ placed'[k] \in {0, 1}
          /\ \A j \in Legs \ {k} : /\ placed'[j] = placed[j] /\ broker'[j] = broker[j]
                                    /\ memo'[j] = memo[j]
      BY <2>0, <3>0, <2>9, <3>1 DEF BrokerReplies, Place, Remember, TypeOK
    <3>3. CacheIsLog' /\ \A j \in Legs : LegInOrder(j)'
      BY <2>0, <3>0, <3>1, <3>2 DEF CacheIsLog, LegInOrder, GoodBefore, OrderTerminal
    <3>4. InHand(t)'
      <4>1. PICK s \in Outcomes \cap Replies :
              /\ Place(k, s)
              /\ Goes(t, [call[t] EXCEPT !.pc = "adopt", !.at = now + 1, !.reply = s])
        BY <2>9, <3>0 DEF BrokerReplies
      <4> DEFINE c == [call[t] EXCEPT !.pc = "adopt", !.at = now + 1, !.reply = s]
      <4>2. c.pc = "adopt" /\ c.leg = k /\ c.at = now + 1 /\ c.reply = s
        BY <2>0, <3>0 DEF CallType, Leg
      <4>3. call'[t] = c
        BY <2>0, <3>0, <4>1, GoesOne
      <4>4. placed'[k] = 1 /\ broker'[k] = s
        BY <2>0, <3>0, <3>1, <4>1 DEF Place, TypeOK
      <4>5. durable'[k].at <= now + 1
        BY <2>0, <3>0, <3>2
      <4>6. GoodBefore(k)' /\ NothingAfter(k)'
        BY <3>0, <3>1, <3>2 DEF GoodBefore, NothingAfter
      <4> QED
        BY <3>0, <3>1, <3>2, <4>2, <4>3, <4>4, <4>5, <4>6
           DEF InHand, Sending, Resting, Leg, GoodBefore, NothingAfter
    <3> QED
      BY <2>a, <3>3, <3>4
  <2>10. ASSUME NEW t \in Threads, BrokerTimesOut(t) PROVE OneCallerInv'
    <3>0. PICK k \in Legs : k = Leg(t)
      BY <2>0
    <3>1. /\ durable[k].state = "SUBMITTING" /\ durable[k].at <= call[t].at
          /\ placed[k] = 0 /\ GoodBefore(k) /\ NothingAfter(k)
      BY <2>0, <3>0, <2>10 DEF BrokerTimesOut, InHand, At, Sending, Resting
    <3>2. /\ UNCHANGED <<durable, cache>> /\ placed'[k] \in {0, 1}
          /\ \A j \in Legs \ {k} : /\ placed'[j] = placed[j] /\ broker'[j] = broker[j]
                                    /\ memo'[j] = memo[j]
      BY <2>0, <3>0, <2>10, <3>1 DEF BrokerTimesOut, Place, Remember, TypeOK
    <3>3. CacheIsLog' /\ \A j \in Legs : LegInOrder(j)'
      BY <2>0, <3>0, <3>1, <3>2 DEF CacheIsLog, LegInOrder, GoodBefore, OrderTerminal
    <3>4. InHand(t)'
      <4>1. call'[t].pc = "timedout" /\ call'[t].leg = k /\ call'[t].at = call[t].at
        BY <2>0, <3>0, <2>10, MoveOne DEF BrokerTimesOut, Leg
      <4> QED
        BY <3>0, <3>1, <3>2, <4>1 DEF InHand, Sending, Resting, Leg, GoodBefore, NothingAfter
    <3> QED
      BY <2>a, <3>3, <3>4
  <2>11. ASSUME NEW t \in Threads, BrokerFails(t) PROVE OneCallerInv'
    <3>0. PICK k \in Legs : k = Leg(t)
      BY <2>0
    <3>1. /\ durable[k].state = "SUBMITTING" /\ durable[k].at <= call[t].at
          /\ placed[k] = 0 /\ GoodBefore(k) /\ NothingAfter(k)
      BY <2>0, <3>0, <2>11 DEF BrokerFails, InHand, At, Sending, Resting
    <3>2. /\ UNCHANGED <<durable, cache>> /\ placed'[k] \in {0, 1}
          /\ \A j \in Legs \ {k} : /\ placed'[j] = placed[j] /\ broker'[j] = broker[j]
                                    /\ memo'[j] = memo[j]
      BY <2>0, <3>0, <2>11, <3>1 DEF BrokerFails, Place, Remember, TypeOK
    <3>3. CacheIsLog' /\ \A j \in Legs : LegInOrder(j)'
      BY <2>0, <3>0, <3>1, <3>2 DEF CacheIsLog, LegInOrder, GoodBefore, OrderTerminal
    <3>4. InHand(t)'
      <4>1. call'[t].pc = "raised"
        BY <2>0, <3>0, <2>11, MoveOne DEF BrokerFails
      <4> QED
        BY <4>1, RestingInHand DEF Resting
    <3> QED
      BY <2>a, <3>3, <3>4
  <2>12. ASSUME NEW t \in Threads, PersistUnknown(t) PROVE OneCallerInv'
    <3>0. PICK k \in Legs : k = Leg(t)
      BY <2>0
    <3> DEFINE e == [state |-> "UNKNOWN", at |-> call[t].at]
    <3>1. /\ durable[k].at <= call[t].at /\ GoodBefore(k) /\ NothingAfter(k)
      BY <2>0, <3>0, <2>12 DEF PersistUnknown, InHand, At, Resting
    <3>2. e \in StampedState /\ Append(k, e) /\ e.at >= durable[k].at
      BY <2>0, <3>0, <2>12, <3>1, EventTypes, StateNames DEF PersistUnknown
    <3>3. CacheIsLog' /\ \A j \in Legs : LegInOrder(j)'
      BY <2>0, <3>0, <2>12, <3>1, <3>2, AppendInOrder DEF PersistUnknown, OrderTerminal
    <3>4. call'[t].pc \in Resting
      BY <2>0, <3>0, <2>12, MoveOne DEF PersistUnknown, Resting
    <3> QED
      BY <2>a, <3>3, <3>4, RestingInHand
  <2>13. ASSUME NEW t \in Threads, PersistFinal(t) PROVE OneCallerInv'
    <3>0. PICK k \in Legs : k = Leg(t)
      BY <2>0
    <3> DEFINE e == [state |-> call[t].reply, at |-> call[t].at]
    <3>1. CASE CanOrder("SUBMITTING", call[t].reply, "BROKER_EVENT")
      <4>1. /\ durable[k].at <= call[t].at /\ GoodBefore(k) /\ NothingAfter(k)
            /\ e.state \in OrderTerminal => broker[k] = e.state
        BY <2>0, <3>0, <2>13 DEF PersistFinal, InHand, At, Resting
      <4>2. /\ e \in StampedState /\ Append(k, e) /\ e.at >= durable[k].at
            /\ e.state \notin {"NONE", "CREATED"}
            /\ AfterLeg(t, e.state)
        BY <2>0, <3>0, <2>13, <3>1, <4>1, LegalAnswers DEF PersistFinal, StampedState, CallType
      <4>3. /\ durable' = [durable EXCEPT ![k] = e]
            /\ CacheIsLog' /\ \A j \in Legs : LegInOrder(j)'
            /\ GoodBefore(k)'
        BY <2>0, <3>0, <2>13, <4>1, <4>2, AppendInOrder DEF PersistFinal
      <4>4. InHand(t)'
        <5>1. CASE call'[t].pc = "returned"
          BY <5>1, RestingInHand DEF Resting
        <5>2. CASE /\ call'[t].pc = "lookup" /\ call'[t].leg = call[t].leg + 1
                   /\ e.state \notin SubmitStop
          <6>1. \A j \in Legs : j < k + 1 => durable'[j].state \notin SubmitStop \cup {"NONE"}
            <7> SUFFICES ASSUME NEW j \in Legs, j < k + 1
                         PROVE  durable'[j].state \notin SubmitStop \cup {"NONE"}
              OBVIOUS
            <7>1. CASE j = k
              <8>1. durable'[j] = e
                BY <4>3, <7>1 DEF TypeOK
              <8> QED
                BY <4>2, <5>2, <8>1
            <7>2. CASE j # k
              <8>1. j < k
                BY <7>2, LegsAssumption DEF Legs
              <8> QED
                BY <4>3, <8>1 DEF GoodBefore
            <7> QED
              BY <7>1, <7>2
          <6>2. GoodBefore(Leg(t))'
            BY <3>0, <5>2, <6>1 DEF Leg, GoodBefore
          <6> QED
            BY <5>2, <6>2 DEF InHand, Sending
        <5> QED
          BY <2>0, <3>0, <4>2, <5>1, <5>2, AfterLegOne
      <4> QED
        BY <2>a, <4>3, <4>4
    <3>2. CASE ~CanOrder("SUBMITTING", call[t].reply, "BROKER_EVENT")
      <4>1. call'[t].pc \in Resting
        BY <2>0, <3>0, <2>13, <3>2, MoveOne DEF PersistFinal, Resting
      <4> QED
        BY <2>0, <3>0, <2>13, <2>a, <3>2, <4>1, RestingInHand, CallsOnly DEF PersistFinal
    <3> QED
      BY <3>0, <3>1, <3>2
  <2>14. ASSUME NEW k \in Legs, BrokerAdvances(k) PROVE OneCallerInv'
    <3>1. /\ broker[k] \notin OrderTerminal
          /\ \A j \in Legs \ {k} : broker'[j] = broker[j]
          /\ UNCHANGED <<durable, cache, placed, memo, now, call>>
      BY <2>14 DEF BrokerAdvances, Working, OrderTerminal, TypeOK
    <3>2. CacheIsLog' /\ \A j \in Legs : LegInOrder(j)'
      BY <2>0, <3>1 DEF CacheIsLog, LegInOrder, GoodBefore
    <3>3. \A t \in Threads : InHand(t)'
      BY <2>0, <3>1 DEF InHand, Leg, GoodBefore, NothingAfter, Sending, Resting
    <3> QED
      BY <3>2, <3>3 DEF OneCallerInv
  <2>15. CASE Crash
    <3>1. /\ UNCHANGED <<durable, broker, placed>> /\ cache' = durable
          /\ \A j \in Legs : memo'[j] = memo[j] \/ memo'[j] = NoMemo
      BY <2>15 DEF Crash
    <3>2. CacheIsLog' /\ \A j \in Legs : LegInOrder(j)'
      BY <2>0, <3>1 DEF CacheIsLog, LegInOrder, GoodBefore
    <3>3. \A t \in Threads : call'[t].pc \in Resting
      BY <2>15 DEF Crash, NoCall, Resting
    <3> QED
      BY <3>2, <3>3, RestingInHand DEF OneCallerInv
  <2>16. CASE UNCHANGED vars
    BY <2>16 DEF vars, OneCallerInv, CacheIsLog, LegInOrder, InHand, Leg, GoodBefore,
       NothingAfter
  <2> QED
    BY <2>1, <2>2, <2>3, <2>4, <2>5, <2>6, <2>7, <2>8, <2>9, <2>10, <2>11, <2>12,
       <2>13, <2>14, <2>15, <2>16 DEF Next, Step
<1> QED
  BY <1>1, <1>2, TypeCorrect, LoggedInvariant, PTL DEF Spec

\* One logical order reaches the broker at most once with one caller at a
\* time, for any number of legs, any broker and any crashes.
THEOREM SubmittedOnce ==
  ASSUME OneCaller
  PROVE  Spec => []SubmitOnce
<1>1. OneCallerInv => SubmitOnce
  BY DEF OneCallerInv, LegInOrder, SubmitOnce
<1> QED
  BY <1>1, OneCallerInvariant, PTL

\* No leg reaches the broker past one that the log knows to have failed.
THEOREM FailureStopsPlan ==
  ASSUME OneCaller
  PROVE  Spec => []KnownFailureStops
<1>1. OneCallerInv => KnownFailureStops
  BY DEF OneCallerInv, LegInOrder, KnownFailureStops, GoodBefore
<1> QED
  BY <1>1, OneCallerInvariant, PTL

\* A final outcome in the log is the broker's own: timeouts, errors and
\* crashes never make one up.
THEOREM OutcomesAreTheBrokers ==
  ASSUME OneCaller
  PROVE  Spec => []LocalOutcomeIsBrokers
<1>1. OneCallerInv => LocalOutcomeIsBrokers
  BY DEF OneCallerInv, LegInOrder, LocalOutcomeIsBrokers
<1> QED
  BY <1>1, OneCallerInvariant, PTL

-----------------------------------------------------------------------------

\* What one step can do to the log and to the broker's count: nothing, or one
\* of the five steps of a logical order.
LogBecomes(k, state, at) ==
  /\ durable' = [durable EXCEPT ![k] = [state |-> state, at |-> at]]
  /\ UNCHANGED placed

Recorded(k) ==
  /\ durable[k].state = "NONE" /\ GoodBefore(k)
  /\ \E at \in Nat : LogBecomes(k, "CREATED", at)

MovedTo(k, state) ==
  \/ durable[k].state = "CREATED" /\ state = "SUBMITTING"
  \/ durable[k].state = "SUBMITTING" /\ state = "UNKNOWN"
  \/ /\ durable[k].state = "SUBMITTING" /\ placed[k] = 1
     /\ state \in {"ACKNOWLEDGED", "PARTIAL", "FILLED", "REJECTED"}

MovedOn(k) ==
  \E state \in OrderStates, at \in Nat : MovedTo(k, state) /\ LogBecomes(k, state, at)

Taken(k) ==
  /\ durable[k].state = "SUBMITTING" /\ placed[k] = 0
  /\ placed' = [placed EXCEPT ![k] = 1]
  /\ UNCHANGED durable

\* With one caller, every step is a logical step of one leg or none.
LEMMA LogicalSteps ==
  ASSUME OneCaller, TypeOK, LoggedInv, OneCallerInv, [Next]_vars
  PROVE  \/ \E k \in Legs : Recorded(k) \/ MovedOn(k) \/ Taken(k)
         \/ UNCHANGED <<durable, placed>>
<1> DEFINE Goal == \/ \E k \in Legs : Recorded(k) \/ MovedOn(k) \/ Taken(k)
                   \/ UNCHANGED <<durable, placed>>
<1>0. \A t \in Threads : /\ Leg(t) \in Legs /\ InHand(t)
                         /\ call[t].at \in Nat /\ call[t] \in CallType
  BY DEF TypeOK, CallType, Leg, OneCallerInv
<1>1. ASSUME NEW t \in Threads, PersistCreated(t) PROVE Recorded(Leg(t))
  <2>1. durable[Leg(t)].state = "NONE" /\ GoodBefore(Leg(t))
    BY <1>0, <1>1 DEF PersistCreated, InHand, At, Resting
  <2>2. LogBecomes(Leg(t), "CREATED", now + 1)
    <3>1. durable[Leg(t)].at <= now + 1 /\ durable[Leg(t)].at \in Nat
      BY <1>0 DEF TypeOK, StampedState, LoggedInv, StampsPast
    <3> QED
      BY <1>1, <2>1, <3>1 DEF PersistCreated, Append, Newer, LogBecomes
  <2>3. now + 1 \in Nat
    BY DEF TypeOK
  <2> QED
    BY <2>1, <2>2, <2>3 DEF Recorded
<1>2. ASSUME NEW t \in Threads, PersistSubmitting(t) PROVE MovedOn(Leg(t))
  <2>1. durable[Leg(t)].state = "CREATED" /\ durable[Leg(t)].at <= call[t].at
    BY <1>0, <1>2 DEF PersistSubmitting, InHand, At
  <2>2. LogBecomes(Leg(t), "SUBMITTING", call[t].at)
    BY <1>0, <1>2, <2>1 DEF PersistSubmitting, Append, Newer, TypeOK, StampedState, LogBecomes
  <2>3. MovedTo(Leg(t), "SUBMITTING") /\ "SUBMITTING" \in OrderStates
    BY <2>1, StateNames DEF MovedTo
  <2> QED
    BY <1>0, <2>2, <2>3 DEF MovedOn
<1>3. ASSUME NEW t \in Threads, BrokerReplies(t) \/ BrokerTimesOut(t) \/ BrokerFails(t)
      PROVE  Taken(Leg(t)) \/ UNCHANGED <<durable, placed>>
  <2>1. durable[Leg(t)].state = "SUBMITTING" /\ placed[Leg(t)] = 0
    BY <1>0, <1>3 DEF BrokerReplies, BrokerTimesOut, BrokerFails, InHand, At, Sending
  <2>2. ASSUME NEW state, Place(Leg(t), state), UNCHANGED durable PROVE Taken(Leg(t))
    BY <1>0, <2>1, <2>2 DEF Place, Taken, TypeOK
  <2>3. CASE BrokerReplies(t)
    BY <2>2, <2>3 DEF BrokerReplies
  <2>4. CASE BrokerTimesOut(t) \/ BrokerFails(t)
    BY <2>2, <2>4 DEF BrokerTimesOut, BrokerFails
  <2> QED
    BY <1>3, <2>3, <2>4
<1>4. ASSUME NEW t \in Threads, PersistUnknown(t) PROVE MovedOn(Leg(t))
  <2>1. durable[Leg(t)].state = "SUBMITTING" /\ durable[Leg(t)].at <= call[t].at
    BY <1>0, <1>4 DEF PersistUnknown, InHand, At
  <2>2. LogBecomes(Leg(t), "UNKNOWN", call[t].at)
    BY <1>0, <1>4, <2>1 DEF PersistUnknown, Append, Newer, TypeOK, StampedState, LogBecomes
  <2>3. MovedTo(Leg(t), "UNKNOWN") /\ "UNKNOWN" \in OrderStates
    BY <2>1, StateNames DEF MovedTo
  <2> QED
    BY <1>0, <2>2, <2>3 DEF MovedOn
<1>5. ASSUME NEW t \in Threads, PersistFinal(t)
      PROVE  MovedOn(Leg(t)) \/ UNCHANGED <<durable, placed>>
  <2>1. CASE CanOrder("SUBMITTING", call[t].reply, "BROKER_EVENT")
    <3>1. /\ durable[Leg(t)].state = "SUBMITTING" /\ durable[Leg(t)].at <= call[t].at
          /\ placed[Leg(t)] = 1
      BY <1>0, <1>5 DEF PersistFinal, InHand, At
    <3>2. LogBecomes(Leg(t), call[t].reply, call[t].at)
      BY <1>0, <1>5, <2>1, <3>1 DEF PersistFinal, Append, Newer, TypeOK, StampedState,
         LogBecomes
    <3>3. MovedTo(Leg(t), call[t].reply) /\ call[t].reply \in OrderStates
      BY <2>1, <3>1, LegalAnswers DEF MovedTo, OrderStates
    <3> QED
      BY <1>0, <3>2, <3>3 DEF MovedOn
  <2>2. CASE ~CanOrder("SUBMITTING", call[t].reply, "BROKER_EVENT")
    BY <1>5, <2>2 DEF PersistFinal
  <2> QED
    BY <2>1, <2>2
<1>6. ASSUME NEW t \in Threads,
             \/ Begin(t) \/ Expired(t) \/ RateLimited(t) \/ LookupUnknown(t)
             \/ LookupKnown(t) \/ LookupNew(t) \/ BrokerSeesKey(t) \/ BrokerSeesNone(t)
      PROVE  UNCHANGED <<durable, placed>>
  BY <1>6 DEF Begin, Expired, RateLimited, LookupUnknown, LookupKnown, LookupNew,
              BrokerSeesKey, BrokerSeesNone
<1>7. ASSUME (\E k \in Legs : BrokerAdvances(k)) \/ Crash \/ UNCHANGED vars
      PROVE  UNCHANGED <<durable, placed>>
  BY <1>7 DEF BrokerAdvances, Crash, vars
<1> QED
  BY <1>0, <1>1, <1>2, <1>3, <1>4, <1>5, <1>6, <1>7 DEF Next, Step

\* An order given up as unknown is never sent again and never gets an outcome.
THEOREM UnknownIsFrozen ==
  ASSUME OneCaller
  PROVE  Spec => UnknownStaysFrozen
<1> DEFINE Frozen == \A k \in Legs : durable[k].state = "UNKNOWN" =>
                       durable'[k].state = "UNKNOWN" /\ placed'[k] = placed[k]
<1>1. TypeOK /\ LoggedInv /\ OneCallerInv /\ [Next]_vars => [Frozen]_vars
  <2> SUFFICES ASSUME TypeOK, LoggedInv, OneCallerInv, [Next]_vars PROVE Frozen
    OBVIOUS
  <2>1. ASSUME NEW k \in Legs, Recorded(k) PROVE Frozen
    BY <2>1 DEF Recorded, LogBecomes, TypeOK
  <2>2. ASSUME NEW k \in Legs, MovedOn(k) PROVE Frozen
    BY <2>2 DEF MovedOn, MovedTo, LogBecomes, TypeOK
  <2>3. ASSUME NEW k \in Legs, Taken(k) PROVE Frozen
    BY <2>3 DEF Taken, TypeOK
  <2>4. CASE UNCHANGED <<durable, placed>>
    BY <2>4
  <2> QED
    BY <2>1, <2>2, <2>3, <2>4, LogicalSteps, OneCaller
<1> QED
  BY <1>1, TypeCorrect, LoggedInvariant, OneCallerInvariant, PTL
     DEF Spec, UnknownStaysFrozen

\* The engine implements LogicalOrder: every step is a step of one logical
\* order, or changes nothing the callers of the engine can rely on.
THEOREM PromiseKept ==
  ASSUME OneCaller
  PROVE  Spec => ImplementsPromise
<1>1. Init => Promise!Init
  BY DEF Init, Promise!Init, Stage, StageOf, Absent, Legs, Promise!Orders
<1>2. TypeOK /\ LoggedInv /\ OneCallerInv /\ [Next]_vars
        => [Promise!Next]_<<Stage, placed>>
  <2> SUFFICES ASSUME TypeOK, LoggedInv, OneCallerInv, [Next]_vars,
                      UNCHANGED <<Stage, placed>> => FALSE
               PROVE  Promise!Next
    OBVIOUS
  <2>0. ASSUME NEW k \in Legs, NEW state, NEW at, LogBecomes(k, state, at)
        PROVE  Stage' = [Stage EXCEPT ![k] = StageOf(state)]
    BY <2>0 DEF Stage, LogBecomes, TypeOK
  <2>1. ASSUME NEW k \in Legs, Recorded(k) PROVE Promise!Record(k)
    <3>1. PICK at \in Nat : LogBecomes(k, "CREATED", at)
      BY <2>1 DEF Recorded
    <3>2. Stage[k] = "unsent" /\ Stage' = [Stage EXCEPT ![k] = "recorded"]
      BY <2>0, <2>1, <3>1 DEF Recorded, Stage, StageOf
    <3>3. \A j \in Legs : j < k => Stage[j] \in {"recorded", "committed", "good"}
      BY <2>1 DEF Recorded, GoodBefore, Stage, StageOf, SubmitStop
    <3> QED
      BY <3>1, <3>2, <3>3 DEF Promise!Record, Promise!Orders, Legs, LogBecomes
  <2>2. ASSUME NEW k \in Legs, MovedOn(k)
        PROVE  Promise!Commit(k) \/ Promise!GiveUp(k) \/ Promise!Settle(k)
    <3>1. PICK state \in OrderStates, at \in Nat :
            MovedTo(k, state) /\ LogBecomes(k, state, at)
      BY <2>2 DEF MovedOn
    <3>2. Stage' = [Stage EXCEPT ![k] = StageOf(state)] /\ UNCHANGED placed
      BY <2>0, <3>1 DEF LogBecomes
    <3>3. CASE durable[k].state = "CREATED" /\ state = "SUBMITTING"
      BY <3>2, <3>3 DEF Promise!Commit, Stage, StageOf
    <3>4. CASE durable[k].state = "SUBMITTING" /\ state = "UNKNOWN"
      BY <3>2, <3>4 DEF Promise!GiveUp, Stage, StageOf
    <3>5. CASE /\ durable[k].state = "SUBMITTING" /\ placed[k] = 1
               /\ state \in {"ACKNOWLEDGED", "PARTIAL", "FILLED", "REJECTED"}
      <4>1. StageOf(state) \in {"failed", "good"} /\ Stage[k] = "committed"
        BY <3>5 DEF Stage, StageOf
      <4> QED
        BY <3>2, <3>5, <4>1 DEF Promise!Settle
    <3> QED
      BY <3>1, <3>3, <3>4, <3>5 DEF MovedTo
  <2>3. ASSUME NEW k \in Legs, Taken(k) PROVE Promise!Take(k)
    BY <2>3 DEF Taken, Promise!Take, Stage, StageOf
  <2>4. CASE UNCHANGED <<durable, placed>>
    BY <2>4 DEF Stage
  <2> QED
    BY <2>1, <2>2, <2>3, <2>4, LogicalSteps, OneCaller
       DEF Promise!Next, Promise!Orders, Legs
<1> QED
  BY <1>1, <1>2, TypeCorrect, LoggedInvariant, OneCallerInvariant, PTL
     DEF Spec, ImplementsPromise, Promise!Spec
=============================================================================
