---------------------------- MODULE MCOmsEngine ----------------------------
(***************************************************************************)
(* Two instances of OmsEngine, checked in one run: one caller of a broker  *)
(* that answers in any way and forgets its keys in a crash, and both of    *)
(* the session's threads with one leg of the paper broker (B).  The first  *)
(* state says which one moves.                                             *)
(***************************************************************************)
EXTENDS OmsEngine

VARIABLES beside, bDurable, bCache, bBroker, bPlaced, bMemo, bNow, bCall

both == <<bDurable, bCache, bBroker, bPlaced, bMemo, bNow, bCall>>

\* Every answer a real broker adapter can give.
AnyOutcome == Replies \cup Timeouts \cup Errors

B == INSTANCE OmsEngine WITH
  N <- 1, Threads <- {"session", "protection"}, BrokerRemembers <- TRUE,
  Outcomes <- {"FILLED", "REJECTED", "TIMEOUT_LIVE"},
  durable <- bDurable, cache <- bCache, broker <- bBroker, placed <- bPlaced, memo <- bMemo,
  now <- bNow, call <- bCall

Start == beside \in BOOLEAN /\ Init /\ B!Init

Alone == ~beside /\ Next /\ UNCHANGED <<beside, both>>

Beside == beside /\ B!Next /\ UNCHANGED <<beside, vars>>

Oms == Start /\ [][Alone \/ Beside]_<<beside, vars, both>>

-----------------------------------------------------------------------------

\* Whatever the two threads do, what the broker took is in the log first
\* (submit_plan).
BothWriteFirst == B!DurableBeforeBroker

\* "One logical order is sent once": not so with two callers.
BothSubmitOnce == B!SubmitOnce
=============================================================================
