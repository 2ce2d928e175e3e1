---------------------------- MODULE MCProtection ----------------------------
(***************************************************************************)
(* The gate of the entries beside the protection whose marks it reads:     *)
(* the two share no state, and each has a run in which the other rests.    *)
(***************************************************************************)
EXTENDS Protection

CONSTANTS Trades, Beside, MaxCrashes \* of EntryGate

\* A session with a scheduler opens only some of the trades.
ASSUME BesideAssumption == Trades # {} /\ Beside \subseteq Trades /\ MaxCrashes \in Nat

VARIABLES
  gPos, gRow, gProt, gControls, gLatch, gQuote, gJudged, gCrossed,
  gScheduler, gThread, gCrashes

gate == <<gPos, gRow, gProt, gControls, gLatch, gQuote, gJudged, gCrossed,
          gScheduler, gThread, gCrashes>>

G == INSTANCE EntryGate WITH
  pos <- gPos, row <- gRow, prot <- gProt, controls <- gControls, latch <- gLatch,
  quote <- gQuote, judged <- gJudged, crossed <- gCrossed, scheduler <- gScheduler,
  thread <- gThread, crashes <- gCrashes

GateSpec ==
  /\ G!Init /\ Init
  /\ [][G!Next /\ UNCHANGED vars]_<<gate, vars>>
  /\ G!Fairness

-----------------------------------------------------------------------------

\* The gate opens only on verdicts that were found well (_entries_are_blocked).
GateSeesVerdicts == G!GateSeesVerdicts

\* Entries become possible again once every reason has gone (_maybe_release_entry_freeze).
Reopens == G!Reopens

=============================================================================
