----------------------------- MODULE MCServices -----------------------------
(***************************************************************************)
(* The components that share no state with one another and need no fairness *)
(* are checked in one run: the first state says which of them moves (part), *)
(* and the others stay as they start.                                       *)
(***************************************************************************)
EXTENDS TradeExits, Sequences

CONSTANTS
  Parts,           \* the components of the run
  \* EntryEvidence
  Requests, Opening, Patience, StrictAge, HardAge, EventAge, Skew, IntentTtl, DecisionTtl,
  \* M1Events
  Scenes, Stamped, Gap, Watch, MaxAttempts, RetryLimit,
  \* Feed
  Ttl, SessionTtl, BackoffBase, BackoffMax, ChainMaxAge, BarMaxAge, Extras, Answers, Slow, Faults, Horizon

\* Times are whole numbers, and legs are numbered.
ASSUME EvidenceAssumption ==
  /\ Opening \in Int /\ StrictAge \in Nat /\ HardAge \in Nat /\ DecisionTtl \in Nat
  /\ \A r \in Requests :
       /\ DOMAIN r.legs \subseteq Nat /\ r.event.expires \in Int /\ r.event.asOf \in Int
       /\ \A i \in DOMAIN r.legs : r.legs[i].event \in Int /\ r.legs[i].calc \in Int

\* A capture is served for a while; ages and waits are whole numbers.
ASSUME FeedAssumption ==
  /\ Ttl \in [{"near", "week", "month", "status", "history"} -> Nat \ {0}]
  /\ SessionTtl \in [{"week", "month"} -> Nat]
  /\ ChainMaxAge \in Nat /\ BackoffBase \in Nat /\ BackoffMax \in Nat

ASSUME AttemptsAssumption == MaxAttempts \in Nat /\ RetryLimit \in Nat

VARIABLES
  part,
  eRequest, eClock, eStage, eCreated, eDecided, eShadow,
  mProfile, mNow, mLast, mHolder, mAttempts, mLedger, mWork, mRuns, mInRun, mBought, mCrashes,
  fNow, fExtra, fCache, fBackoff, fSession, fBuild, fOffered

exits == vars

evidence == <<eRequest, eClock, eStage, eCreated, eDecided, eShadow>>

m1 == <<mProfile, mNow, mLast, mHolder, mAttempts, mLedger, mWork, mRuns, mInRun, mBought, mCrashes>>

feed == <<fNow, fExtra, fCache, fBackoff, fSession, fBuild, fOffered>>

all == <<part, exits, evidence, m1, feed>>

-----------------------------------------------------------------------------

Fresh(t) == [last |-> "ok", bid |-> "ok", ask |-> "ok", event |-> t, calc |-> t, quality |-> "VALID",
             volume |-> "ok", oi |-> "ok", live |-> TRUE, known |-> TRUE, wide |-> FALSE]

\* A leg with one thing wrong, or of another time.
Spoiled(leg) ==
  {[leg EXCEPT !.last = v] : v \in {"none", "zero"}} \cup {[leg EXCEPT !.bid = v] : v \in {"none", "zero"}}
  \cup {[leg EXCEPT !.quality = v] : v \in {"DEGRADED", "STALE"}} \cup {[leg EXCEPT !.volume = v] : v \in {"none", "zero"}}
  \cup {[leg EXCEPT !.oi = v] : v \in {"none", "zero", "low"}}
  \cup {[leg EXCEPT !.live = FALSE], [leg EXCEPT !.known = FALSE], [leg EXCEPT !.wide = TRUE]}

Dated == {leg \in {[Fresh(t) EXCEPT !.calc = c] : t \in 4..11, c \in 4..11} : leg.event <= leg.calc}

MCLegs ==
  {<<leg>> : leg \in Dated \cup Spoiled(Fresh(9))} \cup {<<Fresh(9), leg>> : leg \in Dated \cup Spoiled(Fresh(9))}

Quiet == [given |-> TRUE, valid |-> TRUE, calm |-> TRUE, asOf |-> 9, expires |-> 14]

MCEvents == {Quiet, [Quiet EXCEPT !.given = FALSE], [Quiet EXCEPT !.valid = FALSE], [Quiet EXCEPT !.calm = FALSE],
             [Quiet EXCEPT !.asOf = 11], [Quiet EXCEPT !.expires = 11], [Quiet EXCEPT !.asOf = 6]}

MCEvidence == [profile : {"STRICT", "DISCOVERY"}, legs : MCLegs, event : MCEvents]

Plain == [profile |-> "STRICT", legs |-> <<Fresh(9)>>, event |-> Quiet]

E == INSTANCE EntryEvidence WITH
  Evidence <- Requests, Start <- Opening,
  request <- eRequest, clock <- eClock, stage <- eStage, created <- eCreated, decided <- eDecided,
  shadow <- eShadow

-----------------------------------------------------------------------------

Option(type, delta, ask, score) ==
  [type |-> type, delta |-> delta, ask |-> ask, score |-> score, fit |-> TRUE, dte |-> 2,
   balanced |-> TRUE, edge |-> FALSE]

Up(options) == [trend |-> "UP", options |-> options, bias |-> "BULLISH", pressure |-> 1, edge |-> 0]

\* A market with a strike that can be explained, with one that a better one of
\* either type beats, with none that triggers or binds, falling and without a trend.
MCScenes ==
  LET call == Option("CALL", 30, 10, 2)
      put == Option("PUT", 30, 10, 2) IN
  {Up({call, put}),
   Up({call, Option("PUT", 40, 10, 2)}),
   Up({[call EXCEPT !.balanced = FALSE]}), Up({[call EXCEPT !.dte = 0]}),
   [Up({call, put}) EXCEPT !.trend = "DOWN", !.bias = "BEARISH", !.pressure = -1],
   [Up({call, put}) EXCEPT !.trend = "RANGE"]}

M == INSTANCE M1Events WITH
  Session <- Reviewer, Horizon <- Watch,
  profile <- mProfile, now <- mNow, last <- mLast, holder <- mHolder, attempts <- mAttempts,
  ledger <- mLedger, work <- mWork, runs <- mRuns, inRun <- mInRun, bought <- mBought, crashes <- mCrashes

-----------------------------------------------------------------------------

\* A chain of the near expiry is served for less than the others, the month's is
\* asked for again sooner than the feed would.
MCTtl == [near |-> 1, week |-> 2, month |-> 2, status |-> 4, history |-> 4]

MCSessionTtl == [week |-> 2, month |-> 1]

F == INSTANCE Feed WITH
  now <- fNow, extra <- fExtra, cache <- fCache, backoff <- fBackoff, session <- fSession,
  build <- fBuild, offered <- fOffered

-----------------------------------------------------------------------------

Start ==
  /\ part \in Parts
  /\ Init /\ (part = "exits" \/ (family = "PRICE" /\ quote = 2))
  /\ E!Init /\ (part = "evidence" \/ eRequest = Plain)
  /\ M!Init /\ (part = "m1" \/ mProfile = "STRICT")
  /\ F!Init /\ (part = "feed" \/ fExtra = {"week"})

Exits == part = "exits" /\ Next /\ UNCHANGED <<part, evidence, m1, feed>>

Evidence == part = "evidence" /\ E!Next /\ UNCHANGED <<part, exits, m1, feed>>

M1 == part = "m1" /\ M!Next /\ UNCHANGED <<part, exits, evidence, feed>>

FeedPart == part = "feed" /\ F!Next /\ UNCHANGED <<part, exits, evidence, m1>>

Services == Start /\ [][Exits \/ Evidence \/ M1 \/ FeedPart]_all

-----------------------------------------------------------------------------

\* Missing, stale or zero-invalid data blocks new exposure, though time passes
\* between the checks of one entry (assess_paper_data and those after it).
EntryDataHeld == E!EntryDataHeld

\* The budget of M1 holds over retries, failed builds and restarts
\* (record_episode_attempt).
AttemptsBounded == M!AttemptsBounded

\* The age of a price is told within the periods of the caches that it came through
\* (build_option_candidates, _merge_following_week_chain).
PricesDated == F!PricesDated

\* Not so: what claims to be recent is recent.
AgeIsClaimed == F!AgeIsClaimed

\* Not so: every planned entry has its minimum of days to expiry.
DaysKept == E!DaysKept

\* Not so: a soft failure that is let through is recorded as strict_would_block.
SoftIsRecorded == E!SoftIsRecorded

\* Not so: a poll with an option to watch submits an M1 event.
PollFeeds == M!PollFeeds

=============================================================================
