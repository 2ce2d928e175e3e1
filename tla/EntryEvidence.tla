---------------------------- MODULE EntryEvidence ----------------------------
(***************************************************************************)
(* What is known of an entry when it is made: the data contract of PAPER    *)
(* trading (src/trading/safety/paper_data.py), the strategies' quote age,   *)
(* the gateway's constraint and leg-bundle gates, and the planner's last    *)
(* look.  The request is captured once, and each of them asks the clock     *)
(* again.  Readiness, the margin and the broker's state are not of this     *)
(* module: the gateway's sizing leaves no approval without a margin.        *)
(***************************************************************************)
EXTENDS Integers, Sequences

CONSTANTS Evidence,   \* what a request may carry: [profile, legs, event]
          Start,      \* the clock when the request is built
          Patience,   \* bound: how long a request is followed
          StrictAge,  \* quote_max_age_ms, max_age_ms of the P0 fields
          HardAge,    \* hard_quote_max_age_ms
          EventAge,   \* max_age_ms of EVENT_STATE
          Skew,       \* max_leg_quote_skew_ms
          IntentTtl,  \* INTENT_TTL_SECONDS
          DecisionTtl \* decision_ttl_seconds

VARIABLES request,  \* the evidence captured with the request
          clock,
          stage,    \* how far the entry has come, or how it ended
          created,  \* when the strategy made its intent
          decided,  \* when the gateway decided
          shadow    \* strict_would_block

vars == <<request, clock, stage, created, decided, shadow>>

\* A leg's snapshot has last, bid and ask ("none", "zero" or "ok"), the times of
\* its event and of its calculation, and its quality, volume, open interest,
\* contract data, and whether it has the days to expiry left (live).  The event risk may be missing.
Legs == request.legs

Discovery == request.profile = "DISCOVERY"

\* soft_reason_codes of discovery.yaml, as far as these gates give them.
Soft(reason) == Discovery /\ reason \in {"EVENT_BLACKOUT", "DEPTH_INSUFFICIENT", "SPREAD_TOO_WIDE"}

\* What the first leg that something is wrong with has, of every leg's reason or "OK".
FirstWrong(reasons) ==
  LET wrong == {i \in DOMAIN reasons : reasons[i] # "OK"} IN
  IF wrong = {} THEN "OK" ELSE reasons[CHOOSE i \in wrong : \A j \in wrong : i <= j]

\* quote_freshness_age_at and age_at: DISCOVERY goes by the calculation, and takes
\* one that lies ahead for a fresh one.
Age(leg) ==
  IF ~Discovery THEN clock - leg.event
  ELSE IF clock < leg.calc THEN 0 ELSE clock - leg.calc

MaxAge == IF Discovery THEN HardAge ELSE StrictAge

Aged(leg) == IF Age(leg) < 0 THEN "SNAPSHOT_MISMATCH" ELSE IF Age(leg) > MaxAge THEN "DATA_STALE" ELSE "OK"

Ages == [i \in DOMAIN Legs |-> Aged(Legs[i])]

-----------------------------------------------------------------------------

\* The checkers of the P0 fields, each a reason or "OK".
Last ==
  IF \E i \in DOMAIN Legs : Legs[i].last # "ok" THEN "PRICE_UNAVAILABLE" ELSE FirstWrong(Ages)

BidAsk ==
  IF \E i \in DOMAIN Legs : "ok" # Legs[i].bid \/ "ok" # Legs[i].ask
    THEN "PRICE_UNAVAILABLE" ELSE FirstWrong(Ages)

Unfit(leg) ==
  IF leg.event > clock THEN "SNAPSHOT_MISMATCH"
  ELSE IF leg.quality \in {"STALE", "INVALID"} THEN "DATA_STALE" ELSE "OK"

Freshness ==
  LET unfit == FirstWrong([i \in DOMAIN Legs |-> Unfit(Legs[i])]) IN IF unfit # "OK" THEN unfit ELSE FirstWrong(Ages)

\* zero_invalid is false for the volume and true for the open interest.
Volume == IF \E i \in DOMAIN Legs : Legs[i].volume = "none" THEN "DATA_GAP" ELSE "OK"

OpenInterest ==
  IF \E i \in DOMAIN Legs : Legs[i].oi \in {"none", "zero"} THEN "DEPTH_INSUFFICIENT" ELSE "OK"

Metadata == IF \E i \in DOMAIN Legs : ~Legs[i].known THEN "INSTRUMENT_UNKNOWN" ELSE "OK"

EventState ==
  LET event == request.event IN
  CASE ~event.given -> "EVENT_BLACKOUT"
    [] event.given /\ ~event.valid -> "DATA_INVALID"
    [] event.given /\ event.valid /\ clock < event.asOf -> "SNAPSHOT_MISMATCH"
    [] event.given /\ event.valid /\ clock >= event.asOf ->
         IF clock >= event.expires \/ clock - event.asOf > EventAge THEN "DATA_STALE" ELSE "OK"

\* assess_paper_data: the result of every P0 field.
Assessment ==
  [LTP |-> Last, BID_ASK |-> BidAsk, QUOTE_FRESHNESS |-> Freshness, VOLUME |-> Volume,
   OPEN_INTEREST |-> OpenInterest, CONTRACT_METADATA |-> Metadata, EVENT_STATE |-> EventState]

Failures(assessment) == {assessment[field] : field \in DOMAIN assessment} \ {"OK"}

\* p0_ok: a soft failure does not count.
P0Ok(assessment) == \A reason \in Failures(assessment) : Soft(reason)

\* strict_would_block_p0: the rows that are not ok and soft, which none is.
P0Shadow(assessment) ==
  {reason \in Failures(assessment) : ~Soft(reason) /\ Soft(reason)}
  \cup (IF P0Ok(assessment) THEN {} ELSE {reason \in Failures(assessment) : Soft(reason)})

-----------------------------------------------------------------------------

Newest == CHOOSE t \in {Legs[i].calc : i \in DOMAIN Legs} : \A i \in DOMAIN Legs : Legs[i].calc <= t

\* evaluate_quote_freshness: the newest quote of the request decides for all of them.
QuoteAge ==
  IF clock < Newest THEN "DATA_INVALID"
  ELSE IF clock - Newest > MaxAge THEN "DATA_STALE" ELSE "OK"

QuoteShadow == IF Discovery /\ clock - Newest > StrictAge THEN {"DATA_STALE"} ELSE {}

\* _constraint_reason: one reason, the event's first.
Constraint ==
  LET event == request.event
      expiring(leg) == IF ~leg.live THEN "CONTRACT_EXPIRED"
                       ELSE IF leg.oi # "ok" THEN "DEPTH_INSUFFICIENT" ELSE "OK"
  IN  IF ~event.given \/ clock < event.asOf \/ clock >= event.expires \/ ~event.valid \/ ~event.calm
        THEN "EVENT_BLACKOUT"
      ELSE FirstWrong([i \in DOMAIN Legs |-> expiring(Legs[i])])

\* _spread_reason of the legs, which no profile softens.
Spread(leg) ==
  CASE "none" \in {leg.bid, leg.ask} -> "PRICE_UNAVAILABLE"
    [] "none" \notin {leg.bid, leg.ask} /\ leg.bid = "zero" /\ leg.ask = "zero" -> "PRICE_UNAVAILABLE"
    [] OTHER -> IF leg.wide \/ leg.bid # leg.ask THEN "SPREAD_TOO_WIDE" ELSE "OK"

\* validate_leg_snapshot_bundle: for several legs, their quality, age and skew.
Bundled(leg) == IF Unfit(leg) # "OK" THEN Unfit(leg) ELSE Aged(leg)

Skewed == \E i, j \in DOMAIN Legs : Legs[i].event - Legs[j].event > Skew

Bundle ==
  LET bundled == FirstWrong([i \in DOMAIN Legs |-> Bundled(Legs[i])]) IN
  IF Len(Legs) = 1 THEN "OK"
  ELSE IF bundled # "OK" THEN bundled
  ELSE IF Skewed THEN "SNAPSHOT_MISMATCH" ELSE "OK"

\* The gates of evaluate that ask the evidence, in their order.  The quality gate
\* asks the first leg alone.
Gates ==
  <<IF clock >= created + IntentTtl THEN "DECISION_EXPIRED" ELSE "OK",
    IF Legs[1].quality \in {"STALE", "INVALID"} THEN "DATA_STALE" ELSE "OK",
    IF Soft(Constraint) THEN "OK" ELSE Constraint,
    FirstWrong([i \in DOMAIN Legs |-> Spread(Legs[i])]),
    Bundle>>

-----------------------------------------------------------------------------

Init ==
  /\ request \in Evidence
  /\ clock = Start
  /\ stage = "offered"
  /\ created = Start /\ decided = Start
  /\ shadow = {}

\* _paper_p0_block_reasons.
Screen ==
  /\ stage = "offered"
  /\ stage' = IF P0Ok(Assessment) THEN "screened" ELSE "rejected"
  /\ UNCHANGED <<request, clock, created, decided, shadow>>

\* The strategy looks at the age of the quotes and makes its intent.
Propose ==
  /\ stage = "screened"
  /\ IF QuoteAge = "OK" THEN stage' = "proposed" /\ shadow' = QuoteShadow
     ELSE stage' = "rejected" /\ UNCHANGED shadow
  /\ created' = clock
  /\ UNCHANGED <<request, clock, decided>>

\* evaluate.  The hard reasons of the P0 fields reject.
\* Mutant: what the screening found is not looked at again.
JudgedByScreening ==
  /\ stage = "proposed"
  /\ IF \A i \in DOMAIN Gates : Gates[i] = "OK"
       THEN /\ stage' = "approved"
            /\ shadow' = shadow \cup (IF Soft(Constraint) THEN {Constraint} ELSE {})
       ELSE stage' = "rejected" /\ UNCHANGED shadow
  /\ decided' = clock
  /\ UNCHANGED <<request, clock, created>>

Judge ==
  /\ stage = "proposed"
  /\ IF (\A i \in DOMAIN Gates : Gates[i] = "OK") /\ P0Ok(Assessment)
       THEN /\ stage' = "approved"
            /\ shadow' = shadow \cup (IF Soft(Constraint) THEN {Constraint} ELSE {})
                                \cup P0Shadow(Assessment)
       ELSE stage' = "rejected" /\ UNCHANGED shadow
  /\ decided' = clock
  /\ UNCHANGED <<request, clock, created>>

\* OrderPlanner.build: the decision and the intent are still valid; the prices of
\* the legs are the captured ones.
Plan ==
  /\ stage = "approved"
  /\ stage' = IF clock < decided + DecisionTtl /\ clock < created + IntentTtl
                THEN "planned" ELSE "refused"
  /\ UNCHANGED <<request, clock, created, decided, shadow>>

\* Another request's work, or a call to the broker, takes its time.
Pass ==
  /\ stage \in {"offered", "screened", "proposed", "approved"}
  /\ clock < Start + Patience
  /\ clock' = clock + 1
  /\ UNCHANGED <<request, stage, created, decided, shadow>>

Next == Screen \/ Propose \/ Judge \/ Plan \/ Pass

Spec == Init /\ [][Next]_vars

-----------------------------------------------------------------------------

\* Invariant 6, that missing, stale or zero-invalid data blocks new exposure,
\* though time passes between the screening, the strategy, the gateway and the
\* planner: an entry is planned on quotes of every leg that are there, fit, not of
\* the future and, but for the time a decision stays valid, not older than the
\* profile allows, by the time that the profile goes by.  The days to expiry are
\* only sure when no other constraint was let through: the gate gives one reason.
EntryDataHeld ==
  stage = "planned" =>
    \A i \in DOMAIN Legs :
      LET leg == Legs[i] IN
      /\ {leg.last, leg.bid, leg.ask} = {"ok"} /\ ~leg.wide
      /\ leg.quality \notin {"STALE", "INVALID"} /\ leg.known
      /\ shadow \subseteq {"DATA_STALE"} => leg.live
      /\ leg.event <= clock
      /\ clock - (IF Discovery THEN leg.calc ELSE leg.event) < MaxAge + DecisionTtl
      /\ ~Discovery => leg.oi = "ok" /\ request.event.given /\ request.event.calm
      /\ request.event.given => request.event.valid /\ decided < request.event.expires

\* No entry is planned that has less than its minimum of days to expiry.
DaysKept == stage = "planned" => \A i \in DOMAIN Legs : Legs[i].live

\* "Soft rules no longer block.  They are still evaluated and recorded as
\* strict_would_block" (docs/context/DISCOVERY_MODE.md): a soft failure of the data
\* contract that the gateway lets through is in the shadow of its decision.
SoftIsRecorded ==
  stage = "approved" /\ decided = clock => Failures(Assessment) \subseteq shadow

=============================================================================
