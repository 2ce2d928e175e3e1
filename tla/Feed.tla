--------------------------------- MODULE Feed ---------------------------------
(***************************************************************************)
(* How old the prices of an option candidate are.  ResilientFyersMarketFeed  *)
(* serves captures from its cache, DataPipeline.run_once assesses the near   *)
(* chain with the index, and the session's builder adds the chains of the    *)
(* following week and of the month, each with a cache of its own, to the     *)
(* candidates that it takes from the near chain.  A candidate says the times *)
(* and the quality of the index snapshot of the build that made it.          *)
(***************************************************************************)
EXTENDS Integers, FiniteSets

CONSTANTS
  None,
  Ttl,         \* per capture that the feed caches, how long it serves it
  BackoffBase, BackoffMax,
  SessionTtl,  \* per supplemental chain, the builder's own cache
  ChainMaxAge, BarMaxAge, \* freshness of data_pipeline.yaml
  Extras,      \* which supplemental chains a day may call for, as sets
  Answers,     \* of the broker: "ok", "limited" (429), "down" (5xx) or "refused"
  Slow,        \* bound: how long a call may take
  Faults,      \* what may be wrong with the data of a build, as sets
  Horizon      \* bound: how long is watched

VARIABLES
  now,
  extra,    \* the expiries that the near chain names and does not have
  cache,    \* per capture, when the one that the feed has was fetched
  backoff,  \* until when, and the seconds of the next one
  session,  \* per supplemental chain, the builder's cache
  build,    \* the build under way
  offered   \* the candidates of the last build

vars == <<now, extra, cache, backoff, session, build, offered>>

Captures == {"near", "week", "month", "status", "history"}

Supplemental == {"week", "month"}

Idle == [pc |-> "idle", near |-> 0, late |-> FALSE, instant |-> 0, quality |-> "VALID", found |-> {}]

Least(a, b) == IF a <= b THEN a ELSE b

-----------------------------------------------------------------------------

Cached(key) == cache[key] # None

\* The feed as a fetch finds and leaves it.
Feeds == [now |-> now, cache |-> cache, backoff |-> backoff]

\* Mutant: a capture is fresh for the whole of its last second.
FreshInclusive(f, key) == f.cache[key] # None /\ f.now - f.cache[key] <= Ttl[key]

Fresh(f, key) == f.cache[key] # None /\ f.now - f.cache[key] < Ttl[key]

\* fetch_option_chain and fetch_market_status serve what they have if it is fresh,
\* in backoff and without a token; fetch_history knows no backoff.
Held(f, key, room) ==
  \/ Fresh(f, key)
  \/ f.cache[key] # None /\ ((f.now < f.backoff.until /\ key # "history") \/ ~room)

\* _enter_backoff, without its jitter.
Entered(f, answer, at) ==
  LET seconds == IF answer = "limited" THEN Least(2 * f.backoff.seconds, BackoffMax) ELSE BackoffBase
  IN  [until |-> at + seconds, seconds |-> seconds]

Cleared == [until |-> 0, seconds |-> BackoffBase]

\* What a fetch gives, the time of its data or None for an error, whether that had to
\* be an old capture, and the feed that it leaves.  Without a token and with nothing
\* cached the history fails; the chain and the status are called for all the same.
Fetch(f, key, room, answer, at) ==
  LET gives(data, late, feed) == [data |-> data, late |-> late, feed |-> feed]
      after == [f EXCEPT !.now = at]
  IN
  IF Held(f, key, room) THEN gives(f.cache[key], ~Fresh(f, key), f)
  ELSE IF key = "history" /\ ~room THEN gives(None, FALSE, f)
  ELSE IF answer = "ok"
    THEN gives(at, FALSE, [after EXCEPT !.cache[key] = at, !.backoff = Cleared])
  ELSE IF f.cache[key] # None /\ answer \in {"limited", "down"}
    THEN gives(f.cache[key], TRUE, [after EXCEPT !.backoff = Entered(f, answer, at)])
  ELSE gives(None, FALSE, after)

Later(f) == {t \in f.now..(f.now + Slow) : t <= Horizon}

Fetched(f, key) == {Fetch(f, key, room, answer, at) : room \in BOOLEAN, answer \in Answers, at \in Later(f)}

Leaves(f) == now' = f.now /\ cache' = f.cache /\ backoff' = f.backoff

-----------------------------------------------------------------------------

Rank(state) ==
  CASE state = "INVALID" -> 0 [] state = "STALE" -> 1 [] state = "DEGRADED" -> 2 [] OTHER -> 3

Worst(states) == CHOOSE s \in states : \A t \in states : Rank(s) <= Rank(t)

\* _report_for_age, of what is not empty.
ByAge(age, max) ==
  IF age > max THEN "STALE" ELSE IF age > max \div 2 THEN "DEGRADED" ELSE "VALID"

\* The other conditions of assess_combined_snapshot.
Severity(fault) ==
  IF fault \in {"no_price", "unverified", "outside_session", "warmup", "empty_chain"} THEN "INVALID" ELSE "DEGRADED"

\* assess_combined_snapshot: the worst of all that it finds; bars and quotes that are
\* not there make it no worse than degraded.
Quality(near, bar, faults, at) ==
  Worst({ByAge(at - near, ChainMaxAge)} \cup {Severity(f) : f \in faults}
        \cup (IF bar = None THEN {} ELSE {ByAge(at - bar, BarMaxAge)}))

-----------------------------------------------------------------------------

Init ==
  /\ now = 0
  /\ extra \in Extras
  /\ cache = [key \in Captures |-> None]
  /\ backoff = Cleared
  /\ session = [key \in Supplemental |-> None]
  /\ build = Idle
  /\ offered = {}

At(pc) == build.pc = pc

Pass ==
  /\ At("idle") /\ now < Horizon
  /\ now' = now + 1
  /\ UNCHANGED <<extra, cache, backoff, session, build, offered>>

\* A build without an index snapshot, or that fails, offers nothing.
Fails == build' = Idle /\ offered' = {}

\* _run_once_option_chain: without the near chain or the quote, which has no cache,
\* the cycle is degraded; without status or history it goes on, with the bars of an
\* earlier build if there are some of twelve times their age.  An invalid cycle has
\* no snapshot (build_cycle_snapshot).
RunOnce(faults, quoted) ==
  /\ At("idle")
  /\ \E chain \in Fetched(Feeds, "near") :
       IF chain.data = None \/ ~quoted THEN Leaves(chain.feed) /\ Fails
       ELSE \E status \in Fetched(chain.feed, "status") :
            \E history \in Fetched(status.feed, "history") :
              LET at == history.feed.now
                  last == cache["history"]
                  stored == IF last # None /\ at - last <= 12 * BarMaxAge THEN last ELSE None
                  bar == IF history.data = None THEN stored ELSE history.data
                  quality == Quality(chain.data, bar, faults, at)
              IN
              /\ Leaves(history.feed)
              /\ IF quality = "INVALID" THEN Fails
                 ELSE /\ build' = [Idle EXCEPT !.pc = "options", !.near = chain.data, !.late = chain.late,
                                               !.instant = at, !.quality = quality]
                      /\ offered' = {}
  /\ UNCHANGED <<extra, session>>

\* A candidate has its prices from data of some time, and the times (claims) and the
\* quality of the index snapshot; late says that they had to be served though old,
\* taken when the build took it up.
Candidate(kind, data, late, taken) ==
  [kind |-> kind, data |-> data, claims |-> build.instant, quality |-> build.quality,
   late |-> late, taken |-> taken]

\* fetch_quotes of the options: a failure is a failed build; an option that is not
\* quoted keeps the price of its row.
Options(quoted) ==
  /\ At("options")
  /\ IF quoted
       THEN /\ build' = [build EXCEPT !.pc = "week", !.found = {Candidate("near", now, FALSE, now),
                                                            Candidate("near", build.near, build.late, now)}]
            /\ UNCHANGED offered
       ELSE Fails
  /\ UNCHANGED <<extra, now, cache, backoff, session>>

SessionServes(key) == session[key] # None /\ now - session[key].fetched < SessionTtl[key]

\* The build goes on with the month, or is done.
Adds(key, candidates) ==
  IF key = "week"
  THEN build' = [build EXCEPT !.pc = "month", !.found = @ \cup candidates] /\ UNCHANGED offered
  ELSE build' = Idle /\ offered' = build.found \cup candidates

\* _merge_following_week_chain and _merge_monthly_chain: the time is taken before
\* the fetch.  After a failure only the following week's cache serves on.
Merge(key) ==
  /\ At(key)
  /\ IF key \notin extra THEN Adds(key, {}) /\ UNCHANGED <<now, cache, backoff, session>>
     ELSE IF SessionServes(key)
       THEN Adds(key, {[session[key].candidate EXCEPT !.taken = now]}) /\ UNCHANGED <<now, cache, backoff, session>>
       ELSE \E chain \in Fetched(Feeds, key) :
              LET at == chain.feed.now
                  new == Candidate(key, chain.data, chain.late, at)
                  old == IF key = "month" \/ session[key] = None THEN {}
                         ELSE {[session[key].candidate EXCEPT !.late = TRUE, !.taken = at]}
              IN
              /\ Leaves(chain.feed)
              /\ IF chain.data = None THEN Adds(key, old) /\ UNCHANGED session
                 ELSE /\ Adds(key, {new})
                      /\ session' = [session EXCEPT ![key] = [fetched |-> now, candidate |-> new]]
  /\ UNCHANGED extra

Next ==
  \/ Pass
  \/ \E faults \in Faults, quoted \in BOOLEAN : RunOnce(faults, quoted)
  \/ \E quoted \in BOOLEAN : Options(quoted)
  \/ \E key \in Supplemental : Merge(key)

Spec == Init /\ [][Next]_vars

-----------------------------------------------------------------------------

\* The age of a price can be told from what the candidate says, over two caches with
\* periods of their own: if the broker answered when it was asked, a chain of the week or
\* month is younger than both periods together, what it does not claim of its age
\* (times=underlying.times) less than the feed's; a near price is of its quality's age
\* though the broker did not answer.
PricesDated ==
  \A c \in offered :
    /\ c.kind = "near" /\ c.quality # "STALE" => c.claims - c.data <= ChainMaxAge
    /\ c.kind # "near" /\ ~c.late =>
         /\ c.claims - c.data < Ttl[c.kind]
         /\ c.taken - c.data < Ttl[c.kind] + SessionTtl[c.kind]

\* "Missing, stale or zero-invalid P0 data blocks new exposure" (paper_data.py): what
\* claims to be recent is recent.
AgeIsClaimed ==
  \A c \in offered : c.quality # "STALE" => c.taken - c.data <= c.taken - c.claims + ChainMaxAge

=============================================================================
