------------------------- MODULE ReviewDesk_proofs -------------------------
(***************************************************************************)
(* Theorems about ReviewDesk, for any trades, slots, days and crashes.     *)
(***************************************************************************)
EXTENDS ReviewDesk, WellFoundedInduction, FiniteSetTheorems, TLAPS

-----------------------------------------------------------------------------
\* Where the thread is, and with what in its hands.

Reviewing == call.pc \in {"review", "slots"} \/ call.back = "record"

Busy == call.pc \notin {"idle", "review", "slots", "replace"}

CallOK ==
  /\ call.pc \in {"idle", "review", "slots", "replace"} => call.back = "idle"
  /\ call.pc = "record" => call.back = "record"
  /\ call.pc = "carried" => call.back = "carried"
  /\ Busy => Cur \in Trades /\ pos[Cur].state # "NONE"
  /\ call.pc = "replace" => Cur \in Trades /\ row[Cur].pos.state # "NONE"
  /\ call.pc = "request" => pos[Cur].state = "OPEN"
  /\ call.pc \in {"submit", "ids", "apply", "adopt"} => pos[Cur].state \in InFlight
  /\ call.pc \in {"ids", "apply", "settle"} => call.key \in Keys
  /\ call.pc \in {"adopt", "adopted"} => row[Cur].ids \in Keys /\ Cur \in adopted
  /\ Reviewing => call.slot \in call.covers /\ ~(call.covers \subseteq slots)

\* What a row says of the position that the book holds.
RowFollows(t) ==
  /\ InBook(t) => row[t].pos.state \notin {"NONE", "CLOSED"}
  /\ pos[t].state = "CLOSED" =>
       /\ row[t].pos.state # "NONE"
       /\ row[t].pos.state = "CLOSED" \/ t \in adopted \/ (At("settle") /\ t = Cur)

RowsFollow == \A t \in Trades : RowFollows(t)

\* A close is in the account of its campaign; no roll waits for it.
Counted(t) == row[t].campaign # None => t \in campaign[row[t].campaign].closes

Settled(t) == Counted(t) /\ row[t].roll # "CLOSE_PENDING"

CloseSettled(t) ==
  row[t].pos.state = "CLOSED" /\ t \notin cut \cup adopted =>
    Settled(t) \/ (t = Cur /\ (At("campaign") \/ (At("advance") /\ Counted(t))))

ClosesSettled == \A t \in Trades : CloseSettled(t)

\* The reviews of a row.
HasReview(r, day, slot) ==
  \E i \in DOMAIN r.reviews : r.reviews[i].day = day /\ r.reviews[i].slot = slot

InReview(t) == call.back = "record" /\ t = Cur

\* A review that has asked for an exit is on record, or under way, or was cut.
OnRecord(t, d, s) ==
  /\ row[t].pos.state # "NONE"
  /\ t \in cut \/ HasReview(row[t], d, s)
       \/ (InReview(t) /\ ~At("request") /\ d = clock.day /\ s = call.slot)

ActedIsRecorded ==
  /\ \A t \in Trades, d \in 1..Days, s \in 1..Slots : <<t, d, s>> \in acted => OnRecord(t, d, s)
  /\ At("request") /\ call.back = "record" /\ <<Cur, clock.day, call.slot>> \in acted => Cur \in cut

\* Whoever is due for the slots in hand waits for its review, has it, or is in it.
ReviewsDue ==
  /\ Reviewing => \A t \in Trades : Eligible(t) => t \in call.todo \/ Recorded(t) \/ InReview(t)
  /\ At("slots") => call.todo = {}

DeskInv == TypeOK /\ CallOK /\ RowsFollow /\ ClosesSettled /\ ActedIsRecorded /\ ReviewsDue

-----------------------------------------------------------------------------
\* Rows.

Fields(w, p, ids, reviews, carry, roll, c) ==
  /\ w.pos = p /\ w.ids = ids /\ w.reviews = reviews /\ w.carry = carry /\ w.roll = roll
  /\ w.campaign = c

LEMMA PosPut ==
  ASSUME NEW r \in Rows, NEW p \in Positions
  PROVE  /\ [r EXCEPT !.pos = p] \in Rows
         /\ Fields([r EXCEPT !.pos = p], p, r.ids, r.reviews, r.carry, r.roll, r.campaign)
  BY DEF Rows, Fields

LEMMA IdsPut ==
  ASSUME NEW r \in Rows, NEW ids \in Keys \cup {None}
  PROVE  /\ [r EXCEPT !.ids = ids] \in Rows
         /\ Fields([r EXCEPT !.ids = ids], r.pos, ids, r.reviews, r.carry, r.roll, r.campaign)
  BY DEF Rows, Fields

LEMMA RollPut ==
  ASSUME NEW r \in Rows, NEW roll \in Transitions
  PROVE  /\ [r EXCEPT !.roll = roll] \in Rows
         /\ Fields([r EXCEPT !.roll = roll], r.pos, r.ids, r.reviews, r.carry, roll, r.campaign)
  BY DEF Rows, Fields

LEMMA ReviewsPut ==
  ASSUME NEW r \in Rows, NEW reviews \in Seq(Reviews)
  PROVE  /\ [r EXCEPT !.reviews = reviews] \in Rows
         /\ Fields([r EXCEPT !.reviews = reviews], r.pos, r.ids, reviews, r.carry, r.roll, r.campaign)
  BY DEF Rows, Fields

LEMMA CarryPut ==
  ASSUME NEW r \in Rows, NEW d \in 1..Days, NEW verdict \in {"APPROVED", "REJECTED"}
  PROVE  /\ [r EXCEPT !.carry[d] = verdict] \in Rows
         /\ Fields([r EXCEPT !.carry[d] = verdict], r.pos, r.ids, r.reviews,
                   [r.carry EXCEPT ![d] = verdict], r.roll, r.campaign)
<1> DEFINE carry == [r.carry EXCEPT ![d] = verdict]
           w == [r EXCEPT !.carry = carry]
<1>1. carry \in [1..Days -> {"NONE", "APPROVED", "REJECTED"}]
  BY DEF Rows
<1>2. [r EXCEPT !.carry[d] = verdict] = w
  BY DEF Rows
<1> HIDE DEF carry
<1>3. w \in Rows /\ Fields(w, r.pos, r.ids, r.reviews, carry, r.roll, r.campaign)
  BY <1>1 DEF Rows, Fields
<1>4. QED
  BY <1>2, <1>3 DEF carry

\* w has the reviews of r, the execution of each aside.
KeepsReviews(r, w) ==
  \A i \in DOMAIN r.reviews :
    i \in DOMAIN w.reviews /\ w.reviews[i].day = r.reviews[i].day /\ w.reviews[i].slot = r.reviews[i].slot

LEMMA ReviewKept ==
  ASSUME NEW r, NEW w, KeepsReviews(r, w), NEW d, NEW s, HasReview(r, d, s)
  PROVE  HasReview(w, d, s)
  BY DEF KeepsReviews, HasReview

LEMMA PatchedIs ==
  ASSUME NEW r \in Rows, NEW execution \in Executions
  PROVE  /\ Patched(r, execution) \in Rows /\ KeepsReviews(r, Patched(r, execution))
         /\ Fields(Patched(r, execution), r.pos, r.ids, Patched(r, execution).reviews, r.carry, r.roll, r.campaign)
<1>1. CASE r.reviews = <<>>
  BY <1>1 DEF Patched, KeepsReviews, Fields
<1>2. CASE r.reviews # <<>>
  <2> DEFINE n == Len(r.reviews)
             one == [r.reviews[n] EXCEPT !.execution = execution]
             reviews == [r.reviews EXCEPT ![n] = one]
  <2>1. r.reviews \in Seq(Reviews)
    BY DEF Rows
  <2>2. n \in DOMAIN r.reviews /\ r.reviews[n] \in Reviews
    BY <1>2, <2>1
  <2>3. one \in Reviews /\ one.day = r.reviews[n].day /\ one.slot = r.reviews[n].slot
    BY <2>2 DEF Reviews
  <2>4. Patched(r, execution) = [r EXCEPT !.reviews = reviews]
    BY <1>2 DEF Patched, Rows
  <2> HIDE DEF one
  <2>5. reviews \in Seq(Reviews)
    BY <2>1, <2>2, <2>3
  <2>6. /\ DOMAIN reviews = DOMAIN r.reviews
        /\ \A i \in DOMAIN r.reviews : reviews[i] = IF i = n THEN one ELSE r.reviews[i]
    BY <2>1, <2>2
  <2> HIDE DEF reviews, n
  <2>7. /\ [r EXCEPT !.reviews = reviews] \in Rows
        /\ Fields([r EXCEPT !.reviews = reviews], r.pos, r.ids, reviews, r.carry, r.roll, r.campaign)
    BY <2>5, ReviewsPut
  <2>8. Patched(r, execution).reviews = reviews
    BY <2>4, <2>7 DEF Fields
  <2>9. KeepsReviews(r, Patched(r, execution))
    BY <2>3, <2>6, <2>8 DEF KeepsReviews
  <2>10. QED
    BY <2>4, <2>7, <2>8, <2>9
<1>3. QED
  BY <1>1, <1>2

LEMMA WrittenIs ==
  ASSUME TypeOK, NEW t \in Trades
  PROVE  /\ Written(t) \in Rows
         /\ Fields(Written(t), pos[t], row[t].ids, row[t].reviews, row[t].carry, row[t].roll, row[t].campaign)
  BY PosPut DEF TypeOK, Written

\* The entry of one trade moves.
LEMMA OneRow ==
  ASSUME TypeOK, NEW c \in Trades, NEW w \in Rows, row' = [row EXCEPT ![c] = w]
  PROVE  row' \in [Trades -> Rows] /\ row'[c] = w /\ \A t \in Trades : t # c => row'[t] = row[t]
  BY DEF TypeOK

LEMMA OnePos ==
  ASSUME TypeOK, NEW c \in Trades, NEW p \in Positions, pos' = [pos EXCEPT ![c] = p]
  PROVE  pos' \in [Trades -> Positions] /\ pos'[c] = p /\ \A t \in Trades : t # c => pos'[t] = pos[t]
  BY DEF TypeOK

-----------------------------------------------------------------------------
\* Steps that move one trade at most, c: the rest of the books follow as before.

Moves(c) ==
  /\ row' \in [Trades -> Rows] /\ \A t \in Trades : t # c => pos'[t] = pos[t] /\ row'[t] = row[t]
  /\ cut \subseteq cut' /\ adopted \subseteq adopted'
  /\ \A x \in Trades : campaign[x].closes \subseteq campaign'[x].closes

LEMMA OthersFollow ==
  ASSUME DeskInv, NEW c \in Trades, Moves(c), RowFollows(c)', CloseSettled(c)',
         Cur = c \/ call.pc \notin {"settle", "campaign", "advance"}
  PROVE  RowsFollow' /\ ClosesSettled'
<1> SUFFICES ASSUME NEW t \in Trades, t # c PROVE RowFollows(t)' /\ CloseSettled(t)'
  BY DEF RowsFollow, ClosesSettled
<1>1. pos'[t] = pos[t] /\ row'[t] = row[t] /\ RowFollows(t) /\ CloseSettled(t)
  BY DEF Moves, DeskInv, RowsFollow, ClosesSettled
<1>2. RowFollows(t)'
  BY <1>1 DEF Moves, RowFollows, InBook, At
<1>3. Counted(t) => Counted(t)'
  <2>1. row[t].campaign \in Trades \cup {None}
    BY DEF DeskInv, TypeOK, Rows
  <2>2. QED
    BY <1>1, <2>1 DEF Moves, Counted
<1>4. CloseSettled(t)'
  BY <1>1, <1>3 DEF Moves, CloseSettled, Settled, At
<1>5. QED
  BY <1>2, <1>4

\* A step of an exit, or of a review in the middle of it: the reviews of its trade
\* stay, and if it is a review's, what it has asked for may be new.
ExitStep ==
  /\ clock' = clock /\ slots' = slots /\ Cur' = Cur
  /\ call'.back = call.back /\ call'.todo = call.todo /\ call'.slot = call.slot
  /\ call'.covers = call.covers
  /\ call'.pc \notin {"request", "review", "slots"} /\ call.pc \notin {"review", "slots"}
  /\ row'[Cur].pos.state # "NONE" /\ row'[Cur].carry = row[Cur].carry
  /\ KeepsReviews(row[Cur], row'[Cur])
  /\ cut' = cut
  /\ \A x \in acted' : x \in acted \/ (call.back = "record" /\ x = <<Cur, clock.day, call.slot>>)

LEMMA RecordedKept ==
  ASSUME NEW t \in Trades, KeepsReviews(row[t], row'[t]), clock' = clock, call'.covers = call.covers, Recorded(t)
  PROVE  Recorded(t)'
  BY DEF KeepsReviews, Recorded

LEMMA ExitStepKeeps ==
  ASSUME DeskInv, Cur \in Trades, Moves(Cur), ExitStep, acted' \subseteq Trades \X (1..Days) \X (1..Slots)
  PROVE  ActedIsRecorded' /\ ReviewsDue'
<1>1. ASSUME NEW t \in Trades, NEW d \in 1..Days, NEW s \in 1..Slots, <<t, d, s>> \in acted'
      PROVE  OnRecord(t, d, s)'
  <2>1. CASE <<t, d, s>> \in acted
    <3>1. OnRecord(t, d, s)
      BY <2>1 DEF DeskInv, ActedIsRecorded
    <3>2. KeepsReviews(row[t], row'[t]) /\ row'[t].pos.state # "NONE"
      BY <3>1 DEF Moves, ExitStep, KeepsReviews, OnRecord
    <3>3. HasReview(row[t], d, s) => HasReview(row'[t], d, s)
      BY <3>2, ReviewKept
    <3>4. HasReview(row[t], d, s)' <=> HasReview(row'[t], d, s)
      BY DEF HasReview
    <3>5. QED
      BY <3>1, <3>2, <3>3, <3>4 DEF OnRecord, ExitStep, InReview, At
  <2>2. CASE <<t, d, s>> \notin acted
    <3>1. call.back = "record" /\ t = Cur /\ d = clock.day /\ s = call.slot
      BY <1>1, <2>2 DEF ExitStep
    <3>2. QED
      BY <3>1 DEF OnRecord, ExitStep, InReview, At
  <2>3. QED
    BY <2>1, <2>2
<1>2. ActedIsRecorded'
  BY <1>1 DEF ActedIsRecorded, ExitStep, At
<1>3. ASSUME NEW t \in Trades, Reviewing', Eligible(t)'
      PROVE  (t \in call.todo \/ Recorded(t) \/ InReview(t))'
  <2>1. Reviewing
    BY <1>3 DEF Reviewing, ExitStep
  <2>2. CASE t = Cur
    BY <1>3, <2>2 DEF Reviewing, ExitStep, InReview
  <2>3. CASE t # Cur
    <3>1. pos'[t] = pos[t] /\ row'[t] = row[t]
      BY <2>3 DEF Moves
    <3>2. Eligible(t)
      BY <1>3, <3>1 DEF Eligible, InBook
    <3>3. t \in call.todo \/ Recorded(t)
      BY <2>1, <2>3, <3>2 DEF DeskInv, ReviewsDue, InReview
    <3>4. Recorded(t) => Recorded(t)'
      BY <3>1 DEF Recorded, ExitStep
    <3>5. QED
      BY <3>3, <3>4 DEF ExitStep
  <2>4. QED
    BY <2>2, <2>3
<1>4. ReviewsDue'
  BY <1>3 DEF ReviewsDue, ExitStep, At
<1>5. QED
  BY <1>2, <1>4

LEMMA ExitKeeps ==
  ASSUME DeskInv, Busy, NEW c \in Trades, c = Cur, Moves(c), ExitStep,
         TypeOK', CallOK', RowFollows(c)', CloseSettled(c)'
  PROVE  DeskInv'
<1>1. acted' \subseteq Trades \X (1..Days) \X (1..Slots)
  BY DEF TypeOK
<1>2. RowsFollow' /\ ClosesSettled'
  BY OthersFollow
<1>3. ActedIsRecorded' /\ ReviewsDue'
  BY <1>1, ExitStepKeeps
<1>4. QED
  BY <1>2, <1>3 DEF DeskInv

\* What the thread has in its hands while it works on an exit.
AtWork(c) ==
  /\ row[c] \in Rows /\ pos[c] \in Positions /\ pos[c].state # "NONE" /\ row[c].pos.state # "NONE"
  /\ RowFollows(c) /\ CloseSettled(c)

LEMMA BusyIs ==
  ASSUME DeskInv, Busy
  PROVE  /\ TypeOK /\ CallOK
         /\ \E c \in Trades : c = Cur /\ AtWork(c)
<1>1. PICK c \in Trades : c = Cur
  BY DEF DeskInv, CallOK
<1>2. pos[c].state # "NONE"
  BY <1>1 DEF DeskInv, CallOK
<1>3. RowFollows(c) /\ CloseSettled(c)
  BY DEF DeskInv, RowsFollow, ClosesSettled
<1>4. row[c].pos.state # "NONE"
  BY <1>2, <1>3 DEF RowFollows, InBook
<1>5. QED
  BY <1>1, <1>2, <1>3, <1>4 DEF DeskInv, TypeOK, AtWork

-----------------------------------------------------------------------------
\* The steps of an exit.

Pcs == {"idle", "review", "request", "submit", "ids", "apply", "settle", "campaign",
        "advance", "record", "slots", "carried", "replace", "adopt", "adopted"}

CallKept ==
  /\ call' \in CallType /\ call'.back = call.back /\ Cur' = Cur /\ call'.todo = call.todo
  /\ call'.slot = call.slot /\ call'.covers = call.covers /\ call'.key = call.key

LEMMA GoesTo ==
  ASSUME TypeOK, NEW pc \in Pcs, Goes(pc)
  PROVE  CallKept /\ call'.pc = pc
  BY DEF TypeOK, CallType, Pcs, Goes, CallKept, Cur

LEMMA AppliedIs ==
  ASSUME NEW p \in Positions, NEW k \in Keys, NEW stays \in BOOLEAN
  PROVE  Applied(p, k, stays) \in Positions /\ Applied(p, k, stays).state \in {"OPEN", "CLOSING", "CLOSED"}
<1> DEFINE left == p.qty - k.qty
<1>1. p.qty \in 0..Lots /\ k.qty \in 1..Lots
  BY DEF Positions, Keys
<1>2. left > 0 => left \in 0..Lots
  BY <1>1, BoundsAssumption
<1>3. 0 \in 0..Lots
  BY BoundsAssumption
<1> HIDE DEF left
<1>4. CASE left <= 0
  BY <1>3, <1>4 DEF Applied, Positions, States, left
<1>5. CASE ~(left <= 0)
  <2>1. left \in 0..Lots
    BY <1>1, <1>2, <1>5 DEF left
  <2>2. Applied(p, k, stays) = [state |-> IF stays THEN "OPEN" ELSE "CLOSING", qty |-> left]
    BY <1>5 DEF Applied, left
  <2>3. QED
    BY <2>1, <2>2 DEF Positions, States
<1>6. QED
  BY <1>4, <1>5

\* What the answer to an exit order makes of the position.
LEMMA AnsweredIs ==
  ASSUME TypeOK, NEW c \in Trades, c = Cur, NEW k \in Keys, NEW stays \in BOOLEAN, Answered(k, stays)
  PROVE  /\ pos' \in [Trades -> Positions] /\ \A t \in Trades : t # c => pos'[t] = pos[t]
         /\ pos'[c].state \in {"OPEN", "CLOSING", "CLOSED"}
<1> DEFINE p == IF log[c][k] = "FILLED" THEN Applied(pos[c], k, stays) ELSE [pos[c] EXCEPT !.state = "OPEN"]
<1>1. pos[c] \in Positions
  BY DEF TypeOK
<1>2. /\ [pos[c] EXCEPT !.state = "OPEN"] \in Positions
      /\ [pos[c] EXCEPT !.state = "OPEN"].state = "OPEN"
  BY <1>1 DEF Positions, States
<1>3. p \in Positions /\ p.state \in {"OPEN", "CLOSING", "CLOSED"}
  BY <1>1, <1>2, AppliedIs
<1>4. pos' = [pos EXCEPT ![c] = p]
  BY DEF Answered
<1> HIDE DEF p
<1>5. QED
  BY <1>3, <1>4, OnePos

LEMMA RequestExitKeeps == DeskInv /\ RequestExit => DeskInv'
<1> SUFFICES ASSUME DeskInv, RequestExit PROVE DeskInv'
  OBVIOUS
<1>1. Busy /\ call.pc = "request"
  BY DEF RequestExit, Busy, At
<1>2. TypeOK /\ CallOK
  BY <1>1, BusyIs
<1>3. PICK c \in Trades : c = Cur /\ AtWork(c)
  BY <1>1, BusyIs
<1> DEFINE p == [pos[c] EXCEPT !.state = "EXIT_PENDING"]
<1>4. pos[c].state = "OPEN" /\ p \in Positions /\ p.state = "EXIT_PENDING"
  BY <1>1, <1>2, <1>3 DEF CallOK, AtWork, Positions, States
<1>5. pos' = [pos EXCEPT ![c] = p]
  BY <1>2, <1>3, <1>4 DEF RequestExit, TypeOK
<1> HIDE DEF p
<1>6. pos' \in [Trades -> Positions] /\ pos'[c] = p /\ \A t \in Trades : t # c => pos'[t] = pos[t]
  BY <1>2, <1>4, <1>5, OnePos
<1>7. /\ row' \in [Trades -> Rows] /\ \A t \in Trades : t # c => row'[t] = row[t]
      /\ row'[c].pos = p \/ row'[c].pos = row[c].pos
      /\ Fields(row'[c], row'[c].pos, row[c].ids, row[c].reviews, row[c].carry, row[c].roll, row[c].campaign)
  <2>1. CASE call.back = "idle"
    <3> DEFINE w == [row[c] EXCEPT !.pos = p]
    <3>1. w \in Rows /\ Fields(w, p, row[c].ids, row[c].reviews, row[c].carry, row[c].roll, row[c].campaign)
      BY <1>3, <1>4, PosPut DEF AtWork
    <3>2. row' = [row EXCEPT ![c] = w]
      BY <1>2, <1>3, <1>6, <2>1 DEF RequestExit, TypeOK
    <3> HIDE DEF w
    <3>3. row' \in [Trades -> Rows] /\ row'[c] = w /\ \A t \in Trades : t # c => row'[t] = row[t]
      BY <1>2, <3>1, <3>2, OneRow
    <3>4. QED
      BY <3>1, <3>3 DEF Fields
  <2>2. CASE call.back # "idle"
    BY <1>2, <2>2 DEF RequestExit, TypeOK, Fields
  <2>3. QED
    BY <2>1, <2>2
<1>8. CallKept /\ call'.pc = "submit"
  BY <1>2, GoesTo DEF RequestExit, Pcs
<1>9. /\ UNCHANGED <<log, slots, campaign, cut, adopted, run>>
      /\ acted' = IF call.back = "record" THEN acted \cup {<<c, clock.day, call.slot>>} ELSE acted
  BY <1>3 DEF RequestExit
<1>10. TypeOK'
  <2>1. call.back = "record" => call.slot \in 1..Slots
    BY <1>2 DEF TypeOK, CallType, CallOK, Reviewing
  <2>2. clock.day \in 1..Days
    BY <1>2 DEF TypeOK
  <2>3. acted' \subseteq Trades \X (1..Days) \X (1..Slots)
    BY <1>2, <1>9, <2>1, <2>2 DEF TypeOK
  <2>4. QED
    BY <1>2, <1>6, <1>7, <1>8, <1>9, <2>3 DEF TypeOK, CallKept, run
<1>11. CallOK'
  BY <1>1, <1>2, <1>3, <1>4, <1>6, <1>8, <1>9 DEF CallOK, CallKept, Busy, Reviewing, InFlight
<1>12. RowFollows(c)' /\ CloseSettled(c)'
  BY <1>3, <1>4, <1>6, <1>7 DEF RowFollows, CloseSettled, InBook, AtWork
<1>13. Moves(c) /\ ExitStep
  <2>1. Moves(c)
    BY <1>6, <1>7, <1>9 DEF Moves
  <2>2. row'[c].pos.state # "NONE" /\ row'[c].carry = row[c].carry /\ KeepsReviews(row[c], row'[c])
    BY <1>3, <1>4, <1>7 DEF AtWork, Fields, KeepsReviews
  <2>3. QED
    BY <1>1, <1>3, <1>8, <1>9, <2>1, <2>2 DEF ExitStep, CallKept, run
<1>14. QED
  BY <1>1, <1>3, <1>10, <1>11, <1>12, <1>13, ExitKeeps

LEMMA AdoptKeeps == DeskInv /\ Adopt => DeskInv'
<1> SUFFICES ASSUME DeskInv, Adopt PROVE DeskInv'
  OBVIOUS
<1>1. Busy /\ call.pc = "submit"
  BY DEF Adopt, Busy, At
<1>2. TypeOK /\ CallOK
  BY <1>1, BusyIs
<1>3. PICK c \in Trades : c = Cur /\ AtWork(c)
  BY <1>1, BusyIs
<1>4. CallKept /\ call'.pc = "adopt"
  BY <1>2, GoesTo DEF Adopt, Pcs
<1>5. /\ UNCHANGED <<pos, row, log, slots, campaign, acted, cut, run>>
      /\ adopted' = adopted \cup {c} /\ row[c].ids \in Keys
  BY <1>3 DEF Adopt, AtWork, Rows
<1>6. TypeOK'
  BY <1>2, <1>4, <1>5 DEF TypeOK, CallKept, run
<1>7. CallOK'
  BY <1>1, <1>2, <1>3, <1>4, <1>5 DEF CallOK, CallKept, Busy, Reviewing
<1>8. RowFollows(c)' /\ CloseSettled(c)'
  BY <1>3, <1>5 DEF RowFollows, CloseSettled, InBook, AtWork
<1>9. Moves(c) /\ ExitStep
  BY <1>1, <1>2, <1>3, <1>4, <1>5 DEF Moves, ExitStep, TypeOK, AtWork, CallKept, KeepsReviews, run
<1>10. QED
  BY <1>1, <1>3, <1>6, <1>7, <1>8, <1>9, ExitKeeps

LEMMA NoPlanKeeps == DeskInv /\ NoPlan => DeskInv'
<1> SUFFICES ASSUME DeskInv, NoPlan PROVE DeskInv'
  OBVIOUS
<1>1. Busy /\ call.pc = "submit"
  BY DEF NoPlan, Busy, At
<1>2. TypeOK /\ CallOK
  BY <1>1, BusyIs
<1>3. PICK c \in Trades : c = Cur /\ AtWork(c)
  BY <1>1, BusyIs
<1>4. call.back \in {"idle", "record", "carried"}
  BY <1>2 DEF TypeOK, CallType
<1>5. CallKept /\ call'.pc = call.back
  BY <1>2, <1>4, GoesTo DEF NoPlan, Pcs
<1>6. UNCHANGED <<pos, row, log, slots, campaign, history, run>>
  BY DEF NoPlan
<1>7. TypeOK'
  BY <1>2, <1>5, <1>6 DEF TypeOK, CallKept, history, run
<1>8. CallOK'
  BY <1>1, <1>2, <1>3, <1>4, <1>5, <1>6 DEF CallOK, CallKept, Busy, Reviewing, history
<1>9. RowFollows(c)' /\ CloseSettled(c)'
  BY <1>1, <1>3, <1>6 DEF RowFollows, CloseSettled, InBook, AtWork, At, Settled, Counted, history
<1>10. Moves(c) /\ ExitStep
  BY <1>1, <1>2, <1>3, <1>4, <1>5, <1>6
     DEF Moves, ExitStep, TypeOK, AtWork, CallKept, KeepsReviews, history, run
<1>11. QED
  BY <1>1, <1>3, <1>7, <1>8, <1>9, <1>10, ExitKeeps

LEMMA SubmitKeeps ==
  ASSUME DeskInv, NEW answer \in {"FILLED", "REJECTED"}, Submit(answer)
  PROVE  DeskInv'
<1> DEFINE q == IF call.part > 0 THEN call.part ELSE pos[Cur].qty
           k == [part |-> q # pos[Cur].qty, qty |-> q]
<1>1. Busy /\ call.pc = "submit"
  BY DEF Submit, Busy, At
<1>0. TypeOK /\ CallOK
  BY <1>1, BusyIs
<1>2. PICK c \in Trades : c = Cur /\ AtWork(c)
  BY <1>1, BusyIs
<1>3. q > 0 /\ q <= pos[c].qty
  BY <1>2 DEF Submit
<1>4. q \in 1..Lots
  BY <1>0, <1>2, <1>3, BoundsAssumption DEF TypeOK, CallType, Positions, AtWork
<1>5. k \in Keys
  BY <1>4 DEF Keys
<1>6. /\ log' = [log EXCEPT ![c][k] = answer]
      /\ call' = [call EXCEPT !.pc = "ids", !.sent = TRUE, !.key = k]
      /\ UNCHANGED <<pos, row, slots, campaign, history, run>>
  BY <1>2 DEF Submit
<1> HIDE DEF k, q
<1>7. log' \in [Trades -> [Keys -> {"NONE", "FILLED", "REJECTED"}]]
  BY <1>0, <1>2, <1>5, <1>6 DEF TypeOK
<1>8. /\ call' \in CallType /\ call'.pc = "ids" /\ call'.key = k /\ call'.back = call.back
      /\ Cur' = Cur /\ call'.todo = call.todo /\ call'.slot = call.slot /\ call'.covers = call.covers
  <2>1. \A sent \in BOOLEAN :
          LET n == [call EXCEPT !.pc = "ids", !.sent = sent, !.key = k] IN
          /\ n \in CallType /\ n.pc = "ids" /\ n.key = k /\ n.back = call.back
          /\ n.trade = call.trade /\ n.todo = call.todo /\ n.slot = call.slot /\ n.covers = call.covers
    BY <1>0, <1>5 DEF TypeOK, CallType
  <2>2. call' = [call EXCEPT !.pc = "ids", !.sent = TRUE, !.key = k] /\ TRUE \in BOOLEAN
    BY <1>6
  <2>3. LET n == call' IN
        /\ n \in CallType /\ n.pc = "ids" /\ n.key = k /\ n.back = call.back
        /\ n.trade = call.trade /\ n.todo = call.todo /\ n.slot = call.slot /\ n.covers = call.covers
    BY <2>1, <2>2, Zenon
  <2>4. QED
    BY <2>3 DEF Cur
<1>10. TypeOK'
  BY <1>0, <1>2, <1>6, <1>7, <1>8 DEF TypeOK, history, run
<1>11. CallOK'
  BY <1>0, <1>1, <1>2, <1>5, <1>6, <1>8 DEF CallOK, AtWork, Busy, Reviewing
<1>12. RowFollows(c)' /\ CloseSettled(c)'
  BY <1>0, <1>1, <1>2, <1>6, <1>8 DEF RowFollows, CloseSettled, InBook, AtWork, At, Settled, Counted, history
<1>13. Moves(c) /\ ExitStep
  BY <1>0, <1>1, <1>2, <1>6, <1>8 DEF AtWork, Moves, ExitStep, TypeOK, KeepsReviews, history, run
<1>14. QED
  BY <1>1, <1>2, <1>10, <1>11, <1>12, <1>13, ExitKeeps

LEMMA WriteIdsKeeps == DeskInv /\ WriteIds => DeskInv'
<1> SUFFICES ASSUME DeskInv, WriteIds PROVE DeskInv'
  OBVIOUS
<1>1. Busy /\ call.pc = "ids"
  BY DEF WriteIds, Busy, At
<1>2. TypeOK /\ CallOK
  BY <1>1, BusyIs
<1>3. PICK c \in Trades : c = Cur /\ AtWork(c)
  BY <1>1, BusyIs
<1> DEFINE r == Written(c)
           w == [r EXCEPT !.ids = call.key]
<1>4. r \in Rows /\ Fields(r, pos[c], row[c].ids, row[c].reviews, row[c].carry, row[c].roll, row[c].campaign)
  BY <1>2, WrittenIs
<1>5. row' = [row EXCEPT ![c] = w] /\ call.key \in Keys
  BY <1>1, <1>2, <1>3 DEF WriteIds, CallOK
<1> HIDE DEF r
<1>6. w \in Rows /\ Fields(w, pos[c], call.key, row[c].reviews, row[c].carry, row[c].roll, row[c].campaign)
  BY <1>4, <1>5, IdsPut DEF Fields
<1> HIDE DEF w
<1>7. row' \in [Trades -> Rows] /\ row'[c] = w /\ \A t \in Trades : t # c => row'[t] = row[t]
  BY <1>2, <1>5, <1>6, OneRow
<1>8. CallKept /\ call'.pc = "apply"
  BY <1>2, GoesTo DEF WriteIds, Pcs
<1>9. UNCHANGED <<pos, log, slots, campaign, history, run>>
  BY DEF WriteIds
<1>10. pos[c].state \in InFlight
  BY <1>1, <1>2, <1>3 DEF CallOK
<1>11. TypeOK'
  BY <1>2, <1>7, <1>8, <1>9 DEF TypeOK, CallKept, history, run
<1>12. CallOK'
  BY <1>1, <1>2, <1>3, <1>8, <1>9 DEF CallOK, CallKept, Busy, Reviewing, history
<1>13. RowFollows(c)' /\ CloseSettled(c)'
  BY <1>6, <1>7, <1>9, <1>10 DEF RowFollows, CloseSettled, InBook, InFlight, Fields
<1>14. Moves(c) /\ ExitStep
  BY <1>1, <1>3, <1>6, <1>7, <1>8, <1>9 DEF Moves, ExitStep, Fields, AtWork, CallKept, KeepsReviews, history, run
<1>15. QED
  BY <1>1, <1>3, <1>11, <1>12, <1>13, <1>14, ExitKeeps

LEMMA ApplyKeeps == DeskInv /\ Apply => DeskInv'
<1> SUFFICES ASSUME DeskInv, Apply PROVE DeskInv'
  OBVIOUS
<1>1. Busy /\ call.pc = "apply"
  BY DEF Apply, Busy, At
<1>2. TypeOK /\ CallOK
  BY <1>1, BusyIs
<1>3. PICK c \in Trades : c = Cur /\ AtWork(c)
  BY <1>1, BusyIs
<1>4. call.key \in Keys /\ pos[c].state \in InFlight
  BY <1>1, <1>2, <1>3 DEF CallOK
<1>5. /\ pos' \in [Trades -> Positions] /\ \A t \in Trades : t # c => pos'[t] = pos[t]
      /\ pos'[c].state \in {"OPEN", "CLOSING", "CLOSED"}
  <2>1. \A stays \in BOOLEAN : Answered(call.key, stays) =>
          /\ pos' \in [Trades -> Positions] /\ \A t \in Trades : t # c => pos'[t] = pos[t]
          /\ pos'[c].state \in {"OPEN", "CLOSING", "CLOSED"}
    BY <1>2, <1>3, <1>4, AnsweredIs
  <2>2. Answered(call.key, call.part > 0) /\ (call.part > 0) \in BOOLEAN
    BY DEF Apply
  <2>3. QED
    BY <2>1, <2>2, Zenon
<1>6. CallKept /\ call'.pc = "settle"
  BY <1>2, GoesTo DEF Apply, Pcs
<1>7. UNCHANGED <<row, log, slots, campaign, history, run>>
  BY DEF Apply
<1>8. TypeOK'
  BY <1>2, <1>5, <1>6, <1>7 DEF TypeOK, CallKept, history, run
<1>9. CallOK'
  BY <1>1, <1>2, <1>3, <1>4, <1>5, <1>6, <1>7 DEF CallOK, CallKept, Busy, Reviewing, history
<1>10. row[c].pos.state \notin {"NONE", "CLOSED"}
  BY <1>3, <1>4 DEF AtWork, RowFollows, InBook, InFlight
<1>11. RowFollows(c)' /\ CloseSettled(c)'
  BY <1>3, <1>6, <1>7, <1>10 DEF RowFollows, CloseSettled, InBook, At, CallKept
<1>12. Moves(c) /\ ExitStep
  BY <1>1, <1>2, <1>3, <1>5, <1>6, <1>7
     DEF Moves, ExitStep, TypeOK, AtWork, CallKept, KeepsReviews, history, run
<1>13. QED
  BY <1>1, <1>3, <1>8, <1>9, <1>11, <1>12, ExitKeeps

LEMMA SettleKeeps == DeskInv /\ Settle => DeskInv'
<1> SUFFICES ASSUME DeskInv, Settle PROVE DeskInv'
  OBVIOUS
<1>1. Busy /\ call.pc = "settle"
  BY DEF Settle, Busy, At
<1>2. TypeOK /\ CallOK
  BY <1>1, BusyIs
<1>3. PICK c \in Trades : c = Cur /\ AtWork(c)
  BY <1>1, BusyIs
<1> DEFINE r == Written(c)
           ids == Kept(call.key, call.part > 0)
           w == [r EXCEPT !.ids = ids]
           pc == IF pos[c].state = "CLOSED" THEN "campaign" ELSE call.back
<1>4. r \in Rows /\ Fields(r, pos[c], row[c].ids, row[c].reviews, row[c].carry, row[c].roll, row[c].campaign)
  BY <1>2, WrittenIs
<1>5. call.key \in Keys /\ ids \in Keys \cup {None}
  BY <1>1, <1>2 DEF CallOK, Kept
<1>6. row' = [row EXCEPT ![c] = w] /\ Goes(pc)
  BY <1>3 DEF Settle
<1>7. pc \in Pcs /\ call.back \in {"idle", "record", "carried"}
  BY <1>2 DEF TypeOK, CallType, Pcs
<1> HIDE DEF r, ids, pc
<1>8. w \in Rows /\ Fields(w, pos[c], ids, row[c].reviews, row[c].carry, row[c].roll, row[c].campaign)
  BY <1>4, <1>5, IdsPut DEF Fields
<1> HIDE DEF w
<1>9. row' \in [Trades -> Rows] /\ row'[c] = w /\ \A t \in Trades : t # c => row'[t] = row[t]
  BY <1>2, <1>6, <1>8, OneRow
<1>10. CallKept /\ call'.pc = pc
  BY <1>2, <1>6, <1>7, GoesTo
<1>11. UNCHANGED <<pos, log, slots, campaign, history, run>>
  BY DEF Settle
<1>12. TypeOK'
  BY <1>2, <1>9, <1>10, <1>11 DEF TypeOK, CallKept, history, run
<1>13. CallOK'
  BY <1>1, <1>2, <1>3, <1>7, <1>10, <1>11 DEF CallOK, CallKept, AtWork, Busy, Reviewing, history, pc
<1>14. RowFollows(c)' /\ CloseSettled(c)'
  BY <1>3, <1>8, <1>9, <1>10, <1>11 DEF RowFollows, CloseSettled, InBook, At, AtWork, CallKept, Fields, pc
<1>15. Moves(c) /\ ExitStep
  BY <1>1, <1>3, <1>7, <1>8, <1>9, <1>10, <1>11
     DEF Moves, ExitStep, Fields, AtWork, CallKept, KeepsReviews, history, run, pc
<1>16. QED
  BY <1>1, <1>3, <1>12, <1>13, <1>14, <1>15, ExitKeeps

LEMMA RecordCloseKeeps ==
  ASSUME DeskInv, NEW loss \in BOOLEAN, RecordClose(loss)
  PROVE  DeskInv'
<1>1. Busy /\ call.pc = "campaign"
  BY DEF RecordClose, Busy, At
<1>2. TypeOK /\ CallOK
  BY <1>1, BusyIs
<1>3. PICK c \in Trades : c = Cur /\ AtWork(c)
  BY <1>1, BusyIs
<1>4. CallKept /\ call'.pc = "advance"
  BY <1>2, GoesTo DEF RecordClose, Pcs
<1>5. UNCHANGED <<pos, row, log, slots, history, run>>
  BY DEF RecordClose
<1>6. /\ campaign' \in [Trades -> [closes : SUBSET Trades, blocked : BOOLEAN]]
      /\ \A x \in Trades : campaign[x].closes \subseteq campaign'[x].closes
      /\ row[c].campaign # None => c \in campaign'[row[c].campaign].closes
  <2> DEFINE x == row[c].campaign
  <2>1. x \in Trades \cup {None}
    BY <1>3 DEF AtWork, Rows
  <2>2. CASE x = None \/ c \in campaign[x].closes
    <3>1. campaign' = campaign
      BY <1>3, <2>2 DEF RecordClose
    <3>2. QED
      BY <1>2, <2>2, <3>1 DEF TypeOK
  <2>3. CASE ~(x = None \/ c \in campaign[x].closes)
    <3> DEFINE blocked == campaign[x].blocked \/ loss
               account == [closes |-> campaign[x].closes \cup {c}, blocked |-> blocked]
    <3>1. x \in Trades
      BY <2>1, <2>3
    <3>2. campaign[x].closes \in SUBSET Trades
      BY <1>2, <3>1 DEF TypeOK
    <3>3. blocked \in BOOLEAN
      BY Zenon
    <3>4. campaign' = [campaign EXCEPT ![x] = account]
      BY <1>2, <1>3, <2>3, <3>1 DEF RecordClose, TypeOK
    <3> HIDE DEF blocked
    <3>5. account \in [closes : SUBSET Trades, blocked : BOOLEAN] /\ account.closes = campaign[x].closes \cup {c}
      BY <3>2, <3>3
    <3> HIDE DEF account, x
    <3>6. QED
      BY <1>2, <3>1, <3>4, <3>5 DEF TypeOK, x
  <2>4. QED
    BY <2>2, <2>3
<1>7. TypeOK'
  BY <1>2, <1>4, <1>5, <1>6 DEF TypeOK, CallKept, history, run
<1>8. CallOK'
  BY <1>1, <1>2, <1>3, <1>4, <1>5 DEF CallOK, CallKept, AtWork, Busy, Reviewing, history
<1>9. RowFollows(c)' /\ CloseSettled(c)'
  BY <1>1, <1>3, <1>4, <1>5, <1>6
     DEF RowFollows, CloseSettled, Counted, InBook, At, AtWork, CallKept, history
<1>10. Moves(c) /\ ExitStep
  BY <1>1, <1>2, <1>3, <1>4, <1>5, <1>6
     DEF Moves, ExitStep, TypeOK, AtWork, CallKept, KeepsReviews, history, run
<1>11. QED
  BY <1>1, <1>3, <1>7, <1>8, <1>9, <1>10, ExitKeeps

LEMMA AdvancedIs ==
  ASSUME NEW r \in Rows
  PROVE  /\ Advanced(r) \in Rows /\ KeepsReviews(r, Advanced(r)) /\ Advanced(r).roll # "CLOSE_PENDING"
         /\ Fields(Advanced(r), r.pos, r.ids, Advanced(r).reviews, r.carry, Advanced(r).roll, r.campaign)
<1>1. CASE r.roll = "NONE"
  BY <1>1 DEF Advanced, KeepsReviews, Fields
<1>2. CASE r.roll # "NONE"
  <2> DEFINE x == Patched(r, "REPLACEMENT_PENDING_L2")
             roll == IF r.roll = "CLOSE_PENDING" THEN "CLOSE_COMPLETE" ELSE r.roll
             w == [x EXCEPT !.roll = roll]
  <2>1. /\ x \in Rows /\ KeepsReviews(r, x)
        /\ Fields(x, r.pos, r.ids, x.reviews, r.carry, r.roll, r.campaign)
    BY PatchedIs DEF Executions
  <2>2. roll \in Transitions /\ roll # "CLOSE_PENDING"
    BY DEF Rows, Transitions
  <2>3. Advanced(r) = [x EXCEPT !.roll = IF @ = "CLOSE_PENDING" THEN "CLOSE_COMPLETE" ELSE @]
    BY <1>2 DEF Advanced
  <2> HIDE DEF x
  <2>4. Advanced(r) = w
    BY <2>1, <2>3 DEF Fields, Rows
  <2> HIDE DEF roll
  <2>5. w \in Rows /\ Fields(w, r.pos, r.ids, x.reviews, r.carry, roll, r.campaign)
    BY <2>1, <2>2, RollPut DEF Fields
  <2> HIDE DEF w
  <2>6. QED
    BY <2>1, <2>2, <2>4, <2>5 DEF Fields, KeepsReviews
<1>3. QED
  BY <1>1, <1>2

LEMMA AdvanceKeeps == DeskInv /\ Advance => DeskInv'
<1> SUFFICES ASSUME DeskInv, Advance PROVE DeskInv'
  OBVIOUS
<1>1. Busy /\ call.pc = "advance"
  BY DEF Advance, Busy, At
<1>2. TypeOK /\ CallOK
  BY <1>1, BusyIs
<1>3. PICK c \in Trades : c = Cur /\ AtWork(c)
  BY <1>1, BusyIs
<1> DEFINE r == Written(c)
           w == Advanced(r)
<1>4. r \in Rows /\ Fields(r, pos[c], row[c].ids, row[c].reviews, row[c].carry, row[c].roll, row[c].campaign)
  BY <1>2, WrittenIs
<1>5. row' = [row EXCEPT ![c] = w] /\ Goes(call.back)
  BY <1>3 DEF Advance
<1>6. call.back \in {"idle", "record", "carried"}
  BY <1>2 DEF TypeOK, CallType
<1> HIDE DEF r
<1>7. /\ w \in Rows /\ KeepsReviews(r, w) /\ w.roll # "CLOSE_PENDING"
      /\ Fields(w, r.pos, r.ids, w.reviews, r.carry, w.roll, r.campaign)
  BY <1>4, AdvancedIs
<1> HIDE DEF w
<1>8. row' \in [Trades -> Rows] /\ row'[c] = w /\ \A t \in Trades : t # c => row'[t] = row[t]
  BY <1>2, <1>5, <1>7, OneRow
<1>9. CallKept /\ call'.pc = call.back
  BY <1>2, <1>5, <1>6, GoesTo DEF Pcs
<1>10. UNCHANGED <<pos, log, slots, campaign, history, run>>
  BY DEF Advance
<1>11. w.pos = pos[c] /\ w.campaign = row[c].campaign /\ w.carry = row[c].carry /\ r.reviews = row[c].reviews
  BY <1>4, <1>7 DEF Fields
<1>12. TypeOK'
  BY <1>2, <1>8, <1>9, <1>10 DEF TypeOK, CallKept, history, run
<1>13. CallOK'
  BY <1>1, <1>2, <1>3, <1>6, <1>9, <1>10 DEF CallOK, CallKept, AtWork, Busy, Reviewing, history
<1>14. RowFollows(c)'
  BY <1>3, <1>8, <1>10, <1>11 DEF RowFollows, InBook, AtWork
<1>15. CloseSettled(c)'
  <2>1. SUFFICES ASSUME pos[c].state = "CLOSED", c \notin cut \cup adopted PROVE Counted(c)'
    BY <1>7, <1>8, <1>10, <1>11 DEF CloseSettled, Settled, history
  <2>2. row[c].pos.state = "CLOSED"
    BY <1>1, <1>3, <2>1 DEF AtWork, RowFollows, At
  <2>3. Counted(c)
    BY <1>1, <1>3, <2>1, <2>2 DEF AtWork, CloseSettled, Settled, At
  <2>4. QED
    BY <1>8, <1>10, <1>11, <2>3 DEF Counted
<1>16. Moves(c) /\ ExitStep
  BY <1>1, <1>3, <1>6, <1>7, <1>8, <1>9, <1>10, <1>11
     DEF Moves, ExitStep, AtWork, CallKept, KeepsReviews, history, run
<1>17. QED
  BY <1>1, <1>3, <1>12, <1>13, <1>14, <1>15, <1>16, ExitKeeps

LEMMA AdoptApplyKeeps == DeskInv /\ AdoptApply => DeskInv'
<1> SUFFICES ASSUME DeskInv, AdoptApply PROVE DeskInv'
  OBVIOUS
<1>1. Busy /\ call.pc = "adopt"
  BY DEF AdoptApply, Busy, At
<1>2. TypeOK /\ CallOK
  BY <1>1, BusyIs
<1>3. PICK c \in Trades : c = Cur /\ AtWork(c)
  BY <1>1, BusyIs
<1>4. row[c].ids \in Keys /\ c \in adopted /\ pos[c].state \in InFlight
  BY <1>1, <1>2, <1>3 DEF CallOK
<1>5. /\ pos' \in [Trades -> Positions] /\ \A t \in Trades : t # c => pos'[t] = pos[t]
      /\ pos'[c].state \in {"OPEN", "CLOSING", "CLOSED"}
  <2>1. \A stays \in BOOLEAN : Answered(row[c].ids, stays) =>
          /\ pos' \in [Trades -> Positions] /\ \A t \in Trades : t # c => pos'[t] = pos[t]
          /\ pos'[c].state \in {"OPEN", "CLOSING", "CLOSED"}
    BY <1>2, <1>3, <1>4, AnsweredIs
  <2>2. Answered(row[c].ids, call.part > 0) /\ (call.part > 0) \in BOOLEAN
    BY <1>3 DEF AdoptApply
  <2>3. QED
    BY <2>1, <2>2, Zenon
<1>6. CallKept /\ call'.pc = "adopted"
  BY <1>2, GoesTo DEF AdoptApply, Pcs
<1>7. UNCHANGED <<row, log, slots, campaign, history, run>>
  BY DEF AdoptApply
<1>8. TypeOK'
  BY <1>2, <1>5, <1>6, <1>7 DEF TypeOK, CallKept, history, run
<1>9. CallOK'
  BY <1>1, <1>2, <1>3, <1>4, <1>5, <1>6, <1>7 DEF CallOK, CallKept, Busy, Reviewing, history
<1>10. row[c].pos.state \notin {"NONE", "CLOSED"}
  BY <1>3, <1>4 DEF AtWork, RowFollows, InBook, InFlight
<1>11. RowFollows(c)' /\ CloseSettled(c)'
  BY <1>4, <1>7, <1>10 DEF RowFollows, CloseSettled, InBook, history
<1>12. Moves(c) /\ ExitStep
  BY <1>1, <1>2, <1>3, <1>5, <1>6, <1>7
     DEF Moves, ExitStep, TypeOK, AtWork, CallKept, KeepsReviews, history, run
<1>13. QED
  BY <1>1, <1>3, <1>8, <1>9, <1>11, <1>12, ExitKeeps

LEMMA AdoptSettleKeeps == DeskInv /\ AdoptSettle => DeskInv'
<1> SUFFICES ASSUME DeskInv, AdoptSettle PROVE DeskInv'
  OBVIOUS
<1>1. Busy /\ call.pc = "adopted"
  BY DEF AdoptSettle, Busy, At
<1>2. TypeOK /\ CallOK
  BY <1>1, BusyIs
<1>3. PICK c \in Trades : c = Cur /\ AtWork(c)
  BY <1>1, BusyIs
<1> DEFINE r == Written(c)
           ids == Kept(row[c].ids, call.part > 0)
           w == [r EXCEPT !.ids = ids]
<1>4. r \in Rows /\ Fields(r, pos[c], row[c].ids, row[c].reviews, row[c].carry, row[c].roll, row[c].campaign)
  BY <1>2, WrittenIs
<1>5. ids \in Keys \cup {None} /\ c \in adopted
  BY <1>1, <1>2, <1>3 DEF CallOK, Kept
<1>6. row' = [row EXCEPT ![c] = w]
  BY <1>3 DEF AdoptSettle
<1>7. call.back \in {"idle", "record", "carried"}
  BY <1>2 DEF TypeOK, CallType
<1> HIDE DEF r, ids
<1>8. w \in Rows /\ Fields(w, pos[c], ids, row[c].reviews, row[c].carry, row[c].roll, row[c].campaign)
  BY <1>4, <1>5, IdsPut DEF Fields
<1> HIDE DEF w
<1>9. row' \in [Trades -> Rows] /\ row'[c] = w /\ \A t \in Trades : t # c => row'[t] = row[t]
  BY <1>2, <1>6, <1>8, OneRow
<1>10. CallKept /\ call'.pc = call.back
  <2>1. \A sent \in BOOLEAN :
          LET n == [call EXCEPT !.pc = call.back, !.sent = sent] IN
          /\ n \in CallType /\ n.pc = call.back /\ n.key = call.key /\ n.back = call.back
          /\ n.trade = call.trade /\ n.todo = call.todo /\ n.slot = call.slot /\ n.covers = call.covers
    BY <1>2, <1>7 DEF TypeOK, CallType
  <2>2. call' = [call EXCEPT !.pc = call.back, !.sent = TRUE] /\ TRUE \in BOOLEAN
    BY DEF AdoptSettle
  <2>3. LET n == call' IN
        /\ n \in CallType /\ n.pc = call.back /\ n.key = call.key /\ n.back = call.back
        /\ n.trade = call.trade /\ n.todo = call.todo /\ n.slot = call.slot /\ n.covers = call.covers
    BY <2>1, <2>2, Zenon
  <2>4. QED
    BY <2>3 DEF Cur, CallKept
<1>11. UNCHANGED <<pos, log, slots, campaign, history, run>>
  BY DEF AdoptSettle
<1>12. TypeOK'
  BY <1>2, <1>9, <1>10, <1>11 DEF TypeOK, CallKept, history, run
<1>13. CallOK'
  BY <1>1, <1>2, <1>3, <1>7, <1>10, <1>11 DEF CallOK, CallKept, AtWork, Busy, Reviewing, history
<1>14. RowFollows(c)' /\ CloseSettled(c)'
  BY <1>3, <1>5, <1>8, <1>9, <1>11 DEF RowFollows, CloseSettled, InBook, AtWork, Fields, history
<1>15. Moves(c) /\ ExitStep
  BY <1>1, <1>3, <1>7, <1>8, <1>9, <1>10, <1>11
     DEF Moves, ExitStep, Fields, AtWork, CallKept, KeepsReviews, history, run
<1>16. QED
  BY <1>1, <1>3, <1>12, <1>13, <1>14, <1>15, ExitKeeps

-----------------------------------------------------------------------------
\* The steps between exits.

\* No book moves.
BooksStay ==
  /\ pos' = pos /\ row' = row /\ campaign' = campaign /\ cut' = cut /\ adopted' = adopted
  /\ acted' = acted /\ log' = log

LEMMA StayFollows ==
  ASSUME DeskInv, BooksStay, call.pc \notin {"settle", "campaign", "advance"}
  PROVE  RowsFollow' /\ ClosesSettled'
<1> SUFFICES ASSUME NEW t \in Trades PROVE RowFollows(t)' /\ CloseSettled(t)'
  BY DEF RowsFollow, ClosesSettled
<1>1. RowFollows(t) /\ CloseSettled(t)
  BY DEF DeskInv, RowsFollow, ClosesSettled
<1>2. QED
  BY <1>1 DEF BooksStay, RowFollows, CloseSettled, InBook, At, Settled, Counted

\* Outside a review no step takes back what is on record.
ReviewsStay ==
  \A t \in Trades :
    row[t].pos.state # "NONE" => row'[t].pos.state # "NONE" /\ KeepsReviews(row[t], row'[t])

LEMMA SameRow == \A r : KeepsReviews(r, r)
  BY DEF KeepsReviews

LEMMA ActedStays ==
  ASSUME DeskInv, ReviewsStay, call.back # "record", acted' = acted, cut' = cut,
         ~(At("request") /\ call.back = "record")'
  PROVE  ActedIsRecorded'
<1>1. ASSUME NEW t \in Trades, NEW d \in 1..Days, NEW s \in 1..Slots, <<t, d, s>> \in acted
      PROVE  OnRecord(t, d, s)'
  <2>1. row[t].pos.state # "NONE" /\ (t \in cut \/ HasReview(row[t], d, s))
    BY <1>1 DEF DeskInv, ActedIsRecorded, OnRecord, InReview
  <2>2. row'[t].pos.state # "NONE" /\ KeepsReviews(row[t], row'[t])
    BY <2>1 DEF ReviewsStay
  <2>3. HasReview(row[t], d, s) => HasReview(row'[t], d, s)
    BY <2>2, ReviewKept
  <2>4. HasReview(row[t], d, s)' <=> HasReview(row'[t], d, s)
    BY DEF HasReview
  <2>5. QED
    BY <2>1, <2>2, <2>3, <2>4 DEF OnRecord
<1>2. QED
  BY <1>1 DEF ActedIsRecorded

LEMMA IdleType ==
  /\ Idle \in CallType /\ Idle.pc = "idle" /\ Idle.back = "idle" /\ Idle.trade = None
  /\ Idle.todo = {} /\ Idle.covers = {} /\ Idle.slot = 0
<1>1. \A sent \in BOOLEAN :
        [pc |-> "idle", back |-> "idle", trade |-> None, todo |-> {}, slot |-> 0, covers |-> {},
         action |-> "HOLD", sent |-> sent, part |-> 0, key |-> None] \in CallType
  BY BoundsAssumption DEF CallType, Actions
<1>2. Idle \in CallType
  BY <1>1, FALSE \in BOOLEAN, Zenon DEF Idle
<1>3. QED
  BY <1>2 DEF Idle

LEMMA TickKeeps == DeskInv /\ Tick => DeskInv'
<1> SUFFICES ASSUME DeskInv, Tick PROVE DeskInv'
  OBVIOUS
<1>1. /\ call.pc = "idle" /\ call.back = "idle" /\ TypeOK /\ CallOK
      /\ UNCHANGED <<pos, row, log, slots, campaign, call, history, crashes>>
  BY DEF Tick, At, DeskInv, CallOK
<1>2. clock' \in [day : 1..Days, time : 0..Eod]
  <2>1. clock.time \in 0..Eod /\ clock.time < Eod
    BY <1>1, BoundsAssumption DEF Tick, TypeOK, Eod
  <2>2. clock.time + 1 \in 0..Eod
    BY <2>1, BoundsAssumption DEF Eod
  <2>3. QED
    BY <1>1, <2>2 DEF Tick, TypeOK
<1>3. TypeOK'
  BY <1>1, <1>2 DEF TypeOK, history
<1>4. CallOK'
  BY <1>1 DEF CallOK, Busy, Reviewing, history
<1>5. BooksStay
  BY <1>1 DEF BooksStay, history
<1>6. ActedIsRecorded'
  <2>1. ReviewsStay
    BY <1>5, SameRow DEF BooksStay, ReviewsStay
  <2>2. QED
    BY <1>1, <1>5, <2>1, ActedStays DEF At, BooksStay
<1>7. ReviewsDue'
  BY <1>1 DEF ReviewsDue, Reviewing, At
<1>8. QED
  BY <1>1, <1>3, <1>4, <1>5, <1>6, <1>7, StayFollows DEF DeskInv

\* A trade is taken up, for an exit: from idle nothing else changes.
LEMMA TakeUpKeeps ==
  ASSUME DeskInv, NEW t \in Trades, NEW pc \in {"request", "submit"}, NEW back \in {"idle", "carried"},
         call.pc = "idle", pos[t].state # "NONE",
         pc = "request" => pos[t].state = "OPEN", pc = "submit" => pos[t].state \in InFlight,
         call' \in CallType, call'.pc = pc, call'.trade = t, call'.back = back,
         UNCHANGED <<pos, row, log, slots, campaign, history, run>>
  PROVE  DeskInv'
<1>1. /\ call' \in CallType /\ call'.pc = pc /\ call'.trade = t /\ call'.back = back
  OBVIOUS
<1>2. TypeOK'
  BY <1>1 DEF DeskInv, TypeOK, history, run
<1>3. CallOK'
  BY <1>1 DEF CallOK, Busy, Reviewing, Cur, history
<1>4. BooksStay /\ call.back # "record"
  BY DEF BooksStay, history, DeskInv, CallOK
<1>5. ActedIsRecorded'
  <2>1. ReviewsStay
    BY <1>4, SameRow DEF BooksStay, ReviewsStay
  <2>2. QED
    BY <1>1, <1>4, <2>1, ActedStays DEF At, BooksStay
<1>6. ReviewsDue'
  BY <1>1 DEF ReviewsDue, Reviewing, At
<1>7. QED
  BY <1>2, <1>3, <1>4, <1>5, <1>6, StayFollows DEF DeskInv

TakenUp(t, pc) == [Idle EXCEPT !.pc = pc, !.trade = t]

LEMMA IdlePuts ==
  ASSUME NEW t \in Trades, NEW pc \in Pcs
  PROVE  /\ TakenUp(t, pc) \in CallType /\ TakenUp(t, pc).pc = pc /\ TakenUp(t, pc).trade = t
         /\ TakenUp(t, pc).back = "idle"
  BY ZenonT(60), IdleType DEF CallType, Pcs, TakenUp

LEMMA ManageKeeps ==
  ASSUME DeskInv, NEW t \in Trades, ManageExit(t) \/ Resume(t)
  PROVE  DeskInv'
<1>1. CASE ManageExit(t)
  <2>1. /\ call.pc = "idle" /\ pos[t].state = "OPEN"
        /\ call' = TakenUp(t, "request")
        /\ UNCHANGED <<pos, row, log, slots, campaign, history, run>>
    BY <1>1 DEF ManageExit, At, TakenUp
  <2>2. "request" \in Pcs
    BY DEF Pcs
  <2>3. call' \in CallType /\ call'.pc = "request" /\ call'.trade = t /\ call'.back = "idle"
    BY <2>1, <2>2, IdlePuts
  <2>4. QED
    BY <2>1, <2>3, TakeUpKeeps
<1>2. CASE Resume(t)
  <2>1. /\ call.pc = "idle" /\ pos[t].state \in InFlight
        /\ call' = TakenUp(t, "submit")
        /\ UNCHANGED <<pos, row, log, slots, campaign, history, run>>
    BY <1>2 DEF Resume, At, TakenUp
  <2>2. "submit" \in Pcs
    BY DEF Pcs
  <2>3. call' \in CallType /\ call'.pc = "submit" /\ call'.trade = t /\ call'.back = "idle"
    BY <2>1, <2>2, IdlePuts
  <2>4. QED
    BY <2>1, <2>3, TakeUpKeeps DEF InFlight
<1>3. QED
  BY <1>1, <1>2

-----------------------------------------------------------------------------
\* The reviews of a slot.

\* A set of slots has a last and a first.
LEMMA Extremes ==
  ASSUME NEW S, S \subseteq 1..Slots, S # {}
  PROVE  Max(S) \in S /\ Min(S) \in S
<1>1. \A T \in SUBSET Nat : T # {} => \E x \in T : \A y \in T : x <= y
  <2> TAKE T \in SUBSET Nat
  <2> HAVE T # {}
  <2>1. PICK x \in T : \A y \in T : ~(<<y, x>> \in OpToRel(<, Nat))
    BY NatLessThanWellFounded, WFMin
  <2>2. ASSUME NEW y \in T PROVE x <= y
    <3>1. ~(<<y, x>> \in {ss \in Nat \X Nat : ss[1] < ss[2]})
      BY <2>1 DEF OpToRel
    <3>2. QED
      BY <3>1
  <2>3. QED
    BY <2>2
<1>2. Min(S) \in S
  <2>1. S \in SUBSET Nat
    OBVIOUS
  <2>2. PICK x \in S : \A y \in S : x <= y
    BY <1>1, <2>1
  <2>3. QED
    BY <2>2 DEF Min
<1>3. Max(S) \in S
  <2> DEFINE T == {Slots - x : x \in S}
  <2>1. T \in SUBSET Nat /\ T # {}
    <3>1. \A x \in S : Slots - x \in Nat
      BY BoundsAssumption
    <3>2. PICK x \in S : TRUE
      OBVIOUS
    <3>3. Slots - x \in T
      OBVIOUS
    <3>4. QED
      BY <3>1, <3>3
  <2>2. PICK m \in T : \A y \in T : m <= y
    BY <1>1, <2>1
  <2>3. PICK x \in S : m = Slots - x
    OBVIOUS
  <2>4. \A y \in S : x >= y
    <3> TAKE y \in S
    <3>1. Slots - x <= Slots - y /\ x \in Int /\ y \in Int
      BY <2>2, <2>3
    <3>2. QED
      BY <3>1, BoundsAssumption
  <2>5. QED
    BY <2>4 DEF Max
<1>4. QED
  BY <1>2, <1>3

LEMMA SlotsInHand ==
  ASSUME NEW book \in SUBSET Trades, NEW due \in SUBSET (1..Slots), NEW slot \in due
  PROVE  LET n == [Idle EXCEPT !.pc = "review", !.slot = slot, !.covers = due, !.todo = book] IN
         n \in CallType /\ n.pc = "review" /\ n.back = "idle" /\ n.slot = slot
           /\ n.covers = due /\ n.todo = book
<1>1. slot \in 0..Slots
  BY BoundsAssumption
<1>2. QED
  BY <1>1, IdleType DEF CallType

LEMMA BeginReviewsKeeps == DeskInv /\ BeginReviews => DeskInv'
<1> SUFFICES ASSUME DeskInv, BeginReviews PROVE DeskInv'
  OBVIOUS
<1> DEFINE book == {t \in Trades : pos[t].state # "NONE"}
           due == Pending
<1>1. /\ call.pc = "idle" /\ call.back = "idle" /\ TypeOK
      /\ UNCHANGED <<pos, row, log, slots, campaign, history, run>>
  BY DEF BeginReviews, At, DeskInv, CallOK
<1>2. due \subseteq 1..Slots /\ due \cap slots = {} /\ Max(due) \in due
  <2>1. due \subseteq 1..Slots /\ due \cap slots = {} /\ due # {}
    BY DEF Pending, BeginReviews
  <2>2. QED
    BY <2>1, Extremes
<1>3. call' = [Idle EXCEPT !.pc = "review", !.slot = Max(due), !.covers = due, !.todo = book]
  BY DEF BeginReviews
<1> HIDE DEF due
<1>4. /\ call' \in CallType /\ call'.pc = "review" /\ call'.back = "idle" /\ call'.slot \in due
      /\ call'.covers = due /\ call'.todo = book
  <2>1. book \in SUBSET Trades
    OBVIOUS
  <2> HIDE DEF book
  <2>2. \A slot \in due :
          LET n == [Idle EXCEPT !.pc = "review", !.slot = slot, !.covers = due, !.todo = book] IN
          n \in CallType /\ n.pc = "review" /\ n.back = "idle" /\ n.slot = slot
            /\ n.covers = due /\ n.todo = book
    BY <1>2, <2>1, SlotsInHand
  <2>3. PICK slot \in due : slot = Max(due)
    BY <1>2
  <2>4. call' = [Idle EXCEPT !.pc = "review", !.slot = slot, !.covers = due, !.todo = book]
    BY <1>3, <2>3
  <2>5. QED
    BY <2>2, <2>4
<1>5. TypeOK'
  BY <1>1, <1>4 DEF TypeOK, history, run
<1>6. CallOK'
  BY <1>1, <1>2, <1>4 DEF CallOK, Busy, Reviewing
<1>7. BooksStay
  BY <1>1 DEF BooksStay, history
<1>8. ActedIsRecorded'
  <2>1. ReviewsStay
    BY <1>7, SameRow DEF BooksStay, ReviewsStay
  <2>2. QED
    BY <1>1, <1>4, <1>7, <2>1, ActedStays DEF At, BooksStay
<1>9. ReviewsDue'
  BY <1>1, <1>4 DEF ReviewsDue, Eligible, InBook, At
<1>10. QED
  BY <1>1, <1>5, <1>6, <1>7, <1>8, <1>9, StayFollows DEF DeskInv

LEMMA SkipKeeps ==
  ASSUME DeskInv, NEW t \in Trades, SkipReview(t)
  PROVE  DeskInv'
<1>1. /\ call.pc = "review" /\ call.back = "idle" /\ TypeOK /\ CallOK
      /\ UNCHANGED <<pos, row, log, slots, campaign, history, run>>
  BY DEF SkipReview, At, DeskInv, CallOK
<1>2. /\ call' \in CallType /\ call'.pc = "review" /\ call'.back = "idle" /\ call'.slot = call.slot
      /\ call'.covers = call.covers /\ call'.todo = call.todo \ {t}
  BY <1>1 DEF SkipReview, TypeOK, CallType
<1>3. TypeOK'
  BY <1>1, <1>2 DEF TypeOK, history, run
<1>4. CallOK'
  BY <1>1, <1>2 DEF CallOK, Busy, Reviewing
<1>5. BooksStay
  BY <1>1 DEF BooksStay, history
<1>6. ActedIsRecorded'
  <2>1. ReviewsStay
    BY <1>5, SameRow DEF BooksStay, ReviewsStay
  <2>2. QED
    BY <1>1, <1>2, <1>5, <2>1, ActedStays DEF At, BooksStay
<1>7. ReviewsDue'
  <2>1. ASSUME NEW u \in Trades, Eligible(u)' PROVE (u \in call.todo \/ Recorded(u))'
    <3>1. Eligible(u)
      BY <1>1, <2>1 DEF Eligible, InBook
    <3>2. u \in call.todo \/ Recorded(u)
      BY <1>1, <3>1 DEF DeskInv, ReviewsDue, Reviewing, InReview
    <3>3. Recorded(u) => Recorded(u)'
      BY <1>1, <1>2 DEF Recorded, run
    <3>4. QED
      BY <1>2, <3>1, <3>2, <3>3 DEF SkipReview
  <2>2. QED
    BY <1>2, <2>1 DEF ReviewsDue, At
<1>8. QED
  BY <1>1, <1>3, <1>4, <1>5, <1>6, <1>7, StayFollows DEF DeskInv

LEMMA EndReviewsKeeps == DeskInv /\ EndReviews => DeskInv'
<1> SUFFICES ASSUME DeskInv, EndReviews PROVE DeskInv'
  OBVIOUS
<1>1. /\ call.pc = "review" /\ call.back = "idle" /\ TypeOK /\ CallOK /\ call.todo = {}
      /\ UNCHANGED <<pos, row, log, slots, campaign, history, run>>
  BY DEF EndReviews, At, DeskInv, CallOK
<1>2. CallKept /\ call'.pc = "slots"
  BY <1>1, GoesTo DEF EndReviews, Pcs
<1>3. TypeOK'
  BY <1>1, <1>2 DEF TypeOK, CallKept, history, run
<1>4. CallOK'
  BY <1>1, <1>2 DEF CallOK, CallKept, Busy, Reviewing
<1>5. BooksStay
  BY <1>1 DEF BooksStay, history
<1>6. ActedIsRecorded'
  <2>1. ReviewsStay
    BY <1>5, SameRow DEF BooksStay, ReviewsStay
  <2>2. QED
    BY <1>1, <1>2, <1>5, <2>1, ActedStays DEF At, BooksStay
<1>7. ReviewsDue'
  <2>1. ASSUME NEW u \in Trades, Eligible(u)' PROVE Recorded(u)'
    <3>1. Eligible(u)
      BY <1>1, <2>1 DEF Eligible, InBook
    <3>2. Recorded(u)
      BY <1>1, <3>1 DEF DeskInv, ReviewsDue, Reviewing, InReview
    <3>3. QED
      BY <1>1, <1>2, <3>2 DEF Recorded, CallKept, run
  <2>2. QED
    BY <1>1, <1>2, <2>1 DEF ReviewsDue, CallKept, At
<1>8. QED
  BY <1>1, <1>3, <1>4, <1>5, <1>6, <1>7, StayFollows DEF DeskInv

LEMMA RecordSlotKeeps == DeskInv /\ RecordSlot => DeskInv'
<1> SUFFICES ASSUME DeskInv, RecordSlot PROVE DeskInv'
  OBVIOUS
<1>1. /\ call.pc = "slots" /\ call.back = "idle" /\ TypeOK /\ CallOK
      /\ UNCHANGED <<pos, row, log, campaign, history, run>>
  BY DEF RecordSlot, At, DeskInv, CallOK
<1>2. slots' \subseteq 1..Slots
  <2> DEFINE rest == call.covers \ slots
  <2>1. rest \subseteq 1..Slots /\ rest # {}
    BY <1>1 DEF TypeOK, CallType, CallOK, Reviewing
  <2>2. slots' = slots \cup {Min(rest)}
    BY DEF RecordSlot
  <2> HIDE DEF rest
  <2>3. QED
    BY <1>1, <2>1, <2>2, Extremes DEF TypeOK
<1>3. call' = IF call.covers \subseteq slots' THEN Idle ELSE call
  BY DEF RecordSlot
<1>4. TypeOK'
  BY <1>1, <1>2, <1>3, IdleType DEF TypeOK, history, run
<1>5. CallOK'
  BY <1>1, <1>3, IdleType DEF CallOK, Busy, Reviewing
<1>6. BooksStay
  BY <1>1 DEF BooksStay, history
<1>7. ActedIsRecorded'
  <2>1. ReviewsStay
    BY <1>6, SameRow DEF BooksStay, ReviewsStay
  <2>2. QED
    BY <1>1, <1>3, <1>6, <2>1, IdleType, ActedStays DEF At, BooksStay
<1>8. ReviewsDue'
  <2>1. CASE call' = Idle
    BY <2>1, IdleType DEF ReviewsDue, Reviewing, At
  <2>2. CASE call' = call
    <3>1. ASSUME NEW u \in Trades, Eligible(u)' PROVE Recorded(u)'
      <4>1. Eligible(u)
        BY <1>1, <3>1 DEF Eligible, InBook
      <4>2. Recorded(u)
        BY <1>1, <4>1 DEF DeskInv, ReviewsDue, Reviewing, InReview, At
      <4>3. QED
        BY <1>1, <2>2, <4>2 DEF Recorded, run
    <3>2. call.todo = {}
      BY <1>1 DEF DeskInv, ReviewsDue, At
    <3>3. QED
      BY <2>2, <3>1, <3>2 DEF ReviewsDue
  <2>3. QED
    BY <1>3, <2>1, <2>2
<1>9. QED
  BY <1>1, <1>4, <1>5, <1>6, <1>7, <1>8, StayFollows DEF DeskInv

LEMMA AppendIs ==
  ASSUME NEW q \in Seq(Reviews), NEW one \in Reviews
  PROVE  /\ Append(q, one) \in Seq(Reviews)
         /\ \A i \in DOMAIN q : i \in DOMAIN Append(q, one) /\ Append(q, one)[i] = q[i]
         /\ \E i \in DOMAIN Append(q, one) : Append(q, one)[i] = one
<1>1. /\ Append(q, one) \in Seq(Reviews) /\ Len(Append(q, one)) = Len(q) + 1
      /\ \A i \in 1..Len(q) : Append(q, one)[i] = q[i]
      /\ Append(q, one)[Len(q) + 1] = one
  OBVIOUS
<1>2. DOMAIN q = 1..Len(q) /\ DOMAIN Append(q, one) = 1..(Len(q) + 1) /\ Len(q) \in Nat
  BY <1>1
<1>3. QED
  BY <1>1, <1>2

ReviewOf(d, s, action, sent) ==
  [day |-> d, slot |-> s, action |-> action, submitted |-> sent,
   execution |-> IF action = "PROPOSE_ROLL" THEN "CLOSE_SUBMITTED" ELSE "NOT_APPLICABLE"]

LEMMA ReviewIs ==
  ASSUME NEW d \in 1..Days, NEW s \in 1..Slots, NEW action \in Actions, NEW sent \in BOOLEAN
  PROVE  /\ ReviewOf(d, s, action, sent) \in Reviews
         /\ ReviewOf(d, s, action, sent).day = d /\ ReviewOf(d, s, action, sent).slot = s
  BY DEF ReviewOf, Reviews, Executions

LEMMA HandedBack ==
  ASSUME NEW k \in CallType, NEW sent \in BOOLEAN
  PROVE  LET n == [k EXCEPT !.pc = "review", !.trade = None, !.action = "HOLD", !.sent = sent,
                            !.part = 0, !.key = None, !.back = "idle"] IN
         /\ n \in CallType /\ n.pc = "review" /\ n.back = "idle"
         /\ n.slot = k.slot /\ n.covers = k.covers /\ n.todo = k.todo
<1> DEFINE a == [k EXCEPT !.pc = "review", !.trade = None, !.action = "HOLD"]
           b == [a EXCEPT !.part = 0, !.key = None, !.back = "idle"]
           n == [b EXCEPT !.sent = sent]
<1>1. /\ a \in CallType /\ a.pc = "review" /\ a.slot = k.slot /\ a.covers = k.covers
      /\ a.todo = k.todo
  BY DEF CallType, Actions
<1>2. [k EXCEPT !.pc = "review", !.trade = None, !.action = "HOLD", !.sent = sent,
                !.part = 0, !.key = None, !.back = "idle"] = n
  BY DEF CallType
<1> HIDE DEF a
<1>3. /\ b \in CallType /\ b.pc = "review" /\ b.back = "idle" /\ b.slot = k.slot
      /\ b.covers = k.covers /\ b.todo = k.todo
  <2>1. 0 \in 0..Lots
    BY BoundsAssumption
  <2>2. b = [[[a EXCEPT !.part = 0] EXCEPT !.key = None] EXCEPT !.back = "idle"]
    BY <1>1 DEF CallType
  <2> DEFINE x == [a EXCEPT !.part = 0]
  <2>3. /\ x \in CallType /\ x.pc = "review" /\ x.slot = k.slot /\ x.covers = k.covers
        /\ x.todo = k.todo
    BY <1>1, <2>1 DEF CallType
  <2> HIDE DEF x
  <2>4. LET y == [[x EXCEPT !.key = None] EXCEPT !.back = "idle"] IN
        /\ y \in CallType /\ y.pc = "review" /\ y.back = "idle" /\ y.slot = k.slot
        /\ y.covers = k.covers /\ y.todo = k.todo
    BY <2>3 DEF CallType
  <2>5. QED
    BY <2>2, <2>4 DEF x
<1> HIDE DEF b
<1>4. /\ n \in CallType /\ n.pc = "review" /\ n.back = "idle" /\ n.slot = k.slot
      /\ n.covers = k.covers /\ n.todo = k.todo
  BY <1>3 DEF CallType
<1>5. QED
  BY <1>2, <1>4

LEMMA RecordReviewKeeps == DeskInv /\ RecordReview => DeskInv'
<1> SUFFICES ASSUME DeskInv, RecordReview PROVE DeskInv'
  OBVIOUS
<1>1. Busy /\ call.pc = "record"
  BY DEF RecordReview, Busy, At
<1>2. TypeOK /\ CallOK
  BY <1>1, BusyIs
<1>3. PICK c \in Trades : c = Cur /\ AtWork(c)
  BY <1>1, BusyIs
<1>4. /\ call.back = "record" /\ Reviewing
      /\ UNCHANGED <<pos, log, slots, campaign, history, run>>
  BY <1>1, <1>2 DEF RecordReview, CallOK, Reviewing
<1> DEFINE r == Written(c)
           one == ReviewOf(clock.day, call.slot, call.action, call.sent)
           q == Append(row[c].reviews, one)
           w == [r EXCEPT !.reviews = q]
<1>5. r \in Rows /\ Fields(r, pos[c], row[c].ids, row[c].reviews, row[c].carry, row[c].roll, row[c].campaign)
  BY <1>2, WrittenIs
<1>6. one \in Reviews /\ one.day = clock.day /\ one.slot = call.slot
  <2>1. call.slot \in 1..Slots /\ call.action \in Actions /\ clock.day \in 1..Days
    BY <1>2, <1>4 DEF TypeOK, CallType, CallOK
  <2>2. call.sent \in BOOLEAN
    BY <1>2 DEF TypeOK, CallType
  <2>3. \A sent \in BOOLEAN :
          LET x == ReviewOf(clock.day, call.slot, call.action, sent) IN
          x \in Reviews /\ x.day = clock.day /\ x.slot = call.slot
    BY <2>1, ReviewIs
  <2>4. QED
    BY <2>2, <2>3, Zenon
<1>7. row' = [row EXCEPT ![c] = w]
  BY <1>3, <1>5 DEF RecordReview, ReviewOf, Fields
<1> HIDE DEF r, one
<1>8. /\ q \in Seq(Reviews)
      /\ \A i \in DOMAIN row[c].reviews : i \in DOMAIN q /\ q[i] = row[c].reviews[i]
      /\ \E i \in DOMAIN q : q[i] = one
  <2>1. row[c].reviews \in Seq(Reviews)
    BY <1>3 DEF AtWork, Rows
  <2>2. QED
    BY <1>6, <2>1, AppendIs
<1> HIDE DEF q
<1>9. w \in Rows /\ Fields(w, pos[c], row[c].ids, q, row[c].carry, row[c].roll, row[c].campaign)
  BY <1>5, <1>8, ReviewsPut DEF Fields
<1> HIDE DEF w
<1>10. row' \in [Trades -> Rows] /\ row'[c] = w /\ \A t \in Trades : t # c => row'[t] = row[t]
  BY <1>2, <1>7, <1>9, OneRow
<1>11. /\ call' \in CallType /\ call'.pc = "review" /\ call'.back = "idle"
       /\ call'.slot = call.slot /\ call'.covers = call.covers /\ call'.todo = call.todo
  <2>1. \A sent \in BOOLEAN :
          LET n == [call EXCEPT !.pc = "review", !.trade = None, !.action = "HOLD", !.sent = sent,
                                !.part = 0, !.key = None, !.back = "idle"] IN
          /\ n \in CallType /\ n.pc = "review" /\ n.back = "idle"
          /\ n.slot = call.slot /\ n.covers = call.covers /\ n.todo = call.todo
    BY <1>2, HandedBack DEF TypeOK
  <2>2. call' = [call EXCEPT !.pc = "review", !.trade = None, !.action = "HOLD", !.sent = FALSE,
                             !.part = 0, !.key = None, !.back = "idle"] /\ FALSE \in BOOLEAN
    BY DEF RecordReview
  <2>3. LET n == call' IN
        /\ n \in CallType /\ n.pc = "review" /\ n.back = "idle"
        /\ n.slot = call.slot /\ n.covers = call.covers /\ n.todo = call.todo
    BY <2>1, <2>2, Zenon
  <2>4. QED
    BY <2>3
<1>12. TypeOK'
  BY <1>2, <1>4, <1>10, <1>11 DEF TypeOK, history, run
<1>13. CallOK'
  BY <1>2, <1>4, <1>11 DEF CallOK, Busy, Reviewing
<1>14. RowFollows(c)' /\ CloseSettled(c)'
  <2>1. RowFollows(c)'
    BY <1>3, <1>4, <1>9, <1>10 DEF RowFollows, InBook, AtWork, Fields
  <2>2. SUFFICES ASSUME pos[c].state = "CLOSED", c \notin cut \cup adopted PROVE Settled(c)'
    BY <1>4, <1>9, <1>10, <2>1 DEF CloseSettled, Fields, history
  <2>3. row[c].pos.state = "CLOSED"
    BY <1>1, <1>3, <2>2 DEF AtWork, RowFollows, At
  <2>4. Settled(c)
    BY <1>1, <1>3, <2>2, <2>3 DEF AtWork, CloseSettled, At
  <2>5. QED
    BY <1>4, <1>9, <1>10, <2>4 DEF Settled, Counted, Fields
<1>15. Moves(c)
  BY <1>4, <1>10 DEF Moves, history
<1>16. HasReview(row'[c], clock.day, call.slot) /\ KeepsReviews(row[c], row'[c])
  BY <1>6, <1>8, <1>9, <1>10 DEF HasReview, KeepsReviews, Fields
<1>17. ActedIsRecorded'
  <2>1. ASSUME NEW t \in Trades, NEW d \in 1..Days, NEW s \in 1..Slots, <<t, d, s>> \in acted
        PROVE  OnRecord(t, d, s)'
    <3>1. OnRecord(t, d, s)
      BY <2>1 DEF DeskInv, ActedIsRecorded
    <3>2. KeepsReviews(row[t], row'[t]) /\ row'[t].pos.state # "NONE"
      BY <1>3, <1>9, <1>10, <1>16, <3>1 DEF AtWork, Fields, OnRecord, KeepsReviews
    <3>3. HasReview(row[t], d, s) => HasReview(row'[t], d, s)
      BY <3>2, ReviewKept
    <3>4. HasReview(row[t], d, s)' <=> HasReview(row'[t], d, s)
      BY DEF HasReview
    <3>5. InReview(t) /\ d = clock.day /\ s = call.slot => HasReview(row'[t], d, s)
      BY <1>3, <1>16 DEF InReview
    <3>6. QED
      BY <1>4, <3>1, <3>2, <3>3, <3>4, <3>5 DEF OnRecord, history
  <2>2. QED
    BY <1>4, <1>11, <2>1 DEF ActedIsRecorded, At, history
<1>18. ReviewsDue'
  <2>1. ASSUME NEW t \in Trades, Eligible(t)' PROVE (t \in call.todo \/ Recorded(t))'
    <3>1. Eligible(t)
      BY <1>4, <1>9, <1>10, <2>1 DEF Eligible, InBook, Fields
    <3>2. t \in call.todo \/ Recorded(t) \/ InReview(t)
      BY <1>4, <3>1 DEF DeskInv, ReviewsDue
    <3>3. KeepsReviews(row[t], row'[t])
      BY <1>10, <1>16 DEF KeepsReviews
    <3>4. Recorded(t) => Recorded(t)'
      BY <1>4, <1>11, <3>3, RecordedKept DEF run
    <3>5. InReview(t) => Recorded(t)'
      <4>1. call.slot \in call.covers
        BY <1>2, <1>4 DEF CallOK
      <4>2. QED
        BY <1>3, <1>4, <1>11, <1>16, <4>1 DEF InReview, HasReview, Recorded, run
    <3>6. QED
      BY <1>11, <3>2, <3>4, <3>5
  <2>2. QED
    BY <1>11, <2>1 DEF ReviewsDue, At
<1>19. QED
  BY <1>3, <1>12, <1>13, <1>14, <1>15, <1>17, <1>18, OthersFollow DEF DeskInv

-----------------------------------------------------------------------------
\* The carry gate and the replacement.

\* One row is written, outside a review: a close that it shows was settled before.
LEMMA RowPutKeeps ==
  ASSUME DeskInv, NEW c \in Trades, NEW w \in Rows, row' = [row EXCEPT ![c] = w],
         UNCHANGED <<pos, log, slots, campaign, history, run>>, call' \in CallType, CallOK',
         w.pos = pos[c] \/ w.pos = row[c].pos, w.pos.state # "NONE", row[c].pos.state # "NONE",
         w.campaign = row[c].campaign, KeepsReviews(row[c], w),
         w.roll = row[c].roll \/ w.roll # "CLOSE_PENDING" \/ w.pos.state # "CLOSED",
         call.pc \notin {"settle", "campaign", "advance"}, call.back # "record",
         ~Reviewing'
  PROVE  DeskInv'
<1>1. TypeOK /\ CallOK /\ RowFollows(c) /\ CloseSettled(c)
  BY DEF DeskInv, RowsFollow, ClosesSettled
<1>2. row' \in [Trades -> Rows] /\ row'[c] = w /\ \A t \in Trades : t # c => row'[t] = row[t]
  BY <1>1, OneRow
<1>3. TypeOK'
  BY <1>1, <1>2 DEF TypeOK, history, run
<1>4. RowFollows(c)'
  BY <1>1, <1>2 DEF RowFollows, InBook, At, history
<1>5. CloseSettled(c)'
  <2>1. SUFFICES ASSUME w.pos.state = "CLOSED", c \notin cut \cup adopted PROVE Settled(c)'
    BY <1>2 DEF CloseSettled, history
  <2>2. row[c].pos.state = "CLOSED"
    BY <1>1, <2>1 DEF RowFollows, At
  <2>3. Settled(c)
    BY <1>1, <2>1, <2>2 DEF CloseSettled, At
  <2>4. QED
    BY <1>2, <2>1, <2>3 DEF Settled, Counted
<1>6. Moves(c)
  BY <1>2 DEF Moves, history
<1>7. ActedIsRecorded'
  <2>1. ReviewsStay
    BY <1>2, SameRow DEF ReviewsStay
  <2>2. QED
    BY <2>1, ActedStays DEF At, Reviewing, history
<1>8. ReviewsDue'
  BY DEF ReviewsDue, Reviewing, At
<1>9. QED
  BY <1>3, <1>4, <1>5, <1>6, <1>7, <1>8, OthersFollow DEF DeskInv

LEMMA CarriedIs ==
  ASSUME TypeOK, NEW c \in Trades, NEW verdict \in {"APPROVED", "REJECTED"}
  PROVE  LET w == [Written(c) EXCEPT !.carry[clock.day] = verdict] IN
         /\ w \in Rows /\ w.pos = pos[c] /\ w.campaign = row[c].campaign /\ w.roll = row[c].roll
         /\ KeepsReviews(row[c], w)
<1> DEFINE r == Written(c)
           w == [r EXCEPT !.carry[clock.day] = verdict]
<1>1. r \in Rows /\ Fields(r, pos[c], row[c].ids, row[c].reviews, row[c].carry, row[c].roll, row[c].campaign)
  BY WrittenIs
<1>2. clock.day \in 1..Days
  BY DEF TypeOK
<1> HIDE DEF r
<1>3. w \in Rows /\ Fields(w, r.pos, r.ids, r.reviews, [r.carry EXCEPT ![clock.day] = verdict], r.roll, r.campaign)
  BY <1>1, <1>2, CarryPut
<1> HIDE DEF w
<1>4. w \in Rows /\ w.pos = pos[c] /\ w.campaign = row[c].campaign /\ w.roll = row[c].roll /\ KeepsReviews(row[c], w)
  BY <1>1, <1>3 DEF Fields, KeepsReviews
<1>5. QED
  BY <1>4 DEF w, r

LEMMA CarryGateKeeps ==
  ASSUME DeskInv, NEW t \in Trades, NEW approved \in BOOLEAN, CarryGate(t, approved)
  PROVE  DeskInv'
<1>1. /\ call.pc = "idle" /\ call.back = "idle" /\ TypeOK /\ CallOK /\ pos[t].state = "OPEN"
      /\ UNCHANGED <<pos, log, slots, campaign, history, run>>
  BY DEF CarryGate, At, DeskInv, CallOK
<1>2. CASE approved
  <2> DEFINE w == [Written(t) EXCEPT !.carry[clock.day] = "APPROVED"]
  <2>1. /\ w \in Rows /\ w.pos = pos[t] /\ w.campaign = row[t].campaign /\ w.roll = row[t].roll
        /\ KeepsReviews(row[t], w)
    BY <1>1, CarriedIs
  <2>2. row' = [row EXCEPT ![t] = w] /\ UNCHANGED call
    BY <1>2 DEF CarryGate
  <2> HIDE DEF w
  <2>3. call' \in CallType /\ CallOK' /\ ~Reviewing'
    BY <1>1, <2>2 DEF TypeOK, CallOK, Busy, Reviewing
  <2>4. row[t].pos.state # "NONE"
    BY <1>1 DEF DeskInv, RowsFollow, RowFollows, InBook
  <2>5. QED
    BY <1>1, <2>1, <2>2, <2>3, <2>4, RowPutKeeps
<1>3. CASE ~approved
  <2>1. call' = [Idle EXCEPT !.pc = "request", !.trade = t, !.back = "carried"] /\ UNCHANGED row
    BY <1>3 DEF CarryGate
  <2>2. call' \in CallType /\ call'.pc = "request" /\ call'.trade = t /\ call'.back = "carried"
    BY <2>1, IdleType DEF CallType
  <2>3. QED
    BY <1>1, <2>1, <2>2, TakeUpKeeps
<1>4. QED
  BY <1>2, <1>3

LEMMA RecordCarryKeeps == DeskInv /\ RecordCarry => DeskInv'
<1> SUFFICES ASSUME DeskInv, RecordCarry PROVE DeskInv'
  OBVIOUS
<1>1. Busy /\ call.pc = "carried"
  BY DEF RecordCarry, Busy, At
<1>2. TypeOK /\ CallOK
  BY <1>1, BusyIs
<1>3. PICK c \in Trades : c = Cur /\ AtWork(c)
  BY <1>1, BusyIs
<1> DEFINE w == [Written(c) EXCEPT !.carry[clock.day] = "REJECTED"]
<1>4. /\ w \in Rows /\ w.pos = pos[c] /\ w.campaign = row[c].campaign /\ w.roll = row[c].roll
      /\ KeepsReviews(row[c], w)
  BY <1>2, CarriedIs
<1>5. /\ row' = [row EXCEPT ![c] = w] /\ call' = Idle
      /\ UNCHANGED <<pos, log, slots, campaign, history, run>>
  BY <1>3 DEF RecordCarry
<1> HIDE DEF w
<1>6. call' \in CallType /\ CallOK' /\ ~Reviewing' /\ call.back = "carried"
  BY <1>1, <1>2, <1>5, IdleType DEF CallOK, Busy, Reviewing
<1>7. QED
  BY <1>1, <1>3, <1>4, <1>5, <1>6, RowPutKeeps DEF AtWork

LEMMA BeginReplacementKeeps ==
  ASSUME DeskInv, NEW t \in Trades, BeginReplacement(t)
  PROVE  DeskInv'
<1>1. /\ call.pc = "idle" /\ call.back = "idle" /\ TypeOK /\ CallOK
      /\ UNCHANGED <<pos, log, slots, campaign, history, run>>
  BY DEF BeginReplacement, At, DeskInv, CallOK
<1> DEFINE r == row[t]
           w == [r EXCEPT !.roll = "REPLACEMENT_PENDING_L2"]
<1>2. r \in Rows /\ r.pos.state # "NONE"
  BY <1>1 DEF BeginReplacement, TypeOK, DeskInv, RowsFollow, RowFollows
<1>3. row' = [row EXCEPT ![t] = w] /\ call' = TakenUp(t, "replace")
  BY <1>1 DEF BeginReplacement, TakenUp, TypeOK
<1>4. "replace" \in Pcs
  BY DEF Pcs
<1> HIDE DEF r
<1>5. /\ w \in Rows
      /\ Fields(w, r.pos, r.ids, r.reviews, r.carry, "REPLACEMENT_PENDING_L2", r.campaign)
  BY <1>2, RollPut DEF Transitions
<1> HIDE DEF w
<1>6. call' \in CallType /\ call'.pc = "replace" /\ call'.trade = t /\ call'.back = "idle"
  BY <1>3, <1>4, IdlePuts
<1>7. row'[t] = w
  BY <1>1, <1>3, <1>5, OneRow
<1>8. CallOK' /\ ~Reviewing'
  BY <1>2, <1>5, <1>6, <1>7 DEF CallOK, Busy, Reviewing, Cur, Fields
<1>9. /\ w.pos = row[t].pos /\ w.pos.state # "NONE" /\ w.campaign = row[t].campaign
      /\ w.roll # "CLOSE_PENDING" /\ KeepsReviews(row[t], w)
  BY <1>2, <1>5 DEF Fields, KeepsReviews, r
<1>10. QED
  BY <1>1, <1>3, <1>5, <1>6, <1>8, <1>9, RowPutKeeps

\* The row of a rolled trade when its replacement is over.
LEMMA OverIs ==
  ASSUME NEW r \in Rows, NEW execution \in Executions, NEW roll \in Transitions
  PROVE  LET w == [Patched(r, execution) EXCEPT !.roll = roll] IN
         /\ w \in Rows /\ w.pos = r.pos /\ w.campaign = r.campaign /\ w.roll = roll
         /\ w.carry = r.carry /\ KeepsReviews(r, w)
<1> DEFINE x == Patched(r, execution)
           w == [x EXCEPT !.roll = roll]
<1>1. x \in Rows /\ KeepsReviews(r, x) /\ Fields(x, r.pos, r.ids, x.reviews, r.carry, r.roll, r.campaign)
  BY PatchedIs
<1> HIDE DEF x
<1>2. w \in Rows /\ Fields(w, x.pos, x.ids, x.reviews, x.carry, roll, x.campaign)
  BY <1>1, RollPut
<1> HIDE DEF w
<1>3. /\ w \in Rows /\ w.pos = r.pos /\ w.campaign = r.campaign /\ w.roll = roll
      /\ w.carry = r.carry /\ KeepsReviews(r, w)
  BY <1>1, <1>2 DEF Fields, KeepsReviews
<1>4. QED
  BY <1>3 DEF w, x

LEMMA RejectReplacementKeeps == DeskInv /\ RejectReplacement => DeskInv'
<1> SUFFICES ASSUME DeskInv, RejectReplacement PROVE DeskInv'
  OBVIOUS
<1>1. /\ call.pc = "replace" /\ call.back = "idle" /\ TypeOK /\ CallOK
      /\ UNCHANGED <<pos, log, slots, campaign, history, run>> /\ call' = Idle
  BY DEF RejectReplacement, At, DeskInv, CallOK
<1>2. PICK c \in Trades : c = Cur /\ row[c].pos.state # "NONE"
  BY <1>1 DEF CallOK
<1> DEFINE w == [Patched(row[c], "REPLACEMENT_REJECTED") EXCEPT !.roll = "REPLACEMENT_REJECTED"]
<1>3. /\ w \in Rows /\ w.pos = row[c].pos /\ w.campaign = row[c].campaign
      /\ w.roll # "CLOSE_PENDING" /\ KeepsReviews(row[c], w)
  <2>1. row[c] \in Rows /\ "REPLACEMENT_REJECTED" \in Executions /\ "REPLACEMENT_REJECTED" \in Transitions
    BY <1>1 DEF TypeOK, Executions, Transitions
  <2>2. w.roll = "REPLACEMENT_REJECTED"
    BY <2>1, OverIs
  <2>3. QED
    BY <2>1, <2>2, OverIs
<1>4. row' = [row EXCEPT ![c] = w]
  BY <1>1, <1>2 DEF RejectReplacement, TypeOK
<1> HIDE DEF w
<1>5. call' \in CallType /\ CallOK' /\ ~Reviewing'
  BY <1>1, IdleType DEF CallOK, Busy, Reviewing
<1>6. QED
  BY <1>1, <1>2, <1>3, <1>4, <1>5, RowPutKeeps

LEMMA EntryIs ==
  ASSUME NEW x \in Trades \cup {None}
  PROVE  /\ EntryRow(x) \in Rows /\ EntryRow(x).pos = Opened
         /\ Opened \in Positions /\ Opened.state = "OPEN"
         /\ NoPosition \in Positions /\ NoPosition.state = "NONE" /\ NoRow \in Rows
         /\ NoRow.pos = NoPosition
<1>1. Opened \in Positions /\ Opened.state = "OPEN" /\ NoPosition \in Positions /\ NoPosition.state = "NONE"
  BY BoundsAssumption DEF Opened, NoPosition, Positions, States
<1>2. <<>> \in Seq(Reviews)
  OBVIOUS
<1>3. [d \in 1..Days |-> "NONE"] \in [1..Days -> {"NONE", "APPROVED", "REJECTED"}]
  OBVIOUS
<1>4. NoRow \in Rows /\ NoRow.pos = NoPosition
  BY <1>1, <1>2, <1>3 DEF NoRow, Rows, Transitions
<1>5. EntryRow(x) \in Rows /\ EntryRow(x).pos = Opened
  BY <1>1, <1>4 DEF EntryRow, Rows
<1>6. QED
  BY <1>1, <1>4, <1>5

LEMMA ReplaceKeeps ==
  ASSUME DeskInv, NEW u \in Trades, Replace(u)
  PROVE  DeskInv'
<1>1. /\ call.pc = "replace" /\ call.back = "idle" /\ TypeOK /\ CallOK
      /\ UNCHANGED <<log, slots, campaign, history, run>> /\ call' = Idle
      /\ row[u].pos.state = "NONE"
  BY DEF Replace, At, DeskInv, CallOK
<1>2. PICK c \in Trades : c = Cur /\ row[c].pos.state # "NONE"
  BY <1>1 DEF CallOK
<1> DEFINE w == [Patched(row[c], "ROLL_SWITCH_COMPLETE") EXCEPT !.roll = "COMPLETE"]
           e == EntryRow(row[c].campaign)
<1>3. u # c /\ row[c] \in Rows /\ row[c].campaign \in Trades \cup {None}
  BY <1>1, <1>2 DEF TypeOK, Rows
<1>4. /\ w \in Rows /\ w.pos = row[c].pos /\ w.campaign = row[c].campaign
      /\ w.roll # "CLOSE_PENDING" /\ KeepsReviews(row[c], w)
  <2>1. "ROLL_SWITCH_COMPLETE" \in Executions /\ "COMPLETE" \in Transitions
    BY DEF Executions, Transitions
  <2>2. w.roll = "COMPLETE"
    BY <1>3, <2>1, OverIs
  <2>3. QED
    BY <1>3, <2>1, <2>2, OverIs
<1>5. e \in Rows /\ e.pos.state = "OPEN" /\ Opened \in Positions /\ Opened.state = "OPEN"
  BY <1>3, EntryIs
<1>6. pos' = [pos EXCEPT ![u] = Opened] /\ row' = [[row EXCEPT ![u] = e] EXCEPT ![c] = w]
  BY <1>1, <1>2, <1>3 DEF Replace, TypeOK
<1> HIDE DEF w, e
<1>7. pos' \in [Trades -> Positions] /\ pos'[u] = Opened /\ \A t \in Trades : t # u => pos'[t] = pos[t]
  BY <1>1, <1>5, <1>6, OnePos
<1>8. /\ row' \in [Trades -> Rows] /\ row'[u] = e /\ row'[c] = w
      /\ \A t \in Trades : t # u /\ t # c => row'[t] = row[t]
  BY <1>1, <1>2, <1>3, <1>4, <1>5, <1>6 DEF TypeOK
<1>9. TypeOK'
  BY <1>1, <1>7, <1>8, IdleType DEF TypeOK, history, run
<1>10. CallOK'
  BY <1>1, IdleType DEF CallOK, Busy, Reviewing
<1>11. ASSUME NEW t \in Trades PROVE RowFollows(t)' /\ CloseSettled(t)'
  <2>1. RowFollows(t) /\ CloseSettled(t)
    BY DEF DeskInv, RowsFollow, ClosesSettled
  <2>2. CASE t = u
    BY <1>5, <1>7, <1>8, <2>2 DEF RowFollows, CloseSettled, InBook
  <2>3. CASE t = c
    <3>1. pos'[t] = pos[t] /\ row'[t] = w
      BY <1>3, <1>7, <1>8, <2>3
    <3>2. RowFollows(t)'
      BY <1>1, <1>4, <2>1, <2>3, <3>1 DEF RowFollows, InBook, At, history
    <3>3. CloseSettled(t)'
      BY <1>1, <1>4, <2>1, <2>3, <3>1 DEF CloseSettled, Settled, Counted, At, history
    <3>4. QED
      BY <3>2, <3>3
  <2>4. CASE t # u /\ t # c
    <3>1. pos'[t] = pos[t] /\ row'[t] = row[t]
      BY <1>7, <1>8, <2>4
    <3>2. RowFollows(t)'
      BY <1>1, <2>1, <3>1 DEF RowFollows, InBook, At, history
    <3>3. CloseSettled(t)'
      BY <1>1, <2>1, <3>1 DEF CloseSettled, Settled, Counted, At, history
    <3>4. QED
      BY <3>2, <3>3
  <2>5. QED
    BY <2>2, <2>3, <2>4
<1>12. ActedIsRecorded'
  <2>1. ReviewsStay
    BY <1>1, <1>4, <1>8, SameRow DEF ReviewsStay
  <2>2. QED
    BY <1>1, <2>1, IdleType, ActedStays DEF At, history
<1>13. ReviewsDue'
  BY <1>1, IdleType DEF ReviewsDue, Reviewing, At
<1>14. QED
  BY <1>9, <1>10, <1>11, <1>12, <1>13 DEF DeskInv, RowsFollow, ClosesSettled

-----------------------------------------------------------------------------
\* The next session.

\* What a session finds of the books that its predecessor has written.
LEMMA RestoredFollows ==
  ASSUME row' \in [Trades -> Rows], pos' = Restored(row')
  PROVE  pos' \in [Trades -> Positions] /\ RowsFollow'
<1>1. pos' \in [Trades -> Positions]
  BY EntryIs, None \in Trades \cup {None} DEF Restored, Rows
<1>2. ASSUME NEW t \in Trades PROVE RowFollows(t)'
  <2>1. NoPosition.state = "NONE"
    BY DEF NoPosition
  <2>2. pos'[t] = IF row'[t].pos.state = "CLOSED" THEN NoPosition ELSE row'[t].pos
    BY DEF Restored
  <2>3. QED
    BY <2>1, <2>2 DEF RowFollows, InBook
<1>3. QED
  BY <1>1, <1>2 DEF RowsFollow

LEMMA NextDayKeeps == DeskInv /\ NextDay => DeskInv'
<1> SUFFICES ASSUME DeskInv, NextDay PROVE DeskInv'
  OBVIOUS
<1>1. /\ call.pc = "idle" /\ call.back = "idle" /\ TypeOK /\ CallOK
      /\ UNCHANGED <<log, campaign, call, history, crashes>>
      /\ slots' = {} /\ pos' = Restored(row')
      /\ row' = [t \in Trades |-> IF InBook(t) THEN Written(t) ELSE row[t]]
  BY DEF NextDay, At, DeskInv, CallOK
<1>2. \A t \in Trades : /\ Written(t) \in Rows
                        /\ Fields(Written(t), pos[t], row[t].ids, row[t].reviews, row[t].carry, row[t].roll, row[t].campaign)
  BY <1>1, WrittenIs
<1>3. row' \in [Trades -> Rows]
  BY <1>1, <1>2 DEF TypeOK
<1>4. \A t \in Trades : row'[t] = row[t] \/ (InBook(t) /\ row'[t] = Written(t))
  BY <1>1
<1>5. clock' \in [day : 1..Days, time : 0..Eod]
  <2>1. clock.day \in 1..Days /\ clock.day < Days /\ clock' = [day |-> clock.day + 1, time |-> 0]
    BY <1>1 DEF NextDay, TypeOK
  <2>2. clock.day + 1 \in 1..Days /\ 0 \in 0..Eod
    BY <2>1, BoundsAssumption DEF Eod
  <2>3. QED
    BY <2>1, <2>2
<1>6. pos' \in [Trades -> Positions] /\ RowsFollow'
  BY <1>1, <1>3, RestoredFollows
<1>7. TypeOK'
  BY <1>1, <1>3, <1>5, <1>6 DEF TypeOK, history
<1>8. CallOK'
  BY <1>1 DEF CallOK, Busy, Reviewing
<1>9. ASSUME NEW t \in Trades PROVE CloseSettled(t)'
  <2>1. CloseSettled(t)
    BY DEF DeskInv, ClosesSettled
  <2>2. row'[t].pos.state = "CLOSED" => row'[t] = row[t]
    BY <1>2, <1>4 DEF InBook, Fields
  <2>3. QED
    BY <1>1, <2>1, <2>2 DEF CloseSettled, Settled, Counted, At, history
<1>10. ActedIsRecorded'
  <2>1. ReviewsStay
    BY <1>2, <1>4, SameRow DEF ReviewsStay, InBook, Fields, KeepsReviews
  <2>2. QED
    BY <1>1, <2>1, ActedStays DEF At, history
<1>11. ReviewsDue'
  BY <1>1 DEF ReviewsDue, Reviewing, At
<1>12. QED
  BY <1>6, <1>7, <1>8, <1>9, <1>10, <1>11 DEF DeskInv, ClosesSettled

LEMMA RestartKeeps == DeskInv /\ Restart => DeskInv'
<1> SUFFICES ASSUME DeskInv, Restart PROVE DeskInv'
  OBVIOUS
<1>1. /\ TypeOK /\ CallOK /\ call' = Idle /\ pos' = Restored(row')
      /\ UNCHANGED <<clock, row, log, slots, campaign, acted, adopted>>
      /\ cut' = IF call.pc \in Open \/ call.back = "record" THEN cut \cup {Cur} ELSE cut
  BY DEF Restart, DeskInv
<1>2. call.pc \in Open \/ call.back = "record" => Busy
  BY <1>1 DEF CallOK, Open, Busy
<1>3. cut \subseteq cut' /\ cut' \subseteq Trades
  BY <1>1, <1>2 DEF CallOK, TypeOK
<1>4. row' \in [Trades -> Rows]
  BY <1>1 DEF TypeOK
<1>5. pos' \in [Trades -> Positions] /\ RowsFollow'
  BY <1>1, <1>4, RestoredFollows
<1>6. crashes' \in 0..MaxCrashes
  BY <1>1, BoundsAssumption DEF Restart, TypeOK
<1>7. TypeOK'
  BY <1>1, <1>3, <1>4, <1>5, <1>6, IdleType DEF TypeOK
<1>8. CallOK'
  BY <1>1, IdleType DEF CallOK, Busy, Reviewing
<1>9. ASSUME NEW t \in Trades PROVE CloseSettled(t)'
  <2>1. CloseSettled(t)
    BY DEF DeskInv, ClosesSettled
  <2>2. (t = Cur /\ (At("campaign") \/ At("advance"))) => t \in cut'
    BY <1>1 DEF At, Open
  <2>3. QED
    BY <1>1, <1>3, <2>1, <2>2 DEF CloseSettled, Settled, Counted
<1>10. ActedIsRecorded'
  <2>1. ASSUME NEW t \in Trades, NEW d \in 1..Days, NEW s \in 1..Slots, <<t, d, s>> \in acted
        PROVE  OnRecord(t, d, s)'
    <3>1. OnRecord(t, d, s)
      BY <2>1 DEF DeskInv, ActedIsRecorded
    <3>2. InReview(t) => t \in cut'
      BY <1>1 DEF InReview
    <3>3. HasReview(row[t], d, s)' <=> HasReview(row[t], d, s)
      BY <1>1 DEF HasReview
    <3>4. QED
      BY <1>1, <1>3, <3>1, <3>2, <3>3 DEF OnRecord
  <2>2. QED
    BY <1>1, <2>1, IdleType DEF ActedIsRecorded, At
<1>11. ReviewsDue'
  BY <1>1, IdleType DEF ReviewsDue, Reviewing, At
<1>12. QED
  BY <1>5, <1>7, <1>8, <1>9, <1>10, <1>11 DEF DeskInv, ClosesSettled

-----------------------------------------------------------------------------
\* The decision of a review.

Taken(k, t, action, part, pc, sent) ==
  [k EXCEPT !.trade = t, !.todo = @ \ {t}, !.action = action, !.sent = sent,
            !.part = part, !.back = "record", !.pc = pc]

TakenUpFrom(n, k, t, pc) ==
  /\ n \in CallType /\ n.pc = pc /\ n.back = "record" /\ n.trade = t
  /\ n.slot = k.slot /\ n.covers = k.covers /\ n.todo = k.todo \ {t}

LEMMA TakenIs ==
  ASSUME NEW k \in CallType, NEW t \in Trades, NEW action \in Actions, NEW part \in 0..Lots,
         NEW pc \in Pcs, NEW sent \in BOOLEAN
  PROVE  TakenUpFrom(Taken(k, t, action, part, pc, sent), k, t, pc)
<1> DEFINE a == [k EXCEPT !.trade = t, !.todo = k.todo \ {t}, !.action = action]
           b == [a EXCEPT !.part = part, !.back = "record", !.pc = pc]
           n == [b EXCEPT !.sent = sent]
<1>1. /\ a \in CallType /\ a.trade = t /\ a.slot = k.slot /\ a.covers = k.covers
      /\ a.todo = k.todo \ {t}
  BY DEF CallType
<1>2. Taken(k, t, action, part, pc, sent) = n
  BY ZenonT(40) DEF CallType, Taken
<1> HIDE DEF a
<1>3. /\ b \in CallType /\ b.pc = pc /\ b.back = "record" /\ b.trade = t /\ b.slot = k.slot
      /\ b.covers = k.covers /\ b.todo = k.todo \ {t}
  BY <1>1 DEF CallType, Pcs
<1> HIDE DEF b
<1>4. /\ n \in CallType /\ n.pc = pc /\ n.back = "record" /\ n.trade = t /\ n.slot = k.slot
      /\ n.covers = k.covers /\ n.todo = k.todo \ {t}
  BY <1>3 DEF CallType
<1>5. QED
  BY <1>2, <1>4 DEF TakenUpFrom

LEMMA DecideKeeps ==
  ASSUME DeskInv, NEW t \in Trades, NEW action \in Actions, Decide(t, action)
  PROVE  DeskInv'
<1>1. /\ call.pc = "review" /\ call.back = "idle" /\ TypeOK /\ CallOK /\ Reviewing
      /\ UNCHANGED <<pos, log, slots, campaign, history, run>>
      /\ t \in call.todo /\ InBook(t) /\ ~Recorded(t)
      /\ action = "HOLD" \/ pos[t].state = "OPEN"
  BY DEF Decide, Eligible, At, Reviewing, DeskInv, CallOK
<1> DEFINE w == [Written(t) EXCEPT !.roll = "CLOSE_PENDING"]
           pc == IF action = "HOLD" THEN "record" ELSE "request"
           part == IF action = "PARTIAL_EXIT" THEN PartialQuantity(t) ELSE 0
<1>2. /\ w \in Rows /\ w.pos = pos[t] /\ w.campaign = row[t].campaign /\ w.carry = row[t].carry
      /\ KeepsReviews(row[t], w)
  <2> DEFINE r == Written(t)
  <2>1. r \in Rows /\ Fields(r, pos[t], row[t].ids, row[t].reviews, row[t].carry, row[t].roll, row[t].campaign)
    BY <1>1, WrittenIs
  <2> HIDE DEF r
  <2>2. LET x == [r EXCEPT !.roll = "CLOSE_PENDING"] IN
        x \in Rows /\ Fields(x, r.pos, r.ids, r.reviews, r.carry, "CLOSE_PENDING", r.campaign)
    BY <2>1, RollPut DEF Transitions
  <2> DEFINE x == [r EXCEPT !.roll = "CLOSE_PENDING"]
  <2>3. x \in Rows /\ Fields(x, r.pos, r.ids, r.reviews, r.carry, "CLOSE_PENDING", r.campaign)
    BY <2>2
  <2> HIDE DEF x
  <2>4. /\ x \in Rows /\ x.pos = pos[t] /\ x.campaign = row[t].campaign /\ x.carry = row[t].carry
        /\ KeepsReviews(row[t], x)
    BY <2>1, <2>3 DEF Fields, KeepsReviews
  <2>5. QED
    BY <2>4 DEF x, r
<1>3. row' = row \/ (row' = [row EXCEPT ![t] = w] /\ action = "PROPOSE_ROLL")
  BY DEF Decide
<1> HIDE DEF w
<1>4. /\ row' \in [Trades -> Rows] /\ \A u \in Trades : u # t => row'[u] = row[u]
      /\ row'[t].carry = row[t].carry /\ KeepsReviews(row[t], row'[t])
      /\ row'[t] = row[t] \/ (row'[t].pos = pos[t] /\ pos[t].state = "OPEN")
  <2>1. CASE row' = row
    BY <1>1, <2>1, SameRow DEF TypeOK
  <2>2. CASE row' = [row EXCEPT ![t] = w] /\ action = "PROPOSE_ROLL"
    <3>1. row' \in [Trades -> Rows] /\ row'[t] = w /\ \A u \in Trades : u # t => row'[u] = row[u]
      BY <1>1, <1>2, <2>2, OneRow
    <3>2. QED
      BY <1>1, <1>2, <2>2, <3>1
  <2>3. QED
    BY <1>3, <2>1, <2>2
<1>5. part \in 0..Lots /\ pc \in Pcs
  <2>1. pos[t].qty \in 0..Lots
    BY <1>1 DEF TypeOK, Positions
  <2>2. pos[t].qty \div 2 \in 0..Lots
    BY <2>1, BoundsAssumption
  <2>3. QED
    BY <2>2, BoundsAssumption DEF PartialQuantity, Pcs
<1>6. call' = [call EXCEPT !.trade = t, !.todo = @ \ {t}, !.action = action, !.sent = FALSE,
                           !.part = part, !.back = "record", !.pc = pc]
  BY DEF Decide
<1>7. pc \in {"record", "request"} /\ (pc = "request" => pos[t].state = "OPEN")
  BY <1>1
<1> HIDE DEF part, pc
<1>8. /\ call' \in CallType /\ call'.pc = pc /\ call'.back = "record" /\ call'.trade = t
      /\ call'.slot = call.slot /\ call'.covers = call.covers /\ call'.todo = call.todo \ {t}
  <2>1. call \in CallType
    BY <1>1 DEF TypeOK
  <2>2. \A sent \in BOOLEAN : TakenUpFrom(Taken(call, t, action, part, pc, sent), call, t, pc)
    BY <1>5, <2>1, TakenIs
  <2>3. call' = Taken(call, t, action, part, pc, FALSE) /\ FALSE \in BOOLEAN
    BY <1>6, Zenon DEF Taken
  <2>4. TakenUpFrom(call', call, t, pc)
    BY <2>2, <2>3, Zenon
  <2>5. QED
    BY <2>4 DEF TakenUpFrom
<1>9. TypeOK'
  BY <1>1, <1>4, <1>8 DEF TypeOK, history, run
<1>10. CallOK'
  BY <1>1, <1>7, <1>8 DEF CallOK, Busy, Reviewing, Cur, InBook
<1>11. RowFollows(t)' /\ CloseSettled(t)'
  BY <1>1, <1>4 DEF DeskInv, RowsFollow, RowFollows, CloseSettled, InBook
<1>12. Moves(t)
  BY <1>1, <1>4 DEF Moves, history
<1>13. ASSUME NEW u \in Trades PROVE KeepsReviews(row[u], row'[u]) /\ row'[u].carry = row[u].carry
  BY <1>4, SameRow
<1>14. ActedIsRecorded'
  <2>1. ASSUME NEW u \in Trades, NEW d \in 1..Days, NEW s \in 1..Slots, <<u, d, s>> \in acted
        PROVE  OnRecord(u, d, s)'
    <3>1. row[u].pos.state # "NONE" /\ (u \in cut \/ HasReview(row[u], d, s))
      BY <1>1, <2>1 DEF DeskInv, ActedIsRecorded, OnRecord, InReview
    <3>2. row'[u].pos.state # "NONE"
      BY <1>4, <3>1
    <3>3. HasReview(row[u], d, s) => HasReview(row'[u], d, s)
      BY <1>13, ReviewKept
    <3>4. HasReview(row[u], d, s)' <=> HasReview(row'[u], d, s)
      BY DEF HasReview
    <3>5. QED
      BY <1>1, <3>1, <3>2, <3>3, <3>4 DEF OnRecord, history
  <2>2. ASSUME <<t, clock.day, call.slot>> \in acted PROVE t \in cut
    <3>1. clock.day \in 1..Days /\ call.slot \in 1..Slots /\ call.slot \in call.covers
      BY <1>1 DEF TypeOK, CallType, CallOK
    <3>2. t \in cut \/ HasReview(row[t], clock.day, call.slot)
      BY <1>1, <2>2, <3>1 DEF DeskInv, ActedIsRecorded, OnRecord, InReview
    <3>3. ~HasReview(row[t], clock.day, call.slot)
      BY <1>1, <3>1 DEF HasReview, Recorded
    <3>4. QED
      BY <3>2, <3>3
  <2>3. QED
    BY <1>1, <1>8, <2>1, <2>2 DEF ActedIsRecorded, Cur, history, run
<1>15. ReviewsDue'
  <2>1. ASSUME NEW u \in Trades, Eligible(u)' PROVE (u \in call.todo \/ Recorded(u) \/ InReview(u))'
    <3>1. Eligible(u)
      BY <1>1, <1>13, <2>1 DEF Eligible, InBook
    <3>2. u \in call.todo \/ Recorded(u)
      BY <1>1, <3>1 DEF DeskInv, ReviewsDue, InReview
    <3>3. Recorded(u) => Recorded(u)'
      BY <1>1, <1>8, <1>13, RecordedKept DEF run
    <3>4. u = t => InReview(u)'
      BY <1>8 DEF InReview, Cur
    <3>5. QED
      BY <1>8, <3>2, <3>3, <3>4
  <2>2. QED
    BY <1>7, <1>8, <2>1 DEF ReviewsDue, At
<1>16. QED
  BY <1>1, <1>9, <1>10, <1>11, <1>12, <1>14, <1>15, OthersFollow DEF DeskInv

-----------------------------------------------------------------------------
\* The invariant, and what it says.

LEMMA DeskInit == Init => DeskInv
<1> SUFFICES ASSUME Init PROVE DeskInv
  OBVIOUS
<1>1. \A t \in Trades : EntryRow(t) \in Rows /\ EntryRow(t).pos = Opened
  BY EntryIs
<1>2. /\ Opened \in Positions /\ Opened.state = "OPEN"
      /\ NoPosition \in Positions /\ NoPosition.state = "NONE"
      /\ NoRow \in Rows /\ NoRow.pos = NoPosition
  BY EntryIs
<1>3. /\ pos = [t \in Trades |-> IF t \in Held THEN Opened ELSE NoPosition]
      /\ row = [t \in Trades |-> IF t \in Held THEN EntryRow(t) ELSE NoRow]
      /\ call = Idle /\ acted = {} /\ cut = {} /\ adopted = {} /\ slots = {} /\ crashes = 0
      /\ clock = [day |-> 1, time |-> 0]
  BY DEF Init
<1>4. pos \in [Trades -> Positions] /\ row \in [Trades -> Rows]
  BY <1>1, <1>2, <1>3
<1>5. log \in [Trades -> [Keys -> {"NONE", "FILLED", "REJECTED"}]]
  BY DEF Init
<1>6. campaign \in [Trades -> [closes : SUBSET Trades, blocked : BOOLEAN]]
  <2>1. \A blocked \in BOOLEAN :
          [c \in Trades |-> [closes |-> {}, blocked |-> blocked]]
            \in [Trades -> [closes : SUBSET Trades, blocked : BOOLEAN]]
    OBVIOUS
  <2>2. FALSE \in BOOLEAN /\ campaign = [c \in Trades |-> [closes |-> {}, blocked |-> FALSE]]
    BY DEF Init
  <2>3. QED
    BY <2>1, <2>2, Zenon
<1>7. clock \in [day : 1..Days, time : 0..Eod] /\ crashes \in 0..MaxCrashes
  BY <1>3, BoundsAssumption DEF Eod
<1>8. TypeOK
  BY <1>3, <1>4, <1>5, <1>6, <1>7, IdleType DEF TypeOK
<1>9. CallOK /\ ReviewsDue /\ ActedIsRecorded
  BY <1>3, IdleType DEF CallOK, ReviewsDue, ActedIsRecorded, Busy, Reviewing, At
<1>10. RowsFollow /\ ClosesSettled
  <2> SUFFICES ASSUME NEW t \in Trades PROVE RowFollows(t) /\ CloseSettled(t)
    BY DEF RowsFollow, ClosesSettled
  <2>1. CASE t \in Held
    BY <1>1, <1>2, <1>3, <2>1 DEF RowFollows, CloseSettled, InBook
  <2>2. CASE t \notin Held
    BY <1>2, <1>3, <2>2 DEF RowFollows, CloseSettled, InBook
  <2>3. QED
    BY <2>1, <2>2
<1>11. QED
  BY <1>8, <1>9, <1>10 DEF DeskInv

LEMMA DeskNext == DeskInv /\ [Next]_vars => DeskInv'
<1> SUFFICES ASSUME DeskInv, [Next]_vars PROVE DeskInv'
  OBVIOUS
<1>1. CASE Exit
  <2>1. \A answer \in {"FILLED", "REJECTED"} : Submit(answer) => DeskInv'
    BY SubmitKeeps
  <2>2. \A loss \in BOOLEAN : RecordClose(loss) => DeskInv'
    BY RecordCloseKeeps
  <2>3. \A t \in Trades : ManageExit(t) \/ Resume(t) => DeskInv'
    BY ManageKeeps
  <2>4. QED
    BY <1>1, <2>1, <2>2, <2>3, RequestExitKeeps, AdoptKeeps, NoPlanKeeps, WriteIdsKeeps, ApplyKeeps,
       SettleKeeps, AdvanceKeeps, AdoptApplyKeeps, AdoptSettleKeeps DEF Exit
<1>2. CASE Review
  <2>1. \A t \in Trades : SkipReview(t) => DeskInv'
    BY SkipKeeps
  <2>2. \A t \in Trades, action \in Actions : Decide(t, action) => DeskInv'
    BY DecideKeeps
  <2>3. QED
    BY <1>2, <2>1, <2>2, BeginReviewsKeeps, RecordReviewKeeps, EndReviewsKeeps, RecordSlotKeeps
       DEF Review
<1>3. CASE Carry
  <2>1. \A t \in Trades, approved \in BOOLEAN : CarryGate(t, approved) => DeskInv'
    BY CarryGateKeeps
  <2>2. QED
    BY <1>3, <2>1, RecordCarryKeeps DEF Carry
<1>4. CASE Replacement
  <2>1. \A t \in Trades : BeginReplacement(t) => DeskInv'
    BY BeginReplacementKeeps
  <2>2. \A u \in Trades : Replace(u) => DeskInv'
    BY ReplaceKeeps
  <2>3. QED
    BY <1>4, <2>1, <2>2, RejectReplacementKeeps DEF Replacement
<1>5. CASE UNCHANGED vars
  BY <1>5 DEF vars, history, run, DeskInv, TypeOK, CallOK, RowsFollow, RowFollows, ClosesSettled,
       CloseSettled, Settled, Counted, ActedIsRecorded, OnRecord, InReview, HasReview, ReviewsDue,
       Reviewing, Busy, Recorded, Eligible, InBook, At, Cur
<1>6. QED
  BY <1>1, <1>2, <1>3, <1>4, <1>5, TickKeeps, NextDayKeeps, RestartKeeps DEF Next

\* The inductive invariant: where the thread is and what its row, its position and
\* its records say of each other, for any trades, slots, days and crashes.
THEOREM DeskHolds == Spec => []DeskInv
<1>1. QED
  BY DeskInit, DeskNext, PTL DEF Spec

\* The states of ReviewDesk are of their types.
THEOREM TypeCorrect == Spec => []TypeOK
<1>1. DeskInv => TypeOK
  BY DEF DeskInv
<1>2. QED
  BY <1>1, DeskHolds, PTL

\* Whenever the thread is idle, a trade whose row is closed has its loss in the
\* account of its campaign and no roll that waits for the close, unless a crash or
\* an adoption came between: for any trades, fills, reviews and crashes.
THEOREM ClosesAreSettled == Spec => []ClosedIsSettled
<1>1. DeskInv => ClosedIsSettled
  BY DEF DeskInv, ClosesSettled, CloseSettled, Settled, Counted, ClosedIsSettled, At
<1>2. QED
  BY <1>1, DeskHolds, PTL

\* A review begins the exit of its trade once, over any repeats, recoveries and
\* restarts of its slot, unless the process died between the exit and the record.
THEOREM ReviewsActOnce == Spec => ActsOnce
<1>1. DeskInv /\ [Next]_vars =>
        [\A t \in Trades :
           At("request") /\ call'.pc = "submit" /\ call.back = "record" /\ Cur = t
             /\ <<t, clock.day, call.slot>> \in acted => t \in cut]_vars
  BY DEF DeskInv, ActedIsRecorded
<1>2. QED
  BY <1>1, DeskHolds, PTL DEF Spec, ActsOnce

LEMMA OnlyRecordSlotAdds ==
  ASSUME Next, NEW s \in slots' \ slots
  PROVE  RecordSlot
<1>1. UNCHANGED slots \/ slots' = {} \/ RecordSlot
  <2>1. Exit => UNCHANGED slots
    BY DEF Exit, RequestExit, Adopt, NoPlan, WriteIds, Apply, Settle, Advance, AdoptApply, AdoptSettle,
         Submit, RecordClose, ManageExit, Resume
  <2>2. Review => UNCHANGED slots \/ RecordSlot
    BY DEF Review, BeginReviews, RecordReview, EndReviews, SkipReview, Decide
  <2>3. Carry => UNCHANGED slots
    BY DEF Carry, RecordCarry, CarryGate
  <2>4. Replacement => UNCHANGED slots
    BY DEF Replacement, RejectReplacement, BeginReplacement, Replace
  <2>5. Tick \/ Restart => UNCHANGED slots
    BY DEF Tick, Restart
  <2>6. NextDay => slots' = {}
    BY DEF NextDay
  <2>7. QED
    BY <2>1, <2>2, <2>3, <2>4, <2>5, <2>6 DEF Next
<1>2. QED
  BY <1>1

\* No step writes a slot as run while an open trade it was due for has no review of
\* it, also when several slots are recovered together.
THEOREM SlotsAreReviewed == Spec => SlotReviewed
<1>1. ASSUME DeskInv, [Next]_vars, NEW s \in slots' \ slots, NEW t \in Trades, Eligible(t)
      PROVE  \E i \in DOMAIN row[t].reviews :
               row[t].reviews[i].day = clock.day /\ row[t].reviews[i].slot \in call.covers
  <2>1. RecordSlot
    BY <1>1, OnlyRecordSlotAdds DEF vars
  <2>2. call.pc = "slots" /\ call.back = "idle" /\ call.todo = {}
    BY <1>1, <2>1 DEF RecordSlot, At, DeskInv, CallOK, ReviewsDue
  <2>3. Recorded(t)
    BY <1>1, <2>2 DEF DeskInv, ReviewsDue, Reviewing, InReview
  <2>4. QED
    BY <2>3 DEF Recorded
<1>2. DeskInv /\ [Next]_vars =>
        [\A s \in slots' \ slots : \A t \in Trades :
           Eligible(t) => \E i \in DOMAIN row[t].reviews :
             row[t].reviews[i].day = clock.day
               /\ row[t].reviews[i].slot \in call.covers]_vars
  BY <1>1
<1>3. QED
  BY <1>2, DeskHolds, PTL DEF Spec, SlotReviewed


-----------------------------------------------------------------------------
\* Sums over finite sets.  What the community modules fold is a function of the subsets;
\* w gives the weight of an element.

One(s) == CHOOSE x \in s : TRUE

Follows(w, S, g) ==
  \A s \in SUBSET S : g[s] = IF s = {} THEN 0 ELSE w[One(s)] + g[s \ {One(s)}]

Adds(w, S, g) == g \in [SUBSET S -> Int] /\ Follows(w, S, g)

\* A nonempty set of naturals has a least member.
LEMMA LeastOne ==
  ASSUME NEW S \in SUBSET Nat, S # {}
  PROVE  \E k \in S : \A j \in S : k <= j
<1>1. PICK k \in S : \A j \in S : ~(<<j, k>> \in OpToRel(<, Nat))
  BY WFMin, NatLessThanWellFounded
<1>2. \A j \in S : ~(j < k)
  BY <1>1 DEF OpToRel
<1> QED
  BY <1>2

\* Of some subsets of a finite set, one has none of the others in it.
LEMMA LeastSet ==
  ASSUME NEW S, IsFiniteSet(S), NEW D \in SUBSET (SUBSET S), D # {}
  PROVE  \E s \in D : \A r \in D : r \subseteq s => r = s
<1> DEFINE sizes == {Cardinality(s) : s \in D}
<1>1. \A s \in D : IsFiniteSet(s) /\ Cardinality(s) \in Nat
  BY FS_Subset, FS_CardinalityType
<1>2. sizes \in SUBSET Nat /\ sizes # {}
  BY <1>1
<1>3. PICK n \in sizes : \A j \in sizes : n <= j
  BY <1>2, LeastOne
<1>4. PICK s \in D : Cardinality(s) = n
  BY <1>3
<1>5. ASSUME NEW r \in D, r \subseteq s, r # s PROVE FALSE
  <2>1. Cardinality(r) < Cardinality(s)
    BY <1>1, <1>5, FS_Subset
  <2>2. Cardinality(s) <= Cardinality(r)
    BY <1>3, <1>4
  <2> QED
    BY <1>1, <2>1, <2>2
<1> QED
  BY <1>5

\* What is chosen from a set is in it, and the rest is less.
LEMMA OneIs ==
  ASSUME NEW s, s # {}
  PROVE  One(s) \in s /\ s \ {One(s)} \subseteq s /\ s \ {One(s)} # s
BY DEF One

\* Two sums agree on what is in both of their sets.
LEMMA AddsOnce ==
  ASSUME NEW S, IsFiniteSet(S), NEW w, NEW A \in SUBSET S, NEW B \in SUBSET S,
         NEW g, NEW h, Follows(w, A, g), Follows(w, B, h), NEW s \in SUBSET A, s \subseteq B
  PROVE  g[s] = h[s]
<1> DEFINE D == {r \in SUBSET S : r \subseteq A /\ r \subseteq B /\ g[r] # h[r]}
<1>1. ASSUME D # {} PROVE FALSE
  <2>1. PICK r \in D : \A q \in D : q \subseteq r => q = r
    <3>1. D \in SUBSET (SUBSET S)
      OBVIOUS
    <3> HIDE DEF D
    <3> QED
      BY <1>1, <3>1, LeastSet
  <2>2. r # {}
    BY <2>1 DEF Follows
  <2>3. g[r \ {One(r)}] = h[r \ {One(r)}]
    BY <2>1, <2>2, OneIs
  <2> QED
    BY <2>1, <2>2, <2>3 DEF Follows
<1> QED
  BY <1>1

\* A finite set has a sum.
LEMMA AddsUp ==
  ASSUME NEW S, IsFiniteSet(S), NEW w \in [S -> Int]
  PROVE  \E g : Adds(w, S, g)
<1> DEFINE D == {s \in SUBSET S : ~\E g : Adds(w, s, g)}
<1>1. ASSUME D # {} PROVE FALSE
  <2>1. PICK s \in D : \A r \in D : r \subseteq s => r = s
    <3>1. D \in SUBSET (SUBSET S)
      OBVIOUS
    <3> HIDE DEF D
    <3> QED
      BY <1>1, <3>1, LeastSet
  <2> DEFINE h(r) == CHOOSE g : Adds(w, r, g)
  <2>2. ASSUME NEW r \in SUBSET s, r # s PROVE Adds(w, r, h(r))
    <3>1. \E g : Adds(w, r, g)
      BY <2>1, <2>2
    <3> QED
      BY <3>1
  <2> HIDE DEF h
  <2> DEFINE rest(r) == r \ {One(r)}
             g == [r \in SUBSET s |-> IF r = {} THEN 0 ELSE w[One(r)] + h(rest(r))[rest(r)]]
  <2>3. ASSUME NEW r \in SUBSET s, r # {}
        PROVE  rest(r) \in SUBSET s /\ rest(r) # s /\ One(r) \in S
    BY <2>3, OneIs
  <2>4. ASSUME NEW r \in SUBSET s, r # s PROVE h(r)[r] \in Int
    BY <2>2, <2>4 DEF Adds
  <2>5. ASSUME NEW r \in SUBSET s, r # s PROVE g[r] = h(r)[r]
    <3>1. h(r)[r] = IF r = {} THEN 0 ELSE w[One(r)] + h(r)[rest(r)]
      BY <2>2, <2>5 DEF Adds, Follows
    <3>2. r # {} => h(r)[rest(r)] = h(rest(r))[rest(r)]
      <4> SUFFICES ASSUME r # {} PROVE h(r)[rest(r)] = h(rest(r))[rest(r)]
        OBVIOUS
      <4>1. Adds(w, r, h(r)) /\ Adds(w, rest(r), h(rest(r)))
        BY <2>2, <2>3, <2>5
      <4> DEFINE q == rest(r)
      <4>2. q \in SUBSET r /\ q \subseteq q /\ r \in SUBSET S /\ q \in SUBSET S
        BY <2>1
      <4>3. Follows(w, r, h(r)) /\ Follows(w, q, h(q))
        BY <4>1 DEF Adds
      <4>4. h(r)[q] = h(q)[q]
        <5> HIDE DEF q, rest
        <5> QED
          BY SMTT(30), <4>2, <4>3, AddsOnce
      <4> QED
        BY <4>4
    <3> QED
      BY <2>5, <3>1, <3>2
  <2>6. g \in [SUBSET s -> Int]
    <3>1. ASSUME NEW r \in SUBSET s, r # {} PROVE w[One(r)] + h(rest(r))[rest(r)] \in Int
      BY <2>3, <2>4, <3>1
    <3> QED
      BY <3>1
  <2>7. ASSUME NEW r \in SUBSET s PROVE g[r] = IF r = {} THEN 0 ELSE w[One(r)] + g[rest(r)]
    <3>1. r # {} => g[rest(r)] = h(rest(r))[rest(r)]
      BY <2>3, <2>5
    <3> QED
      BY <3>1
  <2>8. Adds(w, s, g)
    BY <2>6, <2>7 DEF Adds, Follows
  <2> QED
    BY <2>1, <2>8
<1> QED
  BY <1>1

\* What one more element adds, whatever the order that the sum is taken in.
LEMMA AddsOne ==
  ASSUME NEW S, IsFiniteSet(S), NEW w \in [S -> Int], NEW g, Adds(w, S, g),
         NEW s \in SUBSET S, NEW x \in S, x \notin s
  PROVE  g[s \cup {x}] = g[s] + w[x]
<1> DEFINE D == {r \in SUBSET S : \E y \in S : y \notin r /\ g[r \cup {y}] # g[r] + w[y]}
<1>1. ASSUME D # {} PROVE FALSE
  <2>1. PICK r \in D : \A q \in D : q \subseteq r => q = r
    <3>1. D \in SUBSET (SUBSET S)
      OBVIOUS
    <3> HIDE DEF D
    <3> QED
      BY <1>1, <3>1, LeastSet
  <2>2. PICK y \in S : y \notin r /\ g[r \cup {y}] # g[r] + w[y]
    BY <2>1
  <2> DEFINE z == One(r \cup {y})
  <2>3. z \in r \cup {y} /\ z \in S
    BY <2>1, OneIs
  <2>4. g[r \cup {y}] = w[z] + g[(r \cup {y}) \ {z}]
    BY <2>1 DEF Adds, Follows
  <2>5. g[r] \in Int /\ g[r \ {z}] \in Int /\ w[y] \in Int /\ w[z] \in Int
    BY <2>1, <2>3 DEF Adds
  <2> HIDE DEF z
  <2>6. CASE z = y
    <3>1. (r \cup {y}) \ {z} = r
      BY <2>2, <2>6
    <3>2. g[r \cup {y}] = w[y] + g[r]
      BY <2>4, <2>6, <3>1
    <3> QED
      BY <2>2, <2>5, <3>2
  <2>7. CASE z # y
    <3>1. z \in r /\ (r \cup {y}) \ {z} = (r \ {z}) \cup {y}
      BY <2>3, <2>7
    <3>2. r \ {z} \in SUBSET S /\ r \ {z} \notin D
      BY <2>1, <3>1
    <3>3. g[(r \ {z}) \cup {y}] = g[r \ {z}] + w[y]
      BY <2>2, <3>2
    <3>4. g[(r \ {z}) \cup {z}] = g[r \ {z}] + w[z]
      BY <2>3, <3>2
    <3>5. (r \ {z}) \cup {z} = r
      BY <3>1
    <3>6. g[r \cup {y}] = w[z] + (g[r \ {z}] + w[y])
      BY <2>4, <3>1, <3>3
    <3>7. g[r] = g[r \ {z}] + w[z]
      BY <3>4, <3>5
    <3> QED
      BY <2>2, <2>5, <3>6, <3>7
  <2> QED
    BY <2>6, <2>7
<1> QED
  BY <1>1

-----------------------------------------------------------------------------
\* What the exits of a trade have sold.

Total(A) == MapThenSumSet(LAMBDA k : k.qty, A)

LEMMA KeysFinite == IsFiniteSet(Keys)
<1> DEFINE f == [x \in BOOLEAN \X (1..Lots) |-> [part |-> x[1], qty |-> x[2]]]
<1>1. IsFiniteSet(1..Lots)
  BY FS_Interval, BoundsAssumption
<1>2. IsFiniteSet(BOOLEAN)
  <2>1. BOOLEAN = ({} \cup {TRUE}) \cup {FALSE}
    OBVIOUS
  <2>2. IsFiniteSet({} \cup {TRUE})
    BY FS_EmptySet, FS_AddElement
  <2>3. IsFiniteSet(({} \cup {TRUE}) \cup {FALSE})
    BY <2>2, FS_AddElement
  <2> QED
    BY <2>1, <2>3
<1>3. IsFiniteSet(BOOLEAN \X (1..Lots))
  BY <1>1, <1>2, FS_Product
<1>4. f \in Surjection(BOOLEAN \X (1..Lots), Keys)
  <2>1. f \in [BOOLEAN \X (1..Lots) -> Keys]
    BY DEF Keys
  <2>2. ASSUME NEW k \in Keys PROVE \E x \in BOOLEAN \X (1..Lots) : f[x] = k
    <3>1. <<k.part, k.qty>> \in BOOLEAN \X (1..Lots) /\ k = [part |-> k.part, qty |-> k.qty]
      BY DEF Keys
    <3> QED
      BY <3>1
  <2> QED
    BY <2>1, <2>2 DEF Surjection
<1> QED
  BY <1>3, <1>4, FS_Surjection

Weight == [k \in Keys |-> k.qty]

\* MapThenSumSet is the sum of the quantities.
LEMMA TotalIs ==
  ASSUME NEW g, Adds(Weight, Keys, g), NEW A \in SUBSET Keys
  PROVE  Total(A) = g[A]
<1> DEFINE Body(it) == [s \in SUBSET A |-> IF s = {} THEN 0 ELSE One(s).qty + it[s \ {One(s)}]]
           iter == CHOOSE it : it = Body(it)
<1>1. Total(A) = iter[A]
  BY DEF Total, MapThenSumSet, MapThenFoldSet, One
<1>2. IsFiniteSet(A) /\ \A k \in A : Weight[k] = k.qty /\ k.qty \in Int
  <2>1. IsFiniteSet(A)
    BY KeysFinite, FS_Subset
  <2>2. \A k \in A : k \in [part : BOOLEAN, qty : 1..Lots]
    BY DEF Keys
  <2>3. \A k \in A : Weight[k] = k.qty
    BY DEF Weight
  <2>4. \A k \in A : k.qty \in Int
    BY <2>2
  <2> QED
    BY <2>1, <2>3, <2>4
<1>3. \A s \in SUBSET A : s # {} => One(s) \in A /\ s \ {One(s)} \in SUBSET A
  BY OneIs
<1>4. \E it : it = Body(it)
  <2> DEFINE v == [k \in A |-> k.qty]
  <2>1. v \in [A -> Int]
    BY <1>2
  <2>2. PICK it : Adds(v, A, it)
    BY <1>2, <2>1, AddsUp
  <2>3. it \in [SUBSET A -> Int] /\ Follows(v, A, it)
    BY <2>2 DEF Adds
  <2>4. ASSUME NEW s \in SUBSET A
        PROVE  it[s] = IF s = {} THEN 0 ELSE One(s).qty + it[s \ {One(s)}]
    <3>1. s # {} => v[One(s)] = One(s).qty
      BY <1>3
    <3> QED
      BY <2>3, <3>1 DEF Follows
  <2>5. it = [s \in SUBSET A |-> it[s]]
    BY <2>3
  <2>6. it = Body(it)
    BY <2>4, <2>5
  <2> QED
    BY <2>6
<1>5. iter = Body(iter)
  BY <1>4
<1> HIDE DEF iter
<1>6. Follows(Weight, A, iter)
  <2>1. \A s \in SUBSET A : iter[s] = IF s = {} THEN 0 ELSE One(s).qty + iter[s \ {One(s)}]
    BY <1>5
  <2> QED
    BY <1>2, <1>3, <2>1 DEF Follows
<1>7. iter[A] = g[A]
  <2>1. Follows(Weight, Keys, g) /\ A \in SUBSET Keys /\ Keys \in SUBSET Keys /\ A \in SUBSET A
    BY DEF Adds
  <2> QED
    BY <1>6, <2>1, KeysFinite, AddsOnce
<1> QED
  BY <1>1, <1>7

\* What one more order that is filled adds to what is sold.
LEMMA SoldMore ==
  ASSUME NEW A \in SUBSET Keys, NEW k \in Keys, k \notin A
  PROVE  Total(A \cup {k}) = Total(A) + k.qty
<1>1. Weight \in [Keys -> Int] /\ Weight[k] = k.qty
  BY DEF Weight, Keys
<1>2. PICK g : Adds(Weight, Keys, g)
  BY <1>1, KeysFinite, AddsUp
<1>3. g[A \cup {k}] = g[A] + Weight[k]
  BY <1>1, <1>2, KeysFinite, AddsOne
<1> QED
  BY <1>1, <1>2, <1>3, TotalIs

LEMMA SoldNone == Total({}) = 0
<1>1. Weight \in [Keys -> Int]
  BY DEF Weight, Keys
<1>2. PICK g : Adds(Weight, Keys, g)
  BY <1>1, KeysFinite, AddsUp
<1> QED
  BY <1>2, TotalIs DEF Adds, Follows

LEMMA SoldType ==
  ASSUME NEW A \in SUBSET Keys
  PROVE  Total(A) \in Int
<1>1. Weight \in [Keys -> Int]
  BY DEF Weight, Keys
<1>2. PICK g : Adds(Weight, Keys, g)
  BY <1>1, KeysFinite, AddsUp
<1>3. Total(A) = g[A]
  BY <1>2, TotalIs
<1>4. g[A] \in Int
  BY <1>2 DEF Adds
<1> QED
  BY <1>3, <1>4

-----------------------------------------------------------------------------
\* How much of what is sold the book has seen: c is the call, p the position, r the row
\* and l the exit orders of the trade t.

Filled(l) == {k \in Keys : l[k] = "FILLED"}

\* An order that is filled and not yet applied does not count.
Booked(c, l, t) == IF c.trade = t /\ c.pc \in {"ids", "apply"} THEN Filled(l) \ {c.key} ELSE Filled(l)

Scaled(r) == \E i \in DOMAIN r.reviews : r.reviews[i].action = "PARTIAL_EXIT"

Scaling(c, t) ==
  /\ c.trade = t /\ c.back = "record" /\ c.action = "PARTIAL_EXIT"
  /\ c.pc \in {"ids", "apply", "settle", "campaign", "advance", "record"}

\* The entry is what is held and what is sold; a whole exit leaves nothing, and a
\* scale-out is on record or under way.
Balanced(c, p, r, l, t) ==
  /\ p.state # "NONE" => Lots = p.qty + Total(Booked(c, l, t))
  /\ \A k \in Booked(c, l, t) : ~k.part => p.qty = 0
  /\ \A k \in Filled(l) : k.part => Scaled(r) \/ Scaling(c, t)

\* The row has the quantity of the book, and ids only of an exit in hand.
Agrees(c, p, r, t) ==
  /\ r.ids # None => p.state \in {"CLOSED", "NONE"} \/ (c.trade = t /\ c.pc \in {"apply", "settle"})
  /\ ~(c.trade = t /\ c.pc = "settle") =>
       IF p.state = "NONE" THEN r.pos.state \in {"NONE", "CLOSED"}
       ELSE r.pos.qty = p.qty /\ (r.pos.state = "CLOSED" <=> p.state = "CLOSED")

Loose == {"idle", "review", "slots", "replace"}

\* What the call has in its hands.
InHand(c, p, r, l) ==
  /\ c.part > 0 => c.back = "record" /\ c.action = "PARTIAL_EXIT"
  /\ c.pc \in {"request", "submit"} /\ c.part > 0 => c.part < p.qty /\ ~Scaled(r)
  /\ c.pc \in {"ids", "apply"} =>
       /\ l[c.key] \in {"FILLED", "REJECTED"}
       /\ IF c.part > 0 THEN c.key.part /\ c.key.qty < p.qty ELSE ~c.key.part /\ c.key.qty = p.qty
  /\ c.pc = "settle" =>
       l[c.key] = "REJECTED" \/ (l[c.key] = "FILLED" /\ (c.part > 0 \/ p.state = "CLOSED"))
  /\ c.pc \notin {"adopt", "adopted"}

SoundFor(c, p, r, l, t) ==
  /\ Balanced(c, p, r, l, t) /\ Agrees(c, p, r, t)
  /\ c.trade = t /\ c.pc \notin Loose => InHand(c, p, r, l)

\* A trade without a row has sold nothing; a crash may cut the account of any other.
Sound(t) ==
  /\ row[t].pos.state = "NONE" => Filled(log[t]) = {}
  /\ t \notin cut => SoundFor(call, pos[t], row[t], log[t], t)

SalesInv == \A t \in Trades : Sound(t)

\* Steps that neither order nor apply anything.
LEMMA SoundSame ==
  ASSUME NEW c, NEW d, NEW p, NEW q, NEW r, NEW w, NEW l, NEW t, SoundFor(c, p, r, l, t),
         c.trade = t => c.pc \notin {"ids", "apply", "settle"},
         d.trade = t => d.pc \notin {"ids", "apply", "settle"},
         q.qty = p.qty,
         q.state = p.state \/ (q.state \notin {"NONE", "CLOSED"} /\ p.state \notin {"NONE", "CLOSED"}),
         w.ids = r.ids,
         w.pos = r.pos \/ (w.pos = q /\ p.state # "NONE"),
         Scaled(r) => Scaled(w), Scaling(c, t) => Scaled(w) \/ Scaling(d, t),
         d.trade = t /\ d.pc \notin Loose => InHand(d, q, w, l)
  PROVE  SoundFor(d, q, w, l, t)
<1>1. Booked(d, l, t) = Filled(l) /\ Booked(c, l, t) = Filled(l)
  BY DEF Booked
<1>2. Balanced(d, q, w, l, t)
  BY <1>1 DEF SoundFor, Balanced
<1>3. Agrees(d, q, w, t)
  BY DEF SoundFor, Agrees
<1> QED
  BY <1>2, <1>3 DEF SoundFor

\* The trades that a step leaves alone.
LEMMA OthersSound ==
  ASSUME SalesInv, NEW c,
         \A t \in Trades : t # c => pos'[t] = pos[t] /\ row'[t] = row[t] /\ log'[t] = log[t],
         cut \subseteq cut', call.trade = c \/ call.pc \in Loose, call'.trade = c \/ call'.pc \in Loose,
         c \in Trades => Sound(c)'
  PROVE  SalesInv'
<1> SUFFICES ASSUME NEW t \in Trades, t # c PROVE Sound(t)'
  BY DEF SalesInv
<1>1. pos'[t] = pos[t] /\ row'[t] = row[t] /\ log'[t] = log[t] /\ Sound(t)
  BY DEF SalesInv
<1>2. ASSUME t \notin cut' PROVE SoundFor(call', pos[t], row[t], log[t], t)
  <2>1. SoundFor(call, pos[t], row[t], log[t], t)
    BY <1>1, <1>2 DEF Sound
  <2>2. /\ call.trade = t => call.pc \in Loose
        /\ call'.trade = t => call'.pc \in Loose
    OBVIOUS
  <2>3. ~Scaling(call, t)
    BY <2>2 DEF Scaling, Loose
  <2> QED
    BY <2>1, <2>2, <2>3, SoundSame DEF Loose
<1> QED
  BY <1>1, <1>2 DEF Sound

\* A step that leaves every trade alone.
LEMMA QuietSound ==
  ASSUME SalesInv, UNCHANGED <<pos, row, log, cut>>, call.pc \in Loose, call'.pc \in Loose
  PROVE  SalesInv'
<1>1. ASSUME NEW t \in Trades PROVE Sound(t)'
  <2>1. Sound(t)
    BY DEF SalesInv
  <2>2. ASSUME t \notin cut PROVE SoundFor(call', pos[t], row[t], log[t], t)
    <3>1. SoundFor(call, pos[t], row[t], log[t], t) /\ ~Scaling(call, t)
      BY <2>1, <2>2 DEF Sound, Scaling, Loose
    <3> QED
      BY <3>1, SoundSame DEF Loose
  <2> QED
    BY <2>1, <2>2 DEF Sound
<1> QED
  BY <1>1 DEF SalesInv


\* A step of one trade, c, that neither orders nor applies anything.
LEMMA SameSound ==
  ASSUME DeskInv, SalesInv, NEW c \in Trades,
         \A t \in Trades : t # c => pos'[t] = pos[t] /\ row'[t] = row[t],
         log' = log, cut' = cut, call.trade = c \/ call.pc \in Loose, call'.trade = c \/ call'.pc \in Loose,
         call.trade = c => call.pc \notin {"ids", "apply", "settle"},
         call'.trade = c => call'.pc \notin {"ids", "apply", "settle"},
         pos'[c].qty = pos[c].qty,
         pos'[c].state = pos[c].state
           \/ (pos'[c].state \notin {"NONE", "CLOSED"} /\ pos[c].state \notin {"NONE", "CLOSED"}),
         row'[c].ids = row[c].ids,
         row'[c].pos = row[c].pos \/ (row'[c].pos = pos'[c] /\ pos[c].state # "NONE"),
         Scaled(row[c]) => Scaled(row'[c]), Scaling(call, c) => Scaled(row'[c]) \/ Scaling(call', c),
         c \notin cut /\ call'.trade = c /\ call'.pc \notin Loose => InHand(call', pos'[c], row'[c], log[c])
  PROVE  SalesInv'
<1>1. Sound(c)
  BY DEF SalesInv
<1>2. ASSUME c \notin cut PROVE SoundFor(call', pos'[c], row'[c], log[c], c)
  <2>1. SoundFor(call, pos[c], row[c], log[c], c)
    BY <1>1, <1>2 DEF Sound
  <2> QED
    BY <1>2, <2>1, SoundSame
<1>3. Sound(c)'
  BY <1>1, <1>2 DEF Sound
<1> QED
  BY <1>3, OthersSound

\* What the thread knows of the trade in its hands, unless a crash has cut its account.
LEMMA HandIs ==
  ASSUME SalesInv, NEW c \in Trades, c = Cur, c \notin cut, call.pc \notin Loose
  PROVE  InHand(call, pos[c], row[c], log[c])
BY DEF SalesInv, Sound, SoundFor, Cur

\* The reviews that are added to, or patched, keep their scale-outs.
LEMMA ScaledSame ==
  ASSUME NEW r, NEW w, w.reviews = r.reviews
  PROVE  Scaled(w) <=> Scaled(r)
BY DEF Scaled

LEMMA QuietSteps ==
  ASSUME DeskInv, SalesInv,
         \/ Tick \/ BeginReviews \/ EndReviews \/ RecordSlot
         \/ \E t \in Trades : SkipReview(t)
  PROVE  SalesInv'
<1>1. call \in CallType
  BY DEF DeskInv, TypeOK
<1>2. CASE Tick
  BY <1>2, QuietSound DEF Tick, At, Loose, history
<1>3. CASE BeginReviews
  <2>1. call'.pc = "review"
    BY <1>3, IdleType DEF BeginReviews, CallType
  <2> QED
    BY <1>3, <2>1, QuietSound DEF BeginReviews, At, Loose, history
<1>4. CASE EndReviews
  <2>1. call'.pc = "slots"
    BY <1>1, <1>4 DEF EndReviews, Goes, CallType
  <2> QED
    BY <1>4, <2>1, QuietSound DEF EndReviews, At, Loose, history
<1>5. CASE RecordSlot
  <2>1. call'.pc \in {"idle", "slots"}
    BY <1>5, IdleType DEF RecordSlot, At
  <2> QED
    BY <1>5, <2>1, QuietSound DEF RecordSlot, At, Loose, history
<1>6. CASE \E t \in Trades : SkipReview(t)
  <2>0. PICK t \in Trades : SkipReview(t)
    BY <1>6
  <2>1. call'.pc = "review"
    BY <1>1, <2>0 DEF SkipReview, At, CallType
  <2> QED
    BY <2>0, <2>1, QuietSound DEF SkipReview, At, Loose, history
<1> QED
  BY <1>2, <1>3, <1>4, <1>5, <1>6

\* An exit that is taken up.
LEMMA ManageSound ==
  ASSUME DeskInv, SalesInv, NEW t \in Trades, ManageExit(t) \/ Resume(t)
  PROVE  SalesInv'
<1>1. /\ call.pc = "idle" /\ UNCHANGED <<pos, row, log, slots, campaign, history, run>>
      /\ call' = TakenUp(t, "request") \/ call' = TakenUp(t, "submit")
  BY DEF ManageExit, Resume, At, TakenUp
<1>2. call'.trade = t /\ call'.pc \in {"request", "submit"} /\ call'.part = 0
  <2>1. \A pc \in Pcs : TakenUp(t, pc).trade = t /\ TakenUp(t, pc).pc = pc /\ TakenUp(t, pc).part = 0
    BY DEF TakenUp, Idle
  <2> QED
    BY <1>1, <2>1 DEF Pcs
<1>3. InHand(call', pos'[t], row'[t], log[t])
  BY <1>2 DEF InHand
<1>4. ~Scaling(call, t)
  BY <1>1 DEF Scaling
<1> QED
  BY <1>1, <1>2, <1>3, <1>4, SameSound DEF Loose, history

\* What every step of an exit in hand has before it.
LEMMA HandsOn ==
  ASSUME DeskInv, Busy
  PROVE  /\ TypeOK /\ CallOK /\ call \in CallType /\ call.pc \notin Loose
         /\ \E c \in Trades : c = Cur /\ call.trade = c /\ AtWork(c)
BY BusyIs DEF TypeOK, Busy, Loose, Cur

LEMMA RequestSound ==
  ASSUME DeskInv, SalesInv, RequestExit
  PROVE  SalesInv'
<1>1. Busy /\ call.pc = "request"
  BY DEF RequestExit, Busy, At
<1>2. TypeOK /\ CallOK /\ call \in CallType /\ call.pc \notin Loose
  BY <1>1, HandsOn
<1>3. PICK c \in Trades : c = Cur /\ call.trade = c /\ AtWork(c)
  BY <1>1, HandsOn
<1> DEFINE p == [pos[c] EXCEPT !.state = "EXIT_PENDING"]
<1>4. pos[c].state = "OPEN" /\ p \in Positions /\ p.state = "EXIT_PENDING" /\ p.qty = pos[c].qty
  BY <1>1, <1>2, <1>3 DEF CallOK, AtWork, Positions, States
<1>5. pos' = [pos EXCEPT ![c] = p]
  BY <1>2, <1>3, <1>4 DEF RequestExit, TypeOK
<1> HIDE DEF p
<1>6. pos'[c] = p /\ \A t \in Trades : t # c => pos'[t] = pos[t]
  BY <1>2, <1>4, <1>5, OnePos
<1>7. /\ \A t \in Trades : t # c => row'[t] = row[t]
      /\ row'[c].ids = row[c].ids /\ row'[c].reviews = row[c].reviews
      /\ row'[c].pos = row[c].pos \/ row'[c].pos = pos'[c]
  <2>1. CASE call.back = "idle"
    <3> DEFINE w == [row[c] EXCEPT !.pos = p]
    <3>1. w \in Rows /\ Fields(w, p, row[c].ids, row[c].reviews, row[c].carry, row[c].roll, row[c].campaign)
      BY <1>3, <1>4, PosPut DEF AtWork
    <3>2. row' = [row EXCEPT ![c] = w]
      BY <1>2, <1>3, <1>6, <2>1 DEF RequestExit, TypeOK
    <3> HIDE DEF w
    <3>3. row'[c] = w /\ \A t \in Trades : t # c => row'[t] = row[t]
      BY <1>2, <3>1, <3>2, OneRow
    <3> QED
      BY <1>6, <3>1, <3>3 DEF Fields
  <2>2. CASE call.back # "idle"
    BY <2>2 DEF RequestExit
  <2> QED
    BY <2>1, <2>2
<1>8. /\ call'.pc = "submit" /\ call'.trade = c /\ call'.part = call.part /\ call'.back = call.back
      /\ call'.action = call.action
  BY <1>2, <1>3 DEF RequestExit, Goes, CallType
<1>9. log' = log /\ cut' = cut
  BY DEF RequestExit
<1>10. ASSUME c \notin cut PROVE InHand(call', pos'[c], row'[c], log[c])
  <2>1. InHand(call, pos[c], row[c], log[c])
    BY <1>2, <1>3, <1>10, HandIs
  <2>2. Scaled(row'[c]) <=> Scaled(row[c])
    BY <1>7, ScaledSame
  <2> QED
    BY <1>1, <1>4, <1>6, <1>8, <2>1, <2>2 DEF InHand
<1>11. ~Scaling(call, c) /\ (Scaled(row'[c]) <=> Scaled(row[c]))
  BY <1>1, <1>7, ScaledSame DEF Scaling
<1> QED
  BY <1>1, <1>3, <1>4, <1>6, <1>7, <1>8, <1>9, <1>10, <1>11, SameSound

\* Recorded ids are of an exit that a crash has cut.
LEMMA AdoptSound ==
  ASSUME DeskInv, SalesInv, Adopt
  PROVE  SalesInv'
<1>1. Busy /\ call.pc = "submit"
  BY DEF Adopt, Busy, At
<1>2. TypeOK /\ CallOK /\ call \in CallType /\ call.pc \notin Loose
  BY <1>1, HandsOn
<1>3. PICK c \in Trades : c = Cur /\ call.trade = c /\ AtWork(c)
  BY <1>1, HandsOn
<1>4. pos[c].state \in InFlight /\ row[c].ids # None
  BY <1>1, <1>2, <1>3 DEF CallOK, Adopt
<1>5. c \in cut
  <2>1. Sound(c)
    BY DEF SalesInv
  <2> QED
    BY <1>1, <1>4, <2>1 DEF Sound, SoundFor, Agrees, InFlight
<1>6. /\ UNCHANGED <<pos, row, log, cut>> /\ call'.trade = c
  BY <1>2, <1>3 DEF Adopt, Goes, CallType
<1>7. Sound(c)'
  BY <1>5, <1>6 DEF SalesInv, Sound
<1> QED
  BY <1>3, <1>6, <1>7, OthersSound

LEMMA NoPlanSound ==
  ASSUME DeskInv, SalesInv, NoPlan
  PROVE  SalesInv'
<1>1. Busy /\ call.pc = "submit"
  BY DEF NoPlan, Busy, At
<1>2. TypeOK /\ CallOK /\ call \in CallType /\ call.pc \notin Loose
  BY <1>1, HandsOn
<1>3. PICK c \in Trades : c = Cur /\ call.trade = c /\ AtWork(c)
  BY <1>1, HandsOn
<1>4. UNCHANGED <<pos, row, log, cut>>
  BY DEF NoPlan, history
<1>5. /\ call'.pc \in {"idle", "record", "carried"} /\ call'.trade = c /\ call'.part = call.part
      /\ call'.back = call.back /\ call'.action = call.action
  BY <1>2, <1>3 DEF NoPlan, Goes, CallType
<1>6. ASSUME c \notin cut PROVE InHand(call', pos'[c], row'[c], log[c])
  <2>1. InHand(call, pos[c], row[c], log[c])
    BY <1>2, <1>3, <1>6, HandIs
  <2> QED
    BY <1>4, <1>5, <2>1 DEF InHand
<1>7. ~Scaling(call, c)
  BY <1>1 DEF Scaling
<1> QED
  BY <1>1, <1>3, <1>4, <1>5, <1>6, <1>7, SameSound

\* An order that was filled is not sent again: a scale-out is on record then, and a
\* whole exit has left nothing to sell.
LEMMA SubmitSound ==
  ASSUME DeskInv, SalesInv, NEW answer \in {"FILLED", "REJECTED"}, Submit(answer)
  PROVE  SalesInv'
<1> DEFINE q == IF call.part > 0 THEN call.part ELSE pos[Cur].qty
           k == [part |-> q # pos[Cur].qty, qty |-> q]
<1>1. Busy /\ call.pc = "submit"
  BY DEF Submit, Busy, At
<1>2. TypeOK /\ CallOK /\ call \in CallType /\ call.pc \notin Loose
  BY <1>1, HandsOn
<1>3. PICK c \in Trades : c = Cur /\ call.trade = c /\ AtWork(c)
  BY <1>1, HandsOn
<1>4. q > 0 /\ q <= pos[c].qty /\ row[c].ids = None
  BY <1>3 DEF Submit
<1>5. pos[c].qty \in 0..Lots /\ call.part \in 0..Lots
  BY <1>2, <1>3 DEF CallType, AtWork, Positions
<1>6. q \in 1..Lots
  BY <1>3, <1>4, <1>5, BoundsAssumption
<1>7. k \in Keys /\ k.qty = q /\ (k.part <=> q # pos[c].qty)
  BY <1>3, <1>6 DEF Keys
<1>8. /\ log' = [log EXCEPT ![c][k] = answer]
      /\ call' = [call EXCEPT !.pc = "ids", !.sent = TRUE, !.key = k]
      /\ UNCHANGED <<pos, row, cut>>
      /\ log[c][k] # "NONE" => answer = log[c][k]
  BY <1>3 DEF Submit, history
<1>9. call.part > 0 => q = call.part
  OBVIOUS
<1>10. ~(call.part > 0) => q = pos[c].qty
  BY <1>3
<1> HIDE DEF q, k
<1>11. /\ log'[c] = [log[c] EXCEPT ![k] = answer] /\ \A t \in Trades : t # c => log'[t] = log[t]
       /\ log[c] \in [Keys -> {"NONE", "FILLED", "REJECTED"}]
  BY <1>2, <1>3, <1>8 DEF TypeOK
<1>12. /\ call'.pc = "ids" /\ call'.key = k /\ call'.trade = c /\ call'.part = call.part
       /\ call'.back = call.back /\ call'.action = call.action
  BY <1>2, <1>3, <1>8 DEF CallType
<1>13. ASSUME c \notin cut
       PROVE  SoundFor(call', pos[c], row[c], log'[c], c)
  <2>1. SoundFor(call, pos[c], row[c], log[c], c)
    BY <1>13 DEF SalesInv, Sound
  <2>2. InHand(call, pos[c], row[c], log[c])
    BY <1>2, <1>3, <1>13, HandIs
  <2>3. call.part > 0 => call.part < pos[c].qty /\ ~Scaled(row[c]) /\ call.back = "record" /\ call.action = "PARTIAL_EXIT"
    BY <1>1, <2>2 DEF InHand
  <2>4. k.part <=> call.part > 0
    BY <1>5, <1>7, <1>9, <1>10, <2>3
  <2>5. Booked(call, log[c], c) = Filled(log[c]) /\ ~Scaling(call, c)
    BY <1>1 DEF Booked, Scaling
  <2>6. k \notin Filled(log[c])
    <3>1. CASE call.part > 0
      BY <1>7, <2>1, <2>3, <2>4, <2>5, <3>1 DEF SoundFor, Balanced
    <3>2. CASE ~(call.part > 0)
      BY <1>4, <1>7, <1>10, <2>1, <2>4, <2>5, <3>2 DEF SoundFor, Balanced
    <3> QED
      BY <3>1, <3>2
  <2>7. /\ Filled(log'[c]) \ {k} = Filled(log[c])
        /\ Filled(log'[c]) \subseteq Filled(log[c]) \cup {k}
    BY <1>7, <1>11, <2>6 DEF Filled
  <2>8. Booked(call', log'[c], c) = Filled(log[c])
    BY <1>12, <2>7 DEF Booked
  <2>9. Balanced(call', pos[c], row[c], log'[c], c)
    <3>1. k.part => Scaling(call', c)
      BY <1>12, <2>3, <2>4 DEF Scaling
    <3> QED
      BY <2>1, <2>5, <2>7, <2>8, <3>1 DEF SoundFor, Balanced
  <2>10. Agrees(call', pos[c], row[c], c)
    BY <1>1, <1>4, <1>12, <2>1 DEF SoundFor, Agrees
  <2>11. InHand(call', pos[c], row[c], log'[c])
    <3>1. log'[c][k] \in {"FILLED", "REJECTED"}
      BY <1>7, <1>11
    <3>2. IF call.part > 0 THEN k.part /\ k.qty < pos[c].qty ELSE ~k.part /\ k.qty = pos[c].qty
      BY <1>7, <1>9, <1>10, <2>3, <2>4
    <3> QED
      BY <1>12, <2>3, <3>1, <3>2 DEF InHand
  <2> QED
    BY <2>9, <2>10, <2>11 DEF SoundFor
<1>14. Sound(c)'
  BY <1>3, <1>8, <1>13 DEF Sound, AtWork
<1> QED
  BY <1>3, <1>8, <1>11, <1>12, <1>14, OthersSound

LEMMA WriteIdsSound ==
  ASSUME DeskInv, SalesInv, WriteIds
  PROVE  SalesInv'
<1>1. Busy /\ call.pc = "ids"
  BY DEF WriteIds, Busy, At
<1>2. TypeOK /\ CallOK /\ call \in CallType /\ call.pc \notin Loose
  BY <1>1, HandsOn
<1>3. PICK c \in Trades : c = Cur /\ call.trade = c /\ AtWork(c)
  BY <1>1, HandsOn
<1> DEFINE r == Written(c)
           w == [r EXCEPT !.ids = call.key]
<1>4. r \in Rows /\ Fields(r, pos[c], row[c].ids, row[c].reviews, row[c].carry, row[c].roll, row[c].campaign)
  BY <1>2, WrittenIs
<1>5. row' = [row EXCEPT ![c] = w] /\ call.key \in Keys
  BY <1>1, <1>2, <1>3 DEF WriteIds, CallOK
<1> HIDE DEF r
<1>6. w \in Rows /\ Fields(w, pos[c], call.key, row[c].reviews, row[c].carry, row[c].roll, row[c].campaign)
  BY <1>4, <1>5, IdsPut DEF Fields
<1> HIDE DEF w
<1>7. row'[c] = w /\ \A t \in Trades : t # c => row'[t] = row[t]
  BY <1>2, <1>5, <1>6, OneRow
<1>8. UNCHANGED <<pos, log, cut>> /\ pos[c].state # "NONE"
  BY <1>3 DEF WriteIds, history, AtWork
<1>9. /\ call'.pc = "apply" /\ call'.trade = c /\ call'.key = call.key /\ call'.part = call.part
      /\ call'.back = call.back /\ call'.action = call.action
  BY <1>2, <1>3 DEF WriteIds, Goes, CallType
<1>10. ASSUME c \notin cut
       PROVE  SoundFor(call', pos[c], w, log[c], c)
  <2>1. SoundFor(call, pos[c], row[c], log[c], c)
    BY <1>10 DEF SalesInv, Sound
  <2>2. InHand(call, pos[c], row[c], log[c])
    BY <1>2, <1>3, <1>10, HandIs
  <2>3. w.pos = pos[c] /\ (Scaled(w) <=> Scaled(row[c]))
    BY <1>6, ScaledSame DEF Fields
  <2>4. Booked(call', log[c], c) = Booked(call, log[c], c) /\ (Scaling(call, c) <=> Scaling(call', c))
    BY <1>1, <1>3, <1>9 DEF Booked, Scaling
  <2>5. Balanced(call', pos[c], w, log[c], c)
    BY <2>1, <2>3, <2>4 DEF SoundFor, Balanced
  <2>6. Agrees(call', pos[c], w, c)
    BY <1>8, <1>9, <2>3 DEF Agrees
  <2>7. InHand(call', pos[c], w, log[c])
    BY <1>1, <1>9, <2>2 DEF InHand
  <2> QED
    BY <2>5, <2>6, <2>7 DEF SoundFor
<1>11. Sound(c)'
  BY <1>6, <1>7, <1>8, <1>10 DEF Sound, Fields
<1> QED
  BY <1>3, <1>7, <1>8, <1>9, <1>11, OthersSound

\* What the answer makes of a position that has the contracts of the order.
LEMMA AppliedTo ==
  ASSUME NEW p \in Positions, NEW k \in Keys, NEW stays \in BOOLEAN,
         IF stays THEN k.qty < p.qty ELSE k.qty = p.qty
  PROVE  /\ Applied(p, k, stays).qty = p.qty - k.qty
         /\ Applied(p, k, stays).state = IF stays THEN "OPEN" ELSE "CLOSED"
<1>1. p.qty \in Int /\ k.qty \in Int
  BY BoundsAssumption DEF Positions, Keys
<1>2. CASE stays
  <2>1. ~(p.qty - k.qty <= 0)
    BY <1>1, <1>2
  <2> QED
    BY <1>2, <2>1 DEF Applied
<1>3. CASE ~stays
  <2>1. p.qty - k.qty <= 0 /\ p.qty - k.qty = 0
    BY <1>1, <1>3
  <2> QED
    BY <1>3, <2>1 DEF Applied
<1> QED
  BY <1>2, <1>3

LEMMA ApplySound ==
  ASSUME DeskInv, SalesInv, Apply
  PROVE  SalesInv'
<1>1. Busy /\ call.pc = "apply"
  BY DEF Apply, Busy, At
<1>2. TypeOK /\ CallOK /\ call \in CallType /\ call.pc \notin Loose
  BY <1>1, HandsOn
<1>3. PICK c \in Trades : c = Cur /\ call.trade = c /\ AtWork(c)
  BY <1>1, HandsOn
<1> DEFINE k == call.key
           stays == call.part > 0
           p == IF log[c][k] = "FILLED" THEN Applied(pos[c], k, stays) ELSE [pos[c] EXCEPT !.state = "OPEN"]
<1>4. k \in Keys /\ pos[c] \in Positions /\ pos[c].qty \in 0..Lots /\ k.qty \in 1..Lots /\ stays \in BOOLEAN
  BY <1>1, <1>2, <1>3 DEF CallOK, AtWork, Positions, Keys
<1>5. pos' = [pos EXCEPT ![c] = p]
  BY <1>3 DEF Apply, Answered
<1>6. pos'[c] = p /\ \A t \in Trades : t # c => pos'[t] = pos[t]
  BY <1>2, <1>3, <1>5 DEF TypeOK
<1>7. UNCHANGED <<row, log, cut>>
  BY DEF Apply, history
<1>8. /\ call'.pc = "settle" /\ call'.trade = c /\ call'.key = k /\ call'.part = call.part
      /\ call'.back = call.back /\ call'.action = call.action
  BY <1>2, <1>3 DEF Apply, Goes, CallType
<1>9. ASSUME c \notin cut
      PROVE  SoundFor(call', p, row[c], log[c], c)
  <2>1. SoundFor(call, pos[c], row[c], log[c], c)
    BY <1>9 DEF SalesInv, Sound
  <2>2. InHand(call, pos[c], row[c], log[c])
    BY <1>2, <1>3, <1>9, HandIs
  <2>3. /\ log[c][k] \in {"FILLED", "REJECTED"}
        /\ IF stays THEN k.part /\ k.qty < pos[c].qty ELSE ~k.part /\ k.qty = pos[c].qty
        /\ stays => call.back = "record" /\ call.action = "PARTIAL_EXIT"
    BY <1>1, <2>2 DEF InHand
  <2>4. /\ Booked(call, log[c], c) = Filled(log[c]) \ {k}
        /\ Booked(call', log[c], c) = Filled(log[c])
        /\ Scaling(call, c) => Scaling(call', c)
    BY <1>1, <1>3, <1>8 DEF Booked, Scaling
  <2>5. pos[c].state # "NONE" /\ Lots = pos[c].qty + Total(Filled(log[c]) \ {k})
    BY <1>3, <2>1, <2>4 DEF AtWork, SoundFor, Balanced
  <2>6. Filled(log[c]) \in SUBSET Keys /\ Total(Filled(log[c])) \in Int /\ Total(Filled(log[c]) \ {k}) \in Int
    BY SoldType DEF Filled
  <2> HIDE DEF k, stays
  <2>7. CASE log[c][k] = "FILLED"
    <3>1. k \in Filled(log[c])
      BY <1>4, <2>7 DEF Filled
    <3>2. Total((Filled(log[c]) \ {k}) \cup {k}) = Total(Filled(log[c]) \ {k}) + k.qty
      BY <1>4, <2>6, SoldMore
    <3>3. (Filled(log[c]) \ {k}) \cup {k} = Filled(log[c])
      BY <3>1
    <3>4. p = Applied(pos[c], k, stays)
      BY <2>7
    <3> HIDE DEF p
    <3>5. p.qty = pos[c].qty - k.qty /\ p.state = IF stays THEN "OPEN" ELSE "CLOSED"
      BY <1>4, <2>3, <3>4, AppliedTo
    <3>12. Total(Filled(log[c])) = Total(Filled(log[c]) \ {k}) + k.qty
      BY <3>2, <3>3, Zenon
    <3>13. k.qty \in Int /\ pos[c].qty \in Int /\ p.qty = pos[c].qty - k.qty
      BY <1>4, <3>5, BoundsAssumption
    <3>6. Lots = p.qty + Total(Filled(log[c]))
      BY <2>5, <2>6, <3>12, <3>13, SMT
    <3>7. ASSUME NEW j \in Filled(log[c]), ~j.part PROVE p.qty = 0
      <4>1. CASE j = k
        BY <1>4, <2>3, <3>5, <3>7, <4>1
      <4>2. CASE j # k
        <5>1. pos[c].qty = 0
          BY <2>1, <2>4, <3>7, <4>2 DEF SoundFor, Balanced
        <5> QED
          BY <1>4, <2>3, <5>1
      <4> QED
        BY <4>1, <4>2
    <3>8. Balanced(call', p, row[c], log[c], c)
      BY <2>1, <2>4, <3>6, <3>7 DEF SoundFor, Balanced
    <3>9. Agrees(call', p, row[c], c)
      BY <1>8 DEF Agrees
    <3>10. InHand(call', p, row[c], log[c])
      BY <1>8, <2>3, <2>7, <3>5 DEF InHand, k, stays
    <3> QED
      BY <3>8, <3>9, <3>10 DEF SoundFor
  <2>8. CASE log[c][k] = "REJECTED"
    <3>1. Filled(log[c]) \ {k} = Filled(log[c])
      BY <2>8 DEF Filled
    <3>2. p.qty = pos[c].qty /\ p.state = "OPEN"
      BY <1>4, <2>8 DEF Positions
    <3> HIDE DEF p
    <3>3. Balanced(call', p, row[c], log[c], c)
      BY <2>1, <2>4, <2>5, <3>1, <3>2 DEF SoundFor, Balanced
    <3>4. Agrees(call', p, row[c], c)
      BY <1>8 DEF Agrees
    <3>5. InHand(call', p, row[c], log[c])
      BY <1>8, <2>3, <2>8 DEF InHand, k, stays
    <3> QED
      BY <3>3, <3>4, <3>5 DEF SoundFor
  <2> QED
    BY <2>3, <2>7, <2>8 DEF k
<1> HIDE DEF p
<1>10. Sound(c)'
  BY <1>3, <1>6, <1>7, <1>9 DEF Sound, AtWork
<1> QED
  BY <1>3, <1>6, <1>7, <1>8, <1>10, OthersSound

LEMMA SettleSound ==
  ASSUME DeskInv, SalesInv, Settle
  PROVE  SalesInv'
<1>1. Busy /\ call.pc = "settle"
  BY DEF Settle, Busy, At
<1>2. TypeOK /\ CallOK /\ call \in CallType /\ call.pc \notin Loose
  BY <1>1, HandsOn
<1>3. PICK c \in Trades : c = Cur /\ call.trade = c /\ AtWork(c)
  BY <1>1, HandsOn
<1> DEFINE r == Written(c)
           ids == Kept(call.key, call.part > 0)
           w == [r EXCEPT !.ids = ids]
           pc == IF pos[c].state = "CLOSED" THEN "campaign" ELSE call.back
<1>4. r \in Rows /\ Fields(r, pos[c], row[c].ids, row[c].reviews, row[c].carry, row[c].roll, row[c].campaign)
  BY <1>2, WrittenIs
<1>5. call.key \in Keys /\ ids \in Keys \cup {None}
  BY <1>1, <1>2 DEF CallOK, Kept
<1>6. row' = [row EXCEPT ![c] = w] /\ Goes(pc)
  BY <1>3 DEF Settle
<1>7. pc \in {"campaign", "idle", "record", "carried"} /\ (pc = "idle" => call.back # "record")
      /\ (call.back = "record" => pc \in {"campaign", "record"})
  BY <1>2 DEF CallType
<1>a. ids # None => call.part <= 0 /\ log[c][call.key] # "REJECTED"
  <2>1. call.part \in Int
    BY <1>2, BoundsAssumption DEF CallType
  <2> QED
    BY <1>3, <2>1 DEF Kept
<1> HIDE DEF r, ids, pc
<1>8. w \in Rows /\ Fields(w, pos[c], ids, row[c].reviews, row[c].carry, row[c].roll, row[c].campaign)
  BY <1>4, <1>5, IdsPut DEF Fields
<1> HIDE DEF w
<1>9. row'[c] = w /\ \A t \in Trades : t # c => row'[t] = row[t]
  BY <1>2, <1>6, <1>8, OneRow
<1>10. UNCHANGED <<pos, log, cut>> /\ pos[c].state # "NONE"
  BY <1>3 DEF Settle, history, AtWork
<1>11. /\ call'.pc = pc /\ call'.trade = c /\ call'.part = call.part /\ call.part \in Int
       /\ call'.back = call.back /\ call'.action = call.action
  BY <1>2, <1>3, <1>6, BoundsAssumption DEF Goes, CallType
<1>12. ASSUME c \notin cut
       PROVE  SoundFor(call', pos[c], w, log[c], c)
  <2>1. SoundFor(call, pos[c], row[c], log[c], c)
    BY <1>12 DEF SalesInv, Sound
  <2>2. InHand(call, pos[c], row[c], log[c])
    BY <1>2, <1>3, <1>12, HandIs
  <2>3. w.pos = pos[c] /\ w.ids = ids /\ (Scaled(w) <=> Scaled(row[c]))
    BY <1>8, ScaledSame DEF Fields
  <2>4. /\ Booked(call', log[c], c) = Booked(call, log[c], c)
        /\ Scaling(call, c) => Scaling(call', c)
    BY <1>1, <1>3, <1>7, <1>11 DEF Booked, Scaling
  <2>5. Balanced(call', pos[c], w, log[c], c)
    BY <2>1, <2>3, <2>4 DEF SoundFor, Balanced
  <2>6. ids # None => pos[c].state = "CLOSED"
    BY <1>1, <1>a, <1>11, <2>2 DEF InHand
  <2>7. Agrees(call', pos[c], w, c)
    BY <1>10, <2>3, <2>6 DEF Agrees
  <2>8. call'.part > 0 => call'.back = "record" /\ call'.action = "PARTIAL_EXIT"
    BY <1>11, <2>2 DEF InHand
  <2>9. InHand(call', pos[c], w, log[c])
    BY <1>7, <1>11, <2>8 DEF InHand
  <2> QED
    BY <2>5, <2>7, <2>9 DEF SoundFor
<1>13. Sound(c)'
  BY <1>8, <1>9, <1>10, <1>12 DEF Sound, Fields
<1> QED
  BY <1>3, <1>9, <1>10, <1>11, <1>13, OthersSound

LEMMA RecordCloseSound ==
  ASSUME DeskInv, SalesInv, NEW loss \in BOOLEAN, RecordClose(loss)
  PROVE  SalesInv'
<1>1. Busy /\ call.pc = "campaign"
  BY DEF RecordClose, Busy, At
<1>2. TypeOK /\ CallOK /\ call \in CallType /\ call.pc \notin Loose
  BY <1>1, HandsOn
<1>3. PICK c \in Trades : c = Cur /\ call.trade = c /\ AtWork(c)
  BY <1>1, HandsOn
<1>4. UNCHANGED <<pos, row, log, cut>>
  BY DEF RecordClose, history
<1>5. /\ call'.pc = "advance" /\ call'.trade = c /\ call'.part = call.part
      /\ call'.back = call.back /\ call'.action = call.action
  BY <1>2, <1>3 DEF RecordClose, Goes, CallType
<1>6. ASSUME c \notin cut PROVE InHand(call', pos'[c], row'[c], log[c])
  <2>1. InHand(call, pos[c], row[c], log[c])
    BY <1>2, <1>3, <1>6, HandIs
  <2> QED
    BY <1>4, <1>5, <2>1 DEF InHand
<1>7. Scaling(call, c) => Scaling(call', c)
  BY <1>5 DEF Scaling
<1> QED
  BY <1>1, <1>3, <1>4, <1>5, <1>6, <1>7, SameSound

\* A row that is patched keeps its scale-outs.
LEMMA PatchedScaled ==
  ASSUME NEW r \in Rows, NEW execution, Scaled(r)
  PROVE  Scaled(Patched(r, execution))
<1>1. CASE r.reviews = <<>>
  BY <1>1 DEF Patched
<1>2. CASE r.reviews # <<>>
  <2> DEFINE n == Len(r.reviews)
             one == [r.reviews[n] EXCEPT !.execution = execution]
             reviews == [r.reviews EXCEPT ![n] = one]
  <2>1. r.reviews \in Seq(Reviews)
    BY DEF Rows
  <2>2. n \in DOMAIN r.reviews /\ r.reviews[n] \in Reviews
    BY <1>2, <2>1
  <2>3. one.action = r.reviews[n].action
    BY <2>2 DEF Reviews
  <2>4. Patched(r, execution) = [r EXCEPT !.reviews = reviews]
    BY <1>2 DEF Patched, Rows
  <2> HIDE DEF one
  <2>5. DOMAIN reviews = DOMAIN r.reviews /\ \A i \in DOMAIN reviews : reviews[i].action = r.reviews[i].action
    BY <2>1, <2>2, <2>3
  <2>6. Patched(r, execution).reviews = reviews
    BY <2>4 DEF Rows
  <2> HIDE DEF reviews
  <2> QED
    BY <2>5, <2>6 DEF Scaled
<1> QED
  BY <1>1, <1>2

LEMMA AdvanceSound ==
  ASSUME DeskInv, SalesInv, Advance
  PROVE  SalesInv'
<1>1. Busy /\ call.pc = "advance"
  BY DEF Advance, Busy, At
<1>2. TypeOK /\ CallOK /\ call \in CallType /\ call.pc \notin Loose
  BY <1>1, HandsOn
<1>3. PICK c \in Trades : c = Cur /\ call.trade = c /\ AtWork(c)
  BY <1>1, HandsOn
<1> DEFINE r == Written(c)
           w == Advanced(r)
<1>4. r \in Rows /\ Fields(r, pos[c], row[c].ids, row[c].reviews, row[c].carry, row[c].roll, row[c].campaign)
  BY <1>2, WrittenIs
<1>5. row' = [row EXCEPT ![c] = w] /\ Goes(call.back)
  BY <1>3 DEF Advance
<1>6. call.back \in {"idle", "record", "carried"}
  BY <1>2 DEF CallType
<1> HIDE DEF r
<1>7. /\ w \in Rows /\ Fields(w, r.pos, r.ids, w.reviews, r.carry, w.roll, r.campaign)
  BY <1>4, AdvancedIs
<1>8. Scaled(r) => Scaled(w)
  <2> SUFFICES ASSUME Scaled(r) PROVE Scaled(w)
    OBVIOUS
  <2> DEFINE x == Patched(r, "REPLACEMENT_PENDING_L2")
  <2>1. x \in Rows /\ Scaled(x)
    BY <1>4, PatchedIs, PatchedScaled DEF Executions
  <2>2. w = r \/ w = [x EXCEPT !.roll = IF @ = "CLOSE_PENDING" THEN "CLOSE_COMPLETE" ELSE @]
    BY DEF Advanced
  <2> HIDE DEF x
  <2>3. w.reviews = r.reviews \/ w.reviews = x.reviews
    BY <2>1, <2>2 DEF Rows
  <2> QED
    BY <2>1, <2>3 DEF Scaled
<1> HIDE DEF w
<1>9. row'[c] = w /\ \A t \in Trades : t # c => row'[t] = row[t]
  BY <1>2, <1>5, <1>7, OneRow
<1>10. UNCHANGED <<pos, log, cut>> /\ pos[c].state # "NONE"
  BY <1>3 DEF Advance, history, AtWork
<1>11. /\ call'.pc = call.back /\ call'.trade = c /\ call'.part = call.part
       /\ call'.back = call.back /\ call'.action = call.action
  BY <1>2, <1>3, <1>5 DEF Goes, CallType
<1>12. ASSUME c \notin cut PROVE InHand(call', pos'[c], row'[c], log[c])
  <2>1. InHand(call, pos[c], row[c], log[c])
    BY <1>2, <1>3, <1>12, HandIs
  <2> QED
    BY <1>6, <1>11, <2>1 DEF InHand
<1>13. Scaling(call, c) => Scaling(call', c)
  BY <1>11 DEF Scaling
<1>14. row'[c].pos = pos'[c] /\ row'[c].ids = row[c].ids /\ (Scaled(row[c]) => Scaled(row'[c]))
  <2>1. Scaled(row[c]) <=> Scaled(r)
    BY <1>4, ScaledSame DEF Fields
  <2> QED
    BY <1>4, <1>7, <1>8, <1>9, <1>10, <2>1 DEF Fields
<1> QED
  BY <1>1, <1>3, <1>6, <1>9, <1>10, <1>11, <1>12, <1>13, <1>14, SameSound

\* What is adopted was cut.
LEMMA AdoptedSound ==
  ASSUME DeskInv, SalesInv, AdoptApply \/ AdoptSettle
  PROVE  SalesInv'
<1>1. Busy /\ call.pc \in {"adopt", "adopted"}
  BY DEF AdoptApply, AdoptSettle, Busy, At
<1>2. TypeOK /\ CallOK /\ call \in CallType /\ call.pc \notin Loose
  BY <1>1, HandsOn
<1>3. PICK c \in Trades : c = Cur /\ call.trade = c /\ AtWork(c)
  BY <1>1, HandsOn
<1>4. c \in cut
  BY <1>1, <1>2, <1>3, HandIs DEF InHand
<1>5. /\ log' = log /\ cut' = cut /\ \A t \in Trades : t # c => pos'[t] = pos[t] /\ row'[t] = row[t]
      /\ call'.trade = c /\ row'[c].pos.state # "NONE"
  <2>1. CASE AdoptApply
    <3>1. UNCHANGED <<row, log, cut>> /\ call'.trade = c /\ row[c].pos.state # "NONE"
      BY <1>2, <1>3, <2>1 DEF AdoptApply, Goes, CallType, history, AtWork
    <3>2. \A t \in Trades : t # c => pos'[t] = pos[t]
      BY <1>2, <1>3, <2>1 DEF AdoptApply, Answered, TypeOK
    <3> QED
      BY <3>1, <3>2
  <2>2. CASE AdoptSettle
    <3> DEFINE r == Written(c)
               ids == Kept(row[c].ids, call.part > 0)
               w == [r EXCEPT !.ids = ids]
    <3>1. r \in Rows /\ Fields(r, pos[c], row[c].ids, row[c].reviews, row[c].carry, row[c].roll, row[c].campaign)
      BY <1>2, WrittenIs
    <3>2. ids \in Keys \cup {None}
      BY <1>1, <1>2, <1>3, <2>2 DEF CallOK, Kept, AdoptSettle, At
    <3>3. row' = [row EXCEPT ![c] = w]
      BY <1>3, <2>2 DEF AdoptSettle
    <3> HIDE DEF r, ids
    <3>4. w \in Rows /\ Fields(w, pos[c], ids, row[c].reviews, row[c].carry, row[c].roll, row[c].campaign)
      BY <3>1, <3>2, IdsPut DEF Fields
    <3> HIDE DEF w
    <3>5. row'[c] = w /\ \A t \in Trades : t # c => row'[t] = row[t]
      BY <1>2, <3>3, <3>4, OneRow
    <3>6. UNCHANGED <<pos, log, cut>>
      BY <2>2 DEF AdoptSettle, history
    <3>7. call'.trade = c
      BY <1>2, <1>3, <2>2 DEF AdoptSettle, CallType
    <3> QED
      BY <1>3, <3>4, <3>5, <3>6, <3>7 DEF Fields, AtWork
  <2> QED
    BY <2>1, <2>2
<1>6. Sound(c)'
  BY <1>4, <1>5 DEF Sound
<1> QED
  BY <1>3, <1>5, <1>6, OthersSound

\* The record of a review shows what was scaled out.
LEMMA RecordReviewSound ==
  ASSUME DeskInv, SalesInv, RecordReview
  PROVE  SalesInv'
<1>1. Busy /\ call.pc = "record"
  BY DEF RecordReview, Busy, At
<1>2. TypeOK /\ CallOK /\ call \in CallType /\ call.pc \notin Loose
  BY <1>1, HandsOn
<1>3. PICK c \in Trades : c = Cur /\ call.trade = c /\ AtWork(c)
  BY <1>1, HandsOn
<1> DEFINE r == Written(c)
           one == ReviewOf(clock.day, call.slot, call.action, call.sent)
           q == Append(row[c].reviews, one)
           w == [r EXCEPT !.reviews = q]
<1>4. r \in Rows /\ Fields(r, pos[c], row[c].ids, row[c].reviews, row[c].carry, row[c].roll, row[c].campaign)
  BY <1>2, WrittenIs
<1>5. one \in Reviews
  <2>1. call.slot \in 1..Slots /\ call.action \in Actions /\ clock.day \in 1..Days
    BY <1>1, <1>2 DEF TypeOK, CallType, CallOK, Reviewing
  <2>2. call.sent \in BOOLEAN
    BY <1>2 DEF TypeOK, CallType
  <2>3. \A sent \in BOOLEAN : ReviewOf(clock.day, call.slot, call.action, sent) \in Reviews
    BY <2>1, ReviewIs
  <2> QED
    BY <2>2, <2>3, Zenon
<1>6. one.action = call.action
  BY DEF ReviewOf
<1>7. row' = [row EXCEPT ![c] = w]
  BY <1>3, <1>4 DEF RecordReview, ReviewOf, Fields
<1> HIDE DEF r, one
<1>8. /\ q \in Seq(Reviews)
      /\ \A i \in DOMAIN row[c].reviews : i \in DOMAIN q /\ q[i] = row[c].reviews[i]
      /\ \E i \in DOMAIN q : q[i] = one
  <2>1. row[c].reviews \in Seq(Reviews)
    BY <1>3 DEF AtWork, Rows
  <2> QED
    BY <1>5, <2>1, AppendIs
<1> HIDE DEF q
<1>9. w \in Rows /\ Fields(w, pos[c], row[c].ids, q, row[c].carry, row[c].roll, row[c].campaign)
  BY <1>4, <1>8, ReviewsPut DEF Fields
<1> HIDE DEF w
<1>10. row'[c] = w /\ \A t \in Trades : t # c => row'[t] = row[t]
  BY <1>2, <1>7, <1>9, OneRow
<1>11. call'.pc = "review"
  <2>1. \A sent \in BOOLEAN :
          LET n == [call EXCEPT !.pc = "review", !.trade = None, !.action = "HOLD", !.sent = sent,
                                !.part = 0, !.key = None, !.back = "idle"] IN
          /\ n \in CallType /\ n.pc = "review" /\ n.back = "idle"
          /\ n.slot = call.slot /\ n.covers = call.covers /\ n.todo = call.todo
    BY <1>2, HandedBack DEF TypeOK
  <2>2. call' = [call EXCEPT !.pc = "review", !.trade = None, !.action = "HOLD", !.sent = FALSE,
                             !.part = 0, !.key = None, !.back = "idle"] /\ FALSE \in BOOLEAN
    BY DEF RecordReview
  <2>3. LET n == call' IN
        /\ n \in CallType /\ n.pc = "review" /\ n.back = "idle"
        /\ n.slot = call.slot /\ n.covers = call.covers /\ n.todo = call.todo
    BY <2>1, <2>2, Zenon
  <2> QED
    BY <2>3
<1>12. UNCHANGED <<pos, log, cut>> /\ pos[c].state # "NONE"
  BY <1>3 DEF RecordReview, history, AtWork
<1>13. row'[c].pos = pos'[c] /\ row'[c].ids = row[c].ids
  BY <1>9, <1>10, <1>12 DEF Fields
<1>14. (Scaled(row[c]) => Scaled(row'[c])) /\ (Scaling(call, c) => Scaled(row'[c]))
  <2>1. row'[c].reviews = q
    BY <1>9, <1>10 DEF Fields
  <2> QED
    BY <1>6, <1>8, <2>1 DEF Scaled, Scaling
<1> QED
  BY <1>1, <1>3, <1>10, <1>11, <1>12, <1>13, <1>14, SameSound DEF Loose

\* A review scales out less than what is open, and once.
LEMMA DecideSound ==
  ASSUME DeskInv, SalesInv, NEW t \in Trades, NEW action \in Actions, Decide(t, action)
  PROVE  SalesInv'
<1> DEFINE pc == IF action = "HOLD" THEN "record" ELSE "request"
           part == IF action = "PARTIAL_EXIT" THEN PartialQuantity(t) ELSE 0
           r == Written(t)
           w == [r EXCEPT !.roll = "CLOSE_PENDING"]
<1>1. /\ call.pc = "review" /\ TypeOK /\ call \in CallType /\ UNCHANGED <<pos, log, cut>>
      /\ pos[t].state # "NONE" /\ pos[t] \in Positions
  BY DEF Decide, Eligible, InBook, At, DeskInv, TypeOK, history
<1>2. action = "PARTIAL_EXIT" => PartialQuantity(t) \in 1..Lots /\ PartialQuantity(t) < pos[t].qty /\ ~Scaled(row[t])
  <2> SUFFICES ASSUME action = "PARTIAL_EXIT"
               PROVE  PartialQuantity(t) \in 1..Lots /\ PartialQuantity(t) < pos[t].qty /\ ~Scaled(row[t])
    OBVIOUS
  <2>1. MayScaleOut(t)
    BY DEF Decide
  <2>2. pos[t].qty \in 0..Lots /\ pos[t].qty >= 2
    BY <1>1, <2>1 DEF Positions, MayScaleOut
  <2>3. PartialQuantity(t) \in 1..Lots /\ PartialQuantity(t) < pos[t].qty
    BY <2>2, BoundsAssumption DEF PartialQuantity
  <2> QED
    BY <2>1, <2>3 DEF MayScaleOut, Scaled
<1>3. part \in 0..Lots /\ (part > 0 => action = "PARTIAL_EXIT") /\ (part > 0 => part = PartialQuantity(t))
  BY <1>2, BoundsAssumption
<1>4. call' = Taken(call, t, action, part, pc, FALSE)
  BY DEF Decide, Taken
<1>5. row' = IF action = "PROPOSE_ROLL" THEN [row EXCEPT ![t] = w] ELSE row
  BY DEF Decide
<1>6. pc \in {"record", "request"}
  OBVIOUS
<1>7. r \in Rows /\ Fields(r, pos[t], row[t].ids, row[t].reviews, row[t].carry, row[t].roll, row[t].campaign)
  BY <1>1, WrittenIs
<1> HIDE DEF part, pc, r
<1>8. call'.pc = pc /\ call'.trade = t /\ call'.part = part /\ call'.action = action /\ call'.back = "record"
  BY <1>1, <1>4 DEF Taken, CallType
<1>9. w \in Rows /\ Fields(w, pos[t], row[t].ids, row[t].reviews, row[t].carry, "CLOSE_PENDING", row[t].campaign)
  BY <1>7, RollPut DEF Fields, Transitions
<1> HIDE DEF w
<1>10. /\ \A u \in Trades : u # t => row'[u] = row[u]
       /\ row'[t].ids = row[t].ids /\ row'[t].reviews = row[t].reviews
       /\ row'[t].pos = row[t].pos \/ row'[t].pos = pos'[t]
  <2>1. CASE action = "PROPOSE_ROLL"
    <3>1. row'[t] = w /\ \A u \in Trades : u # t => row'[u] = row[u]
      BY <1>1, <1>5, <1>9, <2>1, OneRow
    <3> QED
      BY <1>1, <1>9, <3>1 DEF Fields
  <2>2. CASE action # "PROPOSE_ROLL"
    BY <1>5, <2>2
  <2> QED
    BY <2>1, <2>2
<1>11. Scaled(row'[t]) <=> Scaled(row[t])
  BY <1>10, ScaledSame
<1>12. InHand(call', pos'[t], row'[t], log[t])
  <2>1. call'.part > 0 => call'.back = "record" /\ call'.action = "PARTIAL_EXIT"
    BY <1>3, <1>8
  <2>2. call'.part > 0 => call'.part < pos'[t].qty /\ ~Scaled(row'[t])
    BY <1>1, <1>2, <1>3, <1>8, <1>11
  <2> QED
    BY <1>6, <1>8, <2>1, <2>2 DEF InHand
<1>13. ~Scaling(call, t)
  BY <1>1 DEF Scaling
<1> QED
  BY <1>1, <1>6, <1>8, <1>10, <1>11, <1>12, <1>13, SameSound DEF Loose

LEMMA CarriedRow ==
  ASSUME TypeOK, NEW c \in Trades, NEW verdict \in {"APPROVED", "REJECTED"},
         row' = [row EXCEPT ![c] = [Written(c) EXCEPT !.carry[clock.day] = verdict]]
  PROVE  /\ \A t \in Trades : t # c => row'[t] = row[t]
         /\ row'[c].pos = pos[c] /\ row'[c].ids = row[c].ids /\ row'[c].reviews = row[c].reviews
<1> DEFINE r == Written(c)
           w == [r EXCEPT !.carry[clock.day] = verdict]
<1>1. r \in Rows /\ Fields(r, pos[c], row[c].ids, row[c].reviews, row[c].carry, row[c].roll, row[c].campaign)
  BY WrittenIs
<1>2. clock.day \in 1..Days
  BY DEF TypeOK
<1> HIDE DEF r
<1>3. w \in Rows /\ Fields(w, r.pos, r.ids, r.reviews, [r.carry EXCEPT ![clock.day] = verdict], r.roll, r.campaign)
  BY <1>1, <1>2, CarryPut
<1>4. row' = [row EXCEPT ![c] = w]
  BY DEF r
<1> HIDE DEF w
<1>5. row'[c] = w /\ \A t \in Trades : t # c => row'[t] = row[t]
  BY <1>3, <1>4, OneRow
<1> QED
  BY <1>1, <1>3, <1>5 DEF Fields

LEMMA CarryGateSound ==
  ASSUME DeskInv, SalesInv, NEW t \in Trades, NEW approved \in BOOLEAN, CarryGate(t, approved)
  PROVE  SalesInv'
<1>1. call.pc = "idle" /\ TypeOK /\ pos[t].state = "OPEN" /\ UNCHANGED <<pos, log, cut>>
  BY DEF CarryGate, At, DeskInv, history
<1>2. ~Scaling(call, t)
  BY <1>1 DEF Scaling
<1>3. CASE approved
  <2>1. row' = [row EXCEPT ![t] = [Written(t) EXCEPT !.carry[clock.day] = "APPROVED"]] /\ call' = call
    BY <1>3 DEF CarryGate
  <2>2. /\ \A u \in Trades : u # t => row'[u] = row[u]
        /\ row'[t].pos = pos[t] /\ row'[t].ids = row[t].ids /\ row'[t].reviews = row[t].reviews
    BY <1>1, <2>1, CarriedRow
  <2>3. Scaled(row'[t]) <=> Scaled(row[t])
    BY <2>2, ScaledSame
  <2> QED
    BY <1>1, <1>2, <2>1, <2>2, <2>3, SameSound DEF Loose
<1>4. CASE ~approved
  <2>1. call' = [Idle EXCEPT !.pc = "request", !.trade = t, !.back = "carried"] /\ row' = row
    BY <1>4 DEF CarryGate
  <2>2. call'.pc = "request" /\ call'.trade = t /\ call'.part = 0
    BY <2>1 DEF Idle
  <2>3. InHand(call', pos'[t], row'[t], log[t])
    BY <2>2 DEF InHand
  <2> QED
    BY <1>1, <1>2, <2>1, <2>2, <2>3, SameSound DEF Loose
<1> QED
  BY <1>3, <1>4

LEMMA RecordCarrySound ==
  ASSUME DeskInv, SalesInv, RecordCarry
  PROVE  SalesInv'
<1>1. Busy /\ call.pc = "carried"
  BY DEF RecordCarry, Busy, At
<1>2. TypeOK /\ CallOK /\ call \in CallType /\ call.pc \notin Loose
  BY <1>1, HandsOn
<1>3. PICK c \in Trades : c = Cur /\ call.trade = c /\ AtWork(c)
  BY <1>1, HandsOn
<1>4. /\ row' = [row EXCEPT ![c] = [Written(c) EXCEPT !.carry[clock.day] = "REJECTED"]] /\ call' = Idle
      /\ UNCHANGED <<pos, log, cut>> /\ pos[c].state # "NONE"
  BY <1>3 DEF RecordCarry, history, AtWork
<1>5. /\ \A t \in Trades : t # c => row'[t] = row[t]
      /\ row'[c].pos = pos[c] /\ row'[c].ids = row[c].ids /\ row'[c].reviews = row[c].reviews
  BY <1>2, <1>4, CarriedRow
<1>6. call'.pc = "idle" /\ ~Scaling(call, c) /\ (Scaled(row'[c]) <=> Scaled(row[c]))
  BY <1>1, <1>4, <1>5, IdleType, ScaledSame DEF Scaling
<1> QED
  BY <1>1, <1>3, <1>4, <1>5, <1>6, SameSound DEF Loose

LEMMA BeginReplacementSound ==
  ASSUME DeskInv, SalesInv, NEW t \in Trades, BeginReplacement(t)
  PROVE  SalesInv'
<1> DEFINE w == [row[t] EXCEPT !.roll = "REPLACEMENT_PENDING_L2"]
<1>1. /\ call.pc = "idle" /\ TypeOK /\ row[t] \in Rows /\ UNCHANGED <<pos, log, cut>>
      /\ call' = TakenUp(t, "replace") /\ "replace" \in Pcs
  BY DEF BeginReplacement, At, DeskInv, TypeOK, TakenUp, history, Pcs
<1>2. row' = [row EXCEPT ![t] = w]
  BY <1>1 DEF BeginReplacement, TypeOK
<1>3. w \in Rows /\ Fields(w, row[t].pos, row[t].ids, row[t].reviews, row[t].carry, "REPLACEMENT_PENDING_L2", row[t].campaign)
  BY <1>1, RollPut DEF Transitions
<1> HIDE DEF w
<1>4. row'[t] = w /\ \A u \in Trades : u # t => row'[u] = row[u]
  BY <1>1, <1>2, <1>3, OneRow
<1>5. row'[t].pos = row[t].pos /\ row'[t].ids = row[t].ids /\ (Scaled(row'[t]) <=> Scaled(row[t]))
  BY <1>3, <1>4, ScaledSame DEF Fields
<1>6. call'.pc = "replace" /\ ~Scaling(call, t)
  BY <1>1, IdlePuts DEF Scaling
<1> QED
  BY <1>1, <1>4, <1>5, <1>6, SameSound DEF Loose

LEMMA RejectReplacementSound ==
  ASSUME DeskInv, SalesInv, RejectReplacement
  PROVE  SalesInv'
<1>1. /\ call.pc = "replace" /\ TypeOK /\ CallOK /\ UNCHANGED <<pos, log, cut>> /\ call' = Idle
  BY DEF RejectReplacement, At, DeskInv, history
<1>2. PICK c \in Trades : c = Cur /\ call.trade = c /\ row[c].pos.state # "NONE"
  BY <1>1 DEF CallOK, Cur
<1> DEFINE x == Patched(row[c], "REPLACEMENT_REJECTED")
           w == [x EXCEPT !.roll = "REPLACEMENT_REJECTED"]
<1>3. w \in Rows /\ w.pos = row[c].pos /\ w.ids = row[c].ids /\ (Scaled(row[c]) => Scaled(w))
  <2>1. row[c] \in Rows /\ "REPLACEMENT_REJECTED" \in Executions /\ "REPLACEMENT_REJECTED" \in Transitions
    BY <1>1 DEF TypeOK, Executions, Transitions
  <2>2. x \in Rows /\ Fields(x, row[c].pos, row[c].ids, x.reviews, row[c].carry, row[c].roll, row[c].campaign)
    BY <2>1, PatchedIs
  <2>3. Scaled(row[c]) => Scaled(x)
    BY <2>1, PatchedScaled
  <2> HIDE DEF x
  <2>4. w \in Rows /\ Fields(w, x.pos, x.ids, x.reviews, x.carry, "REPLACEMENT_REJECTED", x.campaign)
    BY <2>1, <2>2, RollPut
  <2> HIDE DEF w
  <2> QED
    BY <2>2, <2>3, <2>4, ScaledSame DEF Fields
<1>4. row' = [row EXCEPT ![c] = w]
  BY <1>1, <1>2 DEF RejectReplacement, TypeOK
<1> HIDE DEF w
<1>5. row'[c] = w /\ \A t \in Trades : t # c => row'[t] = row[t]
  BY <1>1, <1>3, <1>4, OneRow
<1>6. call'.pc = "idle" /\ ~Scaling(call, c)
  BY <1>1, IdleType DEF Scaling
<1> QED
  BY <1>1, <1>2, <1>3, <1>5, <1>6, SameSound DEF Loose

\* A replacement opens with its entry, and nothing sold.
LEMMA ReplaceSound ==
  ASSUME DeskInv, SalesInv, NEW u \in Trades, Replace(u)
  PROVE  SalesInv'
<1>1. /\ call.pc = "replace" /\ TypeOK /\ CallOK /\ UNCHANGED <<log, cut>> /\ call' = Idle
      /\ row[u].pos.state = "NONE"
  BY DEF Replace, At, DeskInv, history
<1>2. PICK c \in Trades : c = Cur /\ call.trade = c /\ row[c].pos.state # "NONE"
  BY <1>1 DEF CallOK, Cur
<1> DEFINE x == Patched(row[c], "ROLL_SWITCH_COMPLETE")
           w == [x EXCEPT !.roll = "COMPLETE"]
           e == EntryRow(row[c].campaign)
<1>3. u # c /\ row[c] \in Rows /\ row[c].campaign \in Trades \cup {None}
  BY <1>1, <1>2 DEF TypeOK, Rows
<1>4. w \in Rows /\ w.pos = row[c].pos /\ w.ids = row[c].ids /\ (Scaled(row[c]) => Scaled(w))
  <2>1. "ROLL_SWITCH_COMPLETE" \in Executions /\ "COMPLETE" \in Transitions
    BY DEF Executions, Transitions
  <2>2. x \in Rows /\ Fields(x, row[c].pos, row[c].ids, x.reviews, row[c].carry, row[c].roll, row[c].campaign)
    BY <1>3, <2>1, PatchedIs
  <2>3. Scaled(row[c]) => Scaled(x)
    BY <1>3, <2>1, PatchedScaled
  <2> HIDE DEF x
  <2>4. w \in Rows /\ Fields(w, x.pos, x.ids, x.reviews, x.carry, "COMPLETE", x.campaign)
    BY <2>1, <2>2, RollPut
  <2> HIDE DEF w
  <2> QED
    BY <2>2, <2>3, <2>4, ScaledSame DEF Fields
<1>5. e \in Rows /\ e.pos = Opened /\ e.ids = None /\ Opened \in Positions
  <2>1. e.ids = None
    BY DEF EntryRow, NoRow
  <2> QED
    BY <1>3, <2>1, EntryIs
<1>6. pos' = [pos EXCEPT ![u] = Opened] /\ row' = [[row EXCEPT ![u] = e] EXCEPT ![c] = w]
  BY <1>1, <1>2, <1>3 DEF Replace, TypeOK
<1> HIDE DEF w, e
<1>7. pos'[u] = Opened /\ \A t \in Trades : t # u => pos'[t] = pos[t]
  BY <1>1, <1>5, <1>6, OnePos
<1>8. row'[u] = e /\ row'[c] = w /\ \A t \in Trades : t # u /\ t # c => row'[t] = row[t]
  BY <1>1, <1>2, <1>3, <1>4, <1>5, <1>6 DEF TypeOK
<1>9. call'.pc = "idle" /\ call'.trade = None
  BY <1>1 DEF Idle
<1>10. Sound(u)'
  <2>1. Filled(log[u]) = {}
    BY <1>1 DEF SalesInv, Sound
  <2>2. Booked(call', log[u], u) = {}
    BY <1>9, <2>1 DEF Booked
  <2>3. Opened.state = "OPEN" /\ Opened.qty = Lots
    BY DEF Opened
  <2>4. Balanced(call', Opened, e, log[u], u)
    BY <2>1, <2>2, <2>3, SoldNone, BoundsAssumption DEF Balanced
  <2>5. Agrees(call', Opened, e, u)
    BY <1>5, <2>3 DEF Agrees
  <2>6. SoundFor(call', Opened, e, log[u], u)
    BY <1>9, <2>4, <2>5 DEF SoundFor, Loose
  <2> QED
    BY <1>1, <1>5, <1>7, <1>8, <2>1, <2>3, <2>6 DEF Sound
<1>11. ASSUME NEW t \in Trades, t # u PROVE Sound(t)'
  <2>1. Sound(t) /\ pos'[t] = pos[t] /\ row'[t].pos = row[t].pos /\ row'[t].ids = row[t].ids
        /\ (Scaled(row[t]) => Scaled(row'[t]))
    BY <1>4, <1>7, <1>8, <1>11 DEF SalesInv
  <2>2. ASSUME t \notin cut PROVE SoundFor(call', pos'[t], row'[t], log[t], t)
    <3>1. SoundFor(call, pos[t], row[t], log[t], t) /\ ~Scaling(call, t)
      BY <1>1, <2>1, <2>2 DEF Sound, Scaling
    <3> QED
      BY <1>1, <1>9, <2>1, <3>1, SoundSame DEF Loose
  <2> QED
    BY <1>1, <2>1, <2>2 DEF Sound
<1> QED
  BY <1>10, <1>11 DEF SalesInv

\* What a session reads back of an account that was sound.
LEMMA Reopened ==
  ASSUME NEW c, NEW d, NEW p, NEW q, NEW r, NEW l, NEW t, SoundFor(c, p, r, l, t),
         c.trade = t => c.pc \notin {"ids", "apply", "settle"}, ~Scaling(c, t), d.pc = "idle",
         r.pos.state = "NONE" => Filled(l) = {},
         q = IF r.pos.state = "CLOSED" THEN NoPosition ELSE r.pos
  PROVE  SoundFor(d, q, r, l, t)
<1>1. Booked(c, l, t) = Filled(l) /\ Booked(d, l, t) = Filled(l)
  BY DEF Booked
<1>2. /\ r.ids # None => p.state \in {"CLOSED", "NONE"}
      /\ IF p.state = "NONE" THEN r.pos.state \in {"NONE", "CLOSED"}
         ELSE r.pos.qty = p.qty /\ (r.pos.state = "CLOSED" <=> p.state = "CLOSED")
  BY DEF SoundFor, Agrees
<1>3. NoPosition.state = "NONE" /\ NoPosition.qty = 0
  BY DEF NoPosition
<1>4. CASE r.pos.state = "CLOSED"
  <2>1. q = NoPosition
    BY <1>4
  <2>2. Balanced(d, q, r, l, t)
    BY <1>1, <1>3, <2>1 DEF SoundFor, Balanced
  <2>3. Agrees(d, q, r, t)
    BY <1>3, <1>4, <2>1 DEF Agrees
  <2> QED
    BY <2>2, <2>3 DEF SoundFor, Loose
<1>5. CASE r.pos.state # "CLOSED"
  <2>1. q = r.pos
    BY <1>5
  <2>2. Balanced(d, q, r, l, t)
    <3>1. CASE r.pos.state = "NONE"
      BY <1>1, <2>1, <3>1 DEF SoundFor, Balanced
    <3>2. CASE r.pos.state # "NONE"
      <4>1. p.state # "NONE" /\ q.qty = p.qty
        BY <1>2, <1>5, <2>1, <3>2
      <4> QED
        BY <1>1, <4>1 DEF SoundFor, Balanced
    <3> QED
      BY <3>1, <3>2
  <2>3. Agrees(d, q, r, t)
    BY <1>2, <1>5, <2>1 DEF Agrees
  <2> QED
    BY <2>2, <2>3 DEF SoundFor, Loose
<1> QED
  BY <1>4, <1>5

LEMMA NextDaySound ==
  ASSUME DeskInv, SalesInv, NextDay
  PROVE  SalesInv'
<1>1. /\ call.pc = "idle" /\ TypeOK /\ UNCHANGED <<log, cut, call>> /\ pos' = Restored(row')
      /\ row' = [t \in Trades |-> IF InBook(t) THEN Written(t) ELSE row[t]]
  BY DEF NextDay, At, DeskInv, history
<1> SUFFICES ASSUME NEW t \in Trades PROVE Sound(t)'
  BY DEF SalesInv
<1>2. Sound(t) /\ pos'[t] = IF row'[t].pos.state = "CLOSED" THEN NoPosition ELSE row'[t].pos
  BY <1>1 DEF SalesInv, Restored
<1>3. ~Scaling(call, t) /\ call.pc \notin {"ids", "apply", "settle"} /\ call.pc \in Loose
  BY <1>1 DEF Scaling, Loose
<1>4. CASE InBook(t)
  <2> DEFINE w == Written(t)
  <2>1. w \in Rows /\ Fields(w, pos[t], row[t].ids, row[t].reviews, row[t].carry, row[t].roll, row[t].campaign)
    BY <1>1, WrittenIs
  <2>2. row'[t] = w
    BY <1>1, <1>4
  <2> HIDE DEF w
  <2>3. pos'[t] = pos[t] /\ row'[t].pos = pos[t] /\ pos[t].state # "NONE" /\ row'[t].ids = row[t].ids
    BY <1>2, <1>4, <2>1, <2>2 DEF InBook, Fields
  <2>4. Scaled(row'[t]) <=> Scaled(row[t])
    BY <2>1, <2>2, ScaledSame DEF Fields
  <2>5. ASSUME t \notin cut PROVE SoundFor(call', pos'[t], row'[t], log[t], t)
    <3>1. SoundFor(call, pos[t], row[t], log[t], t)
      BY <1>2, <2>5 DEF Sound
    <3> QED
      BY <1>1, <1>3, <2>3, <2>4, <3>1, SoundSame
  <2> QED
    BY <1>1, <2>3, <2>5 DEF Sound
<1>5. CASE ~InBook(t)
  <2>1. row'[t] = row[t]
    BY <1>1, <1>5
  <2>2. ASSUME t \notin cut PROVE SoundFor(call', pos'[t], row[t], log[t], t)
    <3>1. SoundFor(call, pos[t], row[t], log[t], t) /\ (row[t].pos.state = "NONE" => Filled(log[t]) = {})
      BY <1>2, <2>2 DEF Sound
    <3> QED
      BY <1>1, <1>2, <1>3, <2>1, <3>1, Reopened
  <2> QED
    BY <1>1, <1>2, <2>1, <2>2 DEF Sound
<1> QED
  BY <1>4, <1>5

LEMMA RestartSound ==
  ASSUME DeskInv, SalesInv, Restart
  PROVE  SalesInv'
<1>1. /\ call' = Idle /\ UNCHANGED <<row, log>> /\ pos' = Restored(row)
      /\ cut' = IF call.pc \in Open \/ call.back = "record" THEN cut \cup {Cur} ELSE cut
  BY DEF Restart
<1> SUFFICES ASSUME NEW t \in Trades PROVE Sound(t)'
  BY DEF SalesInv
<1>2. Sound(t) /\ pos'[t] = IF row[t].pos.state = "CLOSED" THEN NoPosition ELSE row[t].pos
  BY <1>1 DEF SalesInv, Restored
<1>3. call'.pc = "idle"
  BY <1>1, IdleType
<1>4. ASSUME t \notin cut' PROVE SoundFor(call', pos'[t], row[t], log[t], t)
  <2>1. t \notin cut /\ (call.trade = t => call.pc \notin Open /\ call.back # "record")
    BY <1>1, <1>4 DEF Cur
  <2>2. SoundFor(call, pos[t], row[t], log[t], t) /\ (row[t].pos.state = "NONE" => Filled(log[t]) = {})
    BY <1>2, <2>1 DEF Sound
  <2>3. (call.trade = t => call.pc \notin {"ids", "apply", "settle"}) /\ ~Scaling(call, t)
    BY <2>1 DEF Open, Scaling
  <2> QED
    BY <1>2, <1>3, <2>2, <2>3, Reopened
<1> QED
  BY <1>1, <1>2, <1>4 DEF Sound

LEMMA SalesInit == Init => SalesInv
<1> SUFFICES ASSUME Init, NEW t \in Trades PROVE Sound(t)
  BY DEF SalesInv
<1>1. Filled(log[t]) = {} /\ call = Idle /\ call.pc = "idle" /\ Idle.trade = None
  BY IdleType DEF Init, Filled, Idle
<1>2. Booked(call, log[t], t) = {}
  BY <1>1 DEF Booked
<1>3. /\ Opened.state = "OPEN" /\ Opened.qty = Lots /\ NoPosition.state = "NONE"
      /\ EntryRow(t).pos = Opened /\ NoRow.pos = NoPosition
      /\ EntryRow(t).ids = None /\ NoRow.ids = None
  <2>1. EntryRow(t).pos = Opened /\ NoRow.pos = NoPosition
    BY EntryIs
  <2> QED
    BY <2>1 DEF Opened, NoPosition, EntryRow, NoRow
<1>4. \/ pos[t] = Opened /\ row[t] = EntryRow(t)
      \/ pos[t] = NoPosition /\ row[t] = NoRow
  BY DEF Init
<1>5. Balanced(call, pos[t], row[t], log[t], t)
  BY <1>1, <1>2, <1>3, <1>4, SoldNone, BoundsAssumption DEF Balanced
<1>6. Agrees(call, pos[t], row[t], t)
  BY <1>3, <1>4 DEF Agrees
<1> QED
  BY <1>1, <1>5, <1>6 DEF Sound, SoundFor, Loose

LEMMA SalesNext == DeskInv /\ SalesInv /\ [Next]_vars => SalesInv'
<1> SUFFICES ASSUME DeskInv, SalesInv, [Next]_vars PROVE SalesInv'
  OBVIOUS
<1>1. CASE Exit
  <2>1. \A answer \in {"FILLED", "REJECTED"} : Submit(answer) => SalesInv'
    BY SubmitSound
  <2>2. \A loss \in BOOLEAN : RecordClose(loss) => SalesInv'
    BY RecordCloseSound
  <2>3. \A t \in Trades : ManageExit(t) \/ Resume(t) => SalesInv'
    BY ManageSound
  <2> QED
    BY <1>1, <2>1, <2>2, <2>3, RequestSound, AdoptSound, NoPlanSound, WriteIdsSound, ApplySound,
       SettleSound, AdvanceSound, AdoptedSound DEF Exit
<1>2. CASE Review
  <2>1. \A t \in Trades, action \in Actions : Decide(t, action) => SalesInv'
    BY DecideSound
  <2> QED
    BY <1>2, <2>1, QuietSteps, RecordReviewSound DEF Review
<1>3. CASE Carry
  <2>1. \A t \in Trades, approved \in BOOLEAN : CarryGate(t, approved) => SalesInv'
    BY CarryGateSound
  <2> QED
    BY <1>3, <2>1, RecordCarrySound DEF Carry
<1>4. CASE Replacement
  <2>1. \A t \in Trades : BeginReplacement(t) => SalesInv'
    BY BeginReplacementSound
  <2>2. \A u \in Trades : Replace(u) => SalesInv'
    BY ReplaceSound
  <2> QED
    BY <1>4, <2>1, <2>2, RejectReplacementSound DEF Replacement
<1>5. CASE UNCHANGED vars
  BY <1>5 DEF vars, history, SalesInv, Sound
<1> QED
  BY <1>1, <1>2, <1>3, <1>4, <1>5, QuietSteps, NextDaySound, RestartSound DEF Next

\* What the book holds of a trade and what the durable log says its exits have sold are
\* its entry, whatever the mix of scale-outs, whole exits, refusals, resumptions and
\* restarts, unless a crash has cut an exit of the trade between its fill and its record.
THEOREM FillsAreCounted == Spec => []FillsCounted
<1>1. DeskInv /\ SalesInv => FillsCounted
  <2> SUFFICES ASSUME DeskInv, SalesInv, NEW t \in Trades, pos[t].state \in {"OPEN", "CLOSED"}, t \notin cut
               PROVE  Lots = pos[t].qty + Sold(t)
    BY DEF FillsCounted
  <2>1. SoundFor(call, pos[t], row[t], log[t], t)
    BY DEF SalesInv, Sound
  <2>2. Booked(call, log[t], t) = Filled(log[t])
    BY DEF DeskInv, CallOK, Cur, Busy, Booked, InFlight
  <2>3. Sold(t) = Total(Filled(log[t]))
    BY DEF Sold, Total, Filled
  <2> QED
    BY <2>1, <2>2, <2>3 DEF SoundFor, Balanced
<1>2. Init => DeskInv /\ SalesInv
  BY DeskInit, SalesInit
<1>3. DeskInv /\ SalesInv /\ [Next]_vars => (DeskInv /\ SalesInv)'
  BY DeskNext, SalesNext
<1> QED
  BY <1>1, <1>2, <1>3, PTL DEF Spec

=============================================================================
