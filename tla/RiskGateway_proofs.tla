------------------------- MODULE RiskGateway_proofs -------------------------
(***************************************************************************)
(* Theorems about RiskGateway, for any requests, accounts and lot size, and *)
(* about the producers beside it, for any policy and scenes.               *)
(***************************************************************************)
EXTENDS EntryPipeline, FiniteSetTheorems, WellFoundedInduction, TLAPS

-----------------------------------------------------------------------------
\* Arithmetic.

\* A set of naturals has a least.
LEMMA SmallestIn ==
  ASSUME NEW S \in SUBSET Nat, S # {}
  PROVE  Smallest(S) \in S /\ \A n \in S : Smallest(S) <= n
<1>1. PICK x \in S : \A y \in S : ~(<<y, x>> \in OpToRel(<, Nat))
  BY NatLessThanWellFounded, WFMin
<1>2. ASSUME NEW y \in S PROVE x <= y
  <2>1. ~(<<y, x>> \in {ss \in Nat \X Nat : ss[1] < ss[2]})
    BY <1>1 DEF OpToRel
  <2>2. QED
    BY <2>1
<1>3. QED
  BY <1>2 DEF Smallest

LEMMA OneIn ==
  ASSUME NEW S \in SUBSET Nat, S # {}
  PROVE  One(S) \in S
  BY SmallestIn DEF One, Smallest

\* The lots that a budget pays for cost no more than it.
LEMMA FloorLotsPays ==
  ASSUME NEW budget \in Int, NEW cost \in Int
  PROVE  /\ FloorLots(budget, cost) \in Nat
         /\ \A n \in Nat \ {0} : n <= FloorLots(budget, cost) => cost > 0 /\ cost * n <= budget
<1>1. CASE cost <= 0 \/ budget <= 0
  BY <1>1 DEF FloorLots
<1>2. CASE ~(cost <= 0 \/ budget <= 0)
  <2>1. FloorLots(budget, cost) = budget \div cost /\ budget \in Nat /\ cost \in Nat \ {0}
    BY <1>2 DEF FloorLots
  <2>2. budget \div cost \in Nat
    BY <2>1
  <2>3. ASSUME NEW n \in Nat \ {0}, n <= budget \div cost PROVE cost * n <= budget
    BY <2>1, <2>3
  <2>4. QED
    BY <2>1, <2>2, <2>3
<1>3. QED
  BY <1>1, <1>2

LEMMA FloorLotsType == \A budget, cost \in Int : FloorLots(budget, cost) \in Nat
  BY FloorLotsPays

LEMMA CostIsMore ==
  ASSUME NEW loss \in Nat, NEW charges \in {Charges, Twice}
  PROVE  /\ CostPerLot(loss, charges) \in Nat
         /\ CostPerLot(loss, charges) >= loss * LotSize + Charges
<1> USE SizingAssumption
<1>1. loss * LotSize \in Nat
  OBVIOUS
<1> DEFINE n == loss * LotSize
<1> HIDE DEF n
<1>2. (n + SlippageParts - 1) \div SlippageParts \in Nat
  <2>1. n + SlippageParts - 1 \in Nat
    BY <1>1 DEF n
  <2>2. QED
    BY <2>1
<1>3. CostPerLot(loss, charges) = n + (n + SlippageParts - 1) \div SlippageParts + charges
  BY DEF CostPerLot, CeilDiv, n
<1>4. charges \in Nat /\ charges >= Charges
  BY DEF Twice
<1>5. QED
  BY <1>1, <1>2, <1>3, <1>4 DEF n

\* A loss per unit, and what is reserved for it, over the lots of a trade.
LEMMA LotsCovered ==
  ASSUME NEW pnl \in Int, NEW loss \in Nat, pnl >= -loss, NEW cost \in Nat,
         cost >= loss * LotSize + Charges, NEW lots \in Nat
  PROVE  (pnl * LotSize - Charges) * lots >= -(cost * lots)
<1> USE SizingAssumption
<1>1. (pnl + loss) * LotSize >= 0
  BY SMT
<1>2. pnl * LotSize + loss * LotSize >= 0
  BY <1>1
<1>3. pnl * LotSize \in Int /\ loss * LotSize \in Int
  OBVIOUS
<1> DEFINE unit == pnl * LotSize - Charges
<1>4. unit \in Int /\ unit + cost >= 0
  BY <1>2, <1>3
<1> HIDE DEF unit
<1>5. (unit + cost) * lots >= 0
  BY <1>4
<1>6. unit * lots + cost * lots >= 0
  BY <1>4, <1>5
<1>7. unit * lots \in Int /\ cost * lots \in Int
  BY <1>4
<1>8. unit * lots >= -(cost * lots)
  BY <1>6, <1>7
<1>9. QED
  BY <1>8 DEF unit

-----------------------------------------------------------------------------
\* Legs.

\* What an offer can be, of RequestsAssumption.
Sound(legs, quotes) ==
  /\ Len(legs) \in Nat \ {0} /\ DOMAIN legs = 1..Len(legs) /\ DOMAIN quotes = DOMAIN legs
  /\ \A i \in DOMAIN legs :
       /\ legs[i].kind \in OptionKinds \cup {"FUTURE"} /\ legs[i].side \in Sides
       /\ legs[i].strike \in Nat
       /\ legs[i].ratio = IF Len(legs) = 3 /\ legs[i].side = "SELL" THEN 2 ELSE 1
       /\ quotes[i].bid \in Nat /\ quotes[i].ask \in Nat
       /\ quotes[i].depth \in Nat \cup {None} /\ quotes[i].delta \in Int \cup {None}

\* Entered, of any legs and quotes.
Priced(legs, quotes) ==
  [i \in DOMAIN legs |->
     [kind |-> legs[i].kind, side |-> legs[i].side, strike |-> legs[i].strike, qty |-> legs[i].ratio,
      premium |-> IF legs[i].side = "BUY" THEN Ask(quotes, i) ELSE Bid(quotes, i)]]

\* What a leg bought, or sold, makes at expiry.
Paid(legs, quotes, spot, i) == Intrinsic(spot, legs[i]) - Ask(quotes, i)

Received(legs, quotes, spot, i) == Bid(quotes, i) - Intrinsic(spot, legs[i])

Worth(legs, quotes, spot, i) == LegPnl(spot, Priced(legs, quotes)[i])

LEMMA LegInts ==
  ASSUME NEW legs, NEW quotes, Sound(legs, quotes), NEW spot \in Int, NEW i \in DOMAIN legs
  PROVE  /\ Intrinsic(spot, legs[i]) \in Nat /\ Ask(quotes, i) \in Nat /\ Bid(quotes, i) \in Nat
         /\ Paid(legs, quotes, spot, i) \in Int /\ Received(legs, quotes, spot, i) \in Int
<1>1. Intrinsic(spot, legs[i]) \in Nat
  BY DEF Intrinsic, Above, Sound
<1>2. Ask(quotes, i) \in Nat /\ Bid(quotes, i) \in Nat
  BY DEF Sound, Ask, Bid
<1>3. QED
  BY <1>1, <1>2 DEF Paid, Received

LEMMA LegWorth ==
  ASSUME NEW legs, NEW quotes, Sound(legs, quotes), NEW spot \in Int, NEW i \in DOMAIN legs
  PROVE  /\ Intrinsic(spot, legs[i]) \in Nat /\ Worth(legs, quotes, spot, i) \in Int
         /\ legs[i].side = "BUY" => Worth(legs, quotes, spot, i) = Paid(legs, quotes, spot, i)
         /\ legs[i].side = "SELL" => Worth(legs, quotes, spot, i) =
              (IF Len(legs) = 3 THEN 2 ELSE 1) * Received(legs, quotes, spot, i)
<1> DEFINE leg == Priced(legs, quotes)[i]
           x == Intrinsic(spot, legs[i])
<1>1. /\ leg.kind = legs[i].kind /\ leg.side = legs[i].side /\ leg.strike = legs[i].strike
      /\ leg.qty = legs[i].ratio
      /\ leg.premium = IF legs[i].side = "BUY" THEN Ask(quotes, i) ELSE Bid(quotes, i)
  BY DEF Priced
<1>2. x \in Nat /\ Intrinsic(spot, leg) = x
  BY <1>1 DEF Intrinsic, Above, Sound
<1>3. Ask(quotes, i) \in Nat /\ Bid(quotes, i) \in Nat
  BY DEF Sound, Ask, Bid
<1>4. LegPnl(spot, leg) = Signed(leg) * (x - leg.premium)
  BY <1>2 DEF LegPnl
<1> HIDE DEF x, leg
<1>5. CASE legs[i].side = "BUY"
  <2>1. Signed(leg) = 1 /\ leg.premium = Ask(quotes, i)
    BY <1>1, <1>5 DEF Signed, Sound
  <2>2. LegPnl(spot, leg) = x - Ask(quotes, i)
    BY <1>2, <1>3, <1>4, <2>1
  <2>3. QED
    BY <1>2, <1>3, <1>5, <2>2 DEF Paid, Worth, x, leg
<1>6. CASE legs[i].side = "SELL" /\ Len(legs) # 3
  <2>1. Signed(leg) = -1 /\ leg.premium = Bid(quotes, i)
    BY <1>1, <1>6 DEF Signed, Sound
  <2>2. LegPnl(spot, leg) = Bid(quotes, i) - x
    BY <1>2, <1>3, <1>4, <2>1
  <2>3. QED
    BY <1>2, <1>3, <1>6, <2>2 DEF Received, Worth, x, leg
<1>7. CASE legs[i].side = "SELL" /\ Len(legs) = 3
  <2>1. Signed(leg) = -2 /\ leg.premium = Bid(quotes, i)
    BY <1>1, <1>7 DEF Signed, Sound
  <2>2. LegPnl(spot, leg) = 2 * (Bid(quotes, i) - x)
    BY <1>2, <1>3, <1>4, <2>1
  <2>3. QED
    BY <1>2, <1>3, <1>7, <2>2 DEF Received, Worth, x, leg
<1>8. legs[i].side \in {"BUY", "SELL"}
  BY DEF Sound, Sides
<1>9. QED
  BY <1>5, <1>6, <1>7, <1>8

\* A structure of up to four legs makes what its legs make.
LEMMA PnlOfLegs ==
  ASSUME NEW legs, NEW quotes, Sound(legs, quotes), NEW spot \in Int
  PROVE  /\ \A i \in DOMAIN legs : Worth(legs, quotes, spot, i) \in Int
         /\ Len(legs) = 1 => Pnl(spot, Priced(legs, quotes)) = Worth(legs, quotes, spot, 1)
         /\ Len(legs) = 2 => Pnl(spot, Priced(legs, quotes)) =
              Worth(legs, quotes, spot, 1) + Worth(legs, quotes, spot, 2)
         /\ Len(legs) = 3 => Pnl(spot, Priced(legs, quotes)) =
              Worth(legs, quotes, spot, 1) + Worth(legs, quotes, spot, 2) + Worth(legs, quotes, spot, 3)
         /\ Len(legs) = 4 => Pnl(spot, Priced(legs, quotes)) =
              Worth(legs, quotes, spot, 1) + Worth(legs, quotes, spot, 2)
                + Worth(legs, quotes, spot, 3) + Worth(legs, quotes, spot, 4)
<1> DEFINE f == [i \in DOMAIN legs |-> LegPnl(spot, Priced(legs, quotes)[i])]
           pnl == Pnl(spot, Priced(legs, quotes))
           w(i) == Worth(legs, quotes, spot, i)
<1>1. pnl = Sum(f)
  BY DEF Pnl, Priced
<1>2. \A i \in DOMAIN legs : f[i] = w(i) /\ w(i) \in Int
  BY LegWorth DEF Worth
<1>3. DOMAIN f = DOMAIN legs
  OBVIOUS
<1>4. DOMAIN legs = 1..Len(legs) /\ Len(legs) \in Nat
  BY DEF Sound
<1> HIDE DEF f, pnl, w
<1>5. pnl = At(f, 1) + At(f, 2) + At(f, 3) + At(f, 4)
  BY <1>1 DEF Sum
<1>6. \A i \in DOMAIN legs : At(f, i) = w(i)
  BY <1>2, <1>3 DEF At
<1>7. \A i : i \notin DOMAIN legs => At(f, i) = 0
  BY <1>3 DEF At
<1>8. Len(legs) = 1 => pnl = w(1)
  BY <1>2, <1>4, <1>5, <1>6, <1>7
<1>9. Len(legs) = 2 => pnl = w(1) + w(2)
  BY <1>2, <1>4, <1>5, <1>6, <1>7
<1>10. Len(legs) = 3 => pnl = w(1) + w(2) + w(3)
  BY <1>2, <1>4, <1>5, <1>6, <1>7
<1>11. Len(legs) = 4 => pnl = w(1) + w(2) + w(3) + w(4)
  BY <1>2, <1>4, <1>5, <1>6, <1>7
<1>12. QED
  BY <1>2, <1>8, <1>9, <1>10, <1>11 DEF pnl, w

\* The legs of each structure, and what they make.
LEMMA LegSets ==
  ASSUME NEW legs, NEW quotes, Sound(legs, quotes)
  PROVE  /\ Bought(legs) \in SUBSET Nat /\ Sold(legs) \in SUBSET Nat
         /\ Bought(legs) \cup Sold(legs) = DOMAIN legs /\ Bought(legs) \cap Sold(legs) = {}
         /\ IsFiniteSet(DOMAIN legs) /\ IsFiniteSet(Bought(legs)) /\ IsFiniteSet(Sold(legs))
<1>1. DOMAIN legs = 1..Len(legs) /\ Len(legs) \in Nat
  BY DEF Sound
<1>2. IsFiniteSet(DOMAIN legs)
  BY <1>1, FS_Interval
<1>3. QED
  BY <1>1, <1>2, FS_Subset DEF Bought, Sold, Sound, Sides

LEMMA VerticalLegs ==
  ASSUME NEW legs, NEW quotes, Sound(legs, quotes), IsVertical(legs)
  PROVE  LET b == One(Bought(legs))
             s == One(Sold(legs))
         IN  /\ b \in 1..2 /\ s \in 1..2 /\ b # s /\ legs[b].side = "BUY" /\ legs[s].side = "SELL"
             /\ legs[b].kind = legs[s].kind /\ legs[b].kind \in OptionKinds
             /\ legs[b].strike # legs[s].strike
             /\ Len(legs) = 2 /\ DOMAIN legs = 1..2
<1>1. Len(legs) = 2 /\ DOMAIN legs = {1, 2}
  BY DEF IsVertical, Sound
<1>2. PICK b : Bought(legs) = {b}
  BY LegSets, FS_Singleton DEF IsVertical
<1>3. b \in {1, 2}
  BY <1>1, <1>2, LegSets
<1>4. Sold(legs) # {} /\ Sold(legs) \subseteq {1, 2} /\ b \notin Sold(legs)
  <2>1. {b} \cup Sold(legs) = {1, 2} /\ {b} \cap Sold(legs) = {}
    BY <1>1, <1>2, LegSets
  <2>2. QED
    BY <2>1
<1>5. One(Bought(legs)) = b
  BY <1>2, LegSets, OneIn
<1>6. One(Sold(legs)) \in Sold(legs)
  BY <1>4, LegSets, OneIn
<1>7. legs[One(Bought(legs))].side = "BUY" /\ legs[One(Sold(legs))].side = "SELL"
  BY <1>2, <1>5, <1>6 DEF Bought, Sold
<1>8. QED
  BY <1>1, <1>3, <1>4, <1>5, <1>6, <1>7 DEF IsVertical, Options

LEMMA VerticalPnl ==
  ASSUME NEW legs, NEW quotes, Sound(legs, quotes), IsVertical(legs), NEW spot \in Int
  PROVE  Pnl(spot, Priced(legs, quotes)) =
           Paid(legs, quotes, spot, One(Bought(legs))) + Received(legs, quotes, spot, One(Sold(legs)))
<1> DEFINE b == One(Bought(legs))
           s == One(Sold(legs))
<1>1. /\ b \in 1..2 /\ s \in 1..2 /\ b # s /\ legs[b].side = "BUY" /\ legs[s].side = "SELL"
      /\ Len(legs) = 2 /\ DOMAIN legs = 1..2
  BY VerticalLegs
<1> HIDE DEF b, s
<1>a. b \in DOMAIN legs /\ s \in DOMAIN legs
  BY <1>1
<1>2. Worth(legs, quotes, spot, b) = Paid(legs, quotes, spot, b)
  BY <1>1, <1>a, LegWorth
<1>3. Worth(legs, quotes, spot, s) = Received(legs, quotes, spot, s)
  <2>1. Received(legs, quotes, spot, s) \in Int
    BY <1>a, LegInts
  <2>2. Worth(legs, quotes, spot, s) = (IF Len(legs) = 3 THEN 2 ELSE 1) * Received(legs, quotes, spot, s)
    BY <1>1, <1>a, LegWorth
  <2>3. QED
    BY <1>1, <2>1, <2>2
<1>4. Pnl(spot, Priced(legs, quotes)) = Worth(legs, quotes, spot, 1) + Worth(legs, quotes, spot, 2)
  BY <1>1, PnlOfLegs
<1>5. Worth(legs, quotes, spot, 1) \in Int /\ Worth(legs, quotes, spot, 2) \in Int
  BY <1>1, PnlOfLegs
<1>6. Pnl(spot, Priced(legs, quotes)) = Worth(legs, quotes, spot, b) + Worth(legs, quotes, spot, s)
  BY <1>1, <1>4, <1>5
<1>7. QED
  BY <1>2, <1>3, <1>6 DEF b, s

\* A condor or an iron butterfly: a leg of each kind and side.
LEMMA FourRoles ==
  ASSUME NEW legs, NEW quotes, Sound(legs, quotes), Len(legs) = 4, Options(legs), OneEach(legs)
  PROVE  \A kind \in OptionKinds, side \in Sides :
           /\ Role(legs, kind, side) \in 1..4
           /\ legs[Role(legs, kind, side)].kind = kind /\ legs[Role(legs, kind, side)].side = side
<1> SUFFICES ASSUME NEW kind \in OptionKinds, NEW side \in Sides
             PROVE  /\ Role(legs, kind, side) \in 1..4
                    /\ legs[Role(legs, kind, side)].kind = kind
                    /\ legs[Role(legs, kind, side)].side = side
  OBVIOUS
<1> DEFINE S == {i \in DOMAIN legs : legs[i].kind = kind /\ legs[i].side = side}
<1>1. DOMAIN legs = 1..4
  BY DEF Sound
<1>2. Cardinality(S) = 1
  BY DEF OneEach
<1>3. IsFiniteSet(S) /\ S \in SUBSET Nat
  BY <1>1, LegSets, FS_Subset
<1>4. S # {}
  BY <1>2, <1>3, FS_EmptySet
<1>5. Role(legs, kind, side) = One(S)
  BY DEF Role
<1> HIDE DEF S
<1>6. One(S) \in S
  BY <1>3, <1>4, OneIn
<1>7. QED
  BY <1>1, <1>5, <1>6 DEF S

LEMMA FourPnl ==
  ASSUME NEW legs, NEW quotes, Sound(legs, quotes), Len(legs) = 4, Options(legs), OneEach(legs),
         NEW spot \in Int
  PROVE  Pnl(spot, Priced(legs, quotes)) =
           Paid(legs, quotes, spot, Role(legs, "PUT", "BUY"))
             + Received(legs, quotes, spot, Role(legs, "PUT", "SELL"))
             + Received(legs, quotes, spot, Role(legs, "CALL", "SELL"))
             + Paid(legs, quotes, spot, Role(legs, "CALL", "BUY"))
<1> DEFINE a == Role(legs, "PUT", "BUY")
           b == Role(legs, "PUT", "SELL")
           c == Role(legs, "CALL", "SELL")
           d == Role(legs, "CALL", "BUY")
           w(i) == Worth(legs, quotes, spot, i)
<1>1. {"PUT", "CALL"} = OptionKinds /\ {"BUY", "SELL"} = Sides
  BY DEF OptionKinds, Sides
<1>2. /\ a \in 1..4 /\ legs[a].kind = "PUT" /\ legs[a].side = "BUY"
      /\ b \in 1..4 /\ legs[b].kind = "PUT" /\ legs[b].side = "SELL"
      /\ c \in 1..4 /\ legs[c].kind = "CALL" /\ legs[c].side = "SELL"
      /\ d \in 1..4 /\ legs[d].kind = "CALL" /\ legs[d].side = "BUY"
  BY <1>1, FourRoles
<1>3. DOMAIN legs = 1..4
  BY DEF Sound
<1> HIDE DEF a, b, c, d
<1>4. /\ w(a) = Paid(legs, quotes, spot, a) /\ w(b) = Received(legs, quotes, spot, b)
      /\ w(c) = Received(legs, quotes, spot, c) /\ w(d) = Paid(legs, quotes, spot, d)
  <2>1. w(a) = Paid(legs, quotes, spot, a) /\ w(d) = Paid(legs, quotes, spot, d)
    BY <1>2, <1>3, LegWorth
  <2>2. ASSUME NEW i \in 1..4, legs[i].side = "SELL" PROVE w(i) = Received(legs, quotes, spot, i)
    <3>1. Received(legs, quotes, spot, i) \in Int
      BY <1>3, LegInts
    <3>2. w(i) = (IF Len(legs) = 3 THEN 2 ELSE 1) * Received(legs, quotes, spot, i)
      BY <1>3, <2>2, LegWorth
    <3>3. QED
      BY <3>1, <3>2
  <2>3. QED
    BY <1>2, <2>1, <2>2
<1>5. Pnl(spot, Priced(legs, quotes)) = w(1) + w(2) + w(3) + w(4)
  BY PnlOfLegs
<1>6. w(1) \in Int /\ w(2) \in Int /\ w(3) \in Int /\ w(4) \in Int
  BY <1>3, PnlOfLegs
<1>7. a # b /\ a # c /\ a # d /\ b # c /\ b # d /\ c # d
  BY <1>2
<1>8. w(1) + w(2) + w(3) + w(4) = w(a) + w(b) + w(c) + w(d)
  <2> HIDE DEF w
  <2>1. CASE a = 1
    BY <1>2, <1>6, <1>7, <2>1
  <2>2. CASE a = 2
    BY <1>2, <1>6, <1>7, <2>2
  <2>3. CASE a = 3
    BY <1>2, <1>6, <1>7, <2>3
  <2>4. CASE a = 4
    BY <1>2, <1>6, <1>7, <2>4
  <2>5. QED
    BY <1>2, <2>1, <2>2, <2>3, <2>4
<1>9. QED
  BY <1>4, <1>5, <1>8 DEF a, b, c, d

-----------------------------------------------------------------------------
\* No structure loses more, wherever the underlying ends, than the loss of a unit
\* that its engine finds.

Covers(loss, legs, quotes) ==
  /\ loss \in Nat
  /\ \A spot \in Int : /\ Pnl(spot, Priced(legs, quotes)) \in Int
                       /\ Pnl(spot, Priced(legs, quotes)) >= -loss

LEMMA DebitCovered ==
  ASSUME NEW legs, NEW quotes, Sound(legs, quotes), IsDebitSpread(legs), DebitLoss(legs, quotes) # None
  PROVE  Covers(DebitLoss(legs, quotes), legs, quotes)
<1> DEFINE b == One(Bought(legs))
           s == One(Sold(legs))
           net == Ask(quotes, b) - Bid(quotes, s)
<1>1. /\ b \in DOMAIN legs /\ s \in DOMAIN legs /\ legs[b].kind = legs[s].kind
      /\ legs[b].kind \in OptionKinds
  BY VerticalLegs DEF IsDebitSpread
<1>2. IF legs[b].kind = "CALL" THEN legs[b].strike < legs[s].strike ELSE legs[b].strike > legs[s].strike
  BY DEF IsDebitSpread, BuysTheDearer
<1>3. DebitLoss(legs, quotes) = net /\ net > 0
  BY DEF DebitLoss
<1>4. \A spot \in Int : Pnl(spot, Priced(legs, quotes)) =
                          Paid(legs, quotes, spot, b) + Received(legs, quotes, spot, s)
  BY VerticalPnl DEF IsDebitSpread
<1> HIDE DEF b, s
<1>5. legs[b].strike \in Nat /\ legs[s].strike \in Nat
  BY <1>1 DEF Sound
<1>6. /\ Ask(quotes, b) \in Nat /\ Bid(quotes, s) \in Nat
  BY <1>1, LegInts, 0 \in Int
<1>7. ASSUME NEW spot \in Int
      PROVE  /\ Intrinsic(spot, legs[b]) \in Nat /\ Intrinsic(spot, legs[s]) \in Nat
             /\ Intrinsic(spot, legs[b]) >= Intrinsic(spot, legs[s])
  BY <1>1, <1>2, <1>5 DEF Intrinsic, Above
<1>8. ASSUME NEW spot \in Int
      PROVE  /\ Paid(legs, quotes, spot, b) + Received(legs, quotes, spot, s) \in Int
             /\ Paid(legs, quotes, spot, b) + Received(legs, quotes, spot, s) >= -net
  BY <1>6, <1>7 DEF Paid, Received
<1>9. QED
  BY <1>3, <1>4, <1>6, <1>8 DEF Covers

LEMMA CreditCovered ==
  ASSUME NEW legs, NEW quotes, Sound(legs, quotes), IsCreditSpread(legs), CreditLoss(legs, quotes) # None
  PROVE  Covers(CreditLoss(legs, quotes), legs, quotes)
<1> DEFINE b == One(Bought(legs))
           s == One(Sold(legs))
           net == Bid(quotes, s) - Ask(quotes, b)
           width == Distance(legs, b, s)
<1>1. /\ b \in DOMAIN legs /\ s \in DOMAIN legs /\ legs[b].kind = legs[s].kind
      /\ legs[b].kind \in OptionKinds
  BY VerticalLegs DEF IsCreditSpread
<1>2. CreditLoss(legs, quotes) = width - net /\ width - net > 0
  BY DEF CreditLoss, IfPositive
<1>3. \A spot \in Int : Pnl(spot, Priced(legs, quotes)) =
                          Paid(legs, quotes, spot, b) + Received(legs, quotes, spot, s)
  BY VerticalPnl DEF IsCreditSpread
<1> HIDE DEF b, s
<1>4. legs[b].strike \in Nat /\ legs[s].strike \in Nat
  BY <1>1 DEF Sound
<1>5. /\ Ask(quotes, b) \in Nat /\ Bid(quotes, s) \in Nat
  BY <1>1, LegInts, 0 \in Int
<1>6. width \in Nat
  BY <1>4 DEF Distance, Larger
<1>7. ASSUME NEW spot \in Int
      PROVE  /\ Intrinsic(spot, legs[b]) \in Nat /\ Intrinsic(spot, legs[s]) \in Nat
             /\ Intrinsic(spot, legs[b]) - Intrinsic(spot, legs[s]) >= -width
  BY <1>1, <1>4 DEF Intrinsic, Above, Distance, Larger
<1> HIDE DEF width
<1>8. ASSUME NEW spot \in Int
      PROVE  /\ Paid(legs, quotes, spot, b) + Received(legs, quotes, spot, s) \in Int
             /\ Paid(legs, quotes, spot, b) + Received(legs, quotes, spot, s) >= -(width - net)
  BY <1>5, <1>6, <1>7 DEF Paid, Received
<1>9. QED
  BY <1>2, <1>3, <1>5, <1>6, <1>8 DEF Covers

\* At most one wing of four legs ends inside.
LEMMA WingsEnd ==
  ASSUME NEW legs, NEW quotes, Sound(legs, quotes), Len(legs) = 4, Options(legs), OneEach(legs),
         legs[Role(legs, "PUT", "BUY")].strike < legs[Role(legs, "PUT", "SELL")].strike,
         legs[Role(legs, "PUT", "SELL")].strike <= legs[Role(legs, "CALL", "SELL")].strike,
         legs[Role(legs, "CALL", "SELL")].strike < legs[Role(legs, "CALL", "BUY")].strike,
         NEW spot \in Int
  PROVE  LET credit == WingCredit(legs, quotes, "CALL") + WingCredit(legs, quotes, "PUT")
             width == Larger(WingWidth(legs, "PUT"), WingWidth(legs, "CALL"))
         IN  /\ credit \in Int /\ width \in Int
             /\ Pnl(spot, Priced(legs, quotes)) \in Int
             /\ Pnl(spot, Priced(legs, quotes)) >= credit - width
<1> DEFINE a == Role(legs, "PUT", "BUY")
           b == Role(legs, "PUT", "SELL")
           c == Role(legs, "CALL", "SELL")
           d == Role(legs, "CALL", "BUY")
<1>1. {"PUT", "CALL"} = OptionKinds /\ {"BUY", "SELL"} = Sides
  BY DEF OptionKinds, Sides
<1>2. /\ a \in 1..4 /\ legs[a].kind = "PUT" /\ b \in 1..4 /\ legs[b].kind = "PUT"
      /\ c \in 1..4 /\ legs[c].kind = "CALL" /\ d \in 1..4 /\ legs[d].kind = "CALL"
  BY <1>1, FourRoles
<1>3. DOMAIN legs = 1..4
  BY DEF Sound
<1>4. Pnl(spot, Priced(legs, quotes)) =
        Paid(legs, quotes, spot, a) + Received(legs, quotes, spot, b)
          + Received(legs, quotes, spot, c) + Paid(legs, quotes, spot, d)
  BY FourPnl
<1>5. /\ WingCredit(legs, quotes, "CALL") = Bid(quotes, c) - Ask(quotes, d)
      /\ WingCredit(legs, quotes, "PUT") = Bid(quotes, b) - Ask(quotes, a)
      /\ WingWidth(legs, "CALL") = Distance(legs, c, d) /\ WingWidth(legs, "PUT") = Distance(legs, b, a)
  BY DEF WingCredit, WingWidth
<1>6. /\ legs[a].strike < legs[b].strike /\ legs[b].strike <= legs[c].strike
      /\ legs[c].strike < legs[d].strike
  OBVIOUS
<1> HIDE DEF a, b, c, d
<1>7. \A i \in {a, b, c, d} : legs[i].strike \in Nat /\ Ask(quotes, i) \in Nat /\ Bid(quotes, i) \in Nat
  BY <1>2, <1>3 DEF Sound, Ask, Bid
<1>8. Distance(legs, c, d) = legs[d].strike - legs[c].strike /\ Distance(legs, b, a) = legs[b].strike - legs[a].strike
  BY <1>6, <1>7 DEF Distance, Larger
<1>9. /\ Intrinsic(spot, legs[a]) = Above(legs[a].strike - spot)
      /\ Intrinsic(spot, legs[b]) = Above(legs[b].strike - spot)
      /\ Intrinsic(spot, legs[c]) = Above(spot - legs[c].strike)
      /\ Intrinsic(spot, legs[d]) = Above(spot - legs[d].strike)
  BY <1>2 DEF Intrinsic
<1> DEFINE width == Larger(Distance(legs, b, a), Distance(legs, c, d))
           ends == Above(legs[a].strike - spot) - Above(legs[b].strike - spot)
                     - Above(spot - legs[c].strike) + Above(spot - legs[d].strike)
<1>10. width \in Int /\ ends \in Int /\ ends >= -width
  BY <1>6, <1>7, <1>8 DEF Above, Larger
<1>11. Pnl(spot, Priced(legs, quotes)) =
         ends + (Bid(quotes, c) - Ask(quotes, d)) + (Bid(quotes, b) - Ask(quotes, a))
  <2>1. /\ Above(legs[a].strike - spot) \in Int /\ Above(legs[b].strike - spot) \in Int
        /\ Above(spot - legs[c].strike) \in Int /\ Above(spot - legs[d].strike) \in Int
    BY <1>7 DEF Above
  <2>2. /\ Paid(legs, quotes, spot, a) = Above(legs[a].strike - spot) - Ask(quotes, a)
        /\ Received(legs, quotes, spot, b) = Bid(quotes, b) - Above(legs[b].strike - spot)
        /\ Received(legs, quotes, spot, c) = Bid(quotes, c) - Above(spot - legs[c].strike)
        /\ Paid(legs, quotes, spot, d) = Above(spot - legs[d].strike) - Ask(quotes, d)
    BY <1>9 DEF Paid, Received
  <2>3. QED
    BY <1>4, <1>7, <2>1, <2>2
<1> HIDE DEF width, ends
<1>12. QED
  BY <1>5, <1>7, <1>10, <1>11 DEF width

LEMMA CondorCovered ==
  ASSUME NEW legs, NEW quotes, Sound(legs, quotes), IsCondor(legs), CondorLoss(legs, quotes) # None
  PROVE  Covers(CondorLoss(legs, quotes), legs, quotes)
<1> DEFINE credit == WingCredit(legs, quotes, "CALL") + WingCredit(legs, quotes, "PUT")
           width == Larger(WingWidth(legs, "PUT"), WingWidth(legs, "CALL"))
<1>1. CondorLoss(legs, quotes) = width - credit /\ width - credit > 0
  BY DEF CondorLoss, IfPositive
<1>2. /\ Len(legs) = 4 /\ Options(legs) /\ OneEach(legs)
      /\ legs[Role(legs, "PUT", "BUY")].strike < legs[Role(legs, "PUT", "SELL")].strike
      /\ legs[Role(legs, "PUT", "SELL")].strike < legs[Role(legs, "CALL", "SELL")].strike
      /\ legs[Role(legs, "CALL", "SELL")].strike < legs[Role(legs, "CALL", "BUY")].strike
  BY DEF IsCondor
<1>3. legs[Role(legs, "PUT", "SELL")].strike \in Nat /\ legs[Role(legs, "CALL", "SELL")].strike \in Nat
  BY <1>2, FourRoles DEF Sound, OptionKinds, Sides
<1>4. legs[Role(legs, "PUT", "SELL")].strike <= legs[Role(legs, "CALL", "SELL")].strike
  BY <1>2, <1>3
<1>5. \A spot \in Int : /\ credit \in Int /\ width \in Int
                        /\ Pnl(spot, Priced(legs, quotes)) \in Int
                        /\ Pnl(spot, Priced(legs, quotes)) >= credit - width
  BY <1>2, <1>4, WingsEnd
<1> HIDE DEF credit, width
<1>6. QED
  BY <1>1, <1>5 DEF Covers

LEMMA IronButterflyCovered ==
  ASSUME NEW legs, NEW quotes, Sound(legs, quotes), IsIronButterfly(legs), IronButterflyLoss(legs, quotes) # None
  PROVE  Covers(IronButterflyLoss(legs, quotes), legs, quotes)
<1> DEFINE credit == WingCredit(legs, quotes, "CALL") + WingCredit(legs, quotes, "PUT")
           width == Larger(WingWidth(legs, "PUT"), WingWidth(legs, "CALL"))
<1>1. IronButterflyLoss(legs, quotes) = width - credit /\ width - credit > 0
  BY DEF IronButterflyLoss, IfPositive
<1>2. /\ Len(legs) = 4 /\ Options(legs) /\ OneEach(legs)
      /\ legs[Role(legs, "PUT", "BUY")].strike < legs[Role(legs, "PUT", "SELL")].strike
      /\ legs[Role(legs, "PUT", "SELL")].strike = legs[Role(legs, "CALL", "SELL")].strike
      /\ legs[Role(legs, "CALL", "SELL")].strike < legs[Role(legs, "CALL", "BUY")].strike
  BY DEF IsIronButterfly
<1>3. legs[Role(legs, "PUT", "SELL")].strike \in Nat /\ legs[Role(legs, "CALL", "SELL")].strike \in Nat
  BY <1>2, FourRoles DEF Sound, OptionKinds, Sides
<1>4. legs[Role(legs, "PUT", "SELL")].strike <= legs[Role(legs, "CALL", "SELL")].strike
  BY <1>2, <1>3
<1>5. \A spot \in Int : /\ credit \in Int /\ width \in Int
                        /\ Pnl(spot, Priced(legs, quotes)) \in Int
                        /\ Pnl(spot, Priced(legs, quotes)) >= credit - width
  BY <1>2, <1>4, WingsEnd
<1> HIDE DEF credit, width
<1>6. QED
  BY <1>1, <1>5 DEF Covers

\* A butterfly: one body between two wings.
LEMMA ButterflyLegs ==
  ASSUME NEW legs, NEW quotes, Sound(legs, quotes), IsLongButterfly(legs)
  PROVE  LET low == Wings(legs)[1]
             high == Wings(legs)[2]
             body == One(Sold(legs))
         IN  /\ low \in 1..3 /\ high \in 1..3 /\ body \in 1..3
             /\ low # high /\ low # body /\ high # body
             /\ legs[low].side = "BUY" /\ legs[high].side = "BUY" /\ legs[body].side = "SELL"
             /\ Len(legs) = 3 /\ DOMAIN legs = 1..3
<1> DEFINE low == Wings(legs)[1]
           high == Wings(legs)[2]
           body == One(Sold(legs))
           bought == Bought(legs)
<1>1. Len(legs) = 3 /\ DOMAIN legs = 1..3
  BY DEF IsLongButterfly, Sound
<1>2. IsFiniteSet(1..3) /\ Cardinality(1..3) = 3
  <2>1. IsFiniteSet(1..3) /\ Cardinality(1..3) = IF 1 > 3 THEN 0 ELSE 3 - 1 + 1
    BY FS_Interval, 1 \in Int, 3 \in Int
  <2>2. QED
    BY <2>1
<1>3. Cardinality(bought) = 2 /\ IsFiniteSet(bought) /\ bought \subseteq 1..3
  BY <1>1, LegSets DEF IsLongButterfly
<1>4. bought # {} /\ bought # 1..3
  BY <1>2, <1>3, FS_EmptySet
<1>5. Sold(legs) # {}
  BY <1>1, <1>3, <1>4, LegSets
<1>6. body \in Sold(legs)
  BY <1>5, LegSets, OneIn
<1>7. \A i \in bought : legs[i].strike \in Nat
  BY <1>1, <1>3 DEF Sound
<1>8. low \in bought /\ high \in bought
  <2>1. \E i \in bought : \A j \in bought : legs[i].strike <= legs[j].strike
    <3>1. PICK i \in bought : TRUE
      BY <1>4
    <3>2. bought \subseteq {1, 2, 3}
      BY <1>3
    <3>3. QED
      BY <1>7, <3>1, <3>2
  <2>2. \E i \in bought : \A j \in bought : legs[i].strike >= legs[j].strike
    <3>1. PICK i \in bought : TRUE
      BY <1>4
    <3>2. bought \subseteq {1, 2, 3}
      BY <1>3
    <3>3. QED
      BY <1>7, <3>1, <3>2
  <2>3. low = CHOOSE i \in bought : \A j \in bought : legs[i].strike <= legs[j].strike
    BY DEF Wings
  <2>4. high = CHOOSE i \in bought : \A j \in bought : legs[i].strike >= legs[j].strike
    BY DEF Wings
  <2>5. QED
    BY <2>1, <2>2, <2>3, <2>4
<1>9. legs[low].strike < legs[body].strike /\ legs[body].strike < legs[high].strike
  BY DEF IsLongButterfly
<1> HIDE DEF low, high, body
<1>10. legs[low].side = "BUY" /\ legs[high].side = "BUY" /\ legs[body].side = "SELL"
  BY <1>6, <1>8 DEF Bought, Sold
<1>11. body \in 1..3 /\ legs[body].strike \in Nat
  BY <1>1, <1>6 DEF Sold, Sound
<1>12. low # high
  BY <1>7, <1>8, <1>9, <1>11
<1>13. QED
  BY <1>1, <1>3, <1>8, <1>10, <1>11, <1>12 DEF low, high, body

LEMMA ButterflyCovered ==
  ASSUME NEW legs, NEW quotes, Sound(legs, quotes), IsLongButterfly(legs), ButterflyLoss(legs, quotes) # None
  PROVE  Covers(ButterflyLoss(legs, quotes), legs, quotes)
<1> DEFINE low == Wings(legs)[1]
           high == Wings(legs)[2]
           body == One(Sold(legs))
           net == Ask(quotes, low) + Ask(quotes, high) - 2 * Bid(quotes, body)
           w(spot, i) == Worth(legs, quotes, spot, i)
<1>1. /\ low \in 1..3 /\ high \in 1..3 /\ body \in 1..3
      /\ low # high /\ low # body /\ high # body
      /\ legs[low].side = "BUY" /\ legs[high].side = "BUY" /\ legs[body].side = "SELL"
      /\ Len(legs) = 3 /\ DOMAIN legs = 1..3
  BY ButterflyLegs
<1>2. /\ legs[low].kind = legs[body].kind /\ legs[high].kind = legs[body].kind
      /\ legs[body].kind \in OptionKinds
  BY <1>1 DEF IsLongButterfly, Options
<1>3. legs[high].strike - legs[body].strike = legs[body].strike - legs[low].strike
  BY DEF IsLongButterfly
<1>4. legs[low].strike < legs[body].strike /\ legs[body].strike < legs[high].strike
  BY DEF IsLongButterfly
<1>5. ButterflyLoss(legs, quotes) = net /\ net > 0
  BY DEF ButterflyLoss, IfPositive
<1> HIDE DEF low, high, body
<1>6. \A i \in {low, high, body} : legs[i].strike \in Nat /\ Ask(quotes, i) \in Nat /\ Bid(quotes, i) \in Nat
  BY <1>1 DEF Sound, Ask, Bid
<1>7. ASSUME NEW spot \in Int
      PROVE  /\ Pnl(spot, Priced(legs, quotes)) \in Int
             /\ Pnl(spot, Priced(legs, quotes)) >= -net
  <2> DEFINE x(i) == Intrinsic(spot, legs[i])
  <2>1. x(low) \in Nat /\ x(high) \in Nat /\ x(body) \in Nat
    BY <1>1, LegInts
  <2>2. x(low) + x(high) - 2 * x(body) >= 0
    <3> DEFINE l == legs[low].strike
               m == legs[body].strike
               h == legs[high].strike
    <3>1. l \in Nat /\ m \in Nat /\ h \in Nat /\ l < m /\ m < h /\ h - m = m - l
      BY <1>3, <1>4, <1>6
    <3>2. CASE legs[body].kind = "CALL"
      <4>1. x(low) = Above(spot - l) /\ x(body) = Above(spot - m) /\ x(high) = Above(spot - h)
        BY <1>2, <3>2 DEF Intrinsic
      <4> HIDE DEF l, m, h, x
      <4>2. QED
        BY <3>1, <4>1 DEF Above
    <3>3. CASE legs[body].kind # "CALL"
      <4>1. x(low) = Above(l - spot) /\ x(body) = Above(m - spot) /\ x(high) = Above(h - spot)
        BY <1>2, <3>3 DEF Intrinsic
      <4> HIDE DEF l, m, h, x
      <4>2. QED
        BY <3>1, <4>1 DEF Above
    <3>4. QED
      BY <3>2, <3>3
  <2>3. Pnl(spot, Priced(legs, quotes)) = w(spot, 1) + w(spot, 2) + w(spot, 3)
    BY <1>1, PnlOfLegs
  <2>4. w(spot, 1) \in Int /\ w(spot, 2) \in Int /\ w(spot, 3) \in Int
    BY <1>1, PnlOfLegs
  <2>5. w(spot, low) = x(low) - Ask(quotes, low) /\ w(spot, high) = x(high) - Ask(quotes, high)
    BY <1>1, LegWorth DEF Paid
  <2>6. w(spot, body) = 2 * (Bid(quotes, body) - x(body))
    BY <1>1, LegWorth DEF Received
  <2> HIDE DEF x, w
  <2>7. w(spot, 1) + w(spot, 2) + w(spot, 3) = w(spot, low) + w(spot, high) + w(spot, body)
    BY <1>1, <2>4
  <2>8. QED
    BY <1>6, <2>1, <2>2, <2>3, <2>5, <2>6, <2>7
<1>8. net \in Int
  BY <1>6
<1>9. QED
  BY <1>5, <1>7, <1>8 DEF Covers

\* A straddle or a strangle: both legs are bought.
LEMMA VolatilityCovered ==
  ASSUME NEW legs, NEW quotes, Sound(legs, quotes), IsVolatility(legs), VolatilityLoss(legs, quotes) # None
  PROVE  Covers(VolatilityLoss(legs, quotes), legs, quotes)
<1>1. Len(legs) = 2 /\ DOMAIN legs = 1..2
  BY DEF IsVolatility, Sound
<1>2. legs[1].side = "BUY" /\ legs[2].side = "BUY"
  BY <1>1 DEF IsVolatility, Sold, Sound, Sides
<1>3. VolatilityLoss(legs, quotes) = Ask(quotes, 1) + Ask(quotes, 2)
  BY DEF VolatilityLoss, IfPositive
<1>4. ASSUME NEW spot \in Int
      PROVE  /\ Pnl(spot, Priced(legs, quotes)) \in Int
             /\ Pnl(spot, Priced(legs, quotes)) >= -(Ask(quotes, 1) + Ask(quotes, 2))
  <2>1. Pnl(spot, Priced(legs, quotes)) = Worth(legs, quotes, spot, 1) + Worth(legs, quotes, spot, 2)
    BY <1>1, PnlOfLegs
  <2>2. \A i \in 1..2 : /\ Intrinsic(spot, legs[i]) \in Nat /\ Ask(quotes, i) \in Nat
                        /\ Worth(legs, quotes, spot, i) = Intrinsic(spot, legs[i]) - Ask(quotes, i)
    <3> TAKE i \in 1..2
    <3>1. i \in DOMAIN legs /\ legs[i].side = "BUY"
      BY <1>1, <1>2
    <3>2. QED
      BY <3>1, LegInts, LegWorth DEF Paid
  <2>3. QED
    BY <2>1, <2>2
<1>5. Ask(quotes, 1) \in Nat /\ Ask(quotes, 2) \in Nat
  BY <1>1, LegInts, 0 \in Int
<1>6. QED
  BY <1>3, <1>4, <1>5 DEF Covers

LEMMA LongOptionCovered ==
  ASSUME NEW legs, NEW quotes, Sound(legs, quotes), Len(legs) = 1, legs[1].side = "BUY"
  PROVE  Covers(Ask(quotes, 1), legs, quotes)
<1>1. DOMAIN legs = 1..1
  BY DEF Sound
<1>2. ASSUME NEW spot \in Int
      PROVE  Pnl(spot, Priced(legs, quotes)) \in Int /\ Pnl(spot, Priced(legs, quotes)) >= -Ask(quotes, 1)
  <2>1. Pnl(spot, Priced(legs, quotes)) = Worth(legs, quotes, spot, 1)
    BY PnlOfLegs
  <2>2. /\ Intrinsic(spot, legs[1]) \in Nat /\ Ask(quotes, 1) \in Nat
        /\ Worth(legs, quotes, spot, 1) = Intrinsic(spot, legs[1]) - Ask(quotes, 1)
    BY <1>1, LegInts, LegWorth DEF Paid
  <2>3. QED
    BY <2>1, <2>2
<1>3. Ask(quotes, 1) \in Nat
  BY <1>1, LegInts, 0 \in Int
<1>4. QED
  BY <1>2, <1>3 DEF Covers

-----------------------------------------------------------------------------
\* What the engines return.

SoundLimits(limits) ==
  /\ limits.trade \in Nat /\ limits.daily \in Nat /\ limits.allocation \in Nat
  /\ limits.margin \in Nat /\ limits.premium \in Nat /\ limits.concentration \in Nat
  /\ limits.slots \in Nat /\ limits.headroom \in Nat

LEMMA DeltaLotsType == \A net \in Int, headroom \in Nat : DeltaLots(net, headroom) \in Nat
<1> TAKE net \in Int, headroom \in Nat
<1>1. CASE net = 0
  BY <1>1 DEF DeltaLots, NoBound
<1>2. CASE net # 0
  <2>1. Magnitude(net) \in Nat \ {0}
    BY <1>2 DEF Magnitude
  <2>2. headroom \div Magnitude(net) \in Nat
    BY <2>1
  <2>3. QED
    BY <1>2, <2>2 DEF DeltaLots, Larger
<1>3. QED
  BY <1>1, <1>2

LEMMA SlotsType ==
  ASSUME NEW limits, SoundLimits(limits), NEW terms \in SUBSET Nat
  PROVE  WithSlots(limits, terms) \in Nat
<1>1. terms \cup {limits.slots} \in SUBSET Nat
  BY DEF SoundLimits
<1>2. Smallest(terms \cup {limits.slots}) \in Nat
  BY <1>1, SmallestIn
<1>3. QED
  BY <1>2 DEF WithSlots

LEMMA TermsType ==
  ASSUME NEW limits, SoundLimits(limits), NEW loss \in Nat, NEW charges \in {Charges, Twice}
  PROVE  PremiumLots(limits, loss, charges) \in Nat /\ ConcentrationLots(limits, loss) \in Nat
<1>1. CostPerLot(loss, charges) \in Int /\ loss * LotSize \in Int
  BY CostIsMore, SizingAssumption
<1>2. limits.premium \in Int /\ limits.concentration \in Int
  BY DEF SoundLimits
<1>3. QED
  BY <1>1, <1>2, FloorLotsType DEF PremiumLots, ConcentrationLots

LEMMA KnownType ==
  ASSUME NEW legs, NEW quotes, Sound(legs, quotes)
  PROVE  /\ \A i \in DOMAIN legs : Known(quotes, i) \in Int
         /\ Sum([i \in DOMAIN quotes |-> Known(quotes, i)]) \in Int
<1>1. \A i \in DOMAIN quotes : Known(quotes, i) \in Int
  BY DEF Sound, Known
<1>2. DOMAIN quotes = DOMAIN legs
  BY DEF Sound
<1> DEFINE f == [i \in DOMAIN quotes |-> Known(quotes, i)]
<1>3. \A i : At(f, i) \in Int
  BY <1>1 DEF At
<1> HIDE DEF f
<1>4. Sum(f) \in Int
  BY <1>3 DEF Sum
<1>5. QED
  BY <1>1, <1>2, <1>4 DEF f

LEMMA LiquidityType ==
  ASSUME NEW legs, NEW quotes, Sound(legs, quotes)
  PROVE  LiquidityLots(legs, quotes) \in Nat
<1>1. CASE \E i \in DOMAIN legs : quotes[i].depth = None
  BY <1>1 DEF LiquidityLots, NoBound
<1>2. CASE ~ \E i \in DOMAIN legs : quotes[i].depth = None
  <2> DEFINE S == {quotes[i].depth \div legs[i].ratio : i \in DOMAIN legs}
  <2>1. \A i \in DOMAIN legs : quotes[i].depth \in Nat /\ legs[i].ratio \in Nat \ {0}
    BY <1>2 DEF Sound
  <2>2. ASSUME NEW i \in DOMAIN legs PROVE quotes[i].depth \div legs[i].ratio \in Nat
    BY <2>1
  <2>3. 1 \in DOMAIN legs
    BY DEF Sound
  <2>4. S \in SUBSET Nat /\ S # {}
    BY <2>2, <2>3
  <2> HIDE DEF S
  <2>5. Smallest(S) \in Nat
    BY <2>4, SmallestIn
  <2>6. LiquidityLots(legs, quotes) = Smallest(S) \div LotSize
    BY <1>2 DEF LiquidityLots, S
  <2>7. QED
    BY <2>5, <2>6, SizingAssumption
<1>3. QED
  BY <1>1, <1>2

\* A sizing has whole lots at a cost.
LEMMA SizedByType ==
  ASSUME NEW legs, NEW quotes, Sound(legs, quotes), NEW limits, SoundLimits(limits),
         NEW preview \in Nat, NEW cost \in Nat, NEW portfolio \in Nat, NEW asked
  PROVE  LET s == SizedBy(asked, cost, Bounds(legs, quotes, cost, portfolio, limits, preview), preview)
         IN  s.lots \in Nat /\ s.cost = cost /\ s.margin \in Nat
<1> DEFINE bounds == Bounds(legs, quotes, cost, portfolio, limits, preview)
<1>1. FloorLots(limits.trade, cost) \in Nat /\ FloorLots(limits.margin, preview) \in Nat
  <2>1. limits.trade \in Int /\ limits.margin \in Int /\ cost \in Int /\ preview \in Int
    BY DEF SoundLimits
  <2>2. QED
    BY <2>1, FloorLotsType
<1>2. FloorLots(Smallest({limits.allocation, limits.margin, limits.daily}), cost) \in Nat
  <2>1. {limits.allocation, limits.margin, limits.daily} \in SUBSET Nat
    BY DEF SoundLimits
  <2>2. Smallest({limits.allocation, limits.margin, limits.daily}) \in Nat
    BY <2>1, SmallestIn
  <2>3. Smallest({limits.allocation, limits.margin, limits.daily}) \in Int /\ cost \in Int
    BY <2>2
  <2>4. QED
    BY <2>3, FloorLotsType, Zenon
<1>3. bounds \in [risk : Nat, capital : Nat, margin : Nat, portfolio : Nat, liquidity : Nat]
  BY <1>1, <1>2, LiquidityType DEF Bounds
<1> HIDE DEF bounds
<1>4. DOMAIN bounds = {"risk", "capital", "margin", "portfolio", "liquidity"}
  BY <1>3
<1>5. \A term \in DOMAIN bounds : bounds[term] \in Nat
  BY <1>3, <1>4
<1>6. {bounds[term] : term \in DOMAIN bounds} \in SUBSET Nat /\ {bounds[term] : term \in DOMAIN bounds} # {}
  BY <1>4, <1>5
<1>7. ApprovedLots(bounds) \in Nat
  BY <1>6, SmallestIn DEF ApprovedLots
<1>8. preview * ApprovedLots(bounds) \in Nat
  BY <1>7
<1>9. QED
  BY <1>7, <1>8 DEF SizedBy, bounds

\* What is reserved for a lot covers its loss, whatever the charges.
Reserves(cost, legs, quotes) ==
  \E loss \in Nat : Covers(loss, legs, quotes) /\ cost >= loss * LotSize + Charges

\* A sizing, and of options one that reserves enough.
Proper(s, structure, legs, quotes) ==
  /\ s.lots \in Nat /\ s.cost \in Nat /\ s.margin \in Nat
  /\ structure # "COMMODITY_FUTURE" => Reserves(s.cost, legs, quotes)

LEMMA EngineProper ==
  ASSUME NEW legs, NEW quotes, Sound(legs, quotes), NEW limits, SoundLimits(limits),
         NEW preview \in Nat, NEW loss \in Nat, NEW charges \in {Charges, Twice},
         NEW portfolio \in Nat, NEW asked, NEW structure,
         structure # "COMMODITY_FUTURE" => Covers(loss, legs, quotes)
  PROVE  Proper(SizedBy(asked, CostPerLot(loss, charges),
                        Bounds(legs, quotes, CostPerLot(loss, charges), portfolio, limits, preview),
                        preview),
                structure, legs, quotes)
<1> DEFINE cost == CostPerLot(loss, charges)
           s == SizedBy(asked, cost, Bounds(legs, quotes, cost, portfolio, limits, preview), preview)
<1>1. cost \in Nat /\ cost >= loss * LotSize + Charges
  BY CostIsMore
<1> HIDE DEF cost
<1>2. s.lots \in Nat /\ s.cost = cost /\ s.margin \in Nat
  BY <1>1, SizedByType
<1> HIDE DEF s
<1>3. structure # "COMMODITY_FUTURE" => Reserves(cost, legs, quotes)
  BY <1>1 DEF Reserves
<1>4. Proper(s, structure, legs, quotes)
  BY <1>1, <1>2, <1>3 DEF Proper
<1>5. QED
  BY <1>4 DEF s, cost

\* The charges that an engine counts for a lot.
LEMMA ChargesOnce == Charges \in {Charges, Twice} /\ Twice \in {Charges, Twice}
  OBVIOUS

LEMMA VerticalTerms ==
  ASSUME NEW legs, NEW quotes, Sound(legs, quotes), IsVertical(legs), NEW limits, SoundLimits(limits),
         NEW loss \in Nat
  PROVE  /\ DebitPortfolio(legs, quotes, loss, limits) \in Nat
         /\ CreditPortfolio(quotes, loss, limits) \in Nat
<1> DEFINE b == One(Bought(legs))
           s == One(Sold(legs))
<1>1. b \in DOMAIN legs /\ s \in DOMAIN legs /\ 1 \in DOMAIN legs /\ 2 \in DOMAIN legs
  BY VerticalLegs
<1>2. PremiumLots(limits, loss, Charges) \in Nat /\ ConcentrationLots(limits, loss) \in Nat
  BY TermsType, ChargesOnce
<1> HIDE DEF b, s
<1>3. /\ Known(quotes, b) - Known(quotes, s) \in Int /\ Known(quotes, 1) + Known(quotes, 2) \in Int
  <2>1. \A i \in {b, s, 1, 2} : Known(quotes, i) \in Int
    BY <1>1, KnownType
  <2>2. QED
    BY <2>1
<1>4. limits.headroom \in Nat /\ NoBound \in Nat
  BY DEF SoundLimits, NoBound
<1>5. /\ DeltaLots(Known(quotes, b) - Known(quotes, s), limits.headroom) \in Nat
      /\ DeltaLots(Known(quotes, 1) + Known(quotes, 2), limits.headroom) \in Nat
  BY <1>3, <1>4, DeltaLotsType
<1>6. DebitPortfolio(legs, quotes, loss, limits) \in Nat
  BY <1>2, <1>4, <1>5, SlotsType DEF DebitPortfolio, b, s
<1>7. CreditPortfolio(quotes, loss, limits) \in Nat
  BY <1>2, <1>4, <1>5, SlotsType DEF CreditPortfolio
<1>8. QED
  BY <1>6, <1>7

LEMMA BasketTerms ==
  ASSUME NEW legs, NEW quotes, Sound(legs, quotes), NEW limits, SoundLimits(limits), NEW loss \in Nat
  PROVE  /\ CondorPortfolio(quotes, loss, limits) \in Nat
         /\ IronButterflyPortfolio(loss, limits) \in Nat
         /\ ButterflyPortfolio(loss, limits) \in Nat
         /\ VolatilityPortfolio(loss, limits) \in Nat
         /\ LongOptionPortfolio(quotes, loss, limits) \in Nat
         /\ FuturePortfolio(quotes, loss, limits) \in Nat
<1>1. /\ PremiumLots(limits, loss, Charges) \in Nat /\ PremiumLots(limits, loss, Twice) \in Nat
      /\ ConcentrationLots(limits, loss) \in Nat
  BY TermsType, ChargesOnce
<1>2. 1 \in DOMAIN legs
  BY DEF Sound
<1>3. limits.headroom \in Nat
  BY DEF SoundLimits
<1>4. /\ Known(quotes, 1) \in Int /\ Sum([i \in DOMAIN quotes |-> Known(quotes, i)]) \in Int
  BY <1>2, KnownType
<1>5. /\ DeltaLots(Known(quotes, 1), limits.headroom) \in Nat
      /\ DeltaLots(Sum([i \in DOMAIN quotes |-> Known(quotes, i)]), limits.headroom) \in Nat
  BY <1>3, <1>4, DeltaLotsType
<1>6. CondorPortfolio(quotes, loss, limits) \in Nat
  BY <1>1, <1>5, SlotsType DEF CondorPortfolio
<1>7. /\ IronButterflyPortfolio(loss, limits) \in Nat /\ ButterflyPortfolio(loss, limits) \in Nat
      /\ VolatilityPortfolio(loss, limits) \in Nat
  BY <1>1, SlotsType DEF IronButterflyPortfolio, ButterflyPortfolio, VolatilityPortfolio
<1>8. LongOptionPortfolio(quotes, loss, limits) \in Nat /\ FuturePortfolio(quotes, loss, limits) \in Nat
  BY <1>1, <1>5, SlotsType DEF LongOptionPortfolio, FuturePortfolio
<1>9. QED
  BY <1>6, <1>7, <1>8

\* What a structure says of its legs.
LEMMA DetectedIs ==
  ASSUME NEW legs, Detected(legs) # None
  PROVE  /\ Detected(legs) \in Structures
         /\ Detected(legs) = "IRON_CONDOR" => IsCondor(legs)
         /\ Detected(legs) = "IRON_BUTTERFLY" => IsIronButterfly(legs)
         /\ Detected(legs) = "LONG_BUTTERFLY" => IsLongButterfly(legs)
         /\ Detected(legs) \in {"LONG_STRADDLE", "LONG_STRANGLE"} => IsVolatility(legs)
         /\ Detected(legs) = "DEBIT_SPREAD" => IsDebitSpread(legs)
         /\ Detected(legs) = "CREDIT_SPREAD" => IsCreditSpread(legs)
         /\ Detected(legs) = "COMMODITY_FUTURE" => Len(legs) = 1 /\ legs[1].kind = "FUTURE"
         /\ Detected(legs) = "LONG_OPTION" =>
              Len(legs) = 1 /\ legs[1].kind \in OptionKinds /\ legs[1].side = "BUY"
<1>1. IsStraddle(legs) => IsVolatility(legs)
  BY DEF IsStraddle
<1>2. IsStrangle(legs) => IsVolatility(legs)
  BY DEF IsStrangle
<1>3. QED
  BY <1>1, <1>2 DEF Detected, Structures

LEMMA SizedProper ==
  ASSUME NEW legs, NEW quotes, Sound(legs, quotes), NEW limits, SoundLimits(limits),
         NEW preview \in Nat, NEW stop \in Nat, Detected(legs) # None,
         Sized(Detected(legs), legs, quotes, stop, limits, preview) # None
  PROVE  Proper(Sized(Detected(legs), legs, quotes, stop, limits, preview), Detected(legs), legs, quotes)
<1> DEFINE structure == Detected(legs)
           sized == Sized(structure, legs, quotes, stop, limits, preview)
<1>0. /\ structure \in Structures
      /\ structure = "IRON_CONDOR" => IsCondor(legs)
      /\ structure = "IRON_BUTTERFLY" => IsIronButterfly(legs)
      /\ structure = "LONG_BUTTERFLY" => IsLongButterfly(legs)
      /\ structure \in {"LONG_STRADDLE", "LONG_STRANGLE"} => IsVolatility(legs)
      /\ structure = "DEBIT_SPREAD" => IsDebitSpread(legs)
      /\ structure = "CREDIT_SPREAD" => IsCreditSpread(legs)
      /\ structure = "COMMODITY_FUTURE" => Len(legs) = 1 /\ legs[1].kind = "FUTURE"
      /\ structure = "LONG_OPTION" => Len(legs) = 1 /\ legs[1].kind \in OptionKinds /\ legs[1].side = "BUY"
  BY DetectedIs
<1>00. sized # None
  OBVIOUS
<1> HIDE DEF structure
<1>1. CASE structure = "DEBIT_SPREAD"
  <2> DEFINE loss == DebitLoss(legs, quotes)
  <2>1. sized = SizeDebit(legs, quotes, limits, preview)
    BY <1>1 DEF Sized, SpreadSized
  <2>2. loss # None
    BY <1>00, <2>1 DEF SizeDebit
  <2>3. Covers(loss, legs, quotes) /\ IsVertical(legs)
    BY <1>0, <1>1, <2>2, DebitCovered DEF IsDebitSpread
  <2>4. loss \in Nat
    BY <2>3 DEF Covers
  <2>5. DebitPortfolio(legs, quotes, loss, limits) \in Nat
    BY <2>3, <2>4, VerticalTerms
  <2>6. sized = SizedBy(DebitAsked(legs), CostPerLot(loss, Charges),
                        Bounds(legs, quotes, CostPerLot(loss, Charges),
                               DebitPortfolio(legs, quotes, loss, limits), limits, preview), preview)
    BY <2>1, <2>2 DEF SizeDebit
  <2> HIDE DEF loss, sized
  <2>7. QED
    BY <2>3, <2>4, <2>5, <2>6, EngineProper, ChargesOnce DEF structure, sized
<1>2. CASE structure = "CREDIT_SPREAD"
  <2> DEFINE loss == CreditLoss(legs, quotes)
  <2>1. sized = SizeCredit(legs, quotes, limits, preview)
    BY <1>2 DEF Sized, SpreadSized
  <2>2. loss # None
    BY <1>00, <2>1 DEF SizeCredit
  <2>3. Covers(loss, legs, quotes) /\ IsVertical(legs)
    BY <1>0, <1>2, <2>2, CreditCovered DEF IsCreditSpread
  <2>4. loss \in Nat
    BY <2>3 DEF Covers
  <2>5. CreditPortfolio(quotes, loss, limits) \in Nat
    BY <2>3, <2>4, VerticalTerms
  <2>6. sized = SizedBy(CreditAsked(legs), CostPerLot(loss, Charges),
                        Bounds(legs, quotes, CostPerLot(loss, Charges),
                               CreditPortfolio(quotes, loss, limits), limits, preview), preview)
    BY <2>1, <2>2 DEF SizeCredit
  <2> HIDE DEF loss, sized
  <2>7. QED
    BY <2>3, <2>4, <2>5, <2>6, EngineProper, ChargesOnce DEF structure, sized
<1>3. CASE structure = "IRON_CONDOR"
  <2> DEFINE loss == CondorLoss(legs, quotes)
  <2>1. sized = SizeCondor(legs, quotes, limits, preview)
    BY <1>3 DEF Sized, SpreadSized
  <2>2. loss # None
    BY <1>00, <2>1 DEF SizeCondor
  <2>3. Covers(loss, legs, quotes)
    BY <1>0, <1>3, <2>2, CondorCovered
  <2>4. loss \in Nat
    BY <2>3 DEF Covers
  <2>5. CondorPortfolio(quotes, loss, limits) \in Nat
    BY <2>4, BasketTerms
  <2>6. sized = SizedBy(CondorAsked(legs), CostPerLot(loss, Twice),
                        Bounds(legs, quotes, CostPerLot(loss, Twice),
                               CondorPortfolio(quotes, loss, limits), limits, preview), preview)
    BY <2>1, <2>2 DEF SizeCondor
  <2> HIDE DEF loss, sized
  <2>7. QED
    BY <2>3, <2>4, <2>5, <2>6, EngineProper, ChargesOnce DEF structure, sized
<1>4. CASE structure = "IRON_BUTTERFLY"
  <2> DEFINE loss == IronButterflyLoss(legs, quotes)
  <2>1. sized = SizeIronButterfly(legs, quotes, limits, preview)
    BY <1>4 DEF Sized, BasketSized
  <2>2. loss # None
    BY <1>00, <2>1 DEF SizeIronButterfly
  <2>3. Covers(loss, legs, quotes)
    BY <1>0, <1>4, <2>2, IronButterflyCovered
  <2>4. loss \in Nat
    BY <2>3 DEF Covers
  <2>5. IronButterflyPortfolio(loss, limits) \in Nat
    BY <2>4, BasketTerms
  <2>6. sized = SizedBy(IronButterflyAsked(legs), CostPerLot(loss, Twice),
                        Bounds(legs, quotes, CostPerLot(loss, Twice),
                               IronButterflyPortfolio(loss, limits), limits, preview), preview)
    BY <2>1, <2>2 DEF SizeIronButterfly
  <2> HIDE DEF loss, sized
  <2>7. QED
    BY <2>3, <2>4, <2>5, <2>6, EngineProper, ChargesOnce DEF structure, sized
<1>5. CASE structure = "LONG_BUTTERFLY"
  <2> DEFINE loss == ButterflyLoss(legs, quotes)
  <2>1. sized = SizeButterfly(legs, quotes, limits, preview)
    BY <1>5 DEF Sized, BasketSized
  <2>2. loss # None
    BY <1>00, <2>1 DEF SizeButterfly
  <2>3. Covers(loss, legs, quotes)
    BY <1>0, <1>5, <2>2, ButterflyCovered
  <2>4. loss \in Nat
    BY <2>3 DEF Covers
  <2>5. ButterflyPortfolio(loss, limits) \in Nat
    BY <2>4, BasketTerms
  <2>6. sized = SizedBy(ButterflyAsked(legs), CostPerLot(loss, Twice),
                        Bounds(legs, quotes, CostPerLot(loss, Twice),
                               ButterflyPortfolio(loss, limits), limits, preview), preview)
    BY <2>1, <2>2 DEF SizeButterfly
  <2> HIDE DEF loss, sized
  <2>7. QED
    BY <2>3, <2>4, <2>5, <2>6, EngineProper, ChargesOnce DEF structure, sized
<1>6. CASE structure \in {"LONG_STRADDLE", "LONG_STRANGLE"}
  <2> DEFINE loss == VolatilityLoss(legs, quotes)
  <2>1. sized = SizeVolatility(legs, quotes, limits, preview)
    BY <1>6 DEF Sized, BasketSized
  <2>2. loss # None
    BY <1>00, <2>1 DEF SizeVolatility
  <2>3. Covers(loss, legs, quotes)
    BY <1>0, <1>6, <2>2, VolatilityCovered
  <2>4. loss \in Nat
    BY <2>3 DEF Covers
  <2>5. VolatilityPortfolio(loss, limits) \in Nat
    BY <2>4, BasketTerms
  <2>6. sized = SizedBy(VolatilityAsked(legs), CostPerLot(loss, Twice),
                        Bounds(legs, quotes, CostPerLot(loss, Twice),
                               VolatilityPortfolio(loss, limits), limits, preview), preview)
    BY <2>1, <2>2 DEF SizeVolatility
  <2> HIDE DEF loss, sized
  <2>7. QED
    BY <2>3, <2>4, <2>5, <2>6, EngineProper, ChargesOnce DEF structure, sized
<1>7. CASE structure = "COMMODITY_FUTURE"
  <2>1. sized = SizedBy(SingleAsked, CostPerLot(stop, Charges),
                        Bounds(legs, quotes, CostPerLot(stop, Charges),
                               FuturePortfolio(quotes, stop, limits), limits, preview), preview)
    BY <1>7 DEF Sized, SizeFuture
  <2>2. FuturePortfolio(quotes, stop, limits) \in Nat
    BY BasketTerms
  <2> HIDE DEF sized
  <2>3. QED
    BY <1>7, <2>1, <2>2, EngineProper, ChargesOnce DEF structure, sized
<1>8. CASE structure = "LONG_OPTION"
  <2> DEFINE loss == Ask(quotes, 1)
  <2>1. sized = SizedBy(SingleAsked, CostPerLot(loss, Charges),
                        Bounds(legs, quotes, CostPerLot(loss, Charges),
                               LongOptionPortfolio(quotes, loss, limits), limits, preview), preview)
    BY <1>8 DEF Sized, SizeLongOption
  <2>2. Covers(loss, legs, quotes)
    BY <1>0, <1>8, LongOptionCovered
  <2>3. loss \in Nat
    BY <2>2 DEF Covers
  <2>4. LongOptionPortfolio(quotes, loss, limits) \in Nat
    BY <2>3, BasketTerms
  <2> HIDE DEF loss, sized
  <2>5. QED
    BY <2>1, <2>2, <2>3, <2>4, EngineProper, ChargesOnce DEF structure, sized
<1>9. QED
  BY <1>0, <1>1, <1>2, <1>3, <1>4, <1>5, <1>6, <1>7, <1>8 DEF Structures, structure

-----------------------------------------------------------------------------
\* What the gateway decides.

\* The books of the mode are amounts.
BooksType ==
  /\ account \in Accounts /\ held \in Int /\ spent \in Int
  /\ snap.positions \in Nat /\ snap.margin \in Int

LEMMA AccountType ==
  ASSUME BooksType
  PROVE  account \in [profile : {"STRICT", "DISCOVERY"}, capital : Nat, trade : Nat, daily : Nat,
                      open : Nat, global : Nat, premium : Nat, concentration : Nat, slots : Nat,
                      headroom : Nat, broker : Nat, guide : Nat, bug : Nat]
  BY AccountsAssumption DEF BooksType

LEMMA LimitsSound ==
  ASSUME BooksType
  PROVE  SoundLimits(Limits) /\ Available \in Nat
<1>1. Available \in Nat
  BY AccountType DEF Available, Above, BooksType
<1>2. Above(account.slots - snap.positions) \in Nat
  BY AccountType DEF Above, BooksType
<1>3. QED
  BY <1>1, <1>2, AccountType DEF SoundLimits, Limits

\* Lots within each of the limits of DISCOVERY, or one.
LEMMA DiscoveryLotsFit ==
  ASSUME BooksType, NEW cost \in Nat, NEW preview \in Nat
  PROVE  LET lots == DiscoveryLots(cost, preview) IN
         /\ lots \in Nat \ {0} /\ lots <= MaxLots
         /\ lots > 1 => /\ cost * lots <= account.guide
                        /\ held + cost * lots <= account.open
                        /\ spent + MarginRequired(lots, cost, preview) <= snap.margin
<1> DEFINE guided == GuideLots(cost, preview)
           capped == CapLots(guided, cost)
           margined == MarginLots(capped, preview)
           lots == DiscoveryLots(cost, preview)
<1> USE AccountType, GatewayAssumption DEF BooksType
<1>a. /\ account.guide \in Nat /\ account.open \in Nat /\ account.bug \in Nat /\ Larger(cost, preview) \in Nat
      /\ account.guide \in Int /\ Larger(cost, preview) \in Int /\ cost \in Int /\ preview \in Int
  BY DEF Larger
<1>b. Remaining \in Int /\ FreeMargin \in Nat /\ FreeMargin \in Int
  BY DEF Remaining, FreeMargin, Above
<1>c. \A x, y \in Nat \ {0} : /\ Smallest({x, y}) \in Nat \ {0} /\ Smallest({x, y}) <= x /\ Smallest({x, y}) <= y
  <2> TAKE x, y \in Nat \ {0}
  <2>1. {x, y} \in SUBSET Nat /\ {x, y} # {}
    OBVIOUS
  <2>2. QED
    BY <2>1, SmallestIn
<1>1. guided \in Nat \ {0} /\ (guided > 1 => guided = FloorLots(account.guide, Larger(cost, preview)))
  <2>1. FloorLots(account.guide, Larger(cost, preview)) \in Nat
    BY <1>a, FloorLotsType
  <2>2. QED
    BY <2>1 DEF GuideLots, Larger
<1> HIDE DEF guided
<1>2. /\ capped \in Nat \ {0} /\ capped <= guided
      /\ capped > 1 => Remaining > 0 /\ capped <= FloorLots(Remaining, cost)
  <2>1. FloorLots(Remaining, cost) \in Nat
    BY <1>a, <1>b, FloorLotsType
  <2>2. Larger(1, FloorLots(Remaining, cost)) \in Nat \ {0}
    BY <2>1 DEF Larger
  <2>3. CASE cost > account.bug \/ Remaining <= 0
    BY <1>1, <2>3 DEF CapLots
  <2>4. CASE ~(cost > account.bug \/ Remaining <= 0)
    <3>1. capped = Smallest({guided, Larger(1, FloorLots(Remaining, cost))})
      BY <2>4 DEF CapLots
    <3>2. capped \in Nat \ {0} /\ capped <= guided /\ capped <= Larger(1, FloorLots(Remaining, cost))
      BY <1>1, <1>c, <2>2, <3>1
    <3>3. QED
      BY <1>b, <2>1, <2>4, <3>2 DEF Larger
  <2>5. QED
    BY <2>3, <2>4
<1> HIDE DEF capped
<1>3. /\ margined \in Nat \ {0} /\ margined <= capped
      /\ margined > 1 => preview # 0 /\ margined <= FloorLots(FreeMargin, preview)
  <2>1. FloorLots(FreeMargin, preview) \in Nat
    BY <1>a, <1>b, FloorLotsType
  <2>2. Larger(1, FloorLots(FreeMargin, preview)) \in Nat \ {0}
    BY <2>1 DEF Larger
  <2>3. CASE preview = 0
    BY <1>2, <2>3 DEF MarginLots
  <2>4. CASE preview # 0
    <3>1. margined = Smallest({capped, Larger(1, FloorLots(FreeMargin, preview))})
      BY <2>4 DEF MarginLots
    <3>2. margined \in Nat \ {0} /\ margined <= capped /\ margined <= Larger(1, FloorLots(FreeMargin, preview))
      BY <1>2, <1>c, <2>2, <3>1
    <3>3. QED
      BY <2>1, <2>4, <3>2 DEF Larger
  <2>5. QED
    BY <2>3, <2>4
<1>4. lots = Smallest({margined, MaxLots})
  BY DEF DiscoveryLots, margined, capped, guided
<1> HIDE DEF margined
<1>5. lots \in Nat \ {0} /\ lots <= MaxLots /\ lots <= margined
  BY <1>3, <1>4, <1>c
<1> HIDE DEF lots
<1>6. ASSUME lots > 1
      PROVE  /\ cost * lots <= account.guide
             /\ held + cost * lots <= account.open
             /\ spent + MarginRequired(lots, cost, preview) <= snap.margin
  <2>1. /\ lots <= FloorLots(account.guide, Larger(cost, preview)) /\ Remaining > 0
        /\ lots <= FloorLots(Remaining, cost) /\ preview # 0 /\ lots <= FloorLots(FreeMargin, preview)
    <3>1. /\ FloorLots(account.guide, Larger(cost, preview)) \in Nat /\ FloorLots(Remaining, cost) \in Nat
          /\ FloorLots(FreeMargin, preview) \in Nat
      BY <1>a, <1>b, FloorLotsType
    <3>2. margined > 1 /\ capped > 1 /\ guided > 1
      BY <1>1, <1>2, <1>3, <1>5, <1>6
    <3>3. QED
      BY <1>1, <1>2, <1>3, <1>5, <3>1, <3>2
  <2>2. Larger(cost, preview) * lots <= account.guide
    BY <1>5, <1>a, <2>1, FloorLotsPays
  <2>3. cost * lots <= Larger(cost, preview) * lots
    <3>1. cost <= Larger(cost, preview)
      BY DEF Larger
    <3>2. (Larger(cost, preview) - cost) * lots >= 0
      BY <1>5, <1>a, <3>1
    <3>3. Larger(cost, preview) * lots - cost * lots >= 0
      BY <1>5, <1>a, <3>2
    <3>4. Larger(cost, preview) * lots \in Int /\ cost * lots \in Int
      BY <1>5, <1>a
    <3>5. QED
      BY <3>3, <3>4
  <2>4. cost * lots <= Remaining
    BY <1>5, <1>b, <2>1, FloorLotsPays
  <2>5. preview * lots <= FreeMargin /\ FreeMargin > 0
    <3>1. preview * lots <= FreeMargin
      BY <1>5, <1>b, <2>1, FloorLotsPays
    <3>2. FloorLots(FreeMargin, preview) # 0
      BY <1>5, <1>b, <1>6, <2>1, FloorLotsType
    <3>3. QED
      BY <1>b, <3>1, <3>2 DEF FloorLots
  <2>6. cost * lots \in Nat /\ preview * lots \in Nat /\ Larger(cost, preview) * lots \in Nat
    BY <1>5, <1>a
  <2>7. MarginRequired(lots, cost, preview) = preview * lots
    BY <2>1 DEF MarginRequired
  <2>8. FreeMargin = snap.margin - spent
    BY <2>5 DEF FreeMargin, Above
  <2>9. QED
    BY <1>a, <2>2, <2>3, <2>4, <2>5, <2>6, <2>7, <2>8 DEF Remaining
<1>7. QED
  BY <1>5, <1>6 DEF lots

\* An approval of an offer is of its structure and its lots.
ApprovalOf(d, o) ==
  /\ Detected(o.legs) # None /\ d.structure = Detected(o.legs)
  /\ d.order = ApprovedLegs(d.structure, o.legs)
  /\ d.lots \in Nat \ {0} /\ d.cost \in Nat /\ d.loss = d.cost * d.lots
  /\ d.structure # "COMMODITY_FUTURE" => Reserves(d.cost, o.legs, o.quotes)

\* It fits the books: h is what is held with it, m what the cycle has spent with it.
FitsBooks(d, h, m) ==
  IF Discovery
    THEN d.lots > 1 => /\ d.loss <= account.guide /\ h <= account.open
                       /\ m <= snap.margin /\ d.lots <= MaxLots
    ELSE d.loss <= account.trade /\ d.loss <= account.daily

HeldFits(h) == ~Discovery => h <= account.open /\ h <= account.global /\ h <= account.capital

LEMMA RequestSound ==
  ASSUME NEW r \in Requests
  PROVE  /\ Sound(r.offer.legs, r.offer.quotes) /\ r.offer.stop \in Nat /\ r.preview \in Nat
         /\ r.offer # NoOffer
<1>1. Sound(r.offer.legs, r.offer.quotes) /\ r.offer.stop \in Nat /\ r.preview \in Nat
  BY RequestsAssumption DEF Sound
<1>2. r.offer.legs # <<>>
  BY <1>1 DEF Sound
<1>3. QED
  BY <1>1, <1>2 DEF NoOffer

LEMMA RejectedIs ==
  \A reason : /\ Rejected(reason).action = "REJECT" /\ Rejected(reason).loss = 0
              /\ Rejected(reason).margin = 0
  BY DEF Rejected

\* The whole decision on an offer.
LEMMA JudgeKeeps ==
  ASSUME BooksType, HeldFits(held), NEW r \in Requests
  PROVE  LET d == Judge(r.offer, r.preview, r.flaws) IN
         /\ d.loss \in Nat /\ d.margin \in Nat /\ d.action \in {"APPROVE", "REJECT"}
         /\ HeldFits(held + d.loss)
         /\ d.action = "APPROVE" =>
              /\ ApprovalOf(d, r.offer)
              /\ FitsBooks(d, held + d.loss, IF Discovery THEN spent + d.margin ELSE spent)
<1> DEFINE o == r.offer
           structure == Detected(o.legs)
           verdict == Screen(structure, o.legs, r.flaws)
           sized == Sized(structure, o.legs, o.quotes, o.stop, Limits, r.preview)
           d == Judge(r.offer, r.preview, r.flaws)
           lots == IF Discovery THEN DiscoveryLots(sized.cost, r.preview) ELSE sized.lots
           loss == sized.cost * lots
           margin == IF Discovery THEN MarginRequired(lots, sized.cost, r.preview) ELSE sized.margin
           shadow == IF Discovery THEN Shadow(r.flaws, lots, sized.cost, r.preview) ELSE {}
           approved == Approved(structure, o.legs, lots, sized, margin, shadow)
           Good == /\ d.loss \in Nat /\ d.margin \in Nat /\ d.action \in {"APPROVE", "REJECT"}
                   /\ HeldFits(held + d.loss)
                   /\ d.action = "APPROVE" =>
                        /\ ApprovalOf(d, r.offer)
                        /\ FitsBooks(d, held + d.loss, IF Discovery THEN spent + d.margin ELSE spent)
<1>0. Sound(o.legs, o.quotes) /\ o.stop \in Nat /\ r.preview \in Nat
  BY RequestSound
<1>1. ASSUME NEW reason, d = Rejected(reason) PROVE Good
  <2>1. d.action = "REJECT" /\ d.loss = 0 /\ d.margin = 0
    BY <1>1, RejectedIs
  <2> HIDE DEF d
  <2>2. held + d.loss = held
    BY <2>1 DEF BooksType
  <2>3. QED
    BY <2>1, <2>2
<1>2. CASE verdict # "OK"
  <2>1. d = Rejected(verdict)
    BY <1>2 DEF Judge
  <2>2. QED
    BY <1>1, <2>1
<1>3. CASE verdict = "OK" /\ sized = None
  <2>1. d = Rejected("PRICE_UNAVAILABLE")
    BY <1>3 DEF Judge
  <2>2. QED
    BY <1>1, <2>1
<1>4. CASE verdict = "OK" /\ sized # None
  <2>1. structure # None
    <3>1. ASSUME structure = None PROVE FALSE
      <4> DEFINE gates == Gates(structure, o.legs, r.flaws)
                 failed == {i \in DOMAIN gates : gates[i][1]}
      <4>1. gates[6][1] /\ 6 \in DOMAIN gates /\ DOMAIN gates = 1..10
        <5>1. gates[6] = <<structure = None, "INSTRUMENT_UNKNOWN">> /\ DOMAIN gates = 1..10
          BY DEF Gates
        <5>2. gates[6][1] = (structure = None)
          BY <5>1
        <5> HIDE DEF gates
        <5>3. gates[6][1]
          BY <3>1, <5>2, Zenon
        <5>4. QED
          BY <5>1, <5>3
      <4>2. 6 \in failed
        BY <4>1
      <4>3. failed \in SUBSET Nat /\ failed # {}
        BY <4>1, <4>2
      <4>4. Least(failed) \in failed
        BY <4>3, SmallestIn DEF Least, Smallest
      <4>5. Least(failed) \in 1..10
        BY <4>1, <4>4
      <4>6. verdict = gates[Least(failed)][2]
        BY <4>3 DEF Screen
      <4>7. \A i \in 1..10 : gates[i][2] # "OK"
        BY DEF Gates
      <4>8. QED
        BY <1>4, <4>5, <4>6, <4>7
    <3>2. QED
      BY <3>1
  <2>2. Proper(sized, structure, o.legs, o.quotes)
    BY <1>0, <1>4, <2>1, SizedProper, LimitsSound
  <2>3. sized.lots \in Nat /\ sized.cost \in Nat /\ sized.margin \in Nat
    BY <2>2 DEF Proper
  <2>4. d = Decision(structure, o.legs, sized, r.preview, r.flaws)
    BY <1>4 DEF Judge
  <2>5. /\ d = Rejected("MIN_LOT_EXCEEDS_BUDGET") \/ d = Rejected("RISK_LIMIT_PORTFOLIO")
             \/ d = Rejected("DATA_GAP") \/ d = Rejected("CAPITAL_UNAVAILABLE") \/ d = approved
        /\ d = approved \/ d.action = "REJECT"
    BY <2>4, RejectedIs DEF Decision
  <2>6. CASE d # approved
    BY <1>1, <2>5, <2>6
  <2>7. ASSUME d = approved, lots # 0, Granted(loss), ~Discovery => Breached(loss) = {}
        PROVE  Good
    <3>1. /\ d.action = "APPROVE" /\ d.structure = structure /\ d.order = ApprovedLegs(structure, o.legs)
          /\ d.lots = lots /\ d.cost = sized.cost /\ d.loss = sized.cost * lots /\ d.margin = margin
      BY SMTT(30), <2>7 DEF Approved
    <3> HIDE DEF d, sized
    <3>2. lots \in Nat
      BY <1>0, <2>3, DiscoveryLotsFit
    <3>3. loss \in Nat
      BY <2>3, <3>2
    <3>4. margin \in Nat
      BY <1>0, <2>3, <3>2, <3>3 DEF MarginRequired
    <3>5. ApprovalOf(d, o)
      BY <2>1, <2>2, <2>3, <2>7, <3>1, <3>2 DEF ApprovalOf, Proper
    <3>6. HeldFits(held + loss) /\ FitsBooks(d, held + loss, IF Discovery THEN spent + margin ELSE spent)
      <4>1. CASE Discovery
        <5>1. lots = DiscoveryLots(sized.cost, r.preview) /\ margin = MarginRequired(lots, sized.cost, r.preview)
          BY <4>1
        <5> HIDE DEF lots, margin
        <5>2. /\ lots <= MaxLots
              /\ lots > 1 => /\ sized.cost * lots <= account.guide
                             /\ held + sized.cost * lots <= account.open
                             /\ spent + margin <= snap.margin
          BY <1>0, <2>3, <5>1, DiscoveryLotsFit
        <5>3. QED
          BY <3>1, <4>1, <5>2 DEF HeldFits, FitsBooks, loss
      <4>2. CASE ~Discovery
        <5> HIDE DEF lots, loss
        <5>1. Breached(loss) = {} /\ Granted(loss)
          BY <2>7, <4>2
        <5>2. ~(loss > Limits["trade"]) /\ ~(loss > Limits["daily"])
          BY <5>1 DEF Breached
        <5>3. ~(held + loss > account.open) /\ ~(held + loss > account.global)
          BY <5>1 DEF Breached
        <5>4. held + loss <= Available /\ loss <= Available
          BY <4>2, <5>1 DEF Granted
        <5>5. Limits["trade"] = account.trade /\ Limits["daily"] = account.daily
          BY DEF Limits
        <5>6. /\ account.trade \in Nat /\ account.daily \in Nat /\ account.open \in Nat
              /\ account.global \in Nat /\ account.capital \in Nat
          BY AccountType
        <5>7. held + loss <= account.capital
          BY <3>3, <5>4, <5>6 DEF Available, Above, BooksType
        <5>8. HeldFits(held + loss)
          BY <3>3, <5>3, <5>6, <5>7 DEF HeldFits, BooksType
        <5>9. d.loss <= account.trade /\ d.loss <= account.daily
          BY <3>1, <3>3, <5>2, <5>5, <5>6 DEF loss
        <5>10. QED
          BY <4>2, <5>8, <5>9 DEF FitsBooks
      <4>3. QED
        BY <4>1, <4>2
    <3>7. d.loss = loss /\ d.margin = margin /\ d.action = "APPROVE"
      BY <3>1
    <3> HIDE DEF loss, margin, lots
    <3>8. HeldFits(held + d.loss)
      BY <3>6, <3>7
    <3>9. FitsBooks(d, held + d.loss, IF Discovery THEN spent + d.margin ELSE spent)
      BY <3>6, <3>7
    <3>10. QED
      BY <3>3, <3>4, <3>5, <3>7, <3>8, <3>9
  <2>8. QED
    BY <1>1, <2>4, <2>6, <2>7 DEF Decision
<1>5. Good
  BY <1>2, <1>3, <1>4
<1>6. QED
  BY <1>5

-----------------------------------------------------------------------------
\* The order of the legs.

LegQty(legs, i, kind, side) == IF legs[i].kind = kind /\ legs[i].side = side THEN legs[i].ratio ELSE 0

\* What the first n orders of a plan buy, or sell, of a kind: qty of PrefixCovered.
Qty(legs, order, n, kind, side) == Sum([i \in 1..n |-> LegQty(legs, order[i], kind, side)])

PrefixesCovered(legs, order) ==
  \A n \in DOMAIN order, kind \in OptionKinds :
    Qty(legs, order, n, kind, "SELL") <= Qty(legs, order, n, kind, "BUY")

LEMMA QtyIs ==
  ASSUME NEW legs, NEW quotes, Sound(legs, quotes), NEW order, NEW kind, NEW side, NEW n \in 1..4,
         \A i \in 1..n : order[i] \in DOMAIN legs
  PROVE  LET q(i) == LegQty(legs, order[i], kind, side) IN
         /\ \A i \in 1..n : q(i) \in Nat
         /\ n = 1 => Qty(legs, order, n, kind, side) = q(1)
         /\ n = 2 => Qty(legs, order, n, kind, side) = q(1) + q(2)
         /\ n = 3 => Qty(legs, order, n, kind, side) = q(1) + q(2) + q(3)
         /\ n = 4 => Qty(legs, order, n, kind, side) = q(1) + q(2) + q(3) + q(4)
<1> DEFINE q(i) == LegQty(legs, order[i], kind, side)
           f == [i \in 1..n |-> q(i)]
<1>1. \A i \in 1..n : q(i) \in Nat
  BY DEF LegQty, Sound
<1>2. Qty(legs, order, n, kind, side) = Sum(f)
  BY DEF Qty
<1>3. DOMAIN f = 1..n /\ \A i \in 1..n : f[i] = q(i)
  OBVIOUS
<1> HIDE DEF f, q
<1>4. \A i \in 1..4 : At(f, i) = IF i <= n THEN q(i) ELSE 0
  BY <1>3 DEF At
<1>5. Sum(f) = At(f, 1) + At(f, 2) + At(f, 3) + At(f, 4)
  BY DEF Sum
<1>6. n = 1 => Sum(f) = q(1)
  BY <1>1, <1>4, <1>5
<1>7. n = 2 => Sum(f) = q(1) + q(2)
  BY <1>1, <1>4, <1>5
<1>8. n = 3 => Sum(f) = q(1) + q(2) + q(3)
  BY <1>1, <1>4, <1>5
<1>9. n = 4 => Sum(f) = q(1) + q(2) + q(3) + q(4)
  BY <1>1, <1>4, <1>5
<1>10. QED
  BY <1>1, <1>2, <1>6, <1>7, <1>8, <1>9 DEF q

\* A plan of bought legs, or of what is no option, covers itself.
LEMMA NothingSold ==
  ASSUME NEW legs, NEW quotes, Sound(legs, quotes), NEW order, NEW n \in 1..4,
         \A i \in 1..n : order[i] \in DOMAIN legs, NEW kind \in OptionKinds,
         \A i \in 1..n : legs[order[i]].side = "BUY" \/ legs[order[i]].kind = "FUTURE"
  PROVE  Qty(legs, order, n, kind, "SELL") <= Qty(legs, order, n, kind, "BUY")
<1>1. \A i \in 1..n : LegQty(legs, order[i], kind, "SELL") = 0 /\ LegQty(legs, order[i], kind, "BUY") \in Nat
  BY DEF LegQty, OptionKinds, Sound
<1>2. n \in {1, 2, 3, 4}
  OBVIOUS
<1>3. CASE n = 1
  BY <1>1, <1>3, QtyIs
<1>4. CASE n = 2
  BY <1>1, <1>4, QtyIs
<1>5. CASE n = 3
  BY <1>1, <1>5, QtyIs
<1>6. CASE n = 4
  BY <1>1, <1>6, QtyIs
<1>7. QED
  BY <1>2, <1>3, <1>4, <1>5, <1>6

\* What one leg adds: to its own side, in its own kind.
LEMMA LegAdds ==
  ASSUME NEW legs, NEW quotes, Sound(legs, quotes), NEW i \in DOMAIN legs, NEW kind \in OptionKinds
  PROVE  /\ legs[i].side = "BUY" =>
              /\ LegQty(legs, i, kind, "SELL") = 0
              /\ LegQty(legs, i, kind, "BUY") = IF legs[i].kind = kind THEN 1 ELSE 0
         /\ legs[i].side = "SELL" =>
              /\ LegQty(legs, i, kind, "BUY") = 0
              /\ LegQty(legs, i, kind, "SELL") =
                   IF legs[i].kind = kind THEN (IF Len(legs) = 3 THEN 2 ELSE 1) ELSE 0
  BY DEF LegQty, Sound

\* A vertical: the long leg first.
LEMMA VerticalOrder ==
  ASSUME NEW legs, NEW quotes, Sound(legs, quotes), IsVertical(legs), NEW order,
         order = <<One(Bought(legs)), One(Sold(legs))>>
  PROVE  PrefixesCovered(legs, order)
<1>1. /\ order[1] \in DOMAIN legs /\ order[2] \in DOMAIN legs /\ DOMAIN order = 1..2 /\ Len(legs) = 2
      /\ legs[order[1]].side = "BUY" /\ legs[order[2]].side = "SELL"
      /\ legs[order[1]].kind = legs[order[2]].kind
  BY VerticalLegs
<1> SUFFICES ASSUME NEW n \in 1..2, NEW kind \in OptionKinds
             PROVE  Qty(legs, order, n, kind, "SELL") <= Qty(legs, order, n, kind, "BUY")
  BY <1>1 DEF PrefixesCovered
<1>2. \A i \in 1..2 : order[i] \in DOMAIN legs
  BY <1>1
<1> DEFINE q(i, side) == LegQty(legs, order[i], kind, side)
<1>3. /\ q(1, "SELL") = 0 /\ q(2, "BUY") = 0
      /\ q(1, "BUY") \in Nat /\ q(2, "SELL") = q(1, "BUY")
  BY <1>1, LegAdds
<1>4. CASE n = 1
  <2>1. \A i \in 1..1 : order[i] \in DOMAIN legs
    BY <1>2
  <2>2. Qty(legs, order, n, kind, "SELL") = q(1, "SELL") /\ Qty(legs, order, n, kind, "BUY") = q(1, "BUY")
    BY <1>4, <2>1, QtyIs
  <2>3. QED
    BY <1>3, <2>2
<1>5. CASE n = 2
  <2>1. /\ Qty(legs, order, n, kind, "SELL") = q(1, "SELL") + q(2, "SELL")
        /\ Qty(legs, order, n, kind, "BUY") = q(1, "BUY") + q(2, "BUY")
    BY <1>2, <1>5, QtyIs
  <2>2. QED
    BY <1>3, <2>1
<1>6. QED
  BY <1>4, <1>5

\* Four roles: what the first orders sell, they have bought before, in each kind.
LEMMA FourOrder ==
  ASSUME NEW legs, NEW quotes, Sound(legs, quotes), Len(legs) = 4, Options(legs), OneEach(legs), NEW order,
         \/ order = <<Role(legs, "PUT", "BUY"), Role(legs, "PUT", "SELL"),
                      Role(legs, "CALL", "BUY"), Role(legs, "CALL", "SELL")>>
         \/ order = <<Role(legs, "PUT", "BUY"), Role(legs, "CALL", "BUY"),
                      Role(legs, "PUT", "SELL"), Role(legs, "CALL", "SELL")>>
  PROVE  PrefixesCovered(legs, order)
<1>1. DOMAIN legs = 1..4 /\ DOMAIN order = 1..4
  BY DEF Sound
<1> SUFFICES ASSUME NEW n \in 1..4, NEW kind \in OptionKinds
             PROVE  Qty(legs, order, n, kind, "SELL") <= Qty(legs, order, n, kind, "BUY")
  BY <1>1 DEF PrefixesCovered
<1> DEFINE role(k, side) == Role(legs, k, side)
           q(i, side) == LegQty(legs, order[i], kind, side)
<1>2. \A k \in OptionKinds, side \in Sides :
        role(k, side) \in DOMAIN legs /\ legs[role(k, side)].kind = k /\ legs[role(k, side)].side = side
  BY <1>1, FourRoles
<1>3. \A k \in OptionKinds :
        /\ LegQty(legs, role(k, "BUY"), kind, "SELL") = 0
        /\ LegQty(legs, role(k, "SELL"), kind, "BUY") = 0
        /\ LegQty(legs, role(k, "BUY"), kind, "BUY") = IF k = kind THEN 1 ELSE 0
        /\ LegQty(legs, role(k, "SELL"), kind, "SELL") = IF k = kind THEN 1 ELSE 0
  <2> TAKE k \in OptionKinds
  <2>1. role(k, "BUY") \in DOMAIN legs /\ role(k, "SELL") \in DOMAIN legs
    BY <1>2 DEF Sides
  <2>2. /\ legs[role(k, "BUY")].kind = k /\ legs[role(k, "BUY")].side = "BUY"
        /\ legs[role(k, "SELL")].kind = k /\ legs[role(k, "SELL")].side = "SELL"
    BY <1>2 DEF Sides
  <2> HIDE DEF role
  <2>3. QED
    BY <2>1, <2>2, LegAdds
<1>4. \A i \in 1..4 : order[i] \in DOMAIN legs
  BY <1>2 DEF Sides, OptionKinds
<1>5. q(1, "BUY") = (IF "PUT" = kind THEN 1 ELSE 0) /\ q(1, "SELL") = 0
  BY <1>3 DEF OptionKinds
<1>6. /\ q(4, "SELL") = (IF "CALL" = kind THEN 1 ELSE 0) /\ q(4, "BUY") = 0
  BY <1>3 DEF OptionKinds
<1>7. \/ /\ q(2, "SELL") = (IF "PUT" = kind THEN 1 ELSE 0) /\ q(2, "BUY") = 0
         /\ q(3, "BUY") = (IF "CALL" = kind THEN 1 ELSE 0) /\ q(3, "SELL") = 0
      \/ /\ q(2, "BUY") = (IF "CALL" = kind THEN 1 ELSE 0) /\ q(2, "SELL") = 0
         /\ q(3, "SELL") = (IF "PUT" = kind THEN 1 ELSE 0) /\ q(3, "BUY") = 0
  BY <1>3 DEF OptionKinds
<1> HIDE DEF q
<1>8. \A side \in Sides :
        /\ n = 1 => Qty(legs, order, n, kind, side) = q(1, side)
        /\ n = 2 => Qty(legs, order, n, kind, side) = q(1, side) + q(2, side)
        /\ n = 3 => Qty(legs, order, n, kind, side) = q(1, side) + q(2, side) + q(3, side)
        /\ n = 4 => Qty(legs, order, n, kind, side) = q(1, side) + q(2, side) + q(3, side) + q(4, side)
  <2> TAKE side \in Sides
  <2>1. \A i \in 1..n : order[i] \in DOMAIN legs
    BY <1>4
  <2>2. QED
    BY <2>1, QtyIs DEF q
<1>9. n \in {1, 2, 3, 4} /\ "BUY" \in Sides /\ "SELL" \in Sides
  BY DEF Sides
<1>10. QED
  BY <1>5, <1>6, <1>7, <1>8, <1>9

LEMMA Appended ==
  ASSUME NEW a \in Nat, NEW b \in Nat, NEW c \in Nat, NEW s, s = Append(<<a, b>>, c)
  PROVE  s[1] = a /\ s[2] = b /\ s[3] = c /\ DOMAIN s = 1..3
<1> DEFINE t == <<a, b>>
<1>1. t \in Seq(Nat) /\ Len(t) = 2 /\ t[1] = a /\ t[2] = b
  OBVIOUS
<1>2. s = Append(t, c)
  OBVIOUS
<1> HIDE DEF t
<1>3. Len(s) = 3 /\ s \in Seq(Nat)
  BY <1>1, <1>2
<1>4. s[1] = t[1] /\ s[2] = t[2] /\ s[3] = c
  BY <1>1, <1>2
<1>5. QED
  BY <1>1, <1>3, <1>4

\* A butterfly: both wings, then the body, of which two are sold.
LEMMA ButterflyOrder ==
  ASSUME NEW legs, NEW quotes, Sound(legs, quotes), IsLongButterfly(legs), NEW order,
         order[1] = Wings(legs)[1], order[2] = Wings(legs)[2], order[3] = One(Sold(legs)), DOMAIN order = 1..3
  PROVE  PrefixesCovered(legs, order)
<1> DEFINE low == Wings(legs)[1]
           high == Wings(legs)[2]
           body == One(Sold(legs))
<1>1. /\ low \in 1..3 /\ high \in 1..3 /\ body \in 1..3
      /\ legs[low].side = "BUY" /\ legs[high].side = "BUY" /\ legs[body].side = "SELL"
      /\ Len(legs) = 3 /\ DOMAIN legs = 1..3
  BY ButterflyLegs
<1>3. legs[low].kind = legs[body].kind /\ legs[high].kind = legs[body].kind
  BY <1>1 DEF IsLongButterfly
<1> HIDE DEF low, high, body
<1>4. order[1] = low /\ order[2] = high /\ order[3] = body /\ DOMAIN order = 1..3
  BY DEF low, high, body
<1> SUFFICES ASSUME NEW n \in 1..3, NEW kind \in OptionKinds
             PROVE  Qty(legs, order, n, kind, "SELL") <= Qty(legs, order, n, kind, "BUY")
  BY <1>4 DEF PrefixesCovered
<1> DEFINE bought(i) == LegQty(legs, order[i], kind, "BUY")
           sold(i) == LegQty(legs, order[i], kind, "SELL")
<1>5. low \in DOMAIN legs /\ high \in DOMAIN legs /\ body \in DOMAIN legs
  BY <1>1
<1>6. sold(1) = 0 /\ bought(1) = IF legs[body].kind = kind THEN 1 ELSE 0
  BY <1>1, <1>3, <1>4, <1>5, LegAdds
<1>7. sold(2) = 0 /\ bought(2) = IF legs[body].kind = kind THEN 1 ELSE 0
  BY <1>1, <1>3, <1>4, <1>5, LegAdds
<1>8. bought(3) = 0 /\ sold(3) = IF legs[body].kind = kind THEN 2 ELSE 0
  BY <1>1, <1>4, <1>5, LegAdds
<1>9. \A i \in 1..3 : order[i] \in DOMAIN legs
  BY <1>4, <1>5
<1>10. CASE n = 1
  <2>1. 1 \in 1..4 /\ \A i \in 1..1 : order[i] \in DOMAIN legs
    BY <1>9
  <2>2. Qty(legs, order, 1, kind, "BUY") = bought(1) /\ Qty(legs, order, 1, kind, "SELL") = sold(1)
    BY <2>1, QtyIs
  <2> HIDE DEF bought, sold
  <2>3. QED
    BY <1>6, <1>10, <2>2
<1>11. CASE n = 2
  <2>1. 2 \in 1..4 /\ \A i \in 1..2 : order[i] \in DOMAIN legs
    BY <1>9
  <2>2. /\ Qty(legs, order, 2, kind, "BUY") = bought(1) + bought(2)
        /\ Qty(legs, order, 2, kind, "SELL") = sold(1) + sold(2)
    BY <2>1, QtyIs
  <2> HIDE DEF bought, sold
  <2>3. QED
    BY <1>6, <1>7, <1>11, <2>2
<1>12. CASE n = 3
  <2>1. 3 \in 1..4 /\ \A i \in 1..3 : order[i] \in DOMAIN legs
    BY <1>9
  <2>2. /\ Qty(legs, order, 3, kind, "BUY") = bought(1) + bought(2) + bought(3)
        /\ Qty(legs, order, 3, kind, "SELL") = sold(1) + sold(2) + sold(3)
    BY <2>1, QtyIs
  <2> HIDE DEF bought, sold
  <2>3. QED
    BY <1>6, <1>7, <1>8, <1>12, <2>2
<1>13. QED
  BY <1>10, <1>11, <1>12

\* The order in which the legs of any structure go out.
LEMMA OrderCovered ==
  ASSUME NEW legs, NEW quotes, Sound(legs, quotes), Detected(legs) # None
  PROVE  PrefixesCovered(legs, ApprovedLegs(Detected(legs), legs))
<1> DEFINE structure == Detected(legs)
           order == ApprovedLegs(structure, legs)
<1> SUFFICES PrefixesCovered(legs, order)
  OBVIOUS
<1> HIDE DEF order
<1>1. CASE structure \in {"DEBIT_SPREAD", "CREDIT_SPREAD"}
  <2>1. order = <<One(Bought(legs)), One(Sold(legs))>>
    BY <1>1 DEF ApprovedLegs, order
  <2>2. IsVertical(legs)
    BY <1>1, DetectedIs DEF IsDebitSpread, IsCreditSpread
  <2>3. QED
    BY <2>1, <2>2, VerticalOrder
<1>2. CASE structure = "IRON_CONDOR"
  <2>1. order = <<Role(legs, "PUT", "BUY"), Role(legs, "PUT", "SELL"),
                  Role(legs, "CALL", "BUY"), Role(legs, "CALL", "SELL")>>
    BY <1>2 DEF ApprovedLegs, order
  <2>2. Len(legs) = 4 /\ Options(legs) /\ OneEach(legs)
    BY <1>2, DetectedIs DEF IsCondor
  <2>3. QED
    BY <2>1, <2>2, FourOrder
<1>3. CASE structure = "IRON_BUTTERFLY"
  <2>1. order = <<Role(legs, "PUT", "BUY"), Role(legs, "CALL", "BUY"),
                  Role(legs, "PUT", "SELL"), Role(legs, "CALL", "SELL")>>
    BY <1>3 DEF ApprovedLegs, order
  <2>2. Len(legs) = 4 /\ Options(legs) /\ OneEach(legs)
    BY <1>3, DetectedIs DEF IsIronButterfly
  <2>3. QED
    BY <2>1, <2>2, FourOrder
<1>4. CASE structure = "LONG_BUTTERFLY"
  <2>1. order = Append(Wings(legs), One(Sold(legs)))
    BY <1>4 DEF ApprovedLegs, order
  <2>2. IsLongButterfly(legs)
    BY <1>4, DetectedIs
  <2>3. Wings(legs)[1] \in Nat /\ Wings(legs)[2] \in Nat /\ One(Sold(legs)) \in Nat
    BY <2>2, ButterflyLegs
  <2>4. order = Append(<<Wings(legs)[1], Wings(legs)[2]>>, One(Sold(legs)))
    BY <2>1 DEF Wings
  <2>5. /\ order[1] = Wings(legs)[1] /\ order[2] = Wings(legs)[2] /\ order[3] = One(Sold(legs))
        /\ DOMAIN order = 1..3
    BY <2>3, <2>4, Appended
  <2>6. QED
    BY <2>2, <2>5, ButterflyOrder
<1>5. CASE structure \in {"LONG_STRADDLE", "LONG_STRANGLE"}
  <2>1. order = <<Role(legs, "PUT", "BUY"), Role(legs, "CALL", "BUY")>>
    BY <1>5 DEF ApprovedLegs, order
  <2>2. IsVolatility(legs)
    BY <1>5, DetectedIs
  <2>3. Len(legs) = 2 /\ DOMAIN legs = 1..2 /\ Options(legs) /\ legs[1].kind # legs[2].kind
    BY <2>2 DEF IsVolatility, Sound
  <2>4. legs[1].side = "BUY" /\ legs[2].side = "BUY"
    BY <2>2, <2>3 DEF IsVolatility, Sold, Sound, Sides
  <2>5. \A kind \in OptionKinds : Role(legs, kind, "BUY") \in DOMAIN legs
    <3> TAKE kind \in OptionKinds
    <3> DEFINE S == {i \in DOMAIN legs : legs[i].kind = kind /\ legs[i].side = "BUY"}
    <3>1. S \in SUBSET Nat
      BY <2>3
    <3>2. S # {}
      BY <2>3, <2>4 DEF Options, OptionKinds
    <3>3. Role(legs, kind, "BUY") = One(S)
      BY DEF Role
    <3> HIDE DEF S
    <3>4. One(S) \in S
      BY <3>1, <3>2, OneIn
    <3>5. QED
      BY <3>3, <3>4 DEF S
  <2>6. DOMAIN order = 1..2 /\ order[1] \in 1..2 /\ order[2] \in 1..2
    BY <2>1, <2>3, <2>5 DEF OptionKinds
  <2>7. ASSUME NEW n \in 1..2, NEW kind \in OptionKinds
        PROVE  Qty(legs, order, n, kind, "SELL") <= Qty(legs, order, n, kind, "BUY")
    <3>1. n \in 1..4 /\ \A i \in 1..n : order[i] \in DOMAIN legs /\ legs[order[i]].side = "BUY"
      BY <2>3, <2>4, <2>6
    <3>2. QED
      BY <3>1, NothingSold
  <2>8. QED
    BY <2>6, <2>7 DEF PrefixesCovered
<1>6. CASE structure \in {"COMMODITY_FUTURE", "LONG_OPTION"}
  <2>1. order = <<1>>
    BY <1>6 DEF ApprovedLegs, order
  <2>2. 1 \in DOMAIN legs /\ (legs[1].side = "BUY" \/ legs[1].kind = "FUTURE")
    BY <1>6, DetectedIs DEF Sound
  <2>3. DOMAIN order = 1..1 /\ order[1] = 1
    BY <2>1
  <2>4. ASSUME NEW n \in 1..1, NEW kind \in OptionKinds
        PROVE  Qty(legs, order, n, kind, "SELL") <= Qty(legs, order, n, kind, "BUY")
    <3>1. n \in 1..4 /\ \A i \in 1..n : order[i] \in DOMAIN legs
      BY <2>2, <2>3
    <3>2. \A i \in 1..n : legs[order[i]].side = "BUY" \/ legs[order[i]].kind = "FUTURE"
      BY <2>2, <2>3
    <3>3. QED
      BY <3>1, <3>2, NothingSold
  <2>5. QED
    BY <2>3, <2>4 DEF PrefixesCovered
<1>7. QED
  BY <1>1, <1>2, <1>3, <1>4, <1>5, <1>6, DetectedIs DEF Structures

LEMMA OrderLength ==
  ASSUME NEW legs, Detected(legs) # None
  PROVE  Len(ApprovedLegs(Detected(legs), legs)) \in Nat
<1> DEFINE structure == Detected(legs)
<1>1. CASE structure \in {"DEBIT_SPREAD", "CREDIT_SPREAD", "LONG_STRADDLE", "LONG_STRANGLE"}
  BY <1>1 DEF ApprovedLegs
<1>2. CASE structure \in {"IRON_CONDOR", "IRON_BUTTERFLY"}
  BY <1>2 DEF ApprovedLegs
<1>3. CASE structure = "LONG_BUTTERFLY"
  <2>1. ApprovedLegs(structure, legs) = Append(<<Wings(legs)[1], Wings(legs)[2]>>, One(Sold(legs)))
    BY <1>3 DEF ApprovedLegs, Wings
  <2>2. \A a, b, c : Len(Append(<<a, b>>, c)) = 3
    OBVIOUS
  <2>3. QED
    BY <2>1, <2>2
<1>4. CASE structure \in {"COMMODITY_FUTURE", "LONG_OPTION"}
  BY <1>4 DEF ApprovedLegs
<1>5. QED
  BY <1>1, <1>2, <1>3, <1>4, DetectedIs DEF Structures

-----------------------------------------------------------------------------
\* The invariant of a mode's gateway: what is held fits the limits; an approval in
\* hand reserves the loss of its offer and fitted the books it was made on, which
\* have not moved since; and a plan is that approval's order.

TradesType == trades \in Seq([legs : Nat, margin : Nat])

ApprovalInHand ==
  decision.action = "APPROVE" =>
    /\ Sound(offer.legs, offer.quotes) /\ ApprovalOf(decision, offer)
    /\ FitsBooks(decision, held, spent) /\ decision.margin \in Nat

PlanInHand == plan # <<>> => decision.action = "APPROVE" /\ plan = decision.order

GatewayInv == BooksType /\ TradesType /\ HeldFits(held) /\ ApprovalInHand /\ PlanInHand

LEMMA SnapshotType ==
  ASSUME BooksType, TradesType
  PROVE  Snapshot.positions \in Nat /\ Snapshot.margin \in Int
<1> DEFINE legs == [i \in DOMAIN trades |-> trades[i].legs]
           margins == [i \in DOMAIN trades |-> trades[i].margin]
<1>1. \A i \in DOMAIN trades : trades[i].legs \in Nat /\ trades[i].margin \in Nat
  <2> DEFINE Trade == [legs : Nat, margin : Nat]
  <2>1. trades \in Seq(Trade)
    BY DEF TradesType
  <2>2. \A t \in Trade : t.legs \in Nat /\ t.margin \in Nat
    OBVIOUS
  <2> HIDE DEF Trade
  <2>3. \A i \in DOMAIN trades : trades[i] \in Trade
    BY <2>1
  <2>4. QED
    BY <2>2, <2>3
<1>2. \A i : At(legs, i) \in Nat /\ At(margins, i) \in Nat
  BY <1>1 DEF At
<1>3. Sum(legs) \in Nat /\ Sum(margins) \in Nat
  <2> HIDE DEF legs, margins
  <2>1. QED
    BY <1>2 DEF Sum
<1>4. account.broker \in Nat
  BY AccountType
<1>5. Snapshot = [positions |-> Sum(legs), margin |-> Above(account.broker - Sum(margins))]
  BY DEF Snapshot
<1> HIDE DEF legs, margins
<1>6. QED
  BY <1>3, <1>4, <1>5 DEF Above

\* No offer is approved.
LEMMA ApprovedHasOffer ==
  ASSUME ApprovalInHand, offer = NoOffer
  PROVE  decision.action # "APPROVE"
<1>1. ~Sound(NoOffer.legs, NoOffer.quotes)
  BY DEF NoOffer, Sound
<1>2. QED
  BY <1>1 DEF ApprovalInHand

\* A step that drops the decision leaves nothing in hand.
LEMMA NothingInHand ==
  ASSUME decision' = Rejected("NONE"), plan' = <<>>
  PROVE  ApprovalInHand' /\ PlanInHand'
<1>1. decision'.action = "REJECT"
  BY DEF Rejected
<1>2. QED
  BY <1>1 DEF ApprovalInHand, PlanInHand

LEMMA InitGateway == Init => GatewayInv
<1> SUFFICES ASSUME Init PROVE GatewayInv
  OBVIOUS
<1> USE DEF Init
<1>1. account \in [profile : {"STRICT", "DISCOVERY"}, capital : Nat, trade : Nat, daily : Nat,
                   open : Nat, global : Nat, premium : Nat, concentration : Nat, slots : Nat,
                   headroom : Nat, broker : Nat, guide : Nat, bug : Nat]
  BY AccountsAssumption
<1>2. BooksType
  BY <1>1 DEF BooksType
<1>3. TradesType
  <2>1. trades = <<>>
    OBVIOUS
  <2>2. <<>> \in Seq([legs : Nat, margin : Nat])
    OBVIOUS
  <2>3. QED
    BY <2>1, <2>2 DEF TradesType
<1>4. HeldFits(held)
  BY <1>1 DEF HeldFits
<1>5. ApprovalInHand /\ PlanInHand
  BY DEF ApprovalInHand, PlanInHand, Rejected
<1>6. QED
  BY <1>2, <1>3, <1>4, <1>5 DEF GatewayInv

LEMMA EvaluateKeeps == GatewayInv /\ Evaluate => GatewayInv'
<1> SUFFICES ASSUME GatewayInv, Evaluate PROVE GatewayInv'
  OBVIOUS
<1>1. PICK r \in Requests :
        LET d == Judge(r.offer, r.preview, r.flaws) IN
        /\ offer' = r.offer /\ decision' = d /\ held' = held + d.loss
        /\ spent' = IF Discovery THEN spent + d.margin ELSE spent
  BY DEF Evaluate
<1> DEFINE d == Judge(r.offer, r.preview, r.flaws)
<1>2. /\ d.loss \in Nat /\ d.margin \in Nat /\ d.action \in {"APPROVE", "REJECT"}
      /\ HeldFits(held + d.loss)
      /\ d.action = "APPROVE" =>
           /\ ApprovalOf(d, r.offer)
           /\ FitsBooks(d, held + d.loss, IF Discovery THEN spent + d.margin ELSE spent)
  BY JudgeKeeps DEF GatewayInv
<1>3. /\ offer' = r.offer /\ decision' = d /\ held' = held + d.loss
      /\ spent' = IF Discovery THEN spent + d.margin ELSE spent
      /\ plan' = <<>> /\ account' = account /\ snap' = snap /\ trades' = trades
  BY <1>1 DEF Evaluate
<1> HIDE DEF d
<1>4. BooksType'
  BY <1>2, <1>3 DEF GatewayInv, BooksType
<1>5. TradesType'
  BY <1>3 DEF GatewayInv, TradesType
<1>6. HeldFits(held)'
  BY <1>2, <1>3 DEF HeldFits, Discovery
<1>7. ApprovalInHand'
  <2>1. Sound(r.offer.legs, r.offer.quotes)
    BY RequestSound
  <2>2. SUFFICES ASSUME d.action = "APPROVE" PROVE FitsBooks(decision, held, spent)'
    BY <1>2, <1>3, <2>1 DEF ApprovalInHand, ApprovalOf
  <2>3. FitsBooks(d, held', spent')
    BY <1>2, <1>3, <2>2
  <2>4. QED
    BY <1>3, <2>3 DEF FitsBooks, Discovery
<1>8. PlanInHand'
  BY <1>3 DEF PlanInHand
<1>9. QED
  BY <1>4, <1>5, <1>6, <1>7, <1>8 DEF GatewayInv

LEMMA NextIntentKeeps == GatewayInv /\ NextIntent => GatewayInv'
<1> SUFFICES ASSUME GatewayInv, NextIntent PROVE GatewayInv'
  OBVIOUS
<1>1. /\ decision' = Rejected("NONE") /\ account' = account /\ snap' = snap /\ held' = held
      /\ trades' = trades /\ spent' = spent /\ plan' = plan
  BY DEF NextIntent
<1>2. plan' = <<>>
  BY <1>1 DEF NextIntent, GatewayInv, PlanInHand
<1>3. BooksType' /\ TradesType' /\ HeldFits(held)'
  BY <1>1 DEF GatewayInv, BooksType, TradesType, HeldFits, Discovery
<1>4. QED
  BY <1>1, <1>2, <1>3, NothingInHand DEF GatewayInv

LEMMA BuildKeeps == GatewayInv /\ Build => GatewayInv'
<1> SUFFICES ASSUME GatewayInv, Build PROVE GatewayInv'
  OBVIOUS
<1>1. /\ decision.action = "APPROVE" /\ plan' = decision.order
      /\ decision' = decision /\ offer' = offer /\ account' = account /\ snap' = snap
      /\ held' = held /\ trades' = trades /\ spent' = spent
  BY DEF Build
<1>2. BooksType' /\ TradesType' /\ HeldFits(held)' /\ PlanInHand'
  BY <1>1 DEF GatewayInv, BooksType, TradesType, HeldFits, Discovery, PlanInHand
<1>3. ApprovalInHand'
  BY <1>1 DEF GatewayInv, ApprovalInHand, ApprovalOf, FitsBooks, Discovery
<1>4. QED
  BY <1>2, <1>3 DEF GatewayInv

LEMMA RefusalKeeps == GatewayInv /\ PlannerRefuses => GatewayInv'
<1> SUFFICES ASSUME GatewayInv, PlannerRefuses PROVE GatewayInv'
  OBVIOUS
<1>1. /\ decision' = Rejected("NONE") /\ account' = account /\ snap' = Snapshot /\ held' = held
      /\ trades' = trades /\ spent' = 0 /\ plan' = <<>>
  BY DEF PlannerRefuses
<1>2. Snapshot.positions \in Nat /\ Snapshot.margin \in Int
  BY SnapshotType DEF GatewayInv
<1>3. BooksType'
  BY <1>1, <1>2 DEF GatewayInv, BooksType
<1>4. TradesType' /\ HeldFits(held)'
  BY <1>1 DEF GatewayInv, TradesType, HeldFits, Discovery
<1>5. QED
  BY <1>1, <1>3, <1>4, NothingInHand DEF GatewayInv

LEMMA EnterKeeps == GatewayInv /\ Enter => GatewayInv'
<1> SUFFICES ASSUME GatewayInv, Enter PROVE GatewayInv'
  OBVIOUS
<1>1. /\ decision' = Rejected("NONE") /\ account' = account /\ snap' = snap /\ held' = held
      /\ trades' = Append(trades, [legs |-> Len(plan), margin |-> decision.margin])
      /\ spent' = spent /\ plan' = <<>>
  BY DEF Enter
<1>2. decision.action = "APPROVE" /\ plan = decision.order
  BY DEF Enter, GatewayInv, PlanInHand
<1>3. ApprovalOf(decision, offer) /\ decision.margin \in Nat
  BY <1>2 DEF GatewayInv, ApprovalInHand
<1>4. Len(plan) \in Nat
  BY <1>2, <1>3, OrderLength DEF ApprovalOf
<1>5. TradesType'
  BY <1>1, <1>3, <1>4 DEF GatewayInv, TradesType
<1>6. BooksType' /\ HeldFits(held)'
  BY <1>1 DEF GatewayInv, BooksType, HeldFits, Discovery
<1>7. QED
  BY <1>1, <1>5, <1>6, NothingInHand DEF GatewayInv

LEMMA CycleKeeps == GatewayInv /\ NextCycle => GatewayInv'
<1> SUFFICES ASSUME GatewayInv, NextCycle PROVE GatewayInv'
  OBVIOUS
<1>1. /\ offer = NoOffer /\ decision' = decision /\ account' = account /\ snap' = Snapshot /\ held' = held
      /\ trades' = trades /\ spent' = 0 /\ plan' = plan
  BY DEF NextCycle
<1>2. decision.action # "APPROVE"
  BY <1>1, ApprovedHasOffer DEF GatewayInv
<1>3. Snapshot.positions \in Nat /\ Snapshot.margin \in Int
  BY SnapshotType DEF GatewayInv
<1>4. BooksType'
  BY <1>1, <1>3 DEF GatewayInv, BooksType
<1>5. TradesType' /\ HeldFits(held)'
  BY <1>1 DEF GatewayInv, TradesType, HeldFits, Discovery
<1>6. ApprovalInHand' /\ PlanInHand'
  BY <1>1, <1>2 DEF GatewayInv, ApprovalInHand, PlanInHand
<1>7. QED
  BY <1>4, <1>5, <1>6 DEF GatewayInv

LEMMA StutterKeeps == GatewayInv /\ UNCHANGED vars => GatewayInv'
  BY DEF GatewayInv, vars, BooksType, TradesType, HeldFits, Discovery, ApprovalInHand, ApprovalOf,
         FitsBooks, PlanInHand

\* The inductive invariant: the books are of their types, the reservations fit what
\* the mode may hold, and an approval in hand covers its offer and its plan.
THEOREM GatewayHolds == Spec => []GatewayInv
<1>1. GatewayInv /\ [Next]_vars => GatewayInv'
  BY EvaluateKeeps, NextIntentKeeps, BuildKeeps, RefusalKeeps, EnterKeeps, CycleKeeps, StutterKeeps DEF Next
<1>2. QED
  BY InitGateway, <1>1, PTL DEF Spec

-----------------------------------------------------------------------------

\* The limits of the mode: whatever the offers of a cycle, the broker's margins and
\* the failed gates are, STRICT never passes a limit, and DISCOVERY passes its guide,
\* its open risk and the broker's margin by one lot at most (evaluate, _finalize_
\* discovery_lots and the reservation).
THEOREM ModeStaysInLimits == Spec => []LimitsKept
<1>1. GatewayInv => LimitsKept
  BY DEF GatewayInv, HeldFits, ApprovalInHand, FitsBooks, LimitsKept
<1>2. QED
  BY GatewayHolds, <1>1, PTL

\* What an approved option trade can lose at expiry is what was reserved for it: for
\* any legs, quotes, lot size, charges and slippage, and wherever the underlying ends.
THEOREM ReservationCoversLoss == Spec => []LossCovered
<1>1. ASSUME GatewayInv PROVE LossCovered
  <2> SUFFICES ASSUME decision.action = "APPROVE", decision.structure # "COMMODITY_FUTURE", NEW spot \in Spots
               PROVE  (Pnl(spot, Entered) * LotSize - Charges) * decision.lots >= -decision.loss
    BY DEF LossCovered
  <2>1. ApprovalOf(decision, offer)
    BY <1>1 DEF GatewayInv, ApprovalInHand
  <2>2. PICK loss \in Nat : Covers(loss, offer.legs, offer.quotes) /\ decision.cost >= loss * LotSize + Charges
    BY <2>1 DEF ApprovalOf, Reserves
  <2>3. spot \in Int
    BY GatewayAssumption
  <2>4. Entered = Priced(offer.legs, offer.quotes)
    BY DEF Entered, Priced
  <2>5. Pnl(spot, Entered) \in Int /\ Pnl(spot, Entered) >= -loss
    BY <2>2, <2>3, <2>4 DEF Covers
  <2>6. decision.cost \in Nat /\ decision.lots \in Nat /\ decision.loss = decision.cost * decision.lots
    BY <2>1 DEF ApprovalOf
  <2>7. QED
    BY <2>2, <2>5, <2>6, LotsCovered
<1>2. QED
  BY GatewayHolds, <1>1, PTL

\* The orders of a plan, in the order in which the planner submits the approved legs,
\* never leave an option sold that no bought one covers, for any legs that evaluate
\* approves and wherever the submission stops.
THEOREM PrefixesAreCovered == Spec => []PrefixCovered
<1>1. ASSUME GatewayInv PROVE PrefixCovered
  <2> SUFFICES ASSUME NEW n \in DOMAIN plan, NEW kind \in OptionKinds
               PROVE  Qty(offer.legs, plan, n, kind, "SELL") <= Qty(offer.legs, plan, n, kind, "BUY")
    BY DEF PrefixCovered, Qty, LegQty
  <2>1. plan # <<>>
    OBVIOUS
  <2>2. decision.action = "APPROVE" /\ plan = decision.order
    BY <1>1, <2>1 DEF GatewayInv, PlanInHand
  <2>3. Sound(offer.legs, offer.quotes) /\ ApprovalOf(decision, offer)
    BY <1>1, <2>2 DEF GatewayInv, ApprovalInHand
  <2>4. Detected(offer.legs) # None /\ plan = ApprovedLegs(Detected(offer.legs), offer.legs)
    BY <2>2, <2>3 DEF ApprovalOf
  <2>5. PrefixesCovered(offer.legs, plan)
    BY <2>3, <2>4, OrderCovered
  <2>6. QED
    BY <2>5 DEF PrefixesCovered
<1>2. QED
  BY GatewayHolds, <1>1, PTL

-----------------------------------------------------------------------------
\* The payoff report: between two strikes what a structure makes is a line, so its
\* worst is at a strike or at zero; and what each family's formula names is the
\* range of those kinks.

\* A finite set of integers has a least.
LEMMA LeastInFinite ==
  ASSUME NEW S \in SUBSET Int, IsFiniteSet(S), S # {}
  PROVE  Least(S) \in S /\ \A n \in S : Least(S) <= n
<1> DEFINE HasLeast(T) == \E m \in T : \A n \in T : m <= n
           Sizes == {c \in Nat : \E T \in SUBSET S : T # {} /\ ~HasLeast(T) /\ Cardinality(T) = c}
<1>1. Sizes = {}
  <2> SUFFICES ASSUME Sizes # {} PROVE FALSE
    OBVIOUS
  <2>1. Sizes \in SUBSET Nat
    OBVIOUS
  <2>2. PICK c \in Sizes : \A d \in Sizes : c <= d
    BY <2>1, SmallestIn
  <2>3. PICK T \in SUBSET S : T # {} /\ ~HasLeast(T) /\ Cardinality(T) = c
    BY <2>2
  <2>4. IsFiniteSet(T)
    BY FS_Subset
  <2>5. PICK x \in T : TRUE
    BY <2>3
  <2>6. IsFiniteSet(T \ {x}) /\ Cardinality(T \ {x}) = c - 1 /\ c \in Nat
    BY <2>2, <2>3, <2>4, <2>5, FS_RemoveElement
  <2>7. T \ {x} # {}
    <3>1. T = {x} => HasLeast(T)
      BY <2>5
    <3>2. QED
      BY <2>3, <2>5, <3>1
  <2>8. c - 1 \in Nat
    BY <2>6, FS_CardinalityType
  <2>9. HasLeast(T \ {x})
    <3>1. c - 1 \notin Sizes
      BY <2>2, <2>6
    <3>2. T \ {x} \in SUBSET S
      OBVIOUS
    <3>3. QED
      BY <2>6, <2>7, <2>8, <3>1, <3>2
  <2>10. PICK m \in T \ {x} : \A n \in T \ {x} : m <= n
    BY <2>9
  <2>11. m \in Int /\ x \in Int /\ T \in SUBSET Int
    BY <2>5, <2>10
  <2>12. CASE x <= m
    <3>1. \A n \in T : x <= n
      BY <2>10, <2>11, <2>12
    <3>2. QED
      BY <2>3, <2>5, <3>1
  <2>13. CASE m <= x
    <3>1. \A n \in T : m <= n
      BY <2>10, <2>11, <2>13
    <3>2. QED
      BY <2>3, <2>10, <3>1
  <2>14. QED
    BY <2>11, <2>12, <2>13
<1>2. HasLeast(S)
  <2>1. Cardinality(S) \in Nat
    BY FS_CardinalityType
  <2>2. Cardinality(S) \notin Sizes
    BY <1>1
  <2>3. QED
    BY <2>1, <2>2
<1>3. QED
  BY <1>2 DEF Least

\* What is attained and never undercut is the least, and likewise the greatest.
LEMMA LeastIs ==
  ASSUME NEW S \in SUBSET Int, NEW m \in S, \A n \in S : m <= n
  PROVE  Least(S) = m
<1>1. \A k \in S : (\A n \in S : k <= n) => k = m
  OBVIOUS
<1>2. QED
  BY <1>1 DEF Least

LEMMA GreatestIs ==
  ASSUME NEW S \in SUBSET Int, NEW m \in S, \A n \in S : n <= m
  PROVE  Greatest(S) = m
<1>1. \A k \in S : (\A n \in S : n <= k) => k = m
  OBVIOUS
<1>2. QED
  BY <1>1 DEF Greatest

\* The legs of an option trade at the prices of its entry.
Quoted(legs) ==
  /\ Len(legs) \in Nat \ {0} /\ DOMAIN legs = 1..Len(legs)
  /\ \A i \in DOMAIN legs :
       /\ legs[i].kind \in OptionKinds /\ legs[i].side \in Sides
       /\ legs[i].strike \in Nat /\ legs[i].premium \in Nat
       /\ legs[i].qty = IF Len(legs) = 3 /\ legs[i].side = "SELL" THEN 2 ELSE 1

\* How a leg's worth changes from lo to the next strike.
Slope(leg, lo) ==
  IF leg.strike <= lo THEN IF leg.kind = "CALL" THEN Signed(leg) ELSE 0
  ELSE IF leg.kind = "CALL" THEN 0 ELSE -Signed(leg)

\* No strike is strictly between lo and hi.
Between(legs, lo, spot, hi) ==
  /\ lo \in Int /\ spot \in Int /\ hi \in Int /\ lo <= spot /\ spot <= hi /\ lo < hi
  /\ \A i \in DOMAIN legs : legs[i].strike <= lo \/ legs[i].strike >= hi

LEMMA Steps ==
  ASSUME NEW q \in {-2, -1, 1, 2}, NEW a \in Int, NEW b \in Int, NEW k \in Int, NEW p \in Int
  PROVE  /\ q * ((a - k) - p) \in Int /\ q * ((k - a) - p) \in Int
         /\ q * ((b - k) - p) - q * ((a - k) - p) = q * (b - a)
         /\ q * ((k - b) - p) - q * ((k - a) - p) = (-q) * (b - a)
<1>1. CASE q = 1
  BY <1>1
<1>2. CASE q = -1
  BY <1>2
<1>3. CASE q = 2
  BY <1>3
<1>4. CASE q = -2
  BY <1>4
<1>5. QED
  BY <1>1, <1>2, <1>3, <1>4

LEMMA LegLine ==
  ASSUME NEW legs, Quoted(legs), NEW i \in DOMAIN legs,
         NEW lo, NEW spot, NEW hi, Between(legs, lo, spot, hi)
  PROVE  /\ Slope(legs[i], lo) \in Int
         /\ LegPnl(lo, legs[i]) \in Int /\ LegPnl(spot, legs[i]) \in Int /\ LegPnl(hi, legs[i]) \in Int
         /\ LegPnl(spot, legs[i]) - LegPnl(lo, legs[i]) = Slope(legs[i], lo) * (spot - lo)
         /\ LegPnl(hi, legs[i]) - LegPnl(spot, legs[i]) = Slope(legs[i], lo) * (hi - spot)
<1> DEFINE q == Signed(legs[i])
           k == legs[i].strike
           p == legs[i].premium
           In(s) == Intrinsic(s, legs[i])
<1>1. q \in {-2, -1, 1, 2} /\ k \in Int /\ p \in Int /\ legs[i].kind \in {"CALL", "PUT"}
  BY DEF Quoted, Signed, OptionKinds, Sides
<1>2. \A s : LegPnl(s, legs[i]) = q * (In(s) - p)
  BY DEF LegPnl
<1>a. \A s : In(s) = IF legs[i].kind = "CALL" THEN Above(s - k) ELSE Above(k - s)
  BY DEF Intrinsic
<1>3. Slope(legs[i], lo) = IF k <= lo THEN IF legs[i].kind = "CALL" THEN q ELSE 0
                           ELSE IF legs[i].kind = "CALL" THEN 0 ELSE -q
  BY DEF Slope
<1>4. /\ lo \in Int /\ spot \in Int /\ hi \in Int /\ lo <= spot /\ spot <= hi /\ lo < hi
      /\ k <= lo \/ k >= hi
  BY DEF Between
<1> HIDE DEF q, k, p, In
<1>5. CASE legs[i].kind = "CALL" /\ k <= lo
  <2>1. In(lo) = lo - k /\ In(spot) = spot - k /\ In(hi) = hi - k
    BY <1>1, <1>a, <1>4, <1>5 DEF Above
  <2>2. /\ LegPnl(lo, legs[i]) = q * ((lo - k) - p) /\ LegPnl(spot, legs[i]) = q * ((spot - k) - p)
        /\ LegPnl(hi, legs[i]) = q * ((hi - k) - p)
    BY <1>2, <2>1
  <2>3. Slope(legs[i], lo) = q /\ q \in Int
    BY <1>1, <1>3, <1>5
  <2>4. /\ LegPnl(lo, legs[i]) \in Int /\ LegPnl(spot, legs[i]) \in Int
        /\ LegPnl(spot, legs[i]) - LegPnl(lo, legs[i]) = Slope(legs[i], lo) * (spot - lo)
    BY <1>1, <1>4, <2>2, <2>3, Steps
  <2>5. /\ LegPnl(hi, legs[i]) \in Int
        /\ LegPnl(hi, legs[i]) - LegPnl(spot, legs[i]) = Slope(legs[i], lo) * (hi - spot)
    BY <1>1, <1>4, <2>2, <2>3, Steps
  <2>6. QED
    BY <2>3, <2>4, <2>5
<1>6. CASE legs[i].kind = "CALL" /\ ~(k <= lo)
  <2>1. In(lo) = 0 /\ In(spot) = 0 /\ In(hi) = 0
    BY <1>1, <1>a, <1>4, <1>6 DEF Above
  <2>2. QED
    BY <1>1, <1>2, <1>3, <1>4, <1>6, <2>1
<1>7. CASE legs[i].kind = "PUT" /\ k <= lo
  <2>1. In(lo) = 0 /\ In(spot) = 0 /\ In(hi) = 0
    BY <1>1, <1>a, <1>4, <1>7 DEF Above
  <2>2. QED
    BY <1>1, <1>2, <1>3, <1>4, <1>7, <2>1
<1>8. CASE legs[i].kind = "PUT" /\ ~(k <= lo)
  <2>1. In(lo) = k - lo /\ In(spot) = k - spot /\ In(hi) = k - hi
    BY <1>1, <1>a, <1>4, <1>8 DEF Above
  <2>2. /\ LegPnl(lo, legs[i]) = q * ((k - lo) - p) /\ LegPnl(spot, legs[i]) = q * ((k - spot) - p)
        /\ LegPnl(hi, legs[i]) = q * ((k - hi) - p)
    BY <1>2, <2>1
  <2>3. Slope(legs[i], lo) = -q /\ -q \in Int
    BY <1>1, <1>3, <1>8
  <2>4. /\ LegPnl(lo, legs[i]) \in Int /\ LegPnl(spot, legs[i]) \in Int
        /\ LegPnl(spot, legs[i]) - LegPnl(lo, legs[i]) = Slope(legs[i], lo) * (spot - lo)
    BY <1>1, <1>4, <2>2, <2>3, Steps
  <2>5. /\ LegPnl(hi, legs[i]) \in Int
        /\ LegPnl(hi, legs[i]) - LegPnl(spot, legs[i]) = Slope(legs[i], lo) * (hi - spot)
    <3>1. /\ q * ((k - hi) - p) \in Int
          /\ q * ((k - hi) - p) - q * ((k - spot) - p) = (-q) * (hi - spot)
      BY <1>1, <1>4, Steps
    <3>2. QED
      BY <2>2, <2>3, <3>1
  <2>6. QED
    BY <2>3, <2>4, <2>5
<1>9. QED
  BY <1>1, <1>5, <1>6, <1>7, <1>8

LEMMA FourTimes ==
  \A a, b, c, d, x \in Int : (a + b + c + d) * x = a * x + b * x + c * x + d * x
OBVIOUS

\* Between two strikes, or beyond the last, the worth of the whole is a line.
Slopes(legs, lo) == Sum([i \in DOMAIN legs |-> Slope(legs[i], lo)])

LEMMA PnlLine ==
  ASSUME NEW legs, Quoted(legs),
         NEW lo, NEW spot, NEW hi, Between(legs, lo, spot, hi)
  PROVE  /\ Slopes(legs, lo) \in Int
         /\ Pnl(lo, legs) \in Int /\ Pnl(spot, legs) \in Int /\ Pnl(hi, legs) \in Int
         /\ Pnl(spot, legs) - Pnl(lo, legs) = Slopes(legs, lo) * (spot - lo)
         /\ Pnl(hi, legs) - Pnl(spot, legs) = Slopes(legs, lo) * (hi - spot)
<1> DEFINE f(s) == [i \in DOMAIN legs |-> LegPnl(s, legs[i])]
           g == [i \in DOMAIN legs |-> Slope(legs[i], lo)]
           v(s, i) == At(f(s), i)
           d(i) == At(g, i)
<1>0. lo \in Int /\ spot \in Int /\ hi \in Int
  BY DEF Between
<1>1. \A i : /\ d(i) \in Int /\ v(lo, i) \in Int /\ v(spot, i) \in Int /\ v(hi, i) \in Int
             /\ v(spot, i) - v(lo, i) = d(i) * (spot - lo)
             /\ v(hi, i) - v(spot, i) = d(i) * (hi - spot)
  <2> TAKE i
  <2>1. CASE i \in DOMAIN legs
    <3>1. /\ d(i) = Slope(legs[i], lo) /\ v(lo, i) = LegPnl(lo, legs[i])
          /\ v(spot, i) = LegPnl(spot, legs[i]) /\ v(hi, i) = LegPnl(hi, legs[i])
      BY <2>1 DEF At
    <3> HIDE DEF d, v
    <3>3. /\ Slope(legs[i], lo) \in Int
          /\ LegPnl(lo, legs[i]) \in Int /\ LegPnl(spot, legs[i]) \in Int /\ LegPnl(hi, legs[i]) \in Int
          /\ LegPnl(spot, legs[i]) - LegPnl(lo, legs[i]) = Slope(legs[i], lo) * (spot - lo)
          /\ LegPnl(hi, legs[i]) - LegPnl(spot, legs[i]) = Slope(legs[i], lo) * (hi - spot)
      BY <2>1, LegLine
    <3>4. QED
      BY <3>1, <3>3
  <2>2. CASE i \notin DOMAIN legs
    <3>1. d(i) = 0 /\ v(lo, i) = 0 /\ v(spot, i) = 0 /\ v(hi, i) = 0
      BY <2>2 DEF At
    <3> HIDE DEF d, v
    <3>2. QED
      BY <1>0, <3>1
  <2>3. QED
    BY <2>1, <2>2
<1>2. /\ Pnl(lo, legs) = v(lo, 1) + v(lo, 2) + v(lo, 3) + v(lo, 4)
      /\ Pnl(spot, legs) = v(spot, 1) + v(spot, 2) + v(spot, 3) + v(spot, 4)
      /\ Pnl(hi, legs) = v(hi, 1) + v(hi, 2) + v(hi, 3) + v(hi, 4)
      /\ Slopes(legs, lo) = d(1) + d(2) + d(3) + d(4)
  BY DEF Pnl, Sum, Slopes
<1> HIDE DEF v, d
<1>3. (d(1) + d(2) + d(3) + d(4)) * (spot - lo)
        = d(1) * (spot - lo) + d(2) * (spot - lo) + d(3) * (spot - lo) + d(4) * (spot - lo)
  BY <1>0, <1>1, FourTimes
<1>4. (d(1) + d(2) + d(3) + d(4)) * (hi - spot)
        = d(1) * (hi - spot) + d(2) * (hi - spot) + d(3) * (hi - spot) + d(4) * (hi - spot)
  BY <1>0, <1>1, FourTimes
<1>5. Pnl(spot, legs) - Pnl(lo, legs) =
        (v(spot, 1) - v(lo, 1)) + (v(spot, 2) - v(lo, 2)) + (v(spot, 3) - v(lo, 3)) + (v(spot, 4) - v(lo, 4))
  BY <1>1, <1>2
<1>6. Pnl(hi, legs) - Pnl(spot, legs) =
        (v(hi, 1) - v(spot, 1)) + (v(hi, 2) - v(spot, 2)) + (v(hi, 3) - v(spot, 3)) + (v(hi, 4) - v(spot, 4))
  BY <1>1, <1>2
<1>7. Pnl(spot, legs) - Pnl(lo, legs) = Slopes(legs, lo) * (spot - lo)
  BY <1>1, <1>2, <1>3, <1>5
<1>8. Pnl(hi, legs) - Pnl(spot, legs) = Slopes(legs, lo) * (hi - spot)
  BY <1>1, <1>2, <1>4, <1>6
<1>9. QED
  BY <1>1, <1>2, <1>7, <1>8

LEMMA LastSlope ==
  ASSUME NEW legs, Quoted(legs), NEW lo \in Int, \A i \in DOMAIN legs : legs[i].strike <= lo
  PROVE  Slopes(legs, lo) = UpperSlope(legs)
<1>1. [i \in DOMAIN legs |-> Slope(legs[i], lo)]
        = [i \in DOMAIN legs |-> IF legs[i].kind = "CALL" THEN Signed(legs[i]) ELSE 0]
  BY DEF Slope
<1>2. QED
  BY <1>1 DEF Slopes, UpperSlope

LEMMA Uphill ==
  \A d, x \in Int : x >= 0 => (d >= 0 => d * x >= 0) /\ (d <= 0 => d * x <= 0)
OBVIOUS

\* Wherever the underlying ends, some kink is at least as bad.
LEMMA WorstAtKink ==
  ASSUME NEW legs, Quoted(legs), BoundedLoss(legs), NEW spot \in Nat
  PROVE  \E k \in Kinks(legs) : Pnl(k, legs) <= Pnl(spot, legs)
<1> DEFINE K == Kinks(legs)
           below == {n \in Nat : \E k \in K : k <= spot /\ n = spot - k}
           above == {k \in K : k > spot}
<1>1. K \in SUBSET Nat /\ 0 \in K
  BY DEF Kinks, Quoted
<1>2. \A i \in DOMAIN legs : legs[i].strike \in K
  BY DEF Kinks
<1> HIDE DEF K
<1>3. spot \in below
  BY <1>1
<1>4. PICK n \in below : \A m \in below : n <= m
  <2>1. below \in SUBSET Nat /\ below # {}
    BY <1>3
  <2>2. QED
    BY <2>1, SmallestIn
<1>5. PICK lo \in K : lo <= spot /\ n = spot - lo
  BY <1>4
<1>6. \A k \in K : k <= spot => k <= lo
  <2> TAKE k \in K
  <2> HAVE k <= spot
  <2>1. spot - k \in Nat
    BY <1>1
  <2>2. spot - k \in below
    BY <2>1
  <2>3. spot - lo <= spot - k
    BY <1>4, <1>5, <2>2
  <2>4. QED
    BY <1>1, <2>3
<1>7. CASE above = {}
  <2>1. \A i \in DOMAIN legs : legs[i].strike <= lo
    <3> TAKE i \in DOMAIN legs
    <3>1. legs[i].strike \in K /\ legs[i].strike \in Nat
      BY <1>1, <1>2
    <3>2. legs[i].strike <= spot
      BY <1>7, <3>1
    <3>3. QED
      BY <1>6, <3>1, <3>2
  <2>2. Slopes(legs, lo) = UpperSlope(legs)
    BY <1>1, <2>1, LastSlope
  <2>3. lo \in Int /\ spot \in Int /\ spot + 1 \in Int /\ lo <= spot /\ spot <= spot + 1 /\ lo < spot + 1
    BY <1>1, <1>5
  <2>4. /\ Slopes(legs, lo) \in Int /\ Pnl(lo, legs) \in Int /\ Pnl(spot, legs) \in Int
        /\ Pnl(spot, legs) - Pnl(lo, legs) = Slopes(legs, lo) * (spot - lo)
    <3>1. Between(legs, lo, spot, spot + 1)
      BY <2>1, <2>3 DEF Between
    <3>2. QED
      BY <3>1, PnlLine
  <2>5. Slopes(legs, lo) >= 0
    BY <2>2 DEF BoundedLoss
  <2>6. Slopes(legs, lo) * (spot - lo) >= 0
    BY <2>3, <2>4, <2>5, Uphill
  <2>7. QED
    BY <1>5, <2>4, <2>6 DEF K
<1>8. CASE above # {}
  <2>1. above \in SUBSET Nat
    BY <1>1
  <2>2. PICK hi \in above : \A k \in above : hi <= k
    BY <1>8, <2>1, SmallestIn
  <2>3. \A i \in DOMAIN legs : legs[i].strike <= lo \/ legs[i].strike >= hi
    <3> TAKE i \in DOMAIN legs
    <3>1. legs[i].strike \in K /\ legs[i].strike \in Nat
      BY <1>1, <1>2
    <3>2. CASE legs[i].strike <= spot
      BY <1>6, <3>1, <3>2
    <3>3. CASE ~(legs[i].strike <= spot)
      <4>1. legs[i].strike \in above
        BY <3>1, <3>3
      <4>2. QED
        BY <1>1, <2>2, <3>1, <4>1
    <3>4. QED
      BY <3>2, <3>3
  <2>4. lo \in Int /\ spot \in Int /\ hi \in Int /\ lo <= spot /\ spot <= hi /\ lo < hi /\ hi \in K
    BY <1>1, <1>5, <2>2
  <2>5. /\ Slopes(legs, lo) \in Int
        /\ Pnl(lo, legs) \in Int /\ Pnl(spot, legs) \in Int /\ Pnl(hi, legs) \in Int
        /\ Pnl(spot, legs) - Pnl(lo, legs) = Slopes(legs, lo) * (spot - lo)
        /\ Pnl(hi, legs) - Pnl(spot, legs) = Slopes(legs, lo) * (hi - spot)
    <3>1. Between(legs, lo, spot, hi)
      BY <2>3, <2>4 DEF Between
    <3>2. QED
      BY <3>1, PnlLine
  <2>6. CASE Slopes(legs, lo) >= 0
    <3>1. Slopes(legs, lo) * (spot - lo) >= 0
      BY <2>4, <2>5, <2>6, Uphill
    <3>2. QED
      BY <1>5, <2>5, <3>1 DEF K
  <2>7. CASE Slopes(legs, lo) <= 0
    <3>1. Slopes(legs, lo) * (hi - spot) <= 0
      BY <2>4, <2>5, <2>7, Uphill
    <3>2. QED
      BY <2>4, <2>5, <3>1 DEF K
  <2>8. QED
    BY <2>5, <2>6, <2>7
<1>9. QED
  BY <1>7, <1>8

LEMMA PricedLegs ==
  ASSUME NEW legs, NEW quotes, Sound(legs, quotes), Options(legs)
  PROVE  Quoted(Priced(legs, quotes)) /\ Len(Priced(legs, quotes)) = Len(legs)
<1> DEFINE P == Priced(legs, quotes)
           n == Len(legs)
<1>1. n \in Nat \ {0} /\ DOMAIN legs = 1..n
  BY DEF Sound
<1>2. DOMAIN P = 1..n
  BY <1>1 DEF Priced
<1>3. Len(P) = n
  <2>1. P = [i \in 1..n |-> P[i]]
    BY <1>1, <1>2 DEF Priced
  <2> HIDE DEF P, n
  <2>2. QED
    BY <1>1, <2>1
<1>4. ASSUME NEW i \in DOMAIN legs
      PROVE  /\ P[i].kind \in OptionKinds /\ P[i].side \in Sides
             /\ P[i].strike \in Nat /\ P[i].premium \in Nat
             /\ P[i].qty = IF n = 3 /\ P[i].side = "SELL" THEN 2 ELSE 1
  BY <1>4 DEF Priced, Sound, Options, Ask, Bid
<1>5. QED
  BY <1>1, <1>2, <1>3, <1>4 DEF Quoted

LEMMA PnlType ==
  ASSUME NEW legs, Quoted(legs), NEW spot \in Int
  PROVE  Pnl(spot, legs) \in Int
<1> DEFINE f == [i \in DOMAIN legs |-> LegPnl(spot, legs[i])]
<1>1. \A i : At(f, i) \in Int
  <2> TAKE i
  <2>1. CASE i \in DOMAIN legs
    <3>1. At(f, i) = LegPnl(spot, legs[i])
      BY <2>1 DEF At
    <3>2. Signed(legs[i]) \in {-2, -1, 1, 2} /\ Intrinsic(spot, legs[i]) \in Int /\ legs[i].premium \in Int
      BY <2>1 DEF Quoted, Signed, Intrinsic, Above, Sides
    <3>3. LegPnl(spot, legs[i]) = Signed(legs[i]) * (Intrinsic(spot, legs[i]) - legs[i].premium)
      BY DEF LegPnl
    <3>4. QED
      BY <3>1, <3>2, <3>3
  <2>2. CASE i \notin DOMAIN legs
    BY <2>2 DEF At
  <2>3. QED
    BY <2>1, <2>2
<1>2. Pnl(spot, legs) = At(f, 1) + At(f, 2) + At(f, 3) + At(f, 4)
  BY DEF Pnl, Sum
<1> HIDE DEF f
<1>3. QED
  BY <1>1, <1>2

LEMMA KinkSet ==
  ASSUME NEW legs, Quoted(legs)
  PROVE  /\ Kinks(legs) \in SUBSET Nat /\ 0 \in Kinks(legs)
         /\ IsFiniteSet({Pnl(k, legs) : k \in Kinks(legs)})
<1> DEFINE n == Len(legs)
           S == {Pnl(k, legs) : k \in Kinks(legs)}
           At0(i) == IF i = 0 THEN 0 ELSE legs[i].strike
           f == [i \in 0..n |-> Pnl(At0(i), legs)]
<1>1. Kinks(legs) \in SUBSET Nat /\ 0 \in Kinks(legs)
  BY DEF Kinks, Quoted
<1>2. n \in Nat /\ DOMAIN legs = 1..n
  BY DEF Quoted
<1>3. \A i \in 0..n : At0(i) \in Kinks(legs)
  BY <1>2 DEF Kinks
<1>4. \A k \in Kinks(legs) : \E i \in 0..n : At0(i) = k
  <2> TAKE k \in Kinks(legs)
  <2>1. CASE k = 0
    BY <1>2, <2>1
  <2>2. CASE k # 0
    <3>1. PICK i \in DOMAIN legs : legs[i].strike = k
      BY <2>2 DEF Kinks
    <3>2. i \in 0..n /\ i # 0
      BY <1>2, <3>1
    <3>3. QED
      BY <3>1, <3>2
  <2>3. QED
    BY <2>1, <2>2
<1>5. f \in Surjection(0..n, S)
  <2> HIDE DEF At0
  <2>1. f \in [0..n -> S]
    BY <1>3
  <2>2. \A s \in S : \E i \in 0..n : f[i] = s
    BY <1>4
  <2>3. QED
    BY <2>1, <2>2 DEF Surjection
<1>6. IsFiniteSet(0..n)
  BY <1>2, FS_Interval
<1>7. IsFiniteSet(S)
  BY <1>5, <1>6, FS_Surjection
<1>8. QED
  BY <1>1, <1>7

\* What the kinks say is worst is so wherever the underlying ends.
LEMMA WorstAnywhere ==
  ASSUME NEW legs, Quoted(legs), BoundedLoss(legs),
         NEW places \in SUBSET Nat, Kinks(legs) \subseteq places
  PROVE  LET worst == Least({Pnl(k, legs) : k \in Kinks(legs)})
         IN  /\ worst \in Int /\ \E k \in Kinks(legs) : Pnl(k, legs) = worst
             /\ \A k \in Kinks(legs) : worst <= Pnl(k, legs)
             /\ Least({Pnl(spot, legs) : spot \in places}) = worst
<1> DEFINE S == {Pnl(k, legs) : k \in Kinks(legs)}
           T == {Pnl(spot, legs) : spot \in places}
           worst == Least(S)
<1>1. \A spot \in Nat : Pnl(spot, legs) \in Int
  BY PnlType
<1>2. S \in SUBSET Int /\ S # {} /\ IsFiniteSet(S)
  BY <1>1, KinkSet
<1>3. worst \in S /\ \A n \in S : worst <= n
  <2> HIDE DEF S
  <2>1. QED
    BY <1>2, LeastInFinite
<1>4. T \in SUBSET Int
  BY <1>1
<1>5. worst \in T
  BY <1>3
<1>6. ASSUME NEW spot \in places PROVE worst <= Pnl(spot, legs)
  <2>1. PICK k \in Kinks(legs) : Pnl(k, legs) <= Pnl(spot, legs)
    BY WorstAtKink
  <2>2. worst <= Pnl(k, legs) /\ worst \in Int /\ Pnl(k, legs) \in Int /\ Pnl(spot, legs) \in Int
    BY <1>1, <1>2, <1>3, KinkSet
  <2> HIDE DEF worst
  <2>3. QED
    BY <2>1, <2>2
<1>7. Least(T) = worst
  <2>1. \A n \in T : worst <= n
    BY <1>6
  <2> HIDE DEF T, worst
  <2>2. QED
    BY <1>4, <1>5, <2>1, LeastIs
<1>8. QED
  BY <1>2, <1>3, <1>7

\* The report's amounts, from the worst and the best kink.
LEMMA LossFrom ==
  ASSUME NEW legs, Quoted(legs), NEW worst \in Int, \E k \in Kinks(legs) : Pnl(k, legs) = worst,
         \A k \in Kinks(legs) : worst <= Pnl(k, legs), NEW contracts \in Nat, NEW charges \in Int
  PROVE  GenericLoss(legs, contracts, charges) = Above(charges - worst * contracts)
<1> DEFINE S == Totals(legs, contracts, charges)
           m == worst * contracts - charges
<1>1. \A k \in Kinks(legs) : Pnl(k, legs) \in Int
  <2> TAKE k \in Kinks(legs)
  <2>1. Kinks(legs) \in SUBSET Nat
    BY KinkSet
  <2>9. k \in Int
    BY <2>1
  <2>2. QED
    BY <2>9, PnlType
<1>2. \A k \in Kinks(legs) : Pnl(k, legs) * contracts - charges \in Int /\ m <= Pnl(k, legs) * contracts - charges
  <2> TAKE k \in Kinks(legs)
  <2>1. Pnl(k, legs) \in Int /\ worst <= Pnl(k, legs)
    BY <1>1
  <2>2. \A a, b \in Int : a <= b => a * contracts <= b * contracts
    OBVIOUS
  <2>3. QED
    BY <2>1, <2>2
<1>3. S \in SUBSET Int /\ m \in S /\ \A n \in S : m <= n
  BY <1>2 DEF Totals
<1>4. Least(S) = m
  <2> HIDE DEF S, m
  <2>1. QED
    BY <1>3, LeastIs
<1>5. worst * contracts \in Int
  OBVIOUS
<1>6. QED
  BY <1>4, <1>5 DEF GenericLoss

LEMMA ProfitFrom ==
  ASSUME NEW legs, Quoted(legs), NEW best \in Int, \E k \in Kinks(legs) : Pnl(k, legs) = best,
         \A k \in Kinks(legs) : Pnl(k, legs) <= best, NEW contracts \in Nat, NEW charges \in Int
  PROVE  GenericProfit(legs, contracts, charges) = Above(best * contracts - charges)
<1> DEFINE S == Totals(legs, contracts, charges)
           m == best * contracts - charges
<1>1. \A k \in Kinks(legs) : Pnl(k, legs) \in Int
  <2> TAKE k \in Kinks(legs)
  <2>1. Kinks(legs) \in SUBSET Nat
    BY KinkSet
  <2>9. k \in Int
    BY <2>1
  <2>2. QED
    BY <2>9, PnlType
<1>2. \A k \in Kinks(legs) : Pnl(k, legs) * contracts - charges \in Int /\ Pnl(k, legs) * contracts - charges <= m
  <2> TAKE k \in Kinks(legs)
  <2>1. Pnl(k, legs) \in Int /\ Pnl(k, legs) <= best
    BY <1>1
  <2>2. \A a, b \in Int : a <= b => a * contracts <= b * contracts
    OBVIOUS
  <2>3. QED
    BY <2>1, <2>2
<1>3. S \in SUBSET Int /\ m \in S /\ \A n \in S : n <= m
  BY <1>2 DEF Totals
<1>4. Greatest(S) = m
  <2> HIDE DEF S, m
  <2>1. QED
    BY <1>3, GreatestIs
<1>5. QED
  BY <1>4 DEF GenericProfit

\* What the kinks of a structure make, at the least and at the most.
Ranges(legs, worst, best) ==
  /\ worst \in Int /\ best \in Int
  /\ \E k \in Kinks(legs) : Pnl(k, legs) = worst
  /\ \E k \in Kinks(legs) : Pnl(k, legs) = best
  /\ \A k \in Kinks(legs) : worst <= Pnl(k, legs) /\ Pnl(k, legs) <= best

LEMMA ReportAgrees ==
  ASSUME NEW legs, Quoted(legs), NEW family, family \notin {"long_straddle", "long_strangle"},
         NEW loss \in Nat, NEW profit \in Int, Formula(family, legs) = Found(loss, profit),
         Ranges(legs, -loss, profit), NEW contracts \in Nat, NEW charges \in Nat,
         FormulaProfit(family, legs, contracts, charges) >= 0
  PROVE  /\ GenericLoss(legs, contracts, charges) = FormulaLoss(family, legs, contracts, charges)
         /\ GenericProfit(legs, contracts, charges) = FormulaProfit(family, legs, contracts, charges)
<1>1. /\ FormulaLoss(family, legs, contracts, charges) = loss * contracts + charges
      /\ FormulaProfit(family, legs, contracts, charges) = profit * contracts - charges
  BY DEF FormulaLoss, FormulaProfit, Found
<1>2. GenericLoss(legs, contracts, charges) = Above(charges - (-loss) * contracts)
  <2>1. /\ -loss \in Int /\ \E k \in Kinks(legs) : Pnl(k, legs) = -loss
        /\ \A k \in Kinks(legs) : -loss <= Pnl(k, legs)
    BY DEF Ranges
  <2>2. QED
    BY <2>1, LossFrom
<1>3. GenericProfit(legs, contracts, charges) = Above(profit * contracts - charges)
  <2>1. /\ \E k \in Kinks(legs) : Pnl(k, legs) = profit
        /\ \A k \in Kinks(legs) : Pnl(k, legs) <= profit
    BY DEF Ranges
  <2>2. charges \in Int
    OBVIOUS
  <2>3. QED
    BY <2>1, <2>2, ProfitFrom
<1>4. loss * contracts \in Nat /\ profit * contracts \in Int /\ (-loss) * contracts = -(loss * contracts)
  OBVIOUS
<1>5. Above(charges - (-loss) * contracts) = loss * contracts + charges
  <2> DEFINE n == loss * contracts
  <2>1. n \in Nat /\ charges - (-loss) * contracts = charges + n
    BY <1>4
  <2> HIDE DEF n
  <2>2. Above(charges + n) = n + charges
    BY <2>1 DEF Above
  <2>3. QED
    BY <2>1, <2>2 DEF n
<1>6. Above(profit * contracts - charges) = profit * contracts - charges
  <2> DEFINE n == profit * contracts - charges
  <2>1. n \in Int /\ n >= 0
    BY <1>1, <1>4
  <2> HIDE DEF n
  <2>2. Above(n) = n
    BY <2>1 DEF Above
  <2>3. QED
    BY <2>2 DEF n
<1>7. QED
  BY <1>1, <1>2, <1>3, <1>5, <1>6

\* What a leg of a quoted structure makes.
LEMMA LegMakes ==
  ASSUME NEW legs, Quoted(legs), NEW i \in DOMAIN legs, NEW spot \in Int
  PROVE  /\ Intrinsic(spot, legs[i]) \in Nat /\ LegPnl(spot, legs[i]) \in Int
         /\ legs[i].side = "BUY" => LegPnl(spot, legs[i]) = Intrinsic(spot, legs[i]) - legs[i].premium
         /\ legs[i].side = "SELL" /\ Len(legs) # 3
              => LegPnl(spot, legs[i]) = legs[i].premium - Intrinsic(spot, legs[i])
         /\ legs[i].side = "SELL" /\ Len(legs) = 3
              => LegPnl(spot, legs[i]) = 2 * (legs[i].premium - Intrinsic(spot, legs[i]))
<1> DEFINE x == Intrinsic(spot, legs[i])
           p == legs[i].premium
<1>1. x \in Nat /\ p \in Nat /\ legs[i].side \in {"BUY", "SELL"}
  BY DEF Intrinsic, Above, Quoted, Sides
<1>2. LegPnl(spot, legs[i]) = Signed(legs[i]) * (x - p)
  BY DEF LegPnl
<1> HIDE DEF x, p
<1>3. CASE legs[i].side = "BUY"
  <2>1. Signed(legs[i]) = 1
    BY <1>3 DEF Signed, Quoted
  <2>2. QED
    BY <1>1, <1>2, <1>3, <2>1 DEF x, p
<1>4. CASE legs[i].side = "SELL" /\ Len(legs) # 3
  <2>1. Signed(legs[i]) = -1
    BY <1>4 DEF Signed, Quoted
  <2>2. LegPnl(spot, legs[i]) = p - x
    BY <1>1, <1>2, <2>1
  <2>3. QED
    BY <1>1, <1>4, <2>2 DEF x, p
<1>5. CASE legs[i].side = "SELL" /\ Len(legs) = 3
  <2>1. Signed(legs[i]) = -2
    BY <1>5 DEF Signed, Quoted
  <2>2. LegPnl(spot, legs[i]) = 2 * (p - x)
    BY <1>1, <1>2, <2>1
  <2>3. QED
    BY <1>1, <1>5, <2>2 DEF x, p
<1>6. QED
  BY <1>1, <1>3, <1>4, <1>5

LEMMA WholeMakes ==
  ASSUME NEW legs, Quoted(legs), NEW spot \in Int
  PROVE  /\ Len(legs) = 2 => Pnl(spot, legs) = LegPnl(spot, legs[1]) + LegPnl(spot, legs[2])
         /\ Len(legs) = 3 => Pnl(spot, legs) =
              LegPnl(spot, legs[1]) + LegPnl(spot, legs[2]) + LegPnl(spot, legs[3])
         /\ Len(legs) = 4 => Pnl(spot, legs) =
              LegPnl(spot, legs[1]) + LegPnl(spot, legs[2]) + LegPnl(spot, legs[3]) + LegPnl(spot, legs[4])
<1> DEFINE f == [i \in DOMAIN legs |-> LegPnl(spot, legs[i])]
<1>1. Pnl(spot, legs) = At(f, 1) + At(f, 2) + At(f, 3) + At(f, 4)
  BY DEF Pnl, Sum
<1>2. \A i \in DOMAIN legs : At(f, i) = LegPnl(spot, legs[i]) /\ LegPnl(spot, legs[i]) \in Int
  BY LegMakes DEF At
<1>3. \A i : i \notin DOMAIN legs => At(f, i) = 0
  BY DEF At
<1>4. DOMAIN legs = 1..Len(legs)
  BY DEF Quoted
<1> HIDE DEF f
<1>5. ASSUME Len(legs) = 2 PROVE Pnl(spot, legs) = LegPnl(spot, legs[1]) + LegPnl(spot, legs[2])
  <2>1. 1 \in DOMAIN legs /\ 2 \in DOMAIN legs /\ 3 \notin DOMAIN legs /\ 4 \notin DOMAIN legs
    BY <1>4, <1>5
  <2>2. QED
    BY <1>1, <1>2, <1>3, <2>1
<1>6. ASSUME Len(legs) = 3
      PROVE  Pnl(spot, legs) = LegPnl(spot, legs[1]) + LegPnl(spot, legs[2]) + LegPnl(spot, legs[3])
  <2>1. 1 \in DOMAIN legs /\ 2 \in DOMAIN legs /\ 3 \in DOMAIN legs /\ 4 \notin DOMAIN legs
    BY <1>4, <1>6
  <2>2. QED
    BY <1>1, <1>2, <1>3, <2>1
<1>7. ASSUME Len(legs) = 4
      PROVE  Pnl(spot, legs) =
               LegPnl(spot, legs[1]) + LegPnl(spot, legs[2]) + LegPnl(spot, legs[3]) + LegPnl(spot, legs[4])
  <2>1. 1 \in DOMAIN legs /\ 2 \in DOMAIN legs /\ 3 \in DOMAIN legs /\ 4 \in DOMAIN legs
    BY <1>4, <1>7
  <2>2. QED
    BY <1>1, <1>2, <2>1
<1>8. QED
  BY <1>5, <1>6, <1>7

\* Two options of one kind, one bought: what they make apart from what they cost.
Gap(spot, kind, long, short) ==
  IF kind = "CALL" THEN Above(spot - long) - Above(spot - short)
  ELSE Above(long - spot) - Above(short - spot)

\* The option bought is worth more than the one sold, or less.
Dearer(kind, long, short) == IF kind = "CALL" THEN long < short ELSE long > short

Wide(long, short) == Larger(long - short, short - long)

LEMMA GapUp ==
  ASSUME NEW kind \in OptionKinds, NEW long \in Nat, NEW short \in Nat, Dearer(kind, long, short),
         NEW spot \in Nat
  PROVE  /\ Gap(spot, kind, long, short) \in Int
         /\ 0 <= Gap(spot, kind, long, short) /\ Gap(spot, kind, long, short) <= Wide(long, short)
         /\ Gap(long, kind, long, short) = 0 /\ Gap(short, kind, long, short) = Wide(long, short)
<1>1. kind = "CALL" \/ kind = "PUT"
  BY DEF OptionKinds
<1>2. CASE kind = "CALL"
  BY <1>2 DEF Gap, Above, Dearer, Wide, Larger
<1>3. CASE kind = "PUT"
  BY <1>3 DEF Gap, Above, Dearer, Wide, Larger
<1>4. QED
  BY <1>1, <1>2, <1>3

LEMMA GapDown ==
  ASSUME NEW kind \in OptionKinds, NEW long \in Nat, NEW short \in Nat, ~Dearer(kind, long, short),
         NEW spot \in Nat
  PROVE  /\ Gap(spot, kind, long, short) \in Int
         /\ -Wide(long, short) <= Gap(spot, kind, long, short) /\ Gap(spot, kind, long, short) <= 0
         /\ Gap(short, kind, long, short) = 0 /\ Gap(long, kind, long, short) = -Wide(long, short)
<1>1. kind = "CALL" \/ kind = "PUT"
  BY DEF OptionKinds
<1>2. CASE kind = "CALL"
  BY <1>2 DEF Gap, Above, Dearer, Wide, Larger
<1>3. CASE kind = "PUT"
  BY <1>3 DEF Gap, Above, Dearer, Wide, Larger
<1>4. QED
  BY <1>1, <1>2, <1>3

LEMMA PairPnl ==
  ASSUME NEW legs, Quoted(legs), Len(legs) = 2, NEW b \in {1, 2}, NEW s \in {1, 2}, b # s,
         legs[b].side = "BUY", legs[s].side = "SELL", legs[b].kind = legs[s].kind
  PROVE  /\ Kinks(legs) = {0, legs[b].strike, legs[s].strike} /\ Kinks(legs) \subseteq Nat
         /\ \A spot \in Nat : Pnl(spot, legs) = Gap(spot, legs[b].kind, legs[b].strike, legs[s].strike)
                                                 + legs[s].premium - legs[b].premium
<1>1. DOMAIN legs = {1, 2}
  BY DEF Quoted
<1>2. Kinks(legs) = {0, legs[b].strike, legs[s].strike} /\ Kinks(legs) \subseteq Nat
  <2>1. Kinks(legs) = {0, legs[1].strike, legs[2].strike}
    BY <1>1 DEF Kinks
  <2>2. {b, s} = {1, 2}
    OBVIOUS
  <2>3. QED
    BY <2>1, <2>2, KinkSet
<1>3. ASSUME NEW spot \in Nat
      PROVE  Pnl(spot, legs) = Gap(spot, legs[b].kind, legs[b].strike, legs[s].strike)
                                 + legs[s].premium - legs[b].premium
  <2> DEFINE u == LegPnl(spot, legs[b])
             v == LegPnl(spot, legs[s])
             x == Intrinsic(spot, legs[b])
             y == Intrinsic(spot, legs[s])
  <2>1. /\ u = x - legs[b].premium /\ v = legs[s].premium - y
        /\ x \in Nat /\ y \in Nat /\ u \in Int /\ v \in Int
    <3>1. b \in DOMAIN legs /\ s \in DOMAIN legs /\ spot \in Int /\ Len(legs) # 3
      BY <1>1
    <3>2. u = x - legs[b].premium /\ x \in Nat /\ u \in Int
      BY <3>1, LegMakes
    <3>3. v = legs[s].premium - y /\ y \in Nat /\ v \in Int
      BY <3>1, LegMakes
    <3>4. QED
      BY <3>2, <3>3
  <2>2. Pnl(spot, legs) = u + v
    <3>1. Pnl(spot, legs) = LegPnl(spot, legs[1]) + LegPnl(spot, legs[2])
      BY WholeMakes
    <3>2. CASE b = 1
      BY <2>1, <3>1, <3>2
    <3>3. CASE b = 2
      BY <2>1, <3>1, <3>3
    <3>4. QED
      BY <3>2, <3>3
  <2>3. x - y = Gap(spot, legs[b].kind, legs[b].strike, legs[s].strike)
    BY DEF Intrinsic, Gap
  <2>4. legs[b].premium \in Nat /\ legs[s].premium \in Nat
    BY <1>1 DEF Quoted
  <2> HIDE DEF u, v, x, y
  <2>5. QED
    BY <2>1, <2>2, <2>3, <2>4
<1>4. QED
  BY <1>2, <1>3

\* A pair's gap is attained at its strikes from least to most.
LEMMA PairRanges ==
  ASSUME NEW legs, Quoted(legs), Len(legs) = 2, NEW b \in {1, 2}, NEW s \in {1, 2}, b # s,
         legs[b].side = "BUY", legs[s].side = "SELL", legs[b].kind = legs[s].kind
  PROVE  LET net == legs[b].premium - legs[s].premium
             width == Wide(legs[b].strike, legs[s].strike)
         IN  /\ Dearer(legs[b].kind, legs[b].strike, legs[s].strike) => Ranges(legs, -net, width - net)
             /\ ~Dearer(legs[b].kind, legs[b].strike, legs[s].strike) => Ranges(legs, -(width + net), -net)
<1> DEFINE long == legs[b].strike
           short == legs[s].strike
           kind == legs[b].kind
           p == legs[s].premium
           q == legs[b].premium
           width == Wide(long, short)
<1>1. long \in Nat /\ short \in Nat /\ kind \in OptionKinds /\ p \in Nat /\ q \in Nat
  BY DEF Quoted
<1>2. /\ Kinks(legs) = {0, long, short}
      /\ \A spot \in Nat : Pnl(spot, legs) = Gap(spot, kind, long, short) + p - q
  BY PairPnl
<1>3. width \in Nat
  BY <1>1 DEF Wide, Larger
<1> HIDE DEF long, short, kind, p, q
<1>5. ASSUME Dearer(kind, long, short) PROVE Ranges(legs, -(q - p), width - (q - p))
  <2>1. \A spot \in Nat : /\ Gap(spot, kind, long, short) \in Int
                           /\ 0 <= Gap(spot, kind, long, short) /\ Gap(spot, kind, long, short) <= width
    BY <1>1, <1>5, GapUp
  <2>2. Gap(long, kind, long, short) = 0 /\ Gap(short, kind, long, short) = width
    BY <1>1, <1>5, GapUp
  <2> HIDE DEF width
  <2>3. QED
    BY <1>1, <1>2, <1>3, <2>1, <2>2 DEF Ranges
<1>6. ASSUME ~Dearer(kind, long, short) PROVE Ranges(legs, -(width + (q - p)), -(q - p))
  <2>1. \A spot \in Nat : /\ Gap(spot, kind, long, short) \in Int
                           /\ -width <= Gap(spot, kind, long, short) /\ Gap(spot, kind, long, short) <= 0
    BY <1>1, <1>6, GapDown
  <2>2. Gap(short, kind, long, short) = 0 /\ Gap(long, kind, long, short) = -width
    BY <1>1, <1>6, GapDown
  <2> HIDE DEF width
  <2>3. QED
    BY <1>1, <1>2, <1>3, <2>1, <2>2 DEF Ranges
<1>7. QED
  BY <1>5, <1>6 DEF long, short, kind, p, q, width

\* A formula that matches names the range of the kinks.
Names(found, legs) ==
  \E loss \in Nat, profit \in Int : found = Found(loss, profit) /\ Ranges(legs, -loss, profit)

\* Vertical, of the leg bought and the leg sold.
VerticalOf(family, buy, sell) ==
  LET kind == IF family \in {"bull_call_debit", "bear_call_credit"} THEN "CALL" ELSE "PUT"
      debit == family \in {"bull_call_debit", "bear_put_debit"}
      width == Wide(buy.strike, sell.strike)
      net == IF debit THEN buy.premium - sell.premium ELSE sell.premium - buy.premium
  IN
  IF ~(buy.kind = kind /\ sell.kind = kind
       /\ IF family \in {"bull_call_debit", "bull_put_credit"}
            THEN buy.strike < sell.strike ELSE buy.strike > sell.strike)
    THEN Unmatched
  ELSE IF net <= 0 \/ net >= width THEN Invalid
  ELSE IF debit THEN Found(net, width - net) ELSE Found(width - net, net)

LEMMA VerticalTells ==
  ASSUME NEW legs, Quoted(legs), NEW family \in Verticals,
         (legs[1].side = "BUY" /\ legs[2].side = "SELL") \/ (legs[1].side = "SELL" /\ legs[2].side = "BUY")
  PROVE  /\ legs[1].side = "BUY" => Vertical(family, legs) = VerticalOf(family, legs[1], legs[2])
         /\ legs[2].side = "BUY" => Vertical(family, legs) = VerticalOf(family, legs[2], legs[1])
<1>1. CASE family = "bull_call_debit"
  BY <1>1 DEF Vertical, VerticalOf, Wide
<1>2. CASE family = "bear_put_debit"
  BY <1>2 DEF Vertical, VerticalOf, Wide
<1>3. CASE family = "bull_put_credit"
  BY <1>3 DEF Vertical, VerticalOf, Wide
<1>4. CASE family = "bear_call_credit"
  BY <1>4 DEF Vertical, VerticalOf, Wide
<1>5. QED
  BY <1>1, <1>2, <1>3, <1>4 DEF Verticals

LEMMA VerticalOfNames ==
  ASSUME NEW legs, Quoted(legs), Len(legs) = 2, NEW b \in {1, 2}, NEW s \in {1, 2}, b # s,
         legs[b].side = "BUY", legs[s].side = "SELL", NEW family \in Verticals,
         VerticalOf(family, legs[b], legs[s]).verdict = "matched"
  PROVE  Names(VerticalOf(family, legs[b], legs[s]), legs)
<1> DEFINE net == legs[b].premium - legs[s].premium
           width == Wide(legs[b].strike, legs[s].strike)
<1>1. legs[b].kind = legs[s].kind
  BY DEF VerticalOf, Unmatched
<1>2. DOMAIN legs = {1, 2}
  BY DEF Quoted
<1>3. net \in Int /\ width \in Nat
  BY <1>2 DEF Quoted, Wide, Larger
<1>4. /\ Dearer(legs[b].kind, legs[b].strike, legs[s].strike) => Ranges(legs, -net, width - net)
      /\ ~Dearer(legs[b].kind, legs[b].strike, legs[s].strike) => Ranges(legs, -(width + net), -net)
  BY <1>1, PairRanges
<1>5. legs[b].strike \in Nat /\ legs[s].strike \in Nat /\ legs[b].premium \in Nat /\ legs[s].premium \in Nat
  BY <1>2 DEF Quoted
<1>6. CASE family \in {"bull_call_debit", "bear_put_debit"}
  <2>1. /\ VerticalOf(family, legs[b], legs[s]) = Found(net, width - net) /\ net > 0
        /\ Dearer(legs[b].kind, legs[b].strike, legs[s].strike)
    BY <1>5, <1>6 DEF VerticalOf, Unmatched, Invalid, Dearer
  <2> HIDE DEF net, width
  <2>2. net \in Nat /\ width - net \in Int
    BY <1>3, <2>1
  <2>3. QED
    BY <1>4, <2>1, <2>2 DEF Names
<1>7. CASE family \in {"bull_put_credit", "bear_call_credit"}
  <2>1. /\ VerticalOf(family, legs[b], legs[s]) = Found(width - (legs[s].premium - legs[b].premium), legs[s].premium - legs[b].premium)
        /\ ~(legs[s].premium - legs[b].premium >= width)
        /\ ~Dearer(legs[b].kind, legs[b].strike, legs[s].strike)
    BY <1>5, <1>7 DEF VerticalOf, Unmatched, Invalid, Dearer
  <2>2. legs[s].premium - legs[b].premium = -net
    BY <1>5
  <2> HIDE DEF net, width
  <2>3. width - (-net) = width + net /\ width + net \in Nat /\ -net \in Int
    BY <1>3, <2>1, <2>2
  <2>4. VerticalOf(family, legs[b], legs[s]) = Found(width + net, -net)
    BY <2>1, <2>2, <2>3
  <2>5. Ranges(legs, -(width + net), -net)
    BY <1>4, <2>1
  <2>6. QED
    BY <2>3, <2>4, <2>5 DEF Names
<1>8. QED
  BY <1>6, <1>7 DEF Verticals

LEMMA VerticalNames ==
  ASSUME NEW legs, Quoted(legs), Len(legs) = 2, legs[1].kind = legs[2].kind => legs[1].side # legs[2].side,
         NEW family \in Verticals, Vertical(family, legs).verdict = "matched"
  PROVE  Names(Vertical(family, legs), legs)
<1>1. legs[1].kind = legs[2].kind
  BY DEF Vertical, Unmatched
<1>2. legs[1].side \in {"BUY", "SELL"} /\ legs[2].side \in {"BUY", "SELL"}
  BY DEF Quoted, Sides
<1>3. CASE legs[1].side = "BUY"
  <2>1. legs[2].side = "SELL"
    BY <1>1, <1>2, <1>3
  <2>2. Vertical(family, legs) = VerticalOf(family, legs[1], legs[2])
    <3>1. legs[1].side = "BUY" /\ legs[2].side = "SELL"
      BY <1>3, <2>1
    <3>2. QED
      BY <3>1, VerticalTells
  <2>3. QED
    BY <1>3, <2>1, <2>2, VerticalOfNames
<1>4. CASE legs[1].side = "SELL"
  <2>1. legs[2].side = "BUY"
    BY <1>1, <1>2, <1>4
  <2>2. Vertical(family, legs) = VerticalOf(family, legs[2], legs[1])
    <3>1. legs[1].side = "SELL" /\ legs[2].side = "BUY"
      BY <1>4, <2>1
    <3>2. QED
      BY <3>1, VerticalTells
  <2>3. QED
    BY <1>4, <2>1, <2>2, VerticalOfNames
<1>5. QED
  BY <1>2, <1>3, <1>4

\* The leg of a kind and side, where there is one.
LEMMA TheOnlyLeg ==
  ASSUME NEW legs, Quoted(legs), NEW kind, NEW side, Cardinality(Of(legs, kind, side)) = 1
  PROVE  \E i \in DOMAIN legs : /\ legs[i].kind = kind /\ legs[i].side = side
                                /\ Of(legs, kind, side) = {i} /\ TheLeg(legs, kind, side) = legs[i]
<1> DEFINE S == Of(legs, kind, side)
<1>1. DOMAIN legs = 1..Len(legs) /\ Len(legs) \in Nat /\ S \subseteq DOMAIN legs
  BY DEF Quoted, Of
<1>2. IsFiniteSet(S)
  <2>1. IsFiniteSet(DOMAIN legs)
    BY <1>1, FS_Interval
  <2> HIDE DEF S
  <2>2. QED
    BY <1>1, <2>1, FS_Subset
<1>3. PICK i : S = {i}
  BY <1>2, FS_Singleton
<1>4. i \in DOMAIN legs /\ legs[i].kind = kind /\ legs[i].side = side
  BY <1>3 DEF Of
<1>5. Least(S) = i
  <2>1. i \in Int
    BY <1>1, <1>4
  <2> HIDE DEF S
  <2>2. S \in SUBSET Int /\ i \in S /\ \A n \in S : i <= n
    BY <1>3, <2>1
  <2>3. QED
    BY <2>2, LeastIs
<1>6. QED
  BY <1>3, <1>4, <1>5 DEF TheLeg

\* A straddle and a strangle lose both premiums between their strikes.
LEMMA VolatilityLoses ==
  ASSUME NEW legs, Quoted(legs), Len(legs) = 2, NEW family \in {"long_straddle", "long_strangle"},
         Volatility(family, legs).verdict = "matched", NEW contracts \in Nat, NEW charges \in Nat
  PROVE  /\ GenericLoss(legs, contracts, charges) = Volatility(family, legs).loss * contracts + charges
         /\ UpperSlope(legs) > 0
<1>1. /\ Cardinality(Of(legs, "CALL", "BUY")) = 1 /\ Cardinality(Of(legs, "PUT", "BUY")) = 1
      /\ IF family = "long_straddle" THEN TheLeg(legs, "CALL", "BUY").strike = TheLeg(legs, "PUT", "BUY").strike
         ELSE TheLeg(legs, "PUT", "BUY").strike < TheLeg(legs, "CALL", "BUY").strike
      /\ Volatility(family, legs) = Found(TheLeg(legs, "CALL", "BUY").premium + TheLeg(legs, "PUT", "BUY").premium, 0)
  BY DEF Volatility, Unmatched, Invalid, OptionKinds
<1>2. PICK c \in DOMAIN legs : /\ legs[c].kind = "CALL" /\ legs[c].side = "BUY" /\ TheLeg(legs, "CALL", "BUY") = legs[c]
  BY <1>1, TheOnlyLeg
<1>3. PICK p \in DOMAIN legs : /\ legs[p].kind = "PUT" /\ legs[p].side = "BUY" /\ TheLeg(legs, "PUT", "BUY") = legs[p]
  BY <1>1, TheOnlyLeg
<1>4. DOMAIN legs = {1, 2}
  BY DEF Quoted
<1>5. (c = 1 /\ p = 2) \/ (c = 2 /\ p = 1)
  <2>1. c # p
    BY <1>2, <1>3
  <2>2. c \in {1, 2} /\ p \in {1, 2}
    BY <1>4
  <2>3. QED
    BY <2>1, <2>2
<1> DEFINE loss == legs[c].premium + legs[p].premium
           k == legs[c].strike
           l == legs[p].strike
<1>6. k \in Nat /\ l \in Nat /\ l <= k /\ legs[c].premium \in Nat /\ legs[p].premium \in Nat
  BY <1>1, <1>2, <1>3 DEF Quoted
<1>7. ASSUME NEW spot \in Nat
      PROVE  Pnl(spot, legs) = Above(spot - k) + Above(l - spot) - loss
  <2>1. /\ LegPnl(spot, legs[c]) = Intrinsic(spot, legs[c]) - legs[c].premium
        /\ LegPnl(spot, legs[p]) = Intrinsic(spot, legs[p]) - legs[p].premium
    BY <1>2, <1>3, LegMakes
  <2>2. Intrinsic(spot, legs[c]) = Above(spot - k) /\ Intrinsic(spot, legs[p]) = Above(l - spot)
    BY <1>2, <1>3 DEF Intrinsic
  <2>3. Above(spot - k) \in Int /\ Above(l - spot) \in Int
    BY <1>6 DEF Above
  <2>4. Pnl(spot, legs) = LegPnl(spot, legs[1]) + LegPnl(spot, legs[2])
    BY WholeMakes
  <2>5. Pnl(spot, legs) = LegPnl(spot, legs[c]) + LegPnl(spot, legs[p])
    <3>2. LegPnl(spot, legs[1]) \in Int /\ LegPnl(spot, legs[2]) \in Int
      BY <1>4, LegMakes
    <3>3. QED
      BY <1>5, <2>4, <3>2
  <2> HIDE DEF k, l
  <2>6. QED
    BY <1>6, <2>1, <2>2, <2>3, <2>5
<1>8. loss \in Nat
  BY <1>6
<1>9. Kinks(legs) \in SUBSET Nat /\ k \in Kinks(legs)
  BY <1>2, KinkSet DEF Kinks
<1>10. UpperSlope(legs) > 0
  <2> DEFINE g == [i \in DOMAIN legs |-> IF legs[i].kind = "CALL" THEN Signed(legs[i]) ELSE 0]
  <2>1. g[c] = 1 /\ g[p] = 0
    <3>1. Signed(legs[c]) = 1
      BY <1>2 DEF Signed, Quoted
    <3>2. QED
      BY <1>2, <1>3, <3>1
  <2>2. DOMAIN g = {1, 2}
    BY <1>4
  <2>3. UpperSlope(legs) = At(g, 1) + At(g, 2) + At(g, 3) + At(g, 4)
    BY DEF UpperSlope, Sum
  <2> HIDE DEF g
  <2>4. At(g, 3) = 0 /\ At(g, 4) = 0 /\ At(g, 1) = g[1] /\ At(g, 2) = g[2]
    BY <2>2 DEF At
  <2>6. QED
    BY <1>5, <2>1, <2>3, <2>4
<1> HIDE DEF k, l, loss
<1>11. Pnl(k, legs) = -loss
  <2>1. Above(k - k) = 0 /\ Above(l - k) = 0
    BY <1>6 DEF Above
  <2>2. QED
    BY <1>6, <1>7, <1>8, <2>1
<1>12. \A s \in Kinks(legs) : -loss <= Pnl(s, legs)
  <2> TAKE s \in Kinks(legs)
  <2>1. s \in Nat
    BY <1>9
  <2>2. Above(s - k) \in Nat /\ Above(l - s) \in Nat
    BY <1>6, <2>1 DEF Above
  <2>3. QED
    BY <1>7, <1>8, <2>1, <2>2
<1>13. GenericLoss(legs, contracts, charges) = Above(charges - (-loss) * contracts)
  <2>1. -loss \in Int /\ charges \in Int
    BY <1>8
  <2>2. QED
    BY <1>9, <1>11, <1>12, <2>1, LossFrom
<1>14. Above(charges - (-loss) * contracts) = loss * contracts + charges
  <2> DEFINE n == loss * contracts
  <2>1. n \in Nat /\ charges - (-loss) * contracts = charges + n
    BY <1>8
  <2> HIDE DEF n
  <2>2. Above(charges + n) = n + charges
    BY <2>1 DEF Above
  <2>3. QED
    BY <2>1, <2>2 DEF n
<1>15. Volatility(family, legs).loss = loss
  BY <1>1, <1>2, <1>3 DEF Found, loss
<1>16. QED
  BY <1>10, <1>13, <1>14, <1>15

\* A condor or an iron butterfly, apart from its credit.
Tent(spot, a, b, c, d) == Above(a - spot) - Above(b - spot) - Above(spot - c) + Above(spot - d)

LEMMA TentRange ==
  ASSUME NEW a \in Nat, NEW b \in Nat, NEW c \in Nat, NEW d \in Nat, a < b, b <= c, c < d,
         NEW spot \in Nat
  PROVE  LET wing == Larger(b - a, d - c) IN
         /\ wing \in Nat /\ Tent(spot, a, b, c, d) \in Int
         /\ -wing <= Tent(spot, a, b, c, d) /\ Tent(spot, a, b, c, d) <= 0
         /\ Tent(b, a, b, c, d) = 0
         /\ Tent(a, a, b, c, d) = -(b - a) /\ Tent(d, a, b, c, d) = -(d - c)
<1> DEFINE x == Above(a - spot) - Above(b - spot)
           y == Above(spot - d) - Above(spot - c)
<1>1. x \in Int /\ -(b - a) <= x /\ x <= 0 /\ (spot >= b => x = 0)
  BY DEF Above
<1>2. y \in Int /\ -(d - c) <= y /\ y <= 0 /\ (spot <= c => y = 0)
  BY DEF Above
<1>3. Tent(spot, a, b, c, d) = x + y
  <2>1. Above(a - spot) \in Int /\ Above(b - spot) \in Int /\ Above(spot - c) \in Int /\ Above(spot - d) \in Int
    BY DEF Above
  <2>2. QED
    BY <2>1 DEF Tent
<1> HIDE DEF x, y
<1>4. -Larger(b - a, d - c) <= x + y /\ x + y <= 0 /\ Larger(b - a, d - c) \in Nat
  BY <1>1, <1>2 DEF Larger
<1>5. Tent(b, a, b, c, d) = 0 /\ Tent(a, a, b, c, d) = -(b - a) /\ Tent(d, a, b, c, d) = -(d - c)
  BY DEF Tent, Above
<1>6. QED
  BY <1>1, <1>2, <1>3, <1>4, <1>5

LEMMA FourOfKind ==
  ASSUME NEW legs, Quoted(legs), Len(legs) = 4, NEW spot \in Nat,
         NEW a \in DOMAIN legs, NEW b \in DOMAIN legs, NEW c \in DOMAIN legs, NEW d \in DOMAIN legs,
         legs[a].kind = "PUT", legs[a].side = "BUY", legs[b].kind = "PUT", legs[b].side = "SELL",
         legs[c].kind = "CALL", legs[c].side = "SELL", legs[d].kind = "CALL", legs[d].side = "BUY"
  PROVE  Pnl(spot, legs) = Tent(spot, legs[a].strike, legs[b].strike, legs[c].strike, legs[d].strike)
           + ((legs[b].premium + legs[c].premium) - (legs[a].premium + legs[d].premium))
<1> DEFINE w(i) == LegPnl(spot, legs[i])
           x(i) == Intrinsic(spot, legs[i])
<1>1. DOMAIN legs = 1..4
  BY DEF Quoted
<1>2. a \in 1..4 /\ b \in 1..4 /\ c \in 1..4 /\ d \in 1..4
  BY <1>1
<1>3. a # b /\ a # c /\ a # d /\ b # c /\ b # d /\ c # d
  OBVIOUS
<1>4. Pnl(spot, legs) = w(1) + w(2) + w(3) + w(4)
  BY WholeMakes
<1>0. spot \in Int /\ Len(legs) # 3
  OBVIOUS
<1>13. \A i \in DOMAIN legs : /\ Intrinsic(spot, legs[i]) \in Int /\ LegPnl(spot, legs[i]) \in Int
                              /\ legs[i].side = "BUY" => LegPnl(spot, legs[i]) = Intrinsic(spot, legs[i]) - legs[i].premium
                              /\ legs[i].side = "SELL" => LegPnl(spot, legs[i]) = legs[i].premium - Intrinsic(spot, legs[i])
                              /\ legs[i].premium \in Int
  <2> TAKE i \in DOMAIN legs
  <2>1. legs[i].premium \in Int
    BY DEF Quoted
  <2> HIDE DEF w, x
  <2>2. spot \in Int /\ Len(legs) # 3
    BY <1>0
  <2>3. /\ Intrinsic(spot, legs[i]) \in Nat /\ LegPnl(spot, legs[i]) \in Int
        /\ legs[i].side = "BUY" => LegPnl(spot, legs[i]) = Intrinsic(spot, legs[i]) - legs[i].premium
        /\ legs[i].side = "SELL" /\ Len(legs) # 3
             => LegPnl(spot, legs[i]) = legs[i].premium - Intrinsic(spot, legs[i])
    BY <2>2, LegMakes
  <2>4. Intrinsic(spot, legs[i]) \in Int
    BY <2>3
  <2>5. QED
    BY <2>1, <2>2, <2>3, <2>4
<1>14. 1 \in DOMAIN legs /\ 2 \in DOMAIN legs /\ 3 \in DOMAIN legs /\ 4 \in DOMAIN legs
  BY <1>1
<1>5. w(1) \in Int /\ w(2) \in Int /\ w(3) \in Int /\ w(4) \in Int
  BY <1>13, <1>14
<1>6. /\ w(a) = x(a) - legs[a].premium /\ w(b) = legs[b].premium - x(b)
      /\ w(c) = legs[c].premium - x(c) /\ w(d) = x(d) - legs[d].premium
  BY <1>13
<1>7. /\ x(a) = Above(legs[a].strike - spot) /\ x(b) = Above(legs[b].strike - spot)
      /\ x(c) = Above(spot - legs[c].strike) /\ x(d) = Above(spot - legs[d].strike)
  BY DEF Intrinsic
<1>8. /\ x(a) \in Int /\ x(b) \in Int /\ x(c) \in Int /\ x(d) \in Int
      /\ legs[a].premium \in Int /\ legs[b].premium \in Int /\ legs[c].premium \in Int /\ legs[d].premium \in Int
  BY <1>13
<1>9. w(1) + w(2) + w(3) + w(4) = w(a) + w(b) + w(c) + w(d)
  <2> HIDE DEF w
  <2>1. CASE a = 1
    BY <1>2, <1>3, <1>5, <2>1
  <2>2. CASE a = 2
    BY <1>2, <1>3, <1>5, <2>2
  <2>3. CASE a = 3
    BY <1>2, <1>3, <1>5, <2>3
  <2>4. CASE a = 4
    BY <1>2, <1>3, <1>5, <2>4
  <2>5. QED
    BY <1>2, <2>1, <2>2, <2>3, <2>4
<1>10. Tent(spot, legs[a].strike, legs[b].strike, legs[c].strike, legs[d].strike) = x(a) - x(b) - x(c) + x(d)
  BY <1>7 DEF Tent
<1> HIDE DEF w, x
<1>11. QED
  BY <1>4, <1>6, <1>8, <1>9, <1>10

LEMMA ShieldedNames ==
  ASSUME NEW legs, Quoted(legs), Len(legs) = 4, NEW family, Shielded(family, legs).verdict = "matched"
  PROVE  Names(Shielded(family, legs), legs)
<1>1. \A kind \in OptionKinds, side \in Sides : Cardinality(Of(legs, kind, side)) = 1
  BY DEF Shielded, Unmatched
<1>2. "PUT" \in OptionKinds /\ "CALL" \in OptionKinds /\ "BUY" \in Sides /\ "SELL" \in Sides
  BY DEF OptionKinds, Sides
<1>3. PICK a \in DOMAIN legs : legs[a].kind = "PUT" /\ legs[a].side = "BUY" /\ TheLeg(legs, "PUT", "BUY") = legs[a]
  BY <1>1, <1>2, TheOnlyLeg
<1>4. PICK b \in DOMAIN legs : legs[b].kind = "PUT" /\ legs[b].side = "SELL" /\ TheLeg(legs, "PUT", "SELL") = legs[b]
  BY <1>1, <1>2, TheOnlyLeg
<1>5. PICK c \in DOMAIN legs : legs[c].kind = "CALL" /\ legs[c].side = "SELL" /\ TheLeg(legs, "CALL", "SELL") = legs[c]
  BY <1>1, <1>2, TheOnlyLeg
<1>6. PICK d \in DOMAIN legs : legs[d].kind = "CALL" /\ legs[d].side = "BUY" /\ TheLeg(legs, "CALL", "BUY") = legs[d]
  BY <1>1, <1>2, TheOnlyLeg
<1> DEFINE ka == legs[a].strike
           kb == legs[b].strike
           kc == legs[c].strike
           kd == legs[d].strike
           net == (legs[b].premium + legs[c].premium) - (legs[a].premium + legs[d].premium)
           wing == Larger(kb - ka, kd - kc)
<1>7. /\ ka \in Nat /\ kb \in Nat /\ kc \in Nat /\ kd \in Nat /\ net \in Int
  BY DEF Quoted
<1>8. /\ ka < kb /\ kc < kd
      /\ IF family = Condor THEN kb < kc ELSE kb = kc
      /\ Shielded(family, legs) = Found(wing - net, net) /\ ~(net <= 0 \/ net >= wing)
  BY SMTT(30), <1>3, <1>4, <1>5, <1>6 DEF Shielded, Unmatched, Invalid
<1>9. kb <= kc
  BY <1>7, <1>8
<1>10. \A spot \in Nat : Pnl(spot, legs) = Tent(spot, ka, kb, kc, kd) + net
  BY <1>3, <1>4, <1>5, <1>6, FourOfKind
<1>11. Kinks(legs) \in SUBSET Nat /\ ka \in Kinks(legs) /\ kb \in Kinks(legs) /\ kd \in Kinks(legs)
  BY KinkSet DEF Kinks
<1> HIDE DEF ka, kb, kc, kd, net
<1>12. /\ wing \in Nat
       /\ \A spot \in Nat : /\ Tent(spot, ka, kb, kc, kd) \in Int
                            /\ -wing <= Tent(spot, ka, kb, kc, kd) /\ Tent(spot, ka, kb, kc, kd) <= 0
       /\ Tent(kb, ka, kb, kc, kd) = 0
       /\ Tent(ka, ka, kb, kc, kd) = -(kb - ka) /\ Tent(kd, ka, kb, kc, kd) = -(kd - kc)
  BY <1>7, <1>8, <1>9, TentRange
<1>13. wing = kb - ka \/ wing = kd - kc
  BY DEF Larger
<1> HIDE DEF wing
<1>14. \E k \in Kinks(legs) : Pnl(k, legs) = net
  <2>1. Pnl(kb, legs) = net
    BY <1>7, <1>10, <1>12
  <2>2. QED
    BY <1>11, <2>1
<1>15. \E k \in Kinks(legs) : Pnl(k, legs) = -(wing - net)
  <2>1. CASE wing = kb - ka
    <3>1. Pnl(ka, legs) = -(wing - net)
      BY <1>7, <1>10, <1>12, <2>1
    <3>2. QED
      BY <1>11, <3>1
  <2>2. CASE wing = kd - kc
    <3>1. Pnl(kd, legs) = -(wing - net)
      BY <1>7, <1>10, <1>12, <2>2
    <3>2. QED
      BY <1>11, <3>1
  <2>3. QED
    BY <1>13, <2>1, <2>2
<1>16. \A k \in Kinks(legs) : -(wing - net) <= Pnl(k, legs) /\ Pnl(k, legs) <= net
  BY <1>7, <1>10, <1>11, <1>12
<1>17. wing - net \in Nat
  BY <1>7, <1>8, <1>12
<1>18. Ranges(legs, -(wing - net), net)
  BY <1>7, <1>14, <1>15, <1>16, <1>17 DEF Ranges
<1>19. QED
  BY <1>7, <1>8, <1>17, <1>18 DEF Names

\* A butterfly, apart from its cost.
Hat(spot, kind, l, m, h) ==
  IF kind = "CALL" THEN Above(spot - l) - 2 * Above(spot - m) + Above(spot - h)
  ELSE Above(l - spot) - 2 * Above(m - spot) + Above(h - spot)

LEMMA HatRange ==
  ASSUME NEW kind \in OptionKinds, NEW l \in Nat, NEW m \in Nat, NEW h \in Nat, l < m, m < h, h - m = m - l,
         NEW spot \in Nat
  PROVE  /\ Hat(spot, kind, l, m, h) \in Int
         /\ 0 <= Hat(spot, kind, l, m, h) /\ Hat(spot, kind, l, m, h) <= m - l
         /\ Hat(l, kind, l, m, h) = 0 /\ Hat(m, kind, l, m, h) = m - l
<1>1. CASE kind = "CALL"
  BY <1>1 DEF Hat, Above
<1>2. CASE kind # "CALL"
  BY <1>2 DEF Hat, Above
<1>3. QED
  BY <1>1, <1>2

LEMMA ThreeOfKind ==
  ASSUME NEW legs, Quoted(legs), Len(legs) = 3, NEW spot \in Nat, NEW kind \in OptionKinds,
         \A i \in DOMAIN legs : legs[i].kind = kind,
         NEW a \in DOMAIN legs, NEW b \in DOMAIN legs, NEW c \in DOMAIN legs, a # b, a # c, b # c,
         legs[a].side = "BUY", legs[b].side = "SELL", legs[c].side = "BUY"
  PROVE  Pnl(spot, legs) = Hat(spot, kind, legs[a].strike, legs[b].strike, legs[c].strike)
           - (legs[a].premium - 2 * legs[b].premium + legs[c].premium)
<1> DEFINE w(i) == LegPnl(spot, legs[i])
           x(i) == Intrinsic(spot, legs[i])
<1>1. DOMAIN legs = 1..3
  BY DEF Quoted
<1>2. a \in 1..3 /\ b \in 1..3 /\ c \in 1..3
  BY <1>1
<1>3. Pnl(spot, legs) = w(1) + w(2) + w(3)
  BY WholeMakes
<1>13. \A i \in DOMAIN legs : /\ Intrinsic(spot, legs[i]) \in Int /\ LegPnl(spot, legs[i]) \in Int
                              /\ legs[i].side = "BUY" => LegPnl(spot, legs[i]) = Intrinsic(spot, legs[i]) - legs[i].premium
                              /\ legs[i].side = "SELL" => LegPnl(spot, legs[i]) = 2 * (legs[i].premium - Intrinsic(spot, legs[i]))
                              /\ legs[i].premium \in Int
  <2> TAKE i \in DOMAIN legs
  <2>1. legs[i].premium \in Int /\ spot \in Int
    BY DEF Quoted
  <2>2. QED
    BY <2>1, LegMakes
<1>14. 1 \in DOMAIN legs /\ 2 \in DOMAIN legs /\ 3 \in DOMAIN legs
  BY <1>1
<1>4. w(1) \in Int /\ w(2) \in Int /\ w(3) \in Int
  BY <1>13, <1>14
<1>5. w(a) = x(a) - legs[a].premium /\ w(b) = 2 * (legs[b].premium - x(b)) /\ w(c) = x(c) - legs[c].premium
  BY <1>13
<1>6. /\ x(a) \in Int /\ x(b) \in Int /\ x(c) \in Int
      /\ legs[a].premium \in Int /\ legs[b].premium \in Int /\ legs[c].premium \in Int
  BY <1>13
<1>7. w(1) + w(2) + w(3) = w(a) + w(b) + w(c)
  <2> HIDE DEF w
  <2>1. QED
    BY <1>2, <1>4
<1>8. Hat(spot, kind, legs[a].strike, legs[b].strike, legs[c].strike) = x(a) - 2 * x(b) + x(c)
  BY DEF Hat, Intrinsic
<1> HIDE DEF w, x
<1>9. QED
  BY <1>3, <1>5, <1>6, <1>7, <1>8

LEMMA ButterflyNames ==
  ASSUME NEW legs, Quoted(legs), Butterfly(legs).verdict = "matched"
  PROVE  Names(Butterfly(legs), legs)
<1> DEFINE buys == {i \in DOMAIN legs : legs[i].side = "BUY"}
           b == CHOOSE i \in DOMAIN legs : legs[i].side = "SELL"
           a == CHOOSE i \in buys : \A j \in buys : legs[i].strike <= legs[j].strike
           c == CHOOSE i \in buys : \A j \in buys : legs[i].strike >= legs[j].strike
           kinds == {leg.kind : leg \in {legs[i] : i \in 1..3}}
           net == legs[a].premium - 2 * legs[b].premium + legs[c].premium
           width == legs[b].strike - legs[a].strike
<1>1. /\ Len(legs) = 3 /\ Cardinality(buys) = 2 /\ Cardinality(kinds) = 1
      /\ legs[a].strike < legs[b].strike /\ legs[b].strike < legs[c].strike
      /\ legs[c].strike - legs[b].strike = legs[b].strike - legs[a].strike
      /\ Butterfly(legs) = Found(net, width - net) /\ ~(net <= 0)
  BY DEF Butterfly, Unmatched, Invalid
<1>2. DOMAIN legs = {1, 2, 3} /\ DOMAIN legs = 1..3
  <2>1. DOMAIN legs = 1..Len(legs)
    BY DEF Quoted
  <2>2. Len(legs) = 3
    BY <1>1
  <2> HIDE DEF buys, b, a, c, kinds, net, width
  <2>3. QED
    BY <2>1, <2>2
<1>3. \E kind \in OptionKinds : \A i \in DOMAIN legs : legs[i].kind = kind
  <2>1. kinds \in SUBSET OptionKinds
    <3>1. \A i \in 1..3 : legs[i].kind \in OptionKinds
      BY <1>2 DEF Quoted
    <3> HIDE DEF buys, b, a, c, net, width
    <3>2. QED
      BY <3>1
  <2>2. IsFiniteSet(OptionKinds)
    <3>1. IsFiniteSet({"CALL"} \cup {"PUT"})
      BY FS_Singleton, FS_AddElement
    <3>2. QED
      BY <3>1 DEF OptionKinds
  <2>3. IsFiniteSet(kinds)
    <3> HIDE DEF kinds
    <3>1. QED
      BY <2>1, <2>2, FS_Subset
  <2>4. PICK kind : kinds = {kind}
    <3> HIDE DEF kinds
    <3>1. QED
      BY <1>1, <2>3, FS_Singleton
  <2>5. \A i \in DOMAIN legs : legs[i].kind \in kinds
    BY <1>2
  <2>6. QED
    BY <1>2, <2>1, <2>4, <2>5
<1>4. PICK kind \in OptionKinds : \A i \in DOMAIN legs : legs[i].kind = kind
  BY <1>3
<1>5. \A i \in DOMAIN legs : legs[i].strike \in Nat /\ legs[i].premium \in Nat /\ legs[i].side \in {"BUY", "SELL"}
  BY DEF Quoted, Sides
<1>6. IsFiniteSet(DOMAIN legs) /\ Cardinality(DOMAIN legs) = 3 /\ IsFiniteSet(buys)
  <2>1. IsFiniteSet(1..3) /\ Cardinality(1..3) = IF 1 > 3 THEN 0 ELSE 3 - 1 + 1
    BY FS_Interval, 1 \in Int, 3 \in Int
  <2>2. buys \in SUBSET (1..3)
    BY <1>2
  <2> HIDE DEF buys
  <2>3. IsFiniteSet(buys)
    BY <2>1, <2>2, FS_Subset
  <2>4. Cardinality(1..3) = 3
    BY <2>1
  <2>5. QED
    BY <1>2, <2>1, <2>3, <2>4
<1>7. buys # {} /\ buys # DOMAIN legs
  <2>0. Cardinality(buys) = 2
    BY <1>1
  <2> HIDE DEF buys
  <2>1. buys # {}
    BY <2>0, FS_EmptySet
  <2>2. buys # DOMAIN legs
    BY <1>6, <2>0
  <2>3. QED
    BY <2>1, <2>2
<1>8. b \in DOMAIN legs /\ legs[b].side = "SELL"
  <2>1. \E i \in DOMAIN legs : legs[i].side = "SELL"
    BY <1>5, <1>7
  <2>2. QED
    BY <2>1
<1>9. a \in buys /\ c \in buys
  <2>1. buys \subseteq {1, 2, 3} /\ \A i \in buys : legs[i].strike \in Nat
    BY <1>2, <1>5
  <2>2. \E i \in buys : \A j \in buys : legs[i].strike <= legs[j].strike
    <3> HIDE DEF buys
    <3>1. PICK i \in buys : TRUE
      BY <1>7
    <3>2. QED
      BY <2>1, <3>1
  <2>3. \E i \in buys : \A j \in buys : legs[i].strike >= legs[j].strike
    <3> HIDE DEF buys
    <3>1. PICK i \in buys : TRUE
      BY <1>7
    <3>2. QED
      BY <2>1, <3>1
  <2> HIDE DEF buys
  <2>4. QED
    BY <2>2, <2>3
<1> HIDE DEF a, b, c
<1>10. a \in DOMAIN legs /\ c \in DOMAIN legs /\ legs[a].side = "BUY" /\ legs[c].side = "BUY"
  BY <1>9
<1>11. a # b /\ b # c /\ a # c
  <2>1. legs[a].strike < legs[c].strike
    BY <1>1, <1>5, <1>8, <1>10
  <2>2. a # c
    BY <1>5, <1>10, <2>1
  <2>3. QED
    BY <1>8, <1>10, <2>2
<1> DEFINE l == legs[a].strike
           m == legs[b].strike
           h == legs[c].strike
<1>12. \A spot \in Nat : Pnl(spot, legs) = Hat(spot, kind, l, m, h) - net
  BY <1>1, <1>4, <1>8, <1>10, <1>11, ThreeOfKind
<1>13. Kinks(legs) \in SUBSET Nat /\ l \in Kinks(legs) /\ m \in Kinks(legs)
  BY <1>8, <1>10, KinkSet DEF Kinks
<1>14. /\ l \in Nat /\ m \in Nat /\ h \in Nat /\ l < m /\ m < h /\ h - m = m - l /\ net \in Int /\ width = m - l
  BY <1>1, <1>5, <1>8, <1>10
<1>15. ~(net <= 0) /\ Butterfly(legs) = Found(net, width - net)
  BY <1>1
<1> HIDE DEF l, m, h, net, width
<1>16. /\ \A spot \in Nat : /\ Hat(spot, kind, l, m, h) \in Int
                            /\ 0 <= Hat(spot, kind, l, m, h) /\ Hat(spot, kind, l, m, h) <= width
       /\ Hat(l, kind, l, m, h) = 0 /\ Hat(m, kind, l, m, h) = width
  BY <1>14, HatRange
<1>17. net \in Nat /\ width - net \in Int
  BY <1>14, <1>15
<1>18. Ranges(legs, -net, width - net)
  <2>1. Pnl(l, legs) = -net /\ Pnl(m, legs) = width - net
    BY <1>12, <1>14, <1>16
  <2>2. \A k \in Kinks(legs) : -net <= Pnl(k, legs) /\ Pnl(k, legs) <= width - net
    BY <1>12, <1>13, <1>14, <1>16
  <2>3. QED
    BY <1>13, <1>17, <2>1, <2>2 DEF Ranges
<1>19. QED
  BY <1>15, <1>17, <1>18 DEF Names

\* Of two options of one kind, one is bought and one sold.
Opposed(legs) == Len(legs) = 2 /\ legs[1].kind = legs[2].kind => legs[1].side # legs[2].side

LEMMA FormulaNames ==
  ASSUME NEW legs, Quoted(legs), Opposed(legs), NEW family, family \notin {"long_straddle", "long_strangle"},
         Formula(family, legs).verdict = "matched"
  PROVE  Names(Formula(family, legs), legs)
<1>1. CASE family \in Verticals /\ Len(legs) = 2
  <2>1. Formula(family, legs) = Vertical(family, legs)
    BY <1>1 DEF Formula, Verticals, Butterflies, Condor, IronButterfly
  <2>2. QED
    BY <1>1, <2>1, VerticalNames DEF Opposed
<1>2. CASE family \in Butterflies /\ ~(family \in Verticals /\ Len(legs) = 2)
  <2>1. Formula(family, legs) = Butterfly(legs)
    BY <1>2 DEF Formula, Verticals, Butterflies, Condor, IronButterfly
  <2>2. QED
    BY <2>1, ButterflyNames
<1>3. CASE /\ family \in {Condor, IronButterfly} /\ Len(legs) = 4
           /\ ~(family \in Verticals /\ Len(legs) = 2) /\ family \notin Butterflies
  <2>1. Formula(family, legs) = Shielded(family, legs)
    BY <1>3 DEF Formula, Verticals, Butterflies, Condor, IronButterfly
  <2>2. QED
    BY <1>3, <2>1, ShieldedNames
<1>4. CASE /\ ~(family \in Verticals /\ Len(legs) = 2) /\ family \notin Butterflies
           /\ ~(family \in {Condor, IronButterfly} /\ Len(legs) = 4)
  <2>1. Formula(family, legs) = Unmatched
    BY <1>4 DEF Formula
  <2>2. QED
    BY <2>1 DEF Unmatched
<1>5. QED
  BY <1>1, <1>2, <1>3, <1>4

\* A formula that matches agrees with the kinks, unless the profit it names is negative.
LEMMA FormulaAgrees ==
  ASSUME NEW legs, Quoted(legs), Opposed(legs), NEW family \in Families,
         NEW contracts \in Nat, NEW charges \in Nat, Status(family, legs, contracts, charges) = "FORMULA_MISMATCH"
  PROVE  FormulaProfit(family, legs, contracts, charges) < 0
<1>1. /\ Formula(family, legs).verdict = "matched"
      /\ ~(/\ GenericLoss(legs, contracts, charges) = FormulaLoss(family, legs, contracts, charges)
           /\ UpperSlope(legs) > 0 \/ GenericProfit(legs, contracts, charges)
                                        = FormulaProfit(family, legs, contracts, charges))
  BY DEF Status
<1>2. CASE family \in {"long_straddle", "long_strangle"}
  <2>1. Len(legs) = 2 /\ Formula(family, legs) = Volatility(family, legs)
    BY <1>1, <1>2 DEF Formula, Verticals, Butterflies, Condor, IronButterfly, Unmatched
  <2>2. /\ GenericLoss(legs, contracts, charges) = Volatility(family, legs).loss * contracts + charges
        /\ UpperSlope(legs) > 0
    BY <1>1, <1>2, <2>1, VolatilityLoses
  <2>3. QED
    BY <1>1, <2>1, <2>2 DEF FormulaLoss
<1>3. CASE family \notin {"long_straddle", "long_strangle"}
  <2>1. Names(Formula(family, legs), legs)
    BY <1>1, <1>3, FormulaNames
  <2>2. PICK loss \in Nat, profit \in Int : Formula(family, legs) = Found(loss, profit) /\ Ranges(legs, -loss, profit)
    BY <2>1 DEF Names
  <2>3. ~(FormulaProfit(family, legs, contracts, charges) >= 0)
    BY <1>1, <1>3, <2>2, ReportAgrees
  <2>4. FormulaProfit(family, legs, contracts, charges) = profit * contracts - charges
    BY <1>3, <2>2 DEF FormulaProfit, Found
  <2>5. profit * contracts \in Int
    OBVIOUS
  <2>6. QED
    BY <2>3, <2>4, <2>5
<1>4. QED
  BY <1>2, <1>3

\* The intent in hand is one that evaluate was asked.
OfferAsked == offer = NoOffer \/ \E r \in Requests : offer = r.offer

LEMMA OfferIsAsked == Spec => []OfferAsked
<1>1. Init => OfferAsked
  BY DEF Init, OfferAsked
<1>2. OfferAsked /\ [Next]_vars => OfferAsked'
  BY DEF OfferAsked, Next, vars, Evaluate, NextIntent, Build, PlannerRefuses, Enter, NextCycle
<1>3. QED
  BY <1>1, <1>2, PTL DEF Spec

\* The payoff report finds the worst outcome of any legs whose loss is bounded, at
\* any prices: evaluate_same_expiry_payoff looks at the strikes and at zero only, and
\* no price of the underlying does worse; and the closed formula of the family, where
\* it recognises the legs, gives the same loss and profit unless it names a negative
\* profit.
THEOREM PayoffFindsWorst == Spec => []PayoffIsWorst
<1>1. ASSUME OfferAsked PROVE PayoffIsWorst
  <2> SUFFICES ASSUME offer # NoOffer, Options(offer.legs), BoundedLoss(Entered)
               PROVE  /\ GenericLoss(Entered, LotSize, Charges)
                           = Above(Charges - LotSize * Least({Pnl(spot, Entered) : spot \in Spots}))
                      /\ \A family \in Families :
                           Status(family, Entered, LotSize, Charges) = "FORMULA_MISMATCH"
                             => FormulaProfit(family, Entered, LotSize, Charges) < 0
    BY DEF PayoffIsWorst
  <2>1. PICK r \in Requests : offer = r.offer
    BY <1>1 DEF OfferAsked
  <2>2. Sound(offer.legs, offer.quotes)
    BY <2>1, RequestSound
  <2>3. Entered = Priced(offer.legs, offer.quotes)
    BY DEF Entered, Priced
  <2>4. Quoted(Entered) /\ Len(Entered) = Len(offer.legs)
    BY <2>2, <2>3, PricedLegs
  <2>5. /\ DOMAIN Entered = DOMAIN offer.legs
        /\ \A i \in DOMAIN Entered : /\ Entered[i].kind = offer.legs[i].kind
                                     /\ Entered[i].side = offer.legs[i].side
                                     /\ Entered[i].strike = offer.legs[i].strike
    BY DEF Entered
  <2>6. /\ \A i \in DOMAIN offer.legs : offer.legs[i].strike \in Spots
        /\ Opposed(offer.legs)
    BY <2>1, SpotsAssumption DEF Opposed
  <2>7. Kinks(Entered) \subseteq Spots /\ Spots \in SUBSET Nat
    BY <2>5, <2>6, SpotsAssumption DEF Kinks
  <2>8. Opposed(Entered)
    <3> SUFFICES ASSUME Len(Entered) = 2, Entered[1].kind = Entered[2].kind
                 PROVE  Entered[1].side # Entered[2].side
      BY DEF Opposed
    <3>1. 1 \in DOMAIN Entered /\ 2 \in DOMAIN Entered
      BY <2>4 DEF Quoted
    <3>2. QED
      BY <2>4, <2>5, <2>6, <3>1 DEF Opposed
  <2>9. LotSize \in Nat /\ Charges \in Nat
    BY SizingAssumption
  <2> DEFINE E == Entered
             worst == Least({Pnl(k, E) : k \in Kinks(E)})
  <2> HIDE DEF E
  <2>10. Quoted(E) /\ BoundedLoss(E) /\ Kinks(E) \subseteq Spots /\ Opposed(E)
    BY <2>4, <2>7, <2>8 DEF E
  <2>11. /\ worst \in Int /\ \E k \in Kinks(E) : Pnl(k, E) = worst
         /\ \A k \in Kinks(E) : worst <= Pnl(k, E)
         /\ Least({Pnl(spot, E) : spot \in Spots}) = worst
    BY <2>7, <2>10, WorstAnywhere
  <2> HIDE DEF worst
  <2>12. GenericLoss(E, LotSize, Charges) = Above(Charges - worst * LotSize)
    <3>1. Charges \in Int
      BY <2>9
    <3>2. QED
      BY <2>9, <2>10, <2>11, <3>1, LossFrom
  <2>13. worst * LotSize = LotSize * worst
    BY <2>9, <2>11
  <2>14. GenericLoss(E, LotSize, Charges) = Above(Charges - LotSize * Least({Pnl(spot, E) : spot \in Spots}))
    BY <2>11, <2>12, <2>13
  <2>15. ASSUME NEW family \in Families, Status(family, E, LotSize, Charges) = "FORMULA_MISMATCH"
         PROVE  FormulaProfit(family, E, LotSize, Charges) < 0
    BY <2>9, <2>10, <2>15, FormulaAgrees
  <2>16. QED
    BY <2>14, <2>15 DEF E
<1>2. QED
  BY OfferIsAsked, <1>1, PTL

-----------------------------------------------------------------------------
\* The producers: what a directional slot proposes is aimed one way.

\* Legs that gain when the underlying goes the way that is named.
Aimed(legs, trend) ==
  \/ /\ Len(legs) = 1 /\ legs[1].side = "BUY"
     /\ legs[1].kind = IF trend = "UP" THEN "CALL" ELSE "PUT"
  \/ /\ Len(legs) = 2 /\ legs[1].side = "BUY" /\ legs[2].side = "SELL"
     /\ legs[1].kind \in OptionKinds /\ legs[1].kind = legs[2].kind
     /\ IF trend = "UP" THEN legs[1].strike < legs[2].strike ELSE legs[2].strike < legs[1].strike

LEMMA OptionGains ==
  ASSUME NEW legs, Quoted(legs), Len(legs) = 1, legs[1].side = "BUY",
         NEW top \in Nat, legs[1].strike < top
  PROVE  Pnl(top, legs) > Pnl(0, legs) <=> legs[1].kind = "CALL"
<1>1. DOMAIN legs = {1}
  BY DEF Quoted
<1>2. ASSUME NEW spot \in Int PROVE Pnl(spot, legs) = Intrinsic(spot, legs[1]) - legs[1].premium
  <2> DEFINE f == [i \in DOMAIN legs |-> LegPnl(spot, legs[i])]
  <2>1. Pnl(spot, legs) = At(f, 1) + At(f, 2) + At(f, 3) + At(f, 4)
    BY DEF Pnl, Sum
  <2>2. At(f, 1) = LegPnl(spot, legs[1]) /\ At(f, 2) = 0 /\ At(f, 3) = 0 /\ At(f, 4) = 0
    BY <1>1 DEF At
  <2>3. 1 \in DOMAIN legs
    BY <1>1
  <2> HIDE DEF f
  <2>4. LegPnl(spot, legs[1]) \in Int /\ LegPnl(spot, legs[1]) = Intrinsic(spot, legs[1]) - legs[1].premium
    BY <2>3, LegMakes
  <2>5. QED
    BY <2>1, <2>2, <2>4
<1>3. legs[1].strike \in Nat /\ legs[1].premium \in Nat /\ legs[1].kind \in OptionKinds
  BY <1>1 DEF Quoted
<1>4. /\ Pnl(top, legs) = Intrinsic(top, legs[1]) - legs[1].premium
      /\ Pnl(0, legs) = Intrinsic(0, legs[1]) - legs[1].premium
  BY <1>2
<1>5. CASE legs[1].kind = "CALL"
  <2>1. Intrinsic(top, legs[1]) = top - legs[1].strike /\ Intrinsic(0, legs[1]) = 0
    BY <1>3, <1>5 DEF Intrinsic, Above
  <2>2. QED
    BY <1>3, <1>4, <1>5, <2>1
<1>6. CASE legs[1].kind # "CALL"
  <2>1. Intrinsic(top, legs[1]) = 0 /\ Intrinsic(0, legs[1]) = legs[1].strike
    BY <1>3, <1>6 DEF Intrinsic, Above
  <2>2. QED
    BY <1>3, <1>4, <1>6, <2>1
<1>7. QED
  BY <1>5, <1>6

LEMMA PairGains ==
  ASSUME NEW legs, Quoted(legs), Len(legs) = 2, legs[1].side = "BUY", legs[2].side = "SELL",
         legs[1].kind = legs[2].kind, legs[1].strike # legs[2].strike,
         NEW top \in Nat, legs[1].strike < top, legs[2].strike < top
  PROVE  Pnl(top, legs) > Pnl(0, legs) <=> legs[1].strike < legs[2].strike
<1> DEFINE kind == legs[1].kind
           long == legs[1].strike
           short == legs[2].strike
           p == legs[2].premium
           q == legs[1].premium
<1>1. long \in Nat /\ short \in Nat /\ p \in Nat /\ q \in Nat /\ kind \in OptionKinds
  <2>1. 1 \in DOMAIN legs /\ 2 \in DOMAIN legs
    BY DEF Quoted
  <2>2. QED
    BY <2>1 DEF Quoted
<1>2. \A spot \in Nat : Pnl(spot, legs) = Gap(spot, kind, long, short) + p - q
  BY PairPnl
<1>3. Pnl(top, legs) = Gap(top, kind, long, short) + p - q /\ Pnl(0, legs) = Gap(0, kind, long, short) + p - q
  BY <1>2
<1>4. long < top /\ short < top /\ long # short
  OBVIOUS
<1> HIDE DEF kind, long, short, p, q
<1>5. CASE kind = "CALL"
  <2>1. Gap(top, kind, long, short) = short - long /\ Gap(0, kind, long, short) = 0
    BY <1>1, <1>4, <1>5 DEF Gap, Above
  <2>2. Pnl(top, legs) > Pnl(0, legs) <=> long < short
    BY <1>1, <1>3, <2>1
  <2>3. QED
    BY <2>2 DEF long, short
<1>6. CASE kind # "CALL"
  <2>1. Gap(top, kind, long, short) = 0 /\ Gap(0, kind, long, short) = long - short
    BY <1>1, <1>4, <1>6 DEF Gap, Above
  <2>2. Pnl(top, legs) > Pnl(0, legs) <=> long < short
    BY <1>1, <1>3, <2>1
  <2>3. QED
    BY <2>2 DEF long, short
<1>7. QED
  BY <1>5, <1>6

LEMMA AimedGains ==
  ASSUME NEW legs, Quoted(legs), NEW trend \in {"UP", "DOWN"}, Aimed(legs, trend),
         NEW top \in Nat, \A i \in DOMAIN legs : legs[i].strike < top
  PROVE  Pnl(top, legs) > Pnl(0, legs) <=> trend = "UP"
<1>1. CASE Len(legs) = 1
  <2>1. 1 \in DOMAIN legs
    BY <1>1 DEF Quoted
  <2>2. legs[1].side = "BUY" /\ (legs[1].kind = "CALL" <=> trend = "UP") /\ legs[1].strike < top
    BY <1>1, <2>1 DEF Aimed
  <2>3. QED
    BY <1>1, <2>2, OptionGains
<1>2. CASE Len(legs) = 2
  <2>1. 1 \in DOMAIN legs /\ 2 \in DOMAIN legs
    BY <1>2 DEF Quoted
  <2>2. legs[1].strike \in Nat /\ legs[2].strike \in Nat
    BY <2>1 DEF Quoted
  <2>3. /\ legs[1].side = "BUY" /\ legs[2].side = "SELL" /\ legs[1].kind = legs[2].kind
        /\ legs[1].strike # legs[2].strike /\ (legs[1].strike < legs[2].strike <=> trend = "UP")
        /\ legs[1].strike < top /\ legs[2].strike < top
    BY <1>2, <2>1, <2>2 DEF Aimed
  <2>4. QED
    BY <1>2, <2>3, PairGains
<1>3. QED
  BY <1>1, <1>2 DEF Aimed

-----------------------------------------------------------------------------

\* The read that goes with a trend.
Agreed(trend, read) == \/ trend = "UP" /\ read = "BULLISH"
                       \/ trend = "DOWN" /\ read = "BEARISH"

\* Legs of an intent on contracts with whole strikes.
Placed(legs) ==
  /\ Len(legs) \in Nat /\ DOMAIN legs = 1..Len(legs)
  /\ \A i \in DOMAIN legs : legs[i].strike \in Nat

LEMMA OneOrTwo == \A n \in Nat : (1..n = {1} => n = 1) /\ (1..n = {1, 2} => n = 2)
<1> TAKE n \in Nat
<1>1. ASSUME 1..n = {1} PROVE n = 1
  <2>1. 1 \in 1..n /\ 2 \notin 1..n
    BY <1>1
  <2>2. QED
    BY <2>1
<1>2. ASSUME 1..n = {1, 2} PROVE n = 2
  <2>1. 2 \in 1..n /\ 3 \notin 1..n
    BY <1>2
  <2>2. QED
    BY <2>1
<1>3. QED
  BY <1>1, <1>2

LEMMA KindsTell ==
  /\ \A trend : "CALL" \in DirectionKinds(trend) => trend = "UP"
  /\ \A trend : "PUT" \in DirectionKinds(trend) => trend = "DOWN"
  /\ \A read : "CALL" \in KindsOfRead(read) => read = "BULLISH"
  /\ \A read : "PUT" \in KindsOfRead(read) => read = "BEARISH"
  /\ \A trend : DirectionKinds(trend) \subseteq OptionKinds
  BY DEF DirectionKinds, KindsOfRead, OptionKinds

LEMMA OptionAims ==
  ASSUME NEW s, NEW rows, NEW b \in BindM2(s, rows), NEW j \in LongOption(s, b), Placed(j.legs)
  PROVE  Aimed(j.legs, Trend(s)) /\ Agreed(Trend(s), Read(s))
<1>1. PICK c \in M2Survivors(s, rows) : b = <<c>>
  BY DEF BindM2
<1>2. c.kind \in DirectionKinds(Trend(s))
  BY DEF M2Survivors, OfKind
<1>3. c.kind \in KindsOfRead(Read(s)) /\ j.legs = [i \in DOMAIN b |-> LegOf(b[i], <<"BUY">>[i], <<1>>[i])]
  BY <1>1 DEF LongOption, Intent
<1>4. DOMAIN j.legs = {1} /\ j.legs[1] = LegOf(c, "BUY", 1)
  BY <1>1, <1>3
<1>5. Len(j.legs) = 1
  BY <1>4, OneOrTwo DEF Placed
<1>6. j.legs[1].side = "BUY" /\ j.legs[1].kind = c.kind
  BY <1>4 DEF LegOf
<1>7. c.kind = "CALL" \/ c.kind = "PUT"
  BY <1>2, KindsTell DEF OptionKinds
<1>8. CASE c.kind = "CALL"
  <2>1. Trend(s) = "UP" /\ Read(s) = "BULLISH"
    BY <1>2, <1>3, <1>8, KindsTell
  <2>2. QED
    BY <1>5, <1>6, <1>8, <2>1 DEF Aimed, Agreed
<1>9. CASE c.kind = "PUT"
  <2>1. Trend(s) = "DOWN" /\ Read(s) = "BEARISH"
    BY <1>2, <1>3, <1>9, KindsTell
  <2>2. QED
    BY <1>5, <1>6, <1>9, <2>1 DEF Aimed, Agreed
<1>10. QED
  BY <1>7, <1>8, <1>9

LEMMA DebitAims ==
  ASSUME NEW s, NEW rows, NEW b \in BindDebit(s, rows), NEW j \in DebitSpread(s, b), Placed(j.legs)
  PROVE  Aimed(j.legs, Trend(s)) /\ Agreed(Trend(s), Read(s))
<1>1. PICK c \in OfKind(Eligible(s, rows), DirectionKinds(Trend(s))),
            d \in OfKind(Eligible(s, rows), DirectionKinds(Trend(s))) :
        /\ b = <<c, d>>
        /\ IF c.kind = "CALL" THEN c.strike < d.strike ELSE c.strike > d.strike
  BY DEF BindDebit
<1>2. c.kind \in DirectionKinds(Trend(s)) /\ d.kind \in DirectionKinds(Trend(s))
  BY DEF OfKind
<1> DEFINE items == Ordered(b, b[1].kind = "CALL")
<1>3. {c.kind, d.kind} = KindsOfRead(Read(s)) /\ j.legs = [i \in DOMAIN items |-> LegOf(items[i], <<"BUY", "SELL">>[i], <<1, 1>>[i])]
  BY <1>1 DEF DebitSpread, Intent
<1>4. items = <<c, d>> \/ items = <<d, c>>
  BY <1>1 DEF Ordered
<1>5. DOMAIN j.legs = {1, 2} /\ j.legs[1].strike = items[1].strike /\ j.legs[2].strike = items[2].strike
  BY <1>3, <1>4 DEF LegOf
<1>6. c.strike \in Nat /\ d.strike \in Nat
  <2>1. items[1].strike \in Nat /\ items[2].strike \in Nat
    BY <1>5 DEF Placed
  <2>2. QED
    BY <1>4, <2>1
<1>7. items = <<c, d>>
  <2>1. CASE c.kind = "CALL"
    <3>1. c.strike < d.strike
      BY <1>1, <2>1
    <3>2. QED
      BY <1>1, <2>1, <3>1 DEF Ordered
  <2>2. CASE c.kind # "CALL"
    <3>1. ~(c.strike < d.strike)
      BY <1>1, <1>6, <2>2
    <3>2. QED
      BY <1>1, <2>2, <3>1 DEF Ordered
  <2>3. QED
    BY <2>1, <2>2
<1> HIDE DEF items
<1>8. /\ j.legs[1].side = "BUY" /\ j.legs[2].side = "SELL" /\ Len(j.legs) = 2
      /\ j.legs[1].kind = c.kind /\ j.legs[2].kind = d.kind
      /\ j.legs[1].strike = c.strike /\ j.legs[2].strike = d.strike
  <2>1. Len(j.legs) = 2
    BY <1>5, OneOrTwo DEF Placed
  <2>2. QED
    BY <1>3, <1>7, <2>1 DEF LegOf
<1>9. c.kind \in OptionKinds /\ d.kind \in OptionKinds
  BY <1>2, KindsTell
<1>10. CASE c.kind = "CALL"
  <2>1. Trend(s) = "UP"
    BY <1>2, <1>10, KindsTell
  <2>2. Read(s) = "BULLISH"
    BY <1>3, <1>10, KindsTell
  <2>3. d.kind = "CALL"
    BY <1>2, <1>9, <2>1, KindsTell DEF OptionKinds
  <2>4. QED
    BY <1>1, <1>8, <1>9, <1>10, <2>1, <2>2, <2>3 DEF Aimed, Agreed
<1>11. CASE c.kind = "PUT"
  <2>1. Trend(s) = "DOWN"
    BY <1>2, <1>11, KindsTell
  <2>2. Read(s) = "BEARISH"
    BY <1>3, <1>11, KindsTell
  <2>3. d.kind = "PUT"
    BY <1>2, <1>9, <2>1, KindsTell DEF OptionKinds
  <2>4. d.strike < c.strike
    BY <1>1, <1>6, <1>11
  <2>5. QED
    BY <1>8, <1>9, <1>11, <2>1, <2>2, <2>3, <2>4 DEF Aimed, Agreed
<1>12. QED
  BY <1>9, <1>10, <1>11 DEF OptionKinds

LEMMA CreditAims ==
  ASSUME NEW s, NEW rows, NEW family \in {"bull_put_credit", "bear_call_credit"},
         NEW b \in BindCredit(s, family, rows), NEW j \in CreditSpread(s, family, b), Placed(j.legs)
  PROVE  Aimed(j.legs, Trend(s)) /\ Agreed(Trend(s), Read(s))
<1> DEFINE kind == IF family = "bull_put_credit" THEN "PUT" ELSE "CALL"
           items == Ordered(b, kind = "PUT")
<1>1. PICK c \in OfKind(Eligible(s, rows), CreditKinds(family, Trend(s))),
            d \in OfKind(Eligible(s, rows), CreditKinds(family, Trend(s))) :
        /\ b = <<c, d>>
        /\ IF c.kind = "PUT" THEN c.strike < d.strike ELSE c.strike > d.strike
  BY DEF BindCredit
<1>2. c.kind \in CreditKinds(family, Trend(s))
  BY DEF OfKind
<1>3. /\ Read(s) = IF family = "bull_put_credit" THEN "BULLISH" ELSE "BEARISH"
      /\ c.kind = kind /\ d.kind = kind
      /\ j.legs = [i \in DOMAIN items |-> LegOf(items[i], <<"BUY", "SELL">>[i], <<1, 1>>[i])]
  BY <1>1 DEF CreditSpread, Intent
<1>4. Trend(s) = IF family = "bull_put_credit" THEN "UP" ELSE "DOWN"
  BY <1>2 DEF CreditKinds
<1>5. items = <<c, d>> \/ items = <<d, c>>
  BY <1>1 DEF Ordered
<1>6. DOMAIN j.legs = {1, 2} /\ j.legs[1].strike = items[1].strike /\ j.legs[2].strike = items[2].strike
  BY <1>3, <1>5 DEF LegOf
<1>7. c.strike \in Nat /\ d.strike \in Nat
  <2>1. items[1].strike \in Nat /\ items[2].strike \in Nat
    BY <1>6 DEF Placed
  <2>2. QED
    BY <1>5, <2>1
<1>8. items = <<c, d>>
  <2>1. CASE kind = "PUT"
    <3>1. c.strike < d.strike
      BY <1>1, <1>3, <2>1
    <3>2. QED
      BY <1>1, <2>1, <3>1 DEF Ordered
  <2>2. CASE kind # "PUT"
    <3>1. ~(c.strike < d.strike)
      BY <1>1, <1>3, <1>7, <2>2
    <3>2. QED
      BY <1>1, <2>2, <3>1 DEF Ordered
  <2>3. QED
    BY <2>1, <2>2
<1> HIDE DEF items
<1>9. /\ j.legs[1].side = "BUY" /\ j.legs[2].side = "SELL" /\ Len(j.legs) = 2
      /\ j.legs[1].kind = kind /\ j.legs[2].kind = kind
      /\ j.legs[1].strike = c.strike /\ j.legs[2].strike = d.strike
  <2>1. Len(j.legs) = 2
    BY <1>6, OneOrTwo DEF Placed
  <2>2. QED
    BY <1>3, <1>8, <2>1 DEF LegOf
<1>10. IF family = "bull_put_credit" THEN c.strike < d.strike ELSE d.strike < c.strike
  BY <1>1, <1>3, <1>7
<1>11. kind \in OptionKinds
  BY DEF OptionKinds
<1>12. QED
  BY <1>3, <1>4, <1>9, <1>10, <1>11 DEF Aimed, Agreed

\* What a directional slot proposes is aimed with its trend, which agrees with its read.
LEMMA ProposalsAim ==
  ASSUME NEW s, NEW p \in Proposals(s), p.family \in Directional, Placed(p.legs)
  PROVE  Aimed(p.legs, Trend(s)) /\ Agreed(Trend(s), Read(s)) /\ p.scene = s
<1>1. PICK slot \in Slots : \E i \in {j \in Intents(s, slot[1], slot[2]) : Aligned(j, slot[2])} :
        p = [mode |-> slot[1], scene |-> s, family |-> i.family, legs |-> i.legs, items |-> i.items]
  BY DEF Proposals
<1>2. PICK j \in Intents(s, slot[1], slot[2]) :
        /\ Aligned(j, slot[2])
        /\ p = [mode |-> slot[1], scene |-> s, family |-> j.family, legs |-> j.legs, items |-> j.items]
  BY <1>1
<1>3. p.legs = j.legs /\ p.scene = s /\ slot[2] \in Directional /\ Placed(j.legs)
  BY <1>2 DEF Aligned
<1> DEFINE rows == RowsOf(s, slot[1])
<1>4. CASE slot[1] = "M2"
  <2>0. slot[2] \in {"long_call", "long_put"}
    BY <1>4 DEF Slots
  <2>1. Intents(s, slot[1], slot[2]) = UNION {LongOption(s, b) : b \in BindM2(s, rows)}
    BY <1>4, <2>0 DEF Intents, Butterflies, Condor, IronButterfly
  <2>2. PICK b \in BindM2(s, rows) : j \in LongOption(s, b)
    BY <2>1
  <2>3. QED
    BY <1>3, <2>2, OptionAims
<1>5. CASE slot[1] # "M2"
  <2>1. slot[2] \in Verticals
    BY <1>3, <1>5 DEF Slots, Directional, Verticals, Families, Butterflies, Condor, IronButterfly
  <2>2. CASE slot[2] \in {"bull_call_debit", "bear_put_debit"}
    <3>1. Intents(s, slot[1], slot[2]) = UNION {DebitSpread(s, b) : b \in BindDebit(s, rows)}
      BY <1>5, <2>2 DEF Intents, Butterflies, Condor, IronButterfly
    <3>2. PICK b \in BindDebit(s, rows) : j \in DebitSpread(s, b)
      BY <3>1
    <3>3. QED
      BY <1>3, <3>2, DebitAims
  <2>3. CASE slot[2] \in {"bull_put_credit", "bear_call_credit"}
    <3>1. Intents(s, slot[1], slot[2]) = UNION {CreditSpread(s, slot[2], b) : b \in BindCredit(s, slot[2], rows)}
      BY <1>5, <2>3 DEF Intents, Butterflies, Condor, IronButterfly
    <3>2. PICK b \in BindCredit(s, slot[2], rows) : j \in CreditSpread(s, slot[2], b)
      BY <3>1
    <3>3. QED
      BY <1>3, <2>3, <3>2, CreditAims
  <2>4. QED
    BY <2>1, <2>2, <2>3 DEF Verticals
<1>6. QED
  BY <1>4, <1>5

\* A directional trade gains the way that both the trend of the bars and the
\* directional read point, whatever the chains, the bars and the reads of the poll
\* are: binders ask the trend, strategies the read, and no intent is made of a
\* disagreement.
THEOREM DirectionAgrees == Spec => []GainsWithTrend
<1>1. ASSUME OfferAsked PROVE GainsWithTrend
  <2> SUFFICES ASSUME Produced, offer.family \in Directional
               PROVE  LET up == Pnl(Greatest(Spots), Entered) > Pnl(Least(Spots), Entered) IN
                      /\ Trend(offer.scene) = IF up THEN "UP" ELSE "DOWN"
                      /\ Read(offer.scene) = IF up THEN "BULLISH" ELSE "BEARISH"
    BY DEF GainsWithTrend
  <2>1. offer # NoOffer
    BY DEF Produced, NoOffer
  <2>2. PICK r \in Requests : offer = r.offer
    BY <1>1, <2>1 DEF OfferAsked
  <2>3. /\ offer \in {AsOffer(p) : p \in Proposals(offer.scene)}
        /\ \A i \in DOMAIN offer.legs : offer.legs[i].strike < Greatest(Spots)
    BY <2>2, PipelineAssumption DEF Produced
  <2> DEFINE s == offer.scene
  <2>4. PICK p \in Proposals(s) : offer = AsOffer(p)
    BY <2>3
  <2>5. offer.legs = p.legs /\ offer.family = p.family
    BY <2>4 DEF AsOffer
  <2>6. Sound(offer.legs, offer.quotes)
    BY <2>2, RequestSound
  <2>7. Placed(p.legs)
    BY <2>5, <2>6 DEF Sound, Placed
  <2>8. Aimed(offer.legs, Trend(s)) /\ Agreed(Trend(s), Read(s))
    BY <2>5, <2>7, ProposalsAim
  <2>9. Options(offer.legs)
    <3>1. CASE Len(offer.legs) = 1
      <4>1. DOMAIN offer.legs = {1} /\ offer.legs[1].kind \in OptionKinds
        BY <2>6, <2>8, <3>1 DEF Sound, Aimed, OptionKinds
      <4>2. QED
        BY <4>1 DEF Options
    <3>2. CASE Len(offer.legs) = 2
      <4>1. DOMAIN offer.legs = {1, 2} /\ offer.legs[1].kind \in OptionKinds /\ offer.legs[2].kind \in OptionKinds
        BY <2>6, <2>8, <3>2 DEF Sound, Aimed
      <4>2. QED
        BY <4>1 DEF Options
    <3>3. QED
      BY <2>8, <3>1, <3>2 DEF Aimed
  <2>10. Entered = Priced(offer.legs, offer.quotes)
    BY DEF Entered, Priced
  <2>11. Quoted(Entered) /\ Len(Entered) = Len(offer.legs)
    BY <2>6, <2>9, <2>10, PricedLegs
  <2>12. /\ DOMAIN Entered = DOMAIN offer.legs
         /\ \A i \in DOMAIN Entered : /\ Entered[i].kind = offer.legs[i].kind
                                      /\ Entered[i].side = offer.legs[i].side
                                      /\ Entered[i].strike = offer.legs[i].strike
    BY DEF Entered
  <2> DEFINE trend == Trend(s)
             read == Read(s)
             E == Entered
  <2>13. Aimed(E, trend)
    <3> HIDE DEF trend
    <3>1. CASE Len(offer.legs) = 1
      <4>1. 1 \in DOMAIN E
        BY <2>11, <3>1 DEF Quoted
      <4>2. QED
        BY <2>8, <2>11, <2>12, <3>1, <4>1 DEF Aimed, trend
    <3>2. CASE Len(offer.legs) = 2
      <4>1. 1 \in DOMAIN E /\ 2 \in DOMAIN E
        BY <2>11, <3>2 DEF Quoted
      <4>2. QED
        BY <2>8, <2>11, <2>12, <3>2, <4>1 DEF Aimed, trend
    <3>3. QED
      BY <2>8, <3>1, <3>2 DEF Aimed
  <2>14. PICK top \in Spots : \A spot \in Spots : spot <= top
    BY PipelineAssumption
  <2>15. Greatest(Spots) = top /\ Least(Spots) = 0 /\ top \in Nat
    <3>1. Spots \in SUBSET Int /\ Spots \subseteq Nat /\ 0 \in Spots
      BY SpotsAssumption
    <3>2. \A spot \in Spots : 0 <= spot
      BY <3>1
    <3>3. QED
      BY <2>14, <3>1, <3>2, LeastIs, GreatestIs
  <2>16. \A i \in DOMAIN E : E[i].strike < top
    BY <2>3, <2>12, <2>15
  <2> HIDE DEF E, trend, read
  <2>17. Agreed(trend, read)
    BY <2>8 DEF trend, read
  <2>18. trend \in {"UP", "DOWN"}
    BY <2>17 DEF Agreed
  <2>19. Quoted(E)
    BY <2>11 DEF E
  <2>20. Pnl(top, E) > Pnl(0, E) <=> trend = "UP"
    BY <2>13, <2>15, <2>16, <2>18, <2>19, AimedGains
  <2>21. LET up == Pnl(top, E) > Pnl(0, E) IN
           trend = (IF up THEN "UP" ELSE "DOWN") /\ read = (IF up THEN "BULLISH" ELSE "BEARISH")
    BY <2>17, <2>18, <2>20 DEF Agreed
  <2>22. QED
    BY <2>15, <2>21 DEF E, trend, read
<1>2. QED
  BY OfferIsAsked, <1>1, PTL

=============================================================================
