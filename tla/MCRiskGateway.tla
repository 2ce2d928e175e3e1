---------------------------- MODULE MCRiskGateway ----------------------------
(***************************************************************************)
(* Intents, quotes and accounts on which TLC checks the gateway: every      *)
(* structure, wings of unequal width, books without depth or delta; and the *)
(* scenes from which the producers make theirs.                             *)
(***************************************************************************)
EXTENDS EntryPipeline

Leg(kind, side, strike) == [kind |-> kind, side |-> side, strike |-> strike, ratio |-> 1]

Body(kind, strike) == [kind |-> kind, side |-> "SELL", strike |-> strike, ratio |-> 2]

Quote(bid, ask) == [bid |-> bid, ask |-> ask, depth |-> 8, delta |-> 1]

\* Structures with the prices from which the books of their legs are drawn.
Vertical2(kind, first, second) ==
  [legs : {IF kind = "CALL" THEN <<Leg(kind, "BUY", first), Leg(kind, "SELL", second)>>
           ELSE <<Leg(kind, "SELL", second), Leg(kind, "BUY", first)>>},
   quotes : {<<Quote(2, 3), Quote(1, 2)>>, <<Quote(1, 1), Quote(3, 3)>>,
             <<[Quote(1, 2) EXCEPT !.depth = None], [Quote(3, 4) EXCEPT !.delta = None]>>},
   stop : {0}]

Verticals2 == UNION {Vertical2(kind, 3, 6) \cup Vertical2(kind, 6, 3) : kind \in OptionKinds}

Straddles == [legs : {<<Leg("CALL", "BUY", 4), Leg("PUT", "BUY", 4)>>, <<Leg("PUT", "BUY", 3), Leg("CALL", "BUY", 5)>>},
              quotes : {<<Quote(1, b), Quote(b, b)>> : b \in {2, 3}}, stop : {0}]

Butterflies3 == [legs : {<<Leg("CALL", "BUY", 2), Body("CALL", 4), Leg("CALL", "BUY", 6)>>,
                         <<Body("PUT", 4), Leg("PUT", "BUY", 6), Leg("PUT", "BUY", 2)>>},
                 quotes : {<<Quote(1, 1), Quote(b, b), Quote(3, 3)>> : b \in {1, 2}}, stop : {0}]

Irons == [legs : {<<Leg("PUT", "BUY", p), Leg("PUT", "SELL", 5), Leg("CALL", "SELL", c), Leg("CALL", "BUY", c + 4)>> :
                    p \in {1, 3}, c \in {5, 6}},
          quotes : {<<Quote(0, 0), Quote(1, 1), Quote(2, 2), Quote(0, 0)>>,
                     <<Quote(1, 1), Quote(1, 1), Quote(1, 1), Quote(0, 0)>>}, stop : {0}]

\* One leg: a bought option, an option sold naked, a future long or short.
Singles == [legs : {<<Leg("PUT", "BUY", 3)>>, <<Leg("PUT", "SELL", 3)>>}, quotes : {<<Quote(1, 2)>>}, stop : {0}]
           \cup [legs : {<<Leg("FUTURE", side, 1)>> : side \in Sides}, quotes : {<<Quote(4, 4)>>}, stop : {2}]

-----------------------------------------------------------------------------

MCPolicy == [delta |-> 45..65, wideDelta |-> 30..70, week |-> 5..12, wideWeek |-> 2..14,
             month |-> 20..35, long |-> 45..60, short |-> 20..35, reward |-> <<1, 2>>, risk |-> 4,
             cost |-> 1, lot |-> 2, trend |-> 60, range |-> 25, fallback |-> 30, bars |-> 14]

Row(kind, strike, expiry, price, delta) ==
  [kind |-> kind, strike |-> strike, expiry |-> expiry, chain |-> "near", bid |-> price,
   ask |-> price, delta |-> delta, net |-> 1, depth |-> 8, grade |-> "strict"]

\* A Thursday's chain, the Tuesday's before it and a month's, a row or two each.
MCBook == {Row("PUT", 1, 10, 1, 20), Row("PUT", 4, 10, 2, 30), Row("PUT", 6, 10, 3, 50),
           Row("CALL", 6, 10, 3, 50), Row("CALL", 8, 10, 2, 30),
           Row("CALL", 11, 10, 1, 20),
           Row("CALL", 6, 8, 3, 55), Row("PUT", 6, 3, 1, 50), Row("CALL", 11, 24, 1, 20),
           Row("PUT", 1, 24, 1, 20),
           [Row("PUT", 8, 10, 4, 55) EXCEPT !.grade = "loose"]}

Up == [warm |-> TRUE, count |-> 75, short |-> 2, long |-> 3, score |-> 70, vol |-> "NORMAL"]

Silent == [given |-> FALSE, bias |-> "NEUTRAL", accepted |-> FALSE]

Rising == [day |-> 2, profile |-> "STRICT", late |-> FALSE, listed |-> {3, 8, 10, 24}, near |-> 3,
           monthly |-> {24}, lost |-> {}, book |-> MCBook, bars |-> Up, macro |-> Silent,
           technical |-> "BULLISH"]

Falling == [Rising EXCEPT !.bars = [Up EXCEPT !.short = -2, !.long = -3, !.score = -70],
                          !.technical = "BEARISH"]

Ranging == [Rising EXCEPT !.bars.score = 10, !.technical = "NEUTRAL",
                          !.book = MCBook \cup {Row("CALL", 4, 10, 5, 70)}]

Mild == [Up EXCEPT !.score = 40]

\* A trend with and against the read, a range, the fallback of DISCOVERY with and
\* without enough bars, compressed volatility, a stale macro read, a chain that cannot be fetched.
MCScenes ==
  {Rising, Ranging, [Rising EXCEPT !.lost = {"week"}],
   [Falling EXCEPT !.macro = [given |-> TRUE, bias |-> "BULLISH", accepted |-> TRUE]],
   [Falling EXCEPT !.macro = [given |-> TRUE, bias |-> "BULLISH", accepted |-> FALSE], !.lost = {"month"}],
   [Rising EXCEPT !.bars = Mild],
   [Rising EXCEPT !.profile = "DISCOVERY", !.bars = [Mild EXCEPT !.vol = "COMPRESSED"], !.near = 10],
   [Rising EXCEPT !.profile = "DISCOVERY", !.bars = [Mild EXCEPT !.count = 5, !.warm = FALSE],
                  !.book = {c \in MCBook : c.strike \in {6, 8}}]}

\* M4's verticals are M3's again.
MCProposed == {AsOffer(p) : p \in {q \in UNION {Proposals(s) : s \in MCScenes} :
                                    q.mode = "M4" => q.family \notin Verticals}}

MCOffers == Verticals2 \cup Straddles \cup Butterflies3 \cup Irons \cup Singles \cup MCProposed

Plenty == [profile |-> "STRICT", capital |-> 40, trade |-> 20, daily |-> 30, open |-> 24, global |-> 40,
           premium |-> 60, concentration |-> 60, slots |-> 3, headroom |-> 9, broker |-> 30, guide |-> 12, bug |-> 18]

\* A roomy account, one whose open risk or slots bind, and DISCOVERY with a small guide.
MCAccounts == {Plenty, [Plenty EXCEPT !.open = 14, !.slots = 1],
               [Plenty EXCEPT !.profile = "DISCOVERY"],
               [Plenty EXCEPT !.profile = "DISCOVERY", !.guide = 30, !.broker = 12, !.slots = 1]}

\* One gate of each sort: hard for all, soft in DISCOVERY, for several legs only, last.
MCFlaws == {{"quality"}, {"constraint"}, {"bundle"}, {"p0"}}

\* Every offer with the margin confirmed or not; those of one leg and of two also with a flaw.
MCRequests ==
  [offer : MCOffers, preview : {0, 5}, flaws : {{}}]
  \cup [offer : Singles \cup Straddles, preview : {5}, flaws : MCFlaws]

MCSpots == 0..12

=============================================================================
