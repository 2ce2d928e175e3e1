---------------------------- MODULE EntryPipeline ----------------------------
(***************************************************************************)
(* The producers composed with the gateway: what a poll proposes is what    *)
(* RiskGateway.evaluate is given, with the quotes of the contracts that the *)
(* binder chose.  A produced offer carries its mode, its declared family,   *)
(* its contracts and the scene that it was made of.                         *)
(***************************************************************************)
EXTENDS RiskGateway, Producers

\* The request of an intent: it has no protective stop.
AsOffer(p) ==
  [mode |-> p.mode, family |-> p.family, legs |-> p.legs, items |-> p.items, scene |-> p.scene,
   quotes |-> [i \in DOMAIN p.items |-> [bid |-> p.items[i].bid, ask |-> p.items[i].ask,
                                         depth |-> p.items[i].depth, delta |-> p.items[i].net]],
   stop |-> 0]

\* An offer with a scene is one of its scene's proposals, and the underlying may end
\* above every strike of it.
ASSUME PipelineAssumption ==
  /\ \E top \in Spots : \A spot \in Spots : spot <= top
  /\ \A r \in Requests : "scene" \in DOMAIN r.offer =>
       /\ r.offer \in {AsOffer(p) : p \in Proposals(r.offer.scene)}
       /\ \A i \in DOMAIN r.offer.legs : r.offer.legs[i].strike < Greatest(Spots)

Produced == "scene" \in DOMAIN offer

-----------------------------------------------------------------------------

\* The structure that the gateway detects, from the legs alone.
NamedStructure(family) ==
  CASE family \in {"bull_call_debit", "bear_put_debit"} -> "DEBIT_SPREAD"
    [] family \in {"bull_put_credit", "bear_call_credit"} -> "CREDIT_SPREAD"
    [] family \in Butterflies -> "LONG_BUTTERFLY"
    [] family = Condor -> "IRON_CONDOR"
    [] family = IronButterfly -> "IRON_BUTTERFLY"
    [] family = "long_straddle" -> "LONG_STRADDLE"
    [] family = "long_strangle" -> "LONG_STRANGLE"
    [] OTHER -> "LONG_OPTION"

\* Binder, strategy and gateway each tell a structure from its legs on their own:
\* what a slot proposes under a family's name, the gateway takes for that family's
\* structure and sizes as such, and no spread is a calendar in disguise, which the
\* gateway, blind to expiries, would reserve too little for.
ProposedAsNamed ==
  Produced =>
    /\ Detected(offer.legs) = NamedStructure(offer.family)
    /\ SameExpiry(offer.legs)
    /\ decision.action = "APPROVE" => decision.structure = NamedStructure(offer.family)

Directional == Verticals \cup {"long_call", "long_put"}

\* A directional trade gains the way that both the trend of the bars and the
\* directional read point: the binder asks the one, the strategy the other, and
\* when they disagree nothing is proposed.
GainsWithTrend ==
  Produced /\ offer.family \in Directional =>
    LET up == Pnl(Greatest(Spots), Entered) > Pnl(Least(Spots), Entered) IN
    /\ Trend(offer.scene) = IF up THEN "UP" ELSE "DOWN"
    /\ Read(offer.scene) = IF up THEN "BULLISH" ELSE "BEARISH"

\* M2 buys the expiry that the calendar picks among all that are listed, though it
\* sees only the chains that the poll loaded: the extra chain is the one it needs.
BuysTheWeek ==
  Produced /\ offer.mode = "M2" /\ "week" \notin offer.scene.lost =>
    offer.items[1].expiry = M2Expiry(offer.scene.listed, offer.scene.day)

=============================================================================
