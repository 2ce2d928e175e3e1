---------------------------- MODULE LogicalOrder ----------------------------
(***************************************************************************)
(* What the submit path promises of a plan of logical orders, whoever      *)
(* calls it, however often, and whatever dies in between:                  *)
(*   - an order reaches the broker only after it is durably committed, and *)
(*     then at most once;                                                  *)
(*   - it gets an outcome only if the broker took it, and one outcome;     *)
(*   - an order given up as unknown stays so and is never sent again;      *)
(*   - an order is recorded, and so ever sent, only when none before it is *)
(*     missing, known to have failed, or unknown.                          *)
(***************************************************************************)
EXTENDS Naturals

CONSTANT N

VARIABLES stage,  \* unsent, recorded, committed, unknown, failed or good
          taken   \* per order, whether the broker has taken it

Orders == 1..N

Init ==
  /\ stage = [k \in Orders |-> "unsent"]
  /\ taken = [k \in Orders |-> 0]

Record(k) ==
  /\ stage[k] = "unsent"
  /\ \A j \in Orders : j < k => stage[j] \in {"recorded", "committed", "good"}
  /\ stage' = [stage EXCEPT ![k] = "recorded"]
  /\ UNCHANGED taken

Commit(k) ==
  /\ stage[k] = "recorded"
  /\ stage' = [stage EXCEPT ![k] = "committed"]
  /\ UNCHANGED taken

Take(k) ==
  /\ stage[k] = "committed"
  /\ taken[k] = 0
  /\ taken' = [taken EXCEPT ![k] = 1]
  /\ UNCHANGED stage

GiveUp(k) ==
  /\ stage[k] = "committed"
  /\ stage' = [stage EXCEPT ![k] = "unknown"]
  /\ UNCHANGED taken

Settle(k) ==
  /\ stage[k] = "committed"
  /\ taken[k] = 1
  /\ \E outcome \in {"failed", "good"} :
       stage' = [stage EXCEPT ![k] = outcome]
  /\ UNCHANGED taken

Next ==
  \E k \in Orders : Record(k) \/ Commit(k) \/ Take(k) \/ GiveUp(k) \/ Settle(k)

Spec == Init /\ [][Next]_<<stage, taken>>
=============================================================================
