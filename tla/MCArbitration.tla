---------------------------- MODULE MCArbitration ----------------------------
(***************************************************************************)
(* A menu on which every rule of the arbiter bites: the same legs in two   *)
(* modes, opposite theses on touching bands, two structures under one cap. *)
(***************************************************************************)
EXTENDS Arbitration

Item(mode, strategy, family, legs, low, high) ==
  [mode |-> mode, strategy |-> strategy, family |-> family, legs |-> legs, low |-> low, high |-> high]

MCMenu ==
  {Item("M4", "multileg", "bull_put_credit", "puts13", 1, 3),
   Item("M4", "multileg", "bear_call_credit", "calls35", 3, 5),
   Item("M2", "long", "long_call", "call4", 4, 4),
   Item("M1", "micro", "long_call", "call4", 4, 4)}
=============================================================================
