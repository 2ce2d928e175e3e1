--------------------------- MODULE StateMachines ---------------------------
(***************************************************************************)
(* The guarded transition tables of src/trading/domain/state/machines.py.  *)
(* A table maps a pair <<source, target>> to the triggers that may take    *)
(* the edge; a pair outside the table is no edge at all.  The components   *)
(* ask Can(...) exactly where the code calls MACHINE.transition(...), and  *)
(* treat a refusal as the IllegalTransitionError it raises.                *)
(***************************************************************************)

Triggers == {"STRATEGY", "RISK_DECISION", "LOCAL_COMMAND", "BROKER_EVENT",
             "RECONCILIATION", "TIMEOUT", "SCHEDULER", "OPERATOR", "STARTUP"}

AnyTrigger == Triggers

OrderStates == {"CREATED", "SUBMITTING", "ACKNOWLEDGED", "PARTIAL", "FILLED",
                "REJECTED", "CANCEL_PENDING", "CANCELLED", "EXPIRED", "UNKNOWN"}

\* States in which the broker may still fill the order.
Working == {"SUBMITTING", "ACKNOWLEDGED", "PARTIAL", "CANCEL_PENDING", "UNKNOWN"}

OrderTerminal == {"FILLED", "REJECTED", "CANCELLED", "EXPIRED"}

\* The edges of ORDER_MACHINE, as the set of permitted triggers.
OrderEdge(s, t) ==
  CASE s = "CREATED" /\ t = "SUBMITTING" -> {"LOCAL_COMMAND"}
    [] s = "CREATED" /\ t = "REJECTED" -> AnyTrigger
    [] s = "CREATED" /\ t = "EXPIRED" -> {"TIMEOUT", "SCHEDULER"}
    [] s = "SUBMITTING" /\ t \in {"ACKNOWLEDGED", "PARTIAL", "FILLED", "REJECTED"}
         -> {"BROKER_EVENT"}
    [] s = "ACKNOWLEDGED" /\ t \in {"PARTIAL", "FILLED", "CANCELLED", "REJECTED"}
         -> {"BROKER_EVENT"}
    [] s = "PARTIAL" /\ t \in {"FILLED", "CANCELLED"} -> {"BROKER_EVENT"}
    [] s \in {"ACKNOWLEDGED", "PARTIAL"} /\ t = "CANCEL_PENDING" -> {"LOCAL_COMMAND"}
    [] s \in {"ACKNOWLEDGED", "PARTIAL"} /\ t = "EXPIRED"
         -> {"BROKER_EVENT", "SCHEDULER"}
    [] s = "CANCEL_PENDING" /\ t \in {"CANCELLED", "FILLED", "PARTIAL"}
         -> {"BROKER_EVENT"}
    [] s \in Working \ {"UNKNOWN"} /\ t = "UNKNOWN" -> {"TIMEOUT"}
    [] s = "UNKNOWN" /\ t \in {"ACKNOWLEDGED", "PARTIAL"} \cup OrderTerminal
         -> {"RECONCILIATION"}
    [] OTHER -> {}

CanOrder(s, t, trigger) == trigger \in OrderEdge(s, t)

TradeStates == {"PENDING_ENTRY", "OPENING", "OPEN", "EXIT_PENDING", "CLOSING",
                "CLOSED", "REPAIR_REQUIRED"}

\* The edges of TRADE_MACHINE.
TradeEdge(s, t) ==
  CASE s = "PENDING_ENTRY" /\ t = "OPENING" -> {"LOCAL_COMMAND"}
    [] s = "PENDING_ENTRY" /\ t = "CLOSED" -> {"TIMEOUT", "SCHEDULER", "OPERATOR"}
    [] s = "OPENING" /\ t = "OPEN" -> {"BROKER_EVENT", "RECONCILIATION"}
    [] s = "OPEN" /\ t = "EXIT_PENDING" -> AnyTrigger
    [] s \in {"OPENING", "OPEN", "REPAIR_REQUIRED"} /\ t = "CLOSING" -> AnyTrigger
    [] s = "EXIT_PENDING" /\ t = "CLOSING" -> {"LOCAL_COMMAND"}
    [] s \in {"EXIT_PENDING", "CLOSING", "REPAIR_REQUIRED"} /\ t = "OPEN"
         -> {"RECONCILIATION"}
    [] s = "CLOSING" /\ t = "CLOSED" -> {"BROKER_EVENT", "RECONCILIATION"}
    [] s \notin {"CLOSED", "REPAIR_REQUIRED"} /\ t = "REPAIR_REQUIRED" -> AnyTrigger
    [] OTHER -> {}

CanTrade(s, t, trigger) == trigger \in TradeEdge(s, t)

ReservationStates == {"REQUESTED", "RESERVED", "REJECTED", "COMMITTED", "RELEASED"}

HoldsCapital == {"RESERVED", "COMMITTED"}

\* The edges of RESERVATION_MACHINE.
ReservationEdge(s, t) ==
  CASE s = "REQUESTED" /\ t \in {"RESERVED", "REJECTED"} -> {"RISK_DECISION"}
    [] s = "RESERVED" /\ t = "COMMITTED" -> {"BROKER_EVENT"}
    [] s = "RESERVED" /\ t = "RELEASED" -> {"BROKER_EVENT", "LOCAL_COMMAND", "TIMEOUT"}
    [] s = "COMMITTED" /\ t = "RELEASED" -> {"BROKER_EVENT", "RECONCILIATION"}
    [] OTHER -> {}

CanReservation(s, t, trigger) == trigger \in ReservationEdge(s, t)

SystemStates == {"STARTING", "RECOVERY", "READY", "DEGRADED", "HALTED"}

\* The edges of SYSTEM_MACHINE.
SystemEdge(s, t) ==
  CASE s = "STARTING" /\ t = "RECOVERY" -> {"STARTUP"}
    [] s \in {"RECOVERY", "DEGRADED"} /\ t = "READY" -> {"RECONCILIATION"}
    [] s \in {"RECOVERY", "READY"} /\ t = "DEGRADED" -> AnyTrigger
    [] s \in {"READY", "DEGRADED"} /\ t = "RECOVERY" -> AnyTrigger
    [] s # "HALTED" /\ t = "HALTED" -> AnyTrigger
    [] s = "HALTED" /\ t = "RECOVERY" -> {"OPERATOR", "STARTUP"}
    [] OTHER -> {}

CanSystem(s, t, trigger) == trigger \in SystemEdge(s, t)
=============================================================================
