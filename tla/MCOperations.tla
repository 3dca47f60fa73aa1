---------------------------- MODULE MCOperations -----------------------------
(***************************************************************************)
(* The processes an operator or a scheduler starts beside the gateway: the *)
(* commands that write to the bank, the passive status, the canary and the *)
(* watchdog.  They share no state, so each behaviour runs one of them: the *)
(* watchdog learns from the others only what they report, and any report   *)
(* is possible.                                                            *)
(***************************************************************************)
EXTENDS OperatorCommands, QueueStatus, Canary, Watchdog

CONSTANTS m1, m2, m3, p1

VARIABLE part \* the process of this behaviour

vars == <<part, operatorVars, queueStatusVars, canaryVars, watchdogVars>>

Ask(action, model, name, trigger, retained, observations) ==
  [action |-> action, model |-> model, change |-> [name |-> name, trigger |-> trigger],
   desired |-> [retain |-> retained, observations |-> observations]]

MCScript ==
  {Ask("edit", m1, 1, Keep, Keep, Keep), Ask("edit", m1, Keep, 1, Keep, Keep),
   Ask("delete", m1, Keep, Keep, Keep, Keep), Ask("refresh", m1, Keep, Keep, Keep, Keep),
   Ask("create", m2, 1, 1, Keep, Keep), Ask("page_create", m2, 1, 0, Keep, Keep),
   Ask("missions", m1, Keep, Keep, 1, Keep), Ask("missions", m1, Keep, Keep, 1, 1)}

Init ==
  /\ part \in {"operator", "status", "canary", "watchdog"}
  /\ OperatorInit /\ QueueStatusInit /\ CanaryInit /\ WatchdogInit

Next ==
  /\ UNCHANGED part
  /\ \/ part = "operator" /\ OperatorNext /\ UNCHANGED <<queueStatusVars, canaryVars, watchdogVars>>
     \/ part = "status" /\ QueueStatusNext /\ UNCHANGED <<operatorVars, canaryVars, watchdogVars>>
     \/ part = "canary" /\ CanaryNext /\ UNCHANGED <<operatorVars, queueStatusVars, watchdogVars>>
     \/ part = "watchdog" /\ WatchdogNext /\ UNCHANGED <<operatorVars, queueStatusVars, canaryVars>>

Spec == Init /\ [][Next]_vars
=============================================================================
