----------------------------- MODULE MCProvider ------------------------------
(***************************************************************************)
(* A provider handle: how it follows the sessions of its host, the calls   *)
(* that go through it, the decisions of its planner hooks and the records  *)
(* these leave.  Switches are serialized by the session lock and do not    *)
(* touch the fields the calls read, a hook shares only the mailbox with a  *)
(* call, and a record is written by a thread of its own after it has been  *)
(* queued, so each behaviour runs one of the four.                         *)
(***************************************************************************)
EXTENDS SessionSwitch, ProviderCalls, PlannerDecision, Records

VARIABLE part \* "sessions", "calls", "planner" or "records"

vars == <<part, switchVars, providerCallsVars, plannerVars, recordsVars>>

Init ==
  /\ part \in {"sessions", "calls", "planner", "records"}
  /\ SwitchInit /\ ProviderCallsInit /\ PlannerInit /\ RecordsInit
  /\ part # "sessions" => activation = Nowhere
  /\ part # "planner" => rewrite = "off"
  /\ part # "records" => kind = "diagnostics"

Next ==
  /\ UNCHANGED part
  /\ \/ part = "sessions" /\ SwitchNext /\ UNCHANGED <<providerCallsVars, plannerVars, recordsVars>>
     \/ part = "calls" /\ ProviderCallsNext /\ UNCHANGED <<switchVars, plannerVars, recordsVars>>
     \/ part = "planner" /\ PlannerNext /\ UNCHANGED <<switchVars, providerCallsVars, recordsVars>>
     \/ part = "records" /\ RecordsNext /\ UNCHANGED <<switchVars, providerCallsVars, plannerVars>>

Spec == Init /\ [][Next]_vars

-----------------------------------------------------------------------------
\* What is reported of a turn is what happened to it: the stages of the hook
\* and of the recall that consumed its plan, and the count in recall_status.
TurnIsReported == TurnIsStaged /\ CapturesAreStaged /\ StatusDescribesInjection
=============================================================================
