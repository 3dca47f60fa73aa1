--------------------------- MODULE PlannerDecision ---------------------------
(***************************************************************************)
(* How a planner hook decides (planner.py): from the reservation of its    *)
(* turn to the handoff, with one request to Jev (jev.py), at most one call *)
(* of the host's model for a rewritten query, and one deadline for all.    *)
(* In the shadow mode the rewrite is only observed: it runs after the      *)
(* handoff in a daemon thread, of which a process has one at a time        *)
(* (shadow_rewrite.py).  PlanMailbox has what the mailbox makes of begin,  *)
(* reserve, finalize and cancel; here they are accepted or refused.        *)
(*                                                                         *)
(* Every step leaves a stage for the evaluation of the turn.               *)
(***************************************************************************)
EXTENDS Sequences, Naturals

CONSTANTS
  Hook,  \* calls of on_pre_llm_call, one for each turn
  NoHook \* holds the shadow slot when it is free

ASSUME PlannerAssumption == NoHook \notin Hook

VARIABLES
  rewrite, \* planner.rewrite: "off", "on" or "shadow"
  hook,    \* where each hook is and what it has decided
  worker,  \* the shadow thread of each hook: "none", "running" or "releasing"
  slot,    \* the hook that holds _slot
  stages,  \* the outcomes each hook has staged
  plan,    \* what the mailbox holds for the turn of each hook
  heard    \* the valid answers a hook got in time: Jev's and the rewriter's (ghost)

plannerVars == <<rewrite, hook, worker, slot, stages, plan, heard>>

PlanAction == {"skip", "reuse", "recall"}
HookStep == {"off", "begun", "reserved", "asking", "rewriting", "concluding", "cancelling",
             "publishing", "submitting", "starting", "done"}
Stage == {"input", "decision", "rewrite", "plan", "handoff"}

\* No decision, and a plan of the mailbox without one.
None == [action |-> "none", query |-> "none"]
Decision(action, query) == [action |-> action, query |-> query]

PlannerInit ==
  /\ rewrite \in {"off", "on", "shadow"}
  /\ hook = [h \in Hook |-> [at |-> "off", internal |-> FALSE, late |-> FALSE, decision |-> None]]
  /\ worker = [h \in Hook |-> "none"]
  /\ slot = NoHook
  /\ stages = [h \in Hook |-> [s \in Stage |-> <<>>]]
  /\ plan = [h \in Hook |-> None]
  /\ heard = [h \in Hook |-> {}]

Staging(h, stage, outcome) == stages' = [stages EXCEPT ![h][stage] = Append(@, outcome)]

HookMoves(h, from, to) ==
  /\ hook[h].at = from
  /\ hook' = [hook EXCEPT ![h].at = to]

\* The try block of the hook is left with a decision or without.
Decides(h, from, decision) ==
  /\ hook[h].at = from
  /\ hook' = [hook EXCEPT ![h].at = "concluding", ![h].decision = decision]

-----------------------------------------------------------------------------
(***************************************************************************)
(* Before anybody is asked.                                                *)
(***************************************************************************)

\* begin_turn accepts the hook.  _current_is_internal: the message is a
\* notification of the host and needs no recall.
HookStarts(h) ==
  /\ hook[h].at = "off"
  /\ \E internal \in BOOLEAN :
       hook' = [hook EXCEPT ![h].at = "begun", ![h].internal = internal]
  /\ UNCHANGED <<rewrite, worker, slot, stages, plan, heard>>

\* A first turn, an empty, trivial or long message, a planner that is off, or
\* a refused reservation: the turn is recalled directly.
PassesBy(h) ==
  /\ HookMoves(h, "begun", "done")
  /\ UNCHANGED <<rewrite, worker, slot, stages, plan, heard>>

HookReserves(h) ==
  /\ HookMoves(h, "begun", "reserved")
  /\ UNCHANGED <<rewrite, worker, slot, stages, plan, heard>>

\* The deadline of the plan; the mailbox's, taken earlier, has passed too.
PlannerDeadline(h) ==
  /\ hook[h].at \notin {"off", "begun"}
  /\ ~hook[h].late
  /\ hook' = [hook EXCEPT ![h].late = TRUE]
  /\ UNCHANGED <<rewrite, worker, slot, stages, plan, heard>>

\* The capsule is clipped, scrubbed and within its bytes.
BuildCapsule(h) ==
  /\ ~hook[h].internal /\ ~hook[h].late
  /\ HookMoves(h, "reserved", "asking")
  /\ Staging(h, "input", "built")
  /\ UNCHANGED <<rewrite, worker, slot, plan, heard>>

BuildCapsuleLate(h) ==
  /\ hook[h].late
  /\ Decides(h, "reserved", None)
  /\ Staging(h, "input", "built")
  /\ UNCHANGED <<rewrite, worker, slot, plan, heard>>

SkipInternal(h) ==
  /\ hook[h].internal /\ ~hook[h].late
  /\ Decides(h, "reserved", Decision("skip", "none"))
  /\ stages' = [stages EXCEPT ![h].input = Append(@, "built"),
                              ![h].decision = Append(@, "internal_message")]
  /\ UNCHANGED <<rewrite, worker, slot, plan, heard>>

\* The host's scrub raises, or the capsule exceeds its bytes.
CapsuleFails(h) ==
  /\ Decides(h, "reserved", None)
  /\ UNCHANGED <<rewrite, worker, slot, stages, plan, heard>>

-----------------------------------------------------------------------------
(***************************************************************************)
(* _jev_plan.                                                              *)
(***************************************************************************)

\* decide_memory returns a valid choice in time; only a recall with the
\* rewrite on asks further, otherwise its query is the turn's own.
JevDecides(h, action) ==
  /\ ~hook[h].late
  /\ IF action = "recall" /\ rewrite = "on"
       THEN HookMoves(h, "asking", "rewriting")
       ELSE Decides(h, "asking", Decision(action, IF action = "recall" THEN "own" ELSE "none"))
  /\ Staging(h, "decision", "planned")
  /\ heard' = [heard EXCEPT ![h] = @ \cup {action}]
  /\ UNCHANGED <<rewrite, worker, slot, plan>>

\* JevDecisionError: no key, no transport, a refusal, an answer that is too
\* large or not one of the choices.  Or no answer in time.
JevFails(h, outcome) ==
  /\ Decides(h, "asking", None)
  /\ Staging(h, "decision", outcome)
  /\ UNCHANGED <<rewrite, worker, slot, plan, heard>>

-----------------------------------------------------------------------------
(***************************************************************************)
(* _jev_rewrite, in the hook.                                              *)
(***************************************************************************)

\* Its outcomes: a valid query, one _parse_rewrite refuses, an error or a
\* timeout of the call, the first two before the deadline only.
RewriteOutcome(h) ==
  {"failed", "timeout"} \cup (IF hook[h].late THEN {} ELSE {"planned", "invalid"})

\* Faulty variant: the turn's own query takes the place of an invalid one.
RewriteOrOwn(h, outcome) ==
  /\ outcome \in RewriteOutcome(h)
  /\ Decides(h, "rewriting", Decision("recall", IF outcome = "planned" THEN "rewritten" ELSE "own"))
  /\ Staging(h, "rewrite", outcome)
  /\ heard' = [heard EXCEPT ![h] = IF outcome = "planned" THEN @ \cup {"rewritten"} ELSE @]
  /\ UNCHANGED <<rewrite, worker, slot, plan>>

RewriteInPlan(h, outcome) ==
  /\ outcome \in RewriteOutcome(h)
  /\ Decides(h, "rewriting", IF outcome = "planned" THEN Decision("recall", "rewritten") ELSE None)
  /\ Staging(h, "rewrite", outcome)
  /\ heard' = [heard EXCEPT ![h] = IF outcome = "planned" THEN @ \cup {"rewritten"} ELSE @]
  /\ UNCHANGED <<rewrite, worker, slot, plan>>

-----------------------------------------------------------------------------
(***************************************************************************)
(* The handoff.                                                            *)
(***************************************************************************)

\* A decision that comes late counts for nothing.
Conclude(h) ==
  LET decision == IF hook[h].late THEN None ELSE hook[h].decision IN
  /\ hook[h].at = "concluding"
  /\ hook' = [hook EXCEPT ![h].at = IF decision = None THEN "cancelling" ELSE "publishing",
                          ![h].decision = decision]
  /\ Staging(h, "plan", decision.action)
  /\ UNCHANGED <<rewrite, worker, slot, plan, heard>>

CancelPlan(h) ==
  /\ HookMoves(h, "cancelling", "done")
  /\ UNCHANGED <<rewrite, worker, slot, stages, plan, heard>>

\* mailbox.finalize takes the decision before its deadline.
PublishPlan(h) ==
  LET decision == hook[h].decision
      observed == rewrite = "shadow" /\ decision.action = "recall"
  IN
  /\ ~hook[h].late
  /\ HookMoves(h, "publishing", IF observed THEN "submitting" ELSE "done")
  /\ plan' = [plan EXCEPT ![h] = decision]
  /\ Staging(h, "handoff", "published")
  /\ UNCHANGED <<rewrite, worker, slot, heard>>

\* The mailbox refuses: too late, or the turn is no longer this hook's.
PublishRefused(h) ==
  /\ HookMoves(h, "publishing", "done")
  /\ Staging(h, "handoff", "lost")
  /\ UNCHANGED <<rewrite, worker, slot, plan, heard>>

-----------------------------------------------------------------------------
(***************************************************************************)
(* submit_shadow and its thread.                                           *)
(***************************************************************************)
TakeSlot(h) ==
  /\ slot = NoHook
  /\ slot' = h
  /\ HookMoves(h, "submitting", "starting")
  /\ UNCHANGED <<rewrite, worker, stages, plan, heard>>

SlotIsBusy(h) ==
  /\ slot # NoHook
  /\ HookMoves(h, "submitting", "done")
  /\ Staging(h, "rewrite", "busy")
  /\ UNCHANGED <<rewrite, worker, slot, plan, heard>>

StartShadow(h) ==
  /\ HookMoves(h, "starting", "done")
  /\ worker' = [worker EXCEPT ![h] = "running"]
  /\ UNCHANGED <<rewrite, slot, stages, plan, heard>>

\* Faulty variant: a thread that could not be started keeps the slot.
ShadowUnavailableKeeps(h) ==
  /\ HookMoves(h, "starting", "done")
  /\ Staging(h, "rewrite", "unavailable")
  /\ UNCHANGED <<rewrite, worker, slot, plan, heard>>

ShadowUnavailable(h) ==
  /\ HookMoves(h, "starting", "done")
  /\ slot' = NoHook
  /\ Staging(h, "rewrite", "unavailable")
  /\ UNCHANGED <<rewrite, worker, plan, heard>>

\* The call of the host's model ends, if it does; it keeps its slot until
\* then, and nothing of it reaches the mailbox.
ShadowReturns(h, outcome) ==
  /\ worker[h] = "running"
  /\ outcome \in RewriteOutcome(h)
  /\ worker' = [worker EXCEPT ![h] = "releasing"]
  /\ Staging(h, "rewrite", outcome)
  /\ UNCHANGED <<rewrite, hook, slot, plan, heard>>

ReleaseSlot(h) ==
  /\ worker[h] = "releasing"
  /\ worker' = [worker EXCEPT ![h] = "none"]
  /\ slot' = NoHook
  /\ UNCHANGED <<rewrite, hook, stages, plan, heard>>

-----------------------------------------------------------------------------
PlannerNext ==
  \E h \in Hook :
    \/ HookStarts(h) \/ PassesBy(h) \/ HookReserves(h) \/ PlannerDeadline(h)
    \/ BuildCapsule(h) \/ BuildCapsuleLate(h) \/ SkipInternal(h) \/ CapsuleFails(h)
    \/ \E action \in PlanAction : JevDecides(h, action)
    \/ \E outcome \in {"error", "timeout"} : JevFails(h, outcome)
    \/ \E outcome \in {"planned", "invalid", "failed", "timeout"} :
         RewriteInPlan(h, outcome) \/ ShadowReturns(h, outcome)
    \/ Conclude(h) \/ CancelPlan(h) \/ PublishPlan(h) \/ PublishRefused(h)
    \/ TakeSlot(h) \/ SlotIsBusy(h) \/ StartShadow(h) \/ ShadowUnavailable(h) \/ ReleaseSlot(h)

PlannerSpec == PlannerInit /\ [][PlannerNext]_plannerVars

-----------------------------------------------------------------------------
(***************************************************************************)
(* Properties.                                                             *)
(***************************************************************************)
\* No failure suppresses a recall: a turn is skipped, planned to reuse, or
\* recalled with a query other than its own only when Jev, and for the query
\* the rewriter, said so with a valid answer in time, or when the message was
\* the host's own; neither an error, nor a late answer, nor the observed
\* rewrite of any turn changes what the mailbox was given (on_pre_llm_call).
FailuresRecall ==
  \A h \in Hook : plan[h] # None =>
    \/ hook[h].internal /\ plan[h].action = "skip"
    \/ /\ plan[h].action \in heard[h]
       /\ plan[h].action = "recall" =>
            IF rewrite = "on" THEN plan[h].query = "rewritten" /\ "rewritten" \in heard[h]
                              ELSE plan[h].query = "own"

\* The stages of a turn that was reserved tell what became of it: it was
\* planned once, handed off if something was decided, with the success the
\* mailbox saw.  Its query was rewritten once if Jev chose recall and a
\* rewrite was due, counting a shadow that found the slot busy or no thread;
\* only a shadow whose call is under way has not been staged yet, and it holds
\* the slot for as long as that (submit_shadow).
TurnIsStaged ==
  \A h \in Hook : hook[h].at = "done" /\ stages[h].plan # <<>> =>
    LET decided == stages[h].plan # <<"none">>
        observed == rewrite = "shadow" /\ plan[h].action = "recall"
        asked == rewrite = "on" /\ "recall" \in heard[h]
    IN
    /\ Len(stages[h].plan) = 1
    /\ stages[h].handoff = (IF ~decided THEN <<>>
                            ELSE IF plan[h] # None THEN <<"published">> ELSE <<"lost">>)
    /\ plan[h] # None => stages[h].plan = <<plan[h].action>>
    /\ Len(stages[h].rewrite) = (IF asked \/ (observed /\ worker[h] # "running") THEN 1 ELSE 0)
    /\ slot = h <=> worker[h] # "none"
=============================================================================
