---------------------------- MODULE ProviderCalls ----------------------------
(***************************************************************************)
(* The calls that reach the runtime through one provider handle            *)
(* (provider.py, with ProcessRuntimeHandle of runtime.py and the requests  *)
(* of client.py): the host's automatic recall, the tools of its model and  *)
(* the turns its background executor retains.  None of them takes the      *)
(* session lock, so the handle may be shut down or initialized for another *)
(* authorization between any two fields they read.                         *)
(*                                                                         *)
(* Deadlines are not timed: a call with a deadline may become late at any  *)
(* step.  Runtime has the event loop below these calls, PlanMailbox the    *)
(* plans, RecallContext the memories shown, Outbox the admission.          *)
(***************************************************************************)
EXTENDS Integers, Sequences

CONSTANTS
  Host,         \* the thread of the automatic recall
  Other,        \* threads of the model's tools and of the background executor
  Grants,       \* what authorization may allow; a selection
  Inclusive,    \* operations configured to include attachments
  MaxGrants,    \* authorizations of the handle; a bound
  MaxMemories   \* memories shown by one recall; a bound

Capability == {"recall", "reflect", "mental_models", "retain"}
Thread == {Host} \cup Other

ASSUME ProviderCallsAssumption ==
  /\ Host \notin Other
  /\ Grants \subseteq (SUBSET Capability \ {{}})
  /\ Inclusive \subseteq {"recall", "reflect"}
  /\ MaxGrants \in Nat /\ MaxMemories \in Nat \ {0}

VARIABLES
  granted,     \* what each authorization of the handle allowed, oldest first
  open,        \* the authorizations whose ProcessRuntimeHandle is not closed
  lifecycle,   \* where initialize or shutdown is
  configured,  \* _config is set
  enabled,     \* the _..._enabled flags that are set
  runtime,     \* the authorization of _runtime, or Unset
  recallCount, \* _last_recall_count
  call,        \* the last call of each thread
  verified,    \* _multimodal_supported of the client
  injected     \* memories the latest prefetch put into the prompt (ghost)

handle == <<granted, open, lifecycle, configured, enabled, runtime>>
outcomes == <<verified, injected>>
providerCallsVars ==
  <<granted, open, lifecycle, configured, enabled, runtime, recallCount, call,
    verified, injected>>

Unset == 0

Operation(t) ==
  IF t = Host THEN {"prefetch"}
  ELSE {"recall", "reflect", "mental_models", "retain", "sync_turn"}

\* The capability an operation needs.
Needs(op) ==
  CASE op \in {"prefetch", "recall"} -> "recall"
    [] op \in {"retain", "sync_turn"} -> "retain"
    [] OTHER -> op

NoCall ==
  [at |-> "returned", op |-> "none", config |-> FALSE, via |-> Unset, late |-> FALSE,
   capture |-> FALSE, staged |-> 0, answer |-> "none", memories |-> 0]

ProviderCallsInit ==
  /\ granted = <<>>
  /\ open = {}
  /\ lifecycle = "settled"
  /\ configured = FALSE
  /\ enabled = {}
  /\ runtime = Unset
  /\ recallCount = 0
  /\ call = [t \in Thread |-> NoCall]
  /\ verified = FALSE
  /\ injected = 0

-----------------------------------------------------------------------------
(***************************************************************************)
(* initialize and shutdown, under the session lock: the handle is cleared  *)
(* field by field, then set field by field.                                *)
(***************************************************************************)
Deactivate ==
  /\ lifecycle = "settled"
  /\ configured' = FALSE
  /\ recallCount' = 0
  /\ lifecycle' = "disabling"
  /\ UNCHANGED <<granted, open, enabled, runtime, call, verified, injected>>

Disable ==
  /\ lifecycle = "disabling"
  /\ enabled' = {}
  /\ lifecycle' = "dropping"
  /\ UNCHANGED <<granted, open, configured, runtime, recallCount, call, verified, injected>>

\* _runtime = None, then runtime.close().
DropRuntime ==
  /\ lifecycle = "dropping"
  /\ runtime' = Unset
  /\ lifecycle' = "closing"
  /\ UNCHANGED <<granted, open, configured, enabled, recallCount, call, verified, injected>>

\* Faulty variant: the dropped handle stays usable.
LeaveHandle ==
  /\ lifecycle = "closing"
  /\ lifecycle' = "inactive"
  /\ UNCHANGED <<granted, open, configured, enabled, runtime, recallCount, call, verified, injected>>

CloseHandle ==
  /\ lifecycle = "closing"
  /\ open' = {}
  /\ lifecycle' = "inactive"
  /\ UNCHANGED <<granted, configured, enabled, runtime, recallCount, call, verified, injected>>

\* A shutdown, or an initialization that is not authorized or gets no runtime.
StayInactive ==
  /\ lifecycle = "inactive"
  /\ lifecycle' = "settled"
  /\ UNCHANGED <<granted, open, configured, enabled, runtime, recallCount, call, verified, injected>>

Authorize(grant) ==
  /\ lifecycle = "inactive"
  /\ Len(granted) < MaxGrants
  /\ granted' = Append(granted, grant)
  /\ open' = open \cup {Len(granted) + 1}
  /\ configured' = TRUE
  /\ lifecycle' = "enabling"
  /\ UNCHANGED <<enabled, runtime, recallCount, call, verified, injected>>

Enable ==
  /\ lifecycle = "enabling"
  /\ enabled' = granted[Len(granted)]
  /\ lifecycle' = "publishing"
  /\ UNCHANGED <<granted, open, configured, runtime, recallCount, call, verified, injected>>

Publish ==
  /\ lifecycle = "publishing"
  /\ runtime' = Len(granted)
  /\ lifecycle' = "settled"
  /\ UNCHANGED <<granted, open, configured, enabled, recallCount, call, verified, injected>>

-----------------------------------------------------------------------------
(***************************************************************************)
(* What the calls have in common.                                          *)
(***************************************************************************)
Becomes(t, from, c) ==
  /\ call[t].at = from
  /\ call' = [call EXCEPT ![t] = c]
  /\ UNCHANGED handle

Advance(t, from, to) ==
  Becomes(t, from, [call[t] EXCEPT !.at = to]) /\ UNCHANGED <<recallCount, outcomes>>

Answered(c, answer) ==
  [c EXCEPT !.at = "returned", !.config = FALSE, !.via = Unset, !.late = FALSE, !.answer = answer]

Answer(t, from, c, answer) ==
  Becomes(t, from, Answered(c, answer)) /\ UNCHANGED <<recallCount, outcomes>>

\* The retrieval stage of an evaluation capture, when the plan has one.
Staged(c) == IF c.capture THEN [c EXCEPT !.staged = @ + 1] ELSE c

\* A deadline passes: those of recall and of reflection are checked.
Expire(t) ==
  /\ ~call[t].late
  /\ \/ Needs(call[t].op) = "recall" /\ call[t].at \notin {"entered", "sighted", "returned", "shown"}
     \/ call[t].op = "reflect" /\ call[t].at \in {"projecting", "calling", "exchanging"}
  /\ call' = [call EXCEPT ![t].late = TRUE]
  /\ UNCHANGED <<handle, recallCount, outcomes>>

\* A tool refuses its arguments before it reads the handle.
RefuseArguments(t, op) ==
  /\ op \in Operation(t) \ {"prefetch", "sync_turn", "mental_models"}
  /\ Answer(t, "returned", [NoCall EXCEPT !.op = op], "invalid")

\* handle_tool_call, sync_turn: every call but the automatic recall first
\* reads _config.
Enter(t, op) ==
  /\ op \in Operation(t) \ {"prefetch"}
  /\ Becomes(t, "returned",
       [NoCall EXCEPT !.op = op, !.config = configured,
                      !.at = IF op = "recall" THEN "entered" ELSE "reading"])
  /\ UNCHANGED <<recallCount, outcomes>>

\* Faulty variant: the count of the last prefetch stays.
PrefetchKeepsCount(t) ==
  /\ "prefetch" \in Operation(t)
  /\ Becomes(t, "returned", [NoCall EXCEPT !.op = "prefetch", !.config = configured, !.at = "entered"])
  /\ injected' = 0
  /\ UNCHANGED <<recallCount, verified>>

Prefetch(t) ==
  /\ "prefetch" \in Operation(t)
  /\ Becomes(t, "returned", [NoCall EXCEPT !.op = "prefetch", !.config = configured, !.at = "entered"])
  /\ recallCount' = 0
  /\ injected' = 0
  /\ UNCHANGED verified

\* The reads that decide whether the call may reach the runtime.
ReadRuntime(t) ==
  /\ Becomes(t, "reading", [call[t] EXCEPT !.at = "checking", !.via = runtime])
  /\ UNCHANGED <<recallCount, outcomes>>

Usable(c) == c.config /\ c.via # Unset /\ Needs(c.op) \in enabled

CheckEnabled(t) ==
  IF Usable(call[t])
    THEN Advance(t, "checking", IF call[t].op = "reflect" THEN "projecting" ELSE "calling")
    ELSE Answer(t, "checking", call[t], "inert")

\* A part of mental models is disabled, an attachment is offered without
\* multimodal retention, or a turn has no text.
Decline(t) ==
  /\ call[t].op \in {"mental_models", "retain", "sync_turn"}
  /\ Usable(call[t])
  /\ Answer(t, "checking", call[t], "unavailable")

\* ProcessRuntimeHandle._require_runtime.
Reach(t) ==
  /\ call[t].via \in open
  /\ ~call[t].late
  /\ Advance(t, "calling", "exchanging")

\* How a call that raised is answered; a creation may have been heard.
Failure(op) ==
  IF op = "mental_models" THEN {"unavailable", "unconfirmed"}
  ELSE IF Needs(op) = "retain" THEN {"rejected"} ELSE {"unavailable"}

ReachFails(t, answer) ==
  /\ call[t].via \notin open \/ call[t].late
  /\ answer \in Failure(call[t].op)
  /\ Answer(t, "calling", Staged(call[t]), answer)

-----------------------------------------------------------------------------
(***************************************************************************)
(* Automatic recall and the recall tool.                                   *)
(***************************************************************************)
\* The first look at the handle: at its flag, then at its runtime.
SeeEnabled(t) ==
  IF call[t].config /\ "recall" \in enabled
    THEN Advance(t, "entered", "sighted")
    ELSE Answer(t, "entered", call[t], "inert")

SeeRuntime(t) ==
  IF runtime # Unset
    THEN Advance(t, "sighted", IF call[t].op = "prefetch" THEN "planning" ELSE "projecting")
    ELSE Answer(t, "sighted", call[t], "inert")

\* An empty query.
NoQuery(t) ==
  /\ call[t].op = "prefetch"
  /\ Answer(t, "planning", call[t], "nothing")

\* Faulty variant: a plan that comes too late is dropped without a stage.
ConsumeUnstaged(t, capture, ends) ==
  LET c == [call[t] EXCEPT !.capture = capture] IN
  IF c.late \/ ends
    THEN Answer(t, "planning", IF c.late THEN c ELSE Staged(c), "nothing")
    ELSE Advance(t, "planning", "projecting")

\* The planner's plan: none, one that ends the recall (skip, reuse) or one
\* that is used; with an evaluation capture or not.
Consume(t, capture, ends) ==
  LET c == [call[t] EXCEPT !.capture = capture] IN
  IF c.late \/ ends
    THEN Answer(t, "planning", Staged(c), "nothing")
    ELSE /\ Becomes(t, "planning", [c EXCEPT !.at = "projecting"])
         /\ UNCHANGED <<recallCount, outcomes>>

\* project_query leaves something to ask, in time.
Project(t) ==
  /\ ~call[t].late
  /\ Advance(t, "projecting", IF call[t].op = "reflect" THEN "calling" ELSE "rereading")

ProjectFails(t) == Answer(t, "projecting", Staged(call[t]), "invalid")

ProjectLate(t) == call[t].late /\ Answer(t, "projecting", Staged(call[t]), "unavailable")

\* _recall_projected reads _config again.
Reread(t) ==
  /\ Becomes(t, "rereading", [call[t] EXCEPT !.at = "reading", !.config = configured])
  /\ UNCHANGED <<recallCount, outcomes>>

\* A timeout, a failure of the client, or a response that is not a recall.
RecallFails(t) ==
  /\ Needs(call[t].op) = "recall"
  /\ Answer(t, "exchanging", Staged(call[t]), "unavailable")

\* Attachments are asked for once the server's version is known to serve them.
VersionKnown(t) == Needs(call[t].op) \in Inclusive => verified

RecallEmpty(t) ==
  /\ Needs(call[t].op) = "recall"
  /\ VersionKnown(t)
  /\ IF call[t].late
       THEN Answer(t, "exchanging", Staged(call[t]), "unavailable")
       ELSE /\ Becomes(t, "exchanging", [Staged(call[t]) EXCEPT !.at = "shown"])
            /\ UNCHANGED <<recallCount, outcomes>>

RecallAnswers(t) ==
  /\ Needs(call[t].op) = "recall"
  /\ VersionKnown(t)
  /\ Advance(t, "exchanging", "formatting")

\* format_recall_context_with_records: nothing fits, or it takes too long.
FormatFails(t) == Answer(t, "formatting", Staged(call[t]), "unavailable")

Format(t, n) ==
  /\ ~call[t].late
  /\ Becomes(t, "formatting", [Staged(call[t]) EXCEPT !.at = "shown", !.memories = n])
  /\ UNCHANGED <<recallCount, outcomes>>

\* The result goes into the prompt, or to the model.
Show(t) ==
  /\ Becomes(t, "shown", Answered(call[t], "memories"))
  /\ IF call[t].op = "prefetch"
       THEN recallCount' = call[t].memories /\ injected' = call[t].memories
       ELSE UNCHANGED <<recallCount, injected>>
  /\ UNCHANGED verified

-----------------------------------------------------------------------------
(***************************************************************************)
(* The requests of the client, and the other tools.                        *)
(***************************************************************************)
\* _require_multimodal_supported: the answer is kept for good.
VerifyVersion(t) ==
  /\ Needs(call[t].op) \in Inclusive
  /\ ~verified
  /\ call[t].at = "exchanging"
  /\ verified' = TRUE
  /\ UNCHANGED <<handle, recallCount, call, injected>>

Reflect(t) ==
  /\ call[t].op = "reflect"
  /\ VersionKnown(t) /\ ~call[t].late
  /\ Answer(t, "exchanging", call[t], "ok")

ReflectFails(t) == call[t].op = "reflect" /\ Answer(t, "exchanging", call[t], "unavailable")

\* runtime.mental_models.
CallModels(t, answer) ==
  /\ call[t].op = "mental_models"
  /\ answer \in {"ok"} \cup Failure(call[t].op)
  /\ Answer(t, "exchanging", call[t], answer)

\* admit_turn and admit_multimodal, for the retain tool and sync_turn.
Admit(t, answer) ==
  /\ Needs(call[t].op) = "retain"
  /\ answer \in {"queued_locally", "already_queued"} \cup Failure(call[t].op)
  /\ Answer(t, "exchanging", call[t], answer)

-----------------------------------------------------------------------------
Lifecycle ==
  \/ Deactivate \/ Disable \/ DropRuntime \/ CloseHandle \/ StayInactive
  \/ \E grant \in Grants : Authorize(grant)
  \/ Enable \/ Publish

Call(t) ==
  \/ \E op \in Operation(t) : RefuseArguments(t, op) \/ Enter(t, op)
  \/ Prefetch(t) \/ Expire(t)
  \/ SeeEnabled(t) \/ SeeRuntime(t) \/ NoQuery(t)
  \/ \E capture, ends \in BOOLEAN : Consume(t, capture, ends)
  \/ Project(t) \/ ProjectFails(t) \/ ProjectLate(t)
  \/ Reread(t) \/ ReadRuntime(t) \/ CheckEnabled(t) \/ Decline(t)
  \/ Reach(t) \/ \E answer \in {"unavailable", "unconfirmed", "rejected"} : ReachFails(t, answer)
  \/ RecallFails(t) \/ RecallEmpty(t) \/ RecallAnswers(t)
  \/ FormatFails(t) \/ \E n \in 1..MaxMemories : Format(t, n)
  \/ Show(t)
  \/ VerifyVersion(t) \/ Reflect(t) \/ ReflectFails(t)
  \/ \E answer \in {"ok", "unavailable", "unconfirmed"} : CallModels(t, answer)
  \/ \E answer \in {"queued_locally", "already_queued", "rejected"} : Admit(t, answer)

ProviderCallsNext == Lifecycle \/ \E t \in Thread : Call(t)

ProviderCallsSpec == ProviderCallsInit /\ [][ProviderCallsNext]_providerCallsVars

-----------------------------------------------------------------------------
(***************************************************************************)
(* Properties.                                                             *)
(***************************************************************************)
\* A call reaches the runtime only for what the authorization of the handle
\* it goes through allows, however initialize, shutdown and the unlocked
\* reads of the call interleave (_deactivate_locked, _recall_projected).
CapabilityBindsCall ==
  \A t \in Thread :
    call[t].at \in {"exchanging", "formatting"} => Needs(call[t].op) \in granted[call[t].via]

\* recall_status speaks of the memories the latest automatic recall put into
\* the prompt or, after a shutdown, of none: never of those an earlier
\* recall or the recall tool found.
StatusDescribesInjection == recallCount \in {0, injected}

\* An automatic recall whose plan was captured for evaluation leaves exactly
\* one retrieval stage on each of its ways out, but for the one where the
\* handle has been shut down meanwhile, which leaves none (prefetch).
CapturesAreStaged ==
  LET c == call[Host] IN
  c.at = "returned" /\ c.capture => c.staged = (IF c.answer = "inert" THEN 0 ELSE 1)
=============================================================================
