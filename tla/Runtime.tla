------------------------------ MODULE Runtime -------------------------------
(***************************************************************************)
(* The process runtime (runtime.py): provider threads, the outbox sender   *)
(* and a finalizer share one AsyncRunner, whose event loop runs their      *)
(* coroutines.  A call that exceeds its deadline returns to its thread     *)
(* while its task may live on; the runner tracks such tasks by tokens and  *)
(* refuses new work until they settle.                                     *)
(*                                                                         *)
(* Deadlines are not timed: a wait with a deadline may expire whenever it  *)
(* has not been satisfied.  Outbox describes the sender's work in detail;  *)
(* here it is a thread that uses the runner and the outbox.                *)
(***************************************************************************)
EXTENDS Naturals, FiniteSets

CONSTANTS
  Caller,      \* provider threads
  Sender,      \* the outbox sender thread
  Finalizer,   \* the thread in finalize_process_runtime; its guard admits one
  \* Bounds on the model, none of them in the code:
  MaxCalls,    \* runner calls of one thread
  MaxExpiries, \* finalizations given up at their deadline
  MaxRuntimes  \* runtimes constructed one after the other

Thread == Caller \cup {Sender, Finalizer}

ASSUME RuntimeAssumption ==
  /\ IsFiniteSet(Caller)
  /\ Sender \notin Caller /\ Finalizer \notin Caller /\ Sender # Finalizer
  /\ MaxCalls \in Nat /\ MaxExpiries \in Nat /\ MaxRuntimes \in Nat

VARIABLES
  pc,          \* where each thread is
  calls,       \* runner calls each thread has made; its last names its task
  alive,       \* tasks on the event loop, as <<thread, call>>
  unsettled,   \* _unsettled_tokens
  shutdown,    \* AsyncRunner._shutdown
  loop,        \* the event-loop thread: "running" or "stopped"
  activeCalls, \* _active_calls
  finalizing,  \* _finalizing
  closed,      \* _closed
  outboxOpen,  \* the SQLite outbox
  clientClosed,\* _client_closed
  active,      \* _ACTIVE_RUNTIME is set
  generation,  \* how many runtimes were constructed
  expiries     \* finalizations given up

runner == <<calls, alive, unsettled, shutdown, loop>>
lifecycle == <<activeCalls, finalizing, closed, outboxOpen, clientClosed>>
process == <<active, generation, expiries>>
vars == <<pc, calls, alive, unsettled, shutdown, loop, activeCalls, finalizing,
          closed, outboxOpen, clientClosed, active, generation, expiries>>

\* Inside AsyncRunner.run, and after it.
InRun == {"waiting", "draining"}
Returned == {"result", "refused", "timedout"}

CallerState == {"idle", "begun", "admitting"} \cup InRun \cup Returned
SenderState == {"ended", "head", "attempt", "settling"} \cup InRun \cup Returned
FinalizerState ==
  {"idle", "awaitCalls", "joinSender", "settle", "closeOutbox", "closeClient", "stopLoop", "joinLoop"}
    \cup InRun \cup Returned

Task(t) == <<t, calls[t]>>

Init ==
  /\ pc = [t \in Thread |-> IF t = Sender THEN "ended" ELSE "idle"]
  /\ calls = [t \in Thread |-> 0]
  /\ alive = {}
  /\ unsettled = {}
  /\ shutdown = TRUE
  /\ loop = "stopped"
  /\ activeCalls = 0
  /\ finalizing = TRUE
  /\ closed = TRUE
  /\ outboxOpen = FALSE
  /\ clientClosed = TRUE
  /\ active = FALSE
  /\ generation = 0
  /\ expiries = 0

Goto(t, from, to) ==
  /\ pc[t] = from
  /\ pc' = [pc EXCEPT ![t] = to]

-----------------------------------------------------------------------------
(***************************************************************************)
(* acquire_process_runtime: a new runtime when none is active.  Otherwise  *)
(* the caller shares the active one, or is refused: nothing changes.       *)
(***************************************************************************)
Acquire ==
  /\ ~active
  /\ pc[Finalizer] = "idle"
  /\ generation < MaxRuntimes
  /\ active' = TRUE
  /\ generation' = generation + 1
  /\ pc' = [pc EXCEPT ![Sender] = "head"]
  /\ unsettled' = {}
  /\ shutdown' = FALSE
  /\ loop' = "running"
  /\ activeCalls' = 0
  /\ finalizing' = FALSE
  /\ closed' = FALSE
  /\ outboxOpen' = TRUE
  /\ clientClosed' = FALSE
  /\ UNCHANGED <<calls, alive, expiries>>

-----------------------------------------------------------------------------
(***************************************************************************)
(* AsyncRunner.                                                            *)
(***************************************************************************)

\* run: a task is scheduled on the loop.
Run(t, from) ==
  /\ ~shutdown
  /\ unsettled = {}
  /\ Goto(t, from, "waiting")
  /\ calls' = [calls EXCEPT ![t] = @ + 1]
  /\ alive' = alive \cup {<<t, calls[t] + 1>>}
  /\ UNCHANGED <<unsettled, shutdown, loop, lifecycle, process>>

\* run: closed, or prior work has not settled.
RunRefused(t, from) ==
  /\ shutdown \/ unsettled # {}
  /\ Goto(t, from, "refused")
  /\ UNCHANGED <<runner, lifecycle, process>>

\* The task is done, by the time of its deadline at the latest.
GetResult(t) ==
  /\ Task(t) \notin alive
  /\ Goto(t, "waiting", "result")
  /\ UNCHANGED <<runner, lifecycle, process>>

\* The deadline passes: the task is cancelled.
TimesOut(t) ==
  /\ Task(t) \in alive
  /\ t = Finalizer => expiries < MaxExpiries
  /\ Goto(t, "waiting", "draining")
  /\ UNCHANGED <<runner, lifecycle, process>>

\* Faulty variant: the token is published without a look at done.
PublishAlways(t) ==
  /\ Goto(t, "draining", "timedout")
  /\ unsettled' = unsettled \cup {Task(t)}
  /\ UNCHANGED <<calls, alive, shutdown, loop, lifecycle, process>>

\* _publish_unsettled, when the drain period ends or the task is done.
PublishUnsettled(t) ==
  /\ Goto(t, "draining", "timedout")
  /\ unsettled' = unsettled \cup ({Task(t)} \cap alive)
  /\ UNCHANGED <<calls, alive, shutdown, loop, lifecycle, process>>

\* _complete: the task ends, with its result, an error or its cancellation.
\* The finalizer's task closes the client unless it fails.
Complete(m) ==
  /\ loop = "running"
  /\ m \in alive
  /\ alive' = alive \ {m}
  /\ unsettled' = unsettled \ {m}
  /\ \/ m[1] = Finalizer /\ clientClosed' = TRUE
     \/ UNCHANGED clientClosed
  /\ UNCHANGED <<pc, calls, shutdown, loop, activeCalls, finalizing, closed, outboxOpen, process>>

\* A task its thread no longer waits for was cancelled.
Cancelled(m) == ~(pc[m[1]] = "waiting" /\ m = Task(m[1]))

\* loop.stop() takes effect: what is pending is cancelled and gathered.
LoopStops ==
  /\ shutdown
  /\ loop = "running"
  /\ loop' = "stopped"
  /\ alive' = {}
  /\ unsettled' = {}
  /\ UNCHANGED <<pc, calls, shutdown, lifecycle, process>>

-----------------------------------------------------------------------------
(***************************************************************************)
(* Provider threads.  An operation refused by _begin_operation changes     *)
(* nothing.                                                                *)
(***************************************************************************)
Accepting == active /\ ~finalizing /\ ~closed

\* _begin_operation of a call on the client or of an admission.
BeginOperation(c) ==
  /\ Accepting
  /\ calls[c] < MaxCalls
  /\ pc[c] = "idle"
  /\ \E to \in {"begun", "admitting"} : pc' = [pc EXCEPT ![c] = to]
  /\ activeCalls' = activeCalls + 1
  /\ UNCHANGED <<runner, finalizing, closed, outboxOpen, clientClosed, process>>

\* Faulty variant: an operation that failed is not counted out.
FinishReturned(c) ==
  /\ pc[c] \in {"admitting", "result"}
  /\ pc' = [pc EXCEPT ![c] = "idle"]
  /\ activeCalls' = activeCalls - 1
  /\ UNCHANGED <<runner, finalizing, closed, outboxOpen, clientClosed, process>>

\* _finish_operation, whatever became of the operation.
FinishOperation(c) ==
  /\ pc[c] \in {"admitting"} \cup Returned
  /\ pc' = [pc EXCEPT ![c] = "idle"]
  /\ activeCalls' = activeCalls - 1
  /\ UNCHANGED <<runner, finalizing, closed, outboxOpen, clientClosed, process>>

CallerStep(c) ==
  \/ Run(c, "begun") \/ RunRefused(c, "begun") \/ GetResult(c) \/ TimesOut(c)
  \/ PublishUnsettled(c) \/ FinishOperation(c)

-----------------------------------------------------------------------------
(***************************************************************************)
(* The sender thread.                                                      *)
(***************************************************************************)

\* At its loop head it ends when told to stop; finalize tells it.
SenderEnds ==
  /\ finalizing
  /\ Goto(Sender, "head", "ended")
  /\ UNCHANGED <<runner, lifecycle, process>>

\* It claims a row once the runner has settled.
SenderClaims ==
  /\ ~finalizing
  /\ unsettled = {}
  /\ calls[Sender] < MaxCalls
  /\ Goto(Sender, "head", "attempt")
  /\ UNCHANGED <<runner, lifecycle, process>>

\* After a timeout or a refusal it waits for settlement, deaf to a stop.
SenderAwaitsSettlement ==
  /\ pc[Sender] \in {"refused", "timedout"}
  /\ pc' = [pc EXCEPT ![Sender] = "settling"]
  /\ UNCHANGED <<runner, lifecycle, process>>

\* It completes or reschedules its claim in the outbox.
SenderSettlesClaim ==
  /\ pc[Sender] = "result" \/ (pc[Sender] = "settling" /\ unsettled = {})
  /\ pc' = [pc EXCEPT ![Sender] = "head"]
  /\ UNCHANGED <<runner, lifecycle, process>>

SenderStep ==
  \/ SenderEnds \/ SenderClaims \/ Run(Sender, "attempt") \/ RunRefused(Sender, "attempt")
  \/ GetResult(Sender) \/ TimesOut(Sender) \/ PublishUnsettled(Sender)
  \/ SenderAwaitsSettlement \/ SenderSettlesClaim

-----------------------------------------------------------------------------
(***************************************************************************)
(* finalize_process_runtime and ProcessRuntime.finalize.                   *)
(***************************************************************************)

\* Faulty variant: a retry finds the runtime finalizing and returns.
FinalizeOnce ==
  /\ active
  /\ ~finalizing
  /\ Goto(Finalizer, "idle", "awaitCalls")
  /\ finalizing' = TRUE
  /\ UNCHANGED <<runner, activeCalls, closed, outboxOpen, clientClosed, process>>

\* The first finalization or a retry: new operations are refused from now on
\* and the sender is told to stop.
FinalizeBegins ==
  /\ active
  /\ Goto(Finalizer, "idle", "awaitCalls")
  /\ finalizing' = TRUE
  /\ UNCHANGED <<runner, activeCalls, closed, outboxOpen, clientClosed, process>>

\* The three waits: active operations, the sender thread, unsettled tasks.
CallsEnded ==
  /\ activeCalls = 0
  /\ Goto(Finalizer, "awaitCalls", "joinSender")
  /\ UNCHANGED <<runner, lifecycle, process>>

\* Faulty variant: the sender is told to stop but not joined.
SenderUnjoined ==
  /\ Goto(Finalizer, "joinSender", "settle")
  /\ UNCHANGED <<runner, lifecycle, process>>

SenderJoined ==
  /\ pc[Sender] = "ended"
  /\ Goto(Finalizer, "joinSender", "settle")
  /\ UNCHANGED <<runner, lifecycle, process>>

Settled ==
  /\ unsettled = {}
  /\ Goto(Finalizer, "settle", "closeOutbox")
  /\ UNCHANGED <<runner, lifecycle, process>>

\* outbox.close(); when it fails the outbox stays and finalize goes on.
CloseOutbox ==
  /\ pc[Finalizer] = "closeOutbox"
  /\ outboxOpen' \in {FALSE, outboxOpen}
  /\ pc' = [pc EXCEPT ![Finalizer] = IF clientClosed THEN "stopLoop" ELSE "closeClient"]
  /\ UNCHANGED <<runner, activeCalls, finalizing, closed, clientClosed, process>>

\* The close call returned, or the runner is closed: finalize goes on.
ClientCloseEnds ==
  /\ \/ pc[Finalizer] = "result"
     \/ pc[Finalizer] = "refused" /\ shutdown
  /\ pc' = [pc EXCEPT ![Finalizer] = "stopLoop"]
  /\ UNCHANGED <<runner, lifecycle, process>>

\* AsyncRunner.shutdown.  Were a task unsettled it would raise, and finalize
\* would count that among the failures it goes on after.
StopLoop ==
  /\ pc[Finalizer] = "stopLoop"
  /\ IF unsettled = {}
       THEN /\ shutdown' = TRUE
            /\ pc' = [pc EXCEPT ![Finalizer] = "joinLoop"]
            /\ UNCHANGED <<closed, active>>
       ELSE /\ closed' = TRUE
            /\ active' = FALSE
            /\ pc' = [pc EXCEPT ![Finalizer] = "idle"]
            /\ UNCHANGED shutdown
  /\ UNCHANGED <<calls, alive, unsettled, loop, activeCalls, finalizing, outboxOpen,
                 clientClosed, generation, expiries>>

\* The runtime is closed and finalize_process_runtime clears it, whether or
\* not a close failed on the way.
FinalizeEnds ==
  /\ loop = "stopped"
  /\ Goto(Finalizer, "joinLoop", "idle")
  /\ closed' = TRUE
  /\ active' = FALSE
  /\ UNCHANGED <<runner, activeCalls, finalizing, outboxOpen, clientClosed, generation, expiries>>

\* Faulty variant: a finalization given up clears the process runtime too.
StopErrorClears ==
  /\ expiries < MaxExpiries
  /\ \/ pc[Finalizer] = "awaitCalls" /\ activeCalls > 0
     \/ pc[Finalizer] = "joinSender" /\ pc[Sender] # "ended"
     \/ pc[Finalizer] = "settle" /\ unsettled # {}
     \/ pc[Finalizer] = "closeClient"
     \/ pc[Finalizer] = "joinLoop" /\ loop = "running"
  /\ pc' = [pc EXCEPT ![Finalizer] = "idle"]
  /\ active' = FALSE
  /\ expiries' = expiries + 1
  /\ UNCHANGED <<runner, lifecycle, generation>>

\* SenderStopError: a wait exceeds the deadline, or closing the client timed
\* out or was refused.  The runtime stays active and finalizing, for a retry.
SenderStops ==
  /\ expiries < MaxExpiries
  /\ \/ pc[Finalizer] = "awaitCalls" /\ activeCalls > 0
     \/ pc[Finalizer] = "joinSender" /\ pc[Sender] # "ended"
     \/ pc[Finalizer] = "settle" /\ unsettled # {}
     \/ pc[Finalizer] = "closeClient"
     \/ pc[Finalizer] = "joinLoop" /\ loop = "running"
  /\ pc' = [pc EXCEPT ![Finalizer] = "idle"]
  /\ expiries' = expiries + 1
  /\ UNCHANGED <<runner, lifecycle, active, generation>>

\* The same after the client's close call.
ClientCloseFails ==
  /\ \/ pc[Finalizer] = "timedout"
     \/ pc[Finalizer] = "refused" /\ ~shutdown
  /\ pc' = [pc EXCEPT ![Finalizer] = "idle"]
  /\ expiries' = expiries + 1
  /\ UNCHANGED <<runner, lifecycle, active, generation>>

FinalizerStep ==
  \/ CallsEnded \/ SenderJoined \/ Settled \/ CloseOutbox
  \/ Run(Finalizer, "closeClient") \/ RunRefused(Finalizer, "closeClient")
  \/ GetResult(Finalizer) \/ PublishUnsettled(Finalizer)
  \/ ClientCloseEnds \/ ClientCloseFails \/ StopLoop \/ FinalizeEnds

-----------------------------------------------------------------------------
Next ==
  \/ Acquire
  \/ \E c \in Caller : BeginOperation(c) \/ CallerStep(c)
  \/ SenderStep
  \/ FinalizeBegins \/ FinalizerStep \/ TimesOut(Finalizer) \/ SenderStops
  \/ \E m \in alive : Complete(m)
  \/ LoopStops

(***************************************************************************)
(* Threads and the event loop are scheduled, deadlines pass, a cancelled   *)
(* task ends, and so does closing the client; the remote may leave any     *)
(* other task waiting for ever.  A finalization that was given up is       *)
(* retried (at interpreter exit at the latest).                            *)
(***************************************************************************)
Settles(m) == m \in alive /\ (Cancelled(m) \/ m[1] = Finalizer) /\ Complete(m)

Fairness ==
  /\ \A c \in Caller : WF_vars(CallerStep(c))
  /\ WF_vars(SenderStep)
  /\ WF_vars(FinalizerStep)
  /\ WF_vars(finalizing /\ FinalizeBegins)
  /\ \A t \in Thread : WF_vars(Settles(Task(t)))
  /\ WF_vars(LoopStops)

Spec == Init /\ [][Next]_vars
FairSpec == Spec /\ Fairness

-----------------------------------------------------------------------------
(***************************************************************************)
(* Properties.                                                             *)
(***************************************************************************)

\* Every variable holds a value of its kind; _active_calls never falls below
\* zero or rises above the threads there are.
TypeOK ==
  /\ \A c \in Caller : pc[c] \in CallerState
  /\ pc[Sender] \in SenderState
  /\ pc[Finalizer] \in FinalizerState
  /\ DOMAIN pc = Thread
  /\ calls \in [Thread -> Nat]
  /\ alive \subseteq Thread \X Nat
  /\ unsettled \subseteq Thread \X Nat
  /\ shutdown \in BOOLEAN /\ loop \in {"running", "stopped"}
  /\ activeCalls \in 0..Cardinality(Caller)
  /\ finalizing \in BOOLEAN /\ closed \in BOOLEAN
  /\ outboxOpen \in BOOLEAN /\ clientClosed \in BOOLEAN
  /\ active \in BOOLEAN /\ generation \in 0..MaxRuntimes /\ expiries \in 0..MaxExpiries

\* A live task is awaited by its thread or tracked by a token: no timeout,
\* however it races with the task's end, leaves work behind that a shutdown
\* or a later call would not see (_cancel_and_wait, _publish_unsettled).  A
\* token stands for a live task: the runner never refuses work for good on
\* account of a task that has ended (_publish_unsettled against _complete).
TasksTracked ==
  /\ \A m \in alive : m \in unsettled \/ (m = Task(m[1]) /\ pc[m[1]] \in InRun)
  /\ unsettled \subseteq alive

\* No thread has two live tasks: a second call, or a second delivery attempt
\* of the sender, never runs beside one that timed out.
OneTaskPerThread == \A m1, m2 \in alive : m1[1] = m2[1] => m1 = m2

\* The outbox is open for as long as the sender thread lives or an admission
\* is under way, whatever deadline finalize runs into (order of finalize).
OutboxOpenInUse ==
  pc[Sender] # "ended" \/ (\E c \in Caller : pc[c] = "admitting") => outboxOpen

\* Nothing of this runtime is still running.
Quiet ==
  /\ alive = {} /\ unsettled = {} /\ loop = "stopped"
  /\ pc[Sender] = "ended"
  /\ \A c \in Caller : pc[c] = "idle"
  /\ activeCalls = 0

\* A runtime counts as closed, and is given up by the process for the next
\* one, only when nothing of it runs, even after finalizations that failed:
\* two senders never share a process.
ClosedIsQuiet == closed \/ ~active => Quiet

\* When the loop is told to stop, nobody waits for it and nothing runs on it:
\* no call is stranded without a result.
ShutdownStrandsNobody ==
  shutdown => alive = {} /\ \A t \in Thread : pc[t] \notin InRun

\* Every provider operation returns, even if the remote never answers.
CallsReturn == \A c \in Caller : pc[c] # "idle" ~> pc[c] = "idle"

\* A finalization that is retried after SenderStopError completes.
FinalizeCompletes == finalizing ~> closed
=============================================================================
