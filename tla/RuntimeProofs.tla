---------------------------- MODULE RuntimeProofs ----------------------------
(***************************************************************************)
(* Proofs about Runtime, for every set of callers and every bound.         *)
(***************************************************************************)
EXTENDS Runtime, FiniteSetTheorems, TLAPS

\* The places of a thread, and where it may call the runner from.
Place == CallerState \cup SenderState \cup FinalizerState
StateOf(t) ==
  IF t = Sender THEN SenderState ELSE IF t = Finalizer THEN FinalizerState ELSE CallerState
CallsFrom(t) ==
  IF t = Sender THEN "attempt" ELSE IF t = Finalizer THEN "closeClient" ELSE "begun"

\* What a thread does inside AsyncRunner.run.
Runs(t) ==
  \/ Run(t, CallsFrom(t)) \/ RunRefused(t, CallsFrom(t))
  \/ GetResult(t) \/ TimesOut(t) \/ PublishUnsettled(t)

(***************************************************************************)
(* The inductive invariant.                                                *)
(***************************************************************************)
Places ==
  /\ pc \in [Thread -> Place]
  /\ \A t \in Thread : pc[t] \in StateOf(t)

Tasks ==
  /\ calls \in [Thread -> Nat]
  /\ alive \subseteq Thread \X Nat
  /\ unsettled \subseteq Thread \X Nat

Flags ==
  /\ shutdown \in BOOLEAN /\ loop \in {"running", "stopped"}
  /\ finalizing \in BOOLEAN /\ closed \in BOOLEAN
  /\ outboxOpen \in BOOLEAN /\ clientClosed \in BOOLEAN
  /\ active \in BOOLEAN

\* A finalization may still be given up where its close call ran late.
Bounds ==
  /\ generation \in 0..MaxRuntimes /\ expiries \in 0..MaxExpiries
  /\ pc[Finalizer] \in {"draining", "timedout"} => expiries < MaxExpiries

\* Callers with an operation under way: _active_calls counts them.
Busy == {c \in Caller : pc[c] # "idle"}
Counted == activeCalls = Cardinality(Busy)

\* A process without a runtime, or with one it is done with, has a closed one.
\* Until a runtime is finalized its outbox is open.
Lifecycle ==
  /\ closed <=> ~active
  /\ ~finalizing => outboxOpen

\* What the finalizer has waited for stays so behind it.
Waited ==
  /\ pc[Finalizer] # "idle" => active /\ finalizing
  /\ pc[Finalizer] \notin {"idle", "awaitCalls"} => \A c \in Caller : pc[c] = "idle"
  /\ pc[Finalizer] \notin {"idle", "awaitCalls", "joinSender"} => pc[Sender] = "ended"
  /\ pc[Finalizer] \notin {"idle", "awaitCalls", "joinSender", "settle", "timedout"} => unsettled = {}
  /\ pc[Finalizer] \in {"refused", "joinLoop"} => shutdown

\* Once the runner is shut down nobody works with it any more.
Deserted ==
  shutdown =>
    /\ finalizing
    /\ alive = {}
    /\ \A c \in Caller : pc[c] = "idle"
    /\ pc[Sender] = "ended"
    /\ pc[Finalizer] \notin InRun

RuntimeTypes == Places /\ Tasks /\ Flags /\ Bounds

RuntimeInv ==
  RuntimeTypes /\ Counted /\ TasksTracked /\ Lifecycle /\ Waited /\ Deserted
    /\ OutboxOpenInUse /\ ClosedIsQuiet /\ OneTaskPerThread

-----------------------------------------------------------------------------
\* Threads are told apart.
LEMMA Threads ==
  /\ Sender \in Thread /\ Finalizer \in Thread
  /\ \A c \in Caller : c \in Thread /\ c # Sender /\ c # Finalizer
  /\ Sender # Finalizer
  /\ \A t \in Thread : t \in Caller \/ t = Sender \/ t = Finalizer
  BY RuntimeAssumption DEF Thread

\* Every step is one of these.
LEMMA StepCases ==
  ASSUME [Next]_vars
  PROVE  \/ UNCHANGED vars \/ Acquire
         \/ \E c \in Caller : BeginOperation(c) \/ FinishOperation(c)
         \/ \E t \in Thread : Runs(t)
         \/ SenderEnds \/ SenderClaims \/ SenderAwaitsSettlement \/ SenderSettlesClaim
         \/ FinalizeBegins
         \/ CallsEnded \/ SenderJoined \/ Settled \/ CloseOutbox \/ ClientCloseEnds
         \/ SenderStops \/ ClientCloseFails \/ StopLoop \/ FinalizeEnds
         \/ (\E m \in alive : Complete(m)) \/ LoopStops
  <1>1. ASSUME NEW c \in Caller, CallerStep(c)
        PROVE  FinishOperation(c) \/ \E t \in Thread : Runs(t)
    BY <1>1, Threads DEF CallerStep, CallsFrom, Runs
  <1>2. ASSUME SenderStep
        PROVE  \/ SenderEnds \/ SenderClaims \/ SenderAwaitsSettlement \/ SenderSettlesClaim
               \/ \E t \in Thread : Runs(t)
    BY <1>2, Threads DEF SenderStep, CallsFrom, Runs
  <1>3. ASSUME FinalizerStep
        PROVE  \/ CallsEnded \/ SenderJoined \/ Settled \/ CloseOutbox \/ ClientCloseEnds
               \/ ClientCloseFails \/ StopLoop \/ FinalizeEnds
               \/ \E t \in Thread : Runs(t)
    BY <1>3, Threads DEF FinalizerStep, CallsFrom, Runs
  <1>4. ASSUME TimesOut(Finalizer) PROVE \E t \in Thread : Runs(t)
    BY <1>4, Threads DEF Runs
  <1>5. QED
    BY <1>1, <1>2, <1>3, <1>4 DEF Next

-----------------------------------------------------------------------------
(***************************************************************************)
(* Init establishes the invariant.                                         *)
(***************************************************************************)
LEMMA InitRuntimeInv == Init => RuntimeInv
  <1> SUFFICES ASSUME Init PROVE RuntimeInv
    OBVIOUS
  <1>1. \A t \in Thread : pc[t] = IF t = Sender THEN "ended" ELSE "idle"
    BY DEF Init
  <1>2. Places
    BY <1>1 DEF Init, Places, Place, StateOf, CallerState, SenderState, FinalizerState
  <1>3. Tasks
    BY DEF Init, Tasks
  <1>4. Flags
    BY DEF Init, Flags
  <1>5. Counted
    <2>1. Busy = {}
      BY <1>1, Threads DEF Busy
    <2>2. QED
      BY <2>1, FS_EmptySet DEF Init, Counted
  <1>6. Bounds
    BY <1>1, Threads, RuntimeAssumption DEF Init, Bounds
  <1>7. Waited /\ Deserted
    BY <1>1, Threads DEF Init, Waited, Deserted, InRun
  <1>8. TasksTracked /\ Lifecycle
    BY DEF Init, TasksTracked, Lifecycle
  <1>9. OutboxOpenInUse /\ ClosedIsQuiet
    BY <1>1, Threads DEF Init, OutboxOpenInUse, ClosedIsQuiet, Quiet
  <1>10. OneTaskPerThread
    BY DEF Init, OneTaskPerThread
  <1>11. QED
    BY <1>2, <1>3, <1>4, <1>5, <1>6, <1>7, <1>8, <1>9, <1>10 DEF RuntimeInv, RuntimeTypes

-----------------------------------------------------------------------------
(***************************************************************************)
(* Types.                                                                  *)
(***************************************************************************)

\* Threads go from place to place.
LEMMA StepPlaces ==
  ASSUME Places, [Next]_vars
  PROVE  Places'
  <1> USE Threads DEF Places, Place, StateOf, CallerState, SenderState, FinalizerState, InRun,
          Returned
  <1>1. CASE UNCHANGED vars
    BY <1>1 DEF vars
  <1>2. CASE Acquire
    BY <1>2 DEF Acquire
  <1>3. ASSUME NEW c \in Caller, BeginOperation(c) PROVE Places'
    BY <1>3 DEF BeginOperation, Accepting
  <1>4. ASSUME NEW c \in Caller, FinishOperation(c) PROVE Places'
    BY <1>4 DEF FinishOperation, Returned
  <1>5. ASSUME NEW t \in Thread, Runs(t) PROVE Places'
    <2>1. CASE Run(t, CallsFrom(t))
      BY <2>1 DEF Run, Goto, CallsFrom
    <2>2. CASE RunRefused(t, CallsFrom(t))
      BY <2>2 DEF RunRefused, Goto, CallsFrom
    <2>3. CASE GetResult(t)
      BY <2>3 DEF GetResult, Goto
    <2>4. CASE TimesOut(t)
      BY <2>4 DEF TimesOut, Goto
    <2>5. CASE PublishUnsettled(t)
      BY <2>5 DEF PublishUnsettled, Goto
    <2>6. QED
      BY <1>5, <2>1, <2>2, <2>3, <2>4, <2>5 DEF Runs
  <1>6. CASE SenderEnds
    BY <1>6 DEF SenderEnds, Goto
  <1>7. CASE SenderClaims
    BY <1>7 DEF SenderClaims, Goto
  <1>8. CASE SenderAwaitsSettlement
    BY <1>8 DEF SenderAwaitsSettlement
  <1>9. CASE SenderSettlesClaim
    BY <1>9 DEF SenderSettlesClaim
  <1>10. CASE FinalizeBegins
    BY <1>10 DEF FinalizeBegins, Goto
  <1>11. CASE CallsEnded
    BY <1>11 DEF CallsEnded, Goto
  <1>12. CASE SenderJoined
    BY <1>12 DEF SenderJoined, Goto
  <1>13. CASE Settled
    BY <1>13 DEF Settled, Goto
  <1>14. CASE CloseOutbox
    BY <1>14 DEF CloseOutbox
  <1>15. CASE ClientCloseEnds
    BY <1>15 DEF ClientCloseEnds
  <1>16. CASE SenderStops
    BY <1>16 DEF SenderStops
  <1>17. CASE ClientCloseFails
    BY <1>17 DEF ClientCloseFails
  <1>18. CASE StopLoop
    BY <1>18 DEF StopLoop
  <1>19. CASE FinalizeEnds
    BY <1>19 DEF FinalizeEnds, Goto
  <1>20. ASSUME NEW m \in alive, Complete(m) PROVE Places'
    BY <1>20 DEF Complete
  <1>21. CASE LoopStops
    BY <1>21 DEF LoopStops
  <1>22. QED
    BY <1>1, <1>2, <1>3, <1>4, <1>5, <1>6, <1>7, <1>8, <1>9, <1>10, <1>11, <1>12, <1>13, <1>14,
       <1>15, <1>16, <1>17, <1>18, <1>19, <1>20, <1>21, StepCases

\* Calls are counted and tasks named by them.
LEMMA StepTasks ==
  ASSUME Tasks, Places, [Next]_vars
  PROVE  Tasks'
  <1> USE Threads DEF Tasks, Task, lifecycle, process, runner
  <1>1. CASE UNCHANGED vars
    BY <1>1 DEF vars
  <1>2. CASE Acquire
    BY <1>2 DEF Acquire
  <1>3. ASSUME NEW c \in Caller, BeginOperation(c) PROVE Tasks'
    BY <1>3 DEF BeginOperation, Accepting
  <1>4. ASSUME NEW c \in Caller, FinishOperation(c) PROVE Tasks'
    BY <1>4 DEF FinishOperation, Returned
  <1>5. ASSUME NEW t \in Thread, Runs(t) PROVE Tasks'
    <2>1. CASE Run(t, CallsFrom(t))
      BY <2>1 DEF Run, Goto, CallsFrom
    <2>2. CASE RunRefused(t, CallsFrom(t))
      BY <2>2 DEF RunRefused, Goto, CallsFrom
    <2>3. CASE GetResult(t)
      BY <2>3 DEF GetResult, Goto
    <2>4. CASE TimesOut(t)
      BY <2>4 DEF TimesOut, Goto
    <2>5. CASE PublishUnsettled(t)
      BY <2>5 DEF PublishUnsettled, Goto
    <2>6. QED
      BY <1>5, <2>1, <2>2, <2>3, <2>4, <2>5 DEF Runs
  <1>6. CASE SenderEnds
    BY <1>6 DEF SenderEnds, Goto
  <1>7. CASE SenderClaims
    BY <1>7 DEF SenderClaims, Goto
  <1>8. CASE SenderAwaitsSettlement
    BY <1>8 DEF SenderAwaitsSettlement
  <1>9. CASE SenderSettlesClaim
    BY <1>9 DEF SenderSettlesClaim
  <1>10. CASE FinalizeBegins
    BY <1>10 DEF FinalizeBegins, Goto
  <1>11. CASE CallsEnded
    BY <1>11 DEF CallsEnded, Goto
  <1>12. CASE SenderJoined
    BY <1>12 DEF SenderJoined, Goto
  <1>13. CASE Settled
    BY <1>13 DEF Settled, Goto
  <1>14. CASE CloseOutbox
    BY <1>14 DEF CloseOutbox
  <1>15. CASE ClientCloseEnds
    BY <1>15 DEF ClientCloseEnds
  <1>16. CASE SenderStops
    BY <1>16 DEF SenderStops
  <1>17. CASE ClientCloseFails
    BY <1>17 DEF ClientCloseFails
  <1>18. CASE StopLoop
    BY <1>18 DEF StopLoop
  <1>19. CASE FinalizeEnds
    BY <1>19 DEF FinalizeEnds, Goto
  <1>20. ASSUME NEW m \in alive, Complete(m) PROVE Tasks'
    BY <1>20 DEF Complete
  <1>21. CASE LoopStops
    BY <1>21 DEF LoopStops
  <1>22. QED
    BY <1>1, <1>2, <1>3, <1>4, <1>5, <1>6, <1>7, <1>8, <1>9, <1>10, <1>11, <1>12, <1>13, <1>14,
       <1>15, <1>16, <1>17, <1>18, <1>19, <1>20, <1>21, StepCases

\* Flags are flags.
LEMMA StepFlags ==
  ASSUME Flags, [Next]_vars
  PROVE  Flags'
  <1> USE DEF Flags, lifecycle, process, runner
  <1>1. CASE UNCHANGED vars
    BY <1>1 DEF vars
  <1>2. CASE Acquire
    BY <1>2 DEF Acquire
  <1>3. ASSUME NEW c \in Caller, BeginOperation(c) PROVE Flags'
    BY <1>3 DEF BeginOperation, Accepting
  <1>4. ASSUME NEW c \in Caller, FinishOperation(c) PROVE Flags'
    BY <1>4 DEF FinishOperation, Returned
  <1>5. ASSUME NEW t \in Thread, Runs(t) PROVE Flags'
    <2>1. CASE Run(t, CallsFrom(t))
      BY <2>1 DEF Run, Goto, CallsFrom
    <2>2. CASE RunRefused(t, CallsFrom(t))
      BY <2>2 DEF RunRefused, Goto, CallsFrom
    <2>3. CASE GetResult(t)
      BY <2>3 DEF GetResult, Goto
    <2>4. CASE TimesOut(t)
      BY <2>4 DEF TimesOut, Goto
    <2>5. CASE PublishUnsettled(t)
      BY <2>5 DEF PublishUnsettled, Goto
    <2>6. QED
      BY <1>5, <2>1, <2>2, <2>3, <2>4, <2>5 DEF Runs
  <1>6. CASE SenderEnds
    BY <1>6 DEF SenderEnds, Goto
  <1>7. CASE SenderClaims
    BY <1>7 DEF SenderClaims, Goto
  <1>8. CASE SenderAwaitsSettlement
    BY <1>8 DEF SenderAwaitsSettlement
  <1>9. CASE SenderSettlesClaim
    BY <1>9 DEF SenderSettlesClaim
  <1>10. CASE FinalizeBegins
    BY <1>10 DEF FinalizeBegins, Goto
  <1>11. CASE CallsEnded
    BY <1>11 DEF CallsEnded, Goto
  <1>12. CASE SenderJoined
    BY <1>12 DEF SenderJoined, Goto
  <1>13. CASE Settled
    BY <1>13 DEF Settled, Goto
  <1>14. CASE CloseOutbox
    BY <1>14 DEF CloseOutbox
  <1>15. CASE ClientCloseEnds
    BY <1>15 DEF ClientCloseEnds
  <1>16. CASE SenderStops
    BY <1>16 DEF SenderStops
  <1>17. CASE ClientCloseFails
    BY <1>17 DEF ClientCloseFails
  <1>18. CASE StopLoop
    BY <1>18 DEF StopLoop
  <1>19. CASE FinalizeEnds
    BY <1>19 DEF FinalizeEnds, Goto
  <1>20. ASSUME NEW m \in alive, Complete(m) PROVE Flags'
    BY <1>20 DEF Complete
  <1>21. CASE LoopStops
    BY <1>21 DEF LoopStops
  <1>22. QED
    BY <1>1, <1>2, <1>3, <1>4, <1>5, <1>6, <1>7, <1>8, <1>9, <1>10, <1>11, <1>12, <1>13, <1>14,
       <1>15, <1>16, <1>17, <1>18, <1>19, <1>20, <1>21, StepCases

\* The bounds are kept.
LEMMA StepBounds ==
  ASSUME Bounds, Places, Waited, [Next]_vars
  PROVE  Bounds'
  <1> USE Threads, RuntimeAssumption DEF Bounds, Places, Waited, lifecycle, process, runner
  <1>1. CASE UNCHANGED vars
    BY <1>1 DEF vars
  <1>2. CASE Acquire
    BY <1>2 DEF Acquire
  <1>3. ASSUME NEW c \in Caller, BeginOperation(c) PROVE Bounds'
    BY <1>3 DEF BeginOperation, Accepting
  <1>4. ASSUME NEW c \in Caller, FinishOperation(c) PROVE Bounds'
    BY <1>4 DEF FinishOperation, Returned
  <1>5. ASSUME NEW t \in Thread, Runs(t) PROVE Bounds'
    <2>1. CASE Run(t, CallsFrom(t))
      BY <2>1 DEF Run, Goto, CallsFrom
    <2>2. CASE RunRefused(t, CallsFrom(t))
      BY <2>2 DEF RunRefused, Goto, CallsFrom
    <2>3. CASE GetResult(t)
      BY <2>3 DEF GetResult, Goto
    <2>4. CASE TimesOut(t)
      BY <2>4 DEF TimesOut, Goto
    <2>5. CASE PublishUnsettled(t)
      BY <2>5 DEF PublishUnsettled, Goto
    <2>6. QED
      BY <1>5, <2>1, <2>2, <2>3, <2>4, <2>5 DEF Runs
  <1>6. CASE SenderEnds
    BY <1>6 DEF SenderEnds, Goto
  <1>7. CASE SenderClaims
    BY <1>7 DEF SenderClaims, Goto
  <1>8. CASE SenderAwaitsSettlement
    BY <1>8 DEF SenderAwaitsSettlement
  <1>9. CASE SenderSettlesClaim
    BY <1>9 DEF SenderSettlesClaim
  <1>10. CASE FinalizeBegins
    BY <1>10 DEF FinalizeBegins, Goto
  <1>11. CASE CallsEnded
    BY <1>11 DEF CallsEnded, Goto
  <1>12. CASE SenderJoined
    BY <1>12 DEF SenderJoined, Goto
  <1>13. CASE Settled
    BY <1>13 DEF Settled, Goto
  <1>14. CASE CloseOutbox
    BY <1>14 DEF CloseOutbox
  <1>15. CASE ClientCloseEnds
    BY <1>15 DEF ClientCloseEnds
  <1>16. CASE SenderStops
    BY <1>16 DEF SenderStops
  <1>17. CASE ClientCloseFails
    BY <1>17 DEF ClientCloseFails
  <1>18. CASE StopLoop
    BY <1>18 DEF StopLoop
  <1>19. CASE FinalizeEnds
    BY <1>19 DEF FinalizeEnds, Goto
  <1>20. ASSUME NEW m \in alive, Complete(m) PROVE Bounds'
    BY <1>20 DEF Complete
  <1>21. CASE LoopStops
    BY <1>21 DEF LoopStops
  <1>22. QED
    BY <1>1, <1>2, <1>3, <1>4, <1>5, <1>6, <1>7, <1>8, <1>9, <1>10, <1>11, <1>12, <1>13, <1>14,
       <1>15, <1>16, <1>17, <1>18, <1>19, <1>20, <1>21, StepCases

\* _begin_operation and _finish_operation keep the count.
LEMMA StepCounted ==
  ASSUME Counted, Places, Deserted, ClosedIsQuiet, [Next]_vars
  PROVE  Counted'
  <1> USE Threads DEF Places, StateOf, CallerState, lifecycle, process, runner
  <1>0. ASSUME activeCalls' = activeCalls, \A c \in Caller : pc'[c] = "idle" <=> pc[c] = "idle"
        PROVE  Counted'
    <2>1. Busy' = Busy
      BY <1>0 DEF Busy
    <2>2. QED
      BY <2>1, <1>0 DEF Counted
  <1>1. CASE UNCHANGED vars
    BY <1>1, <1>0 DEF vars
  <1>2. CASE Acquire
    <2>1. Busy = {} /\ Busy' = {}
      BY <1>2 DEF Acquire, ClosedIsQuiet, Quiet, Busy
    <2>2. QED
      BY <1>2, <2>1, FS_EmptySet DEF Acquire, Counted
  <1>3. ASSUME NEW c \in Caller, BeginOperation(c) PROVE Counted'
    <2>1. Busy' = Busy \cup {c} /\ c \notin Busy
      BY <1>3 DEF BeginOperation, Busy
    <2>2. IsFiniteSet(Busy)
      BY FS_Subset, RuntimeAssumption DEF Busy
    <2>3. Cardinality(Busy') = Cardinality(Busy) + 1
      BY <2>1, <2>2, FS_AddElement
    <2>4. QED
      BY <1>3, <2>3 DEF BeginOperation, Counted
  <1>4. ASSUME NEW c \in Caller, FinishOperation(c) PROVE Counted'
    <2>1. Busy' = Busy \ {c} /\ c \in Busy
      BY <1>4 DEF FinishOperation, Returned, Busy
    <2>2. IsFiniteSet(Busy)
      BY FS_Subset, RuntimeAssumption DEF Busy
    <2>3. Cardinality(Busy') = Cardinality(Busy) - 1
      BY <2>1, <2>2, FS_RemoveElement
    <2>4. QED
      BY <1>4, <2>3 DEF FinishOperation, Counted
  <1>5. ASSUME NEW t \in Thread, Runs(t) PROVE Counted'
    <2>1. CASE Run(t, CallsFrom(t))
      BY <2>1, <1>0 DEF Run, Goto, CallsFrom
    <2>2. CASE RunRefused(t, CallsFrom(t))
      BY <2>2, <1>0 DEF RunRefused, Goto, CallsFrom
    <2>3. CASE GetResult(t)
      BY <2>3, <1>0 DEF GetResult, Goto
    <2>4. CASE TimesOut(t)
      BY <2>4, <1>0 DEF TimesOut, Goto
    <2>5. CASE PublishUnsettled(t)
      BY <2>5, <1>0 DEF PublishUnsettled, Goto
    <2>6. QED
      BY <1>5, <2>1, <2>2, <2>3, <2>4, <2>5 DEF Runs
  <1>6. CASE SenderEnds
    BY <1>6, <1>0 DEF SenderEnds, Goto
  <1>7. CASE SenderClaims
    BY <1>7, <1>0 DEF SenderClaims, Goto
  <1>8. CASE SenderAwaitsSettlement
    BY <1>8, <1>0 DEF SenderAwaitsSettlement
  <1>9. CASE SenderSettlesClaim
    BY <1>9, <1>0 DEF SenderSettlesClaim
  <1>10. CASE FinalizeBegins
    BY <1>10, <1>0 DEF FinalizeBegins, Goto
  <1>11. CASE CallsEnded
    BY <1>11, <1>0 DEF CallsEnded, Goto
  <1>12. CASE SenderJoined
    BY <1>12, <1>0 DEF SenderJoined, Goto
  <1>13. CASE Settled
    BY <1>13, <1>0 DEF Settled, Goto
  <1>14. CASE CloseOutbox
    BY <1>14, <1>0 DEF CloseOutbox
  <1>15. CASE ClientCloseEnds
    BY <1>15, <1>0 DEF ClientCloseEnds
  <1>16. CASE SenderStops
    BY <1>16, <1>0 DEF SenderStops
  <1>17. CASE ClientCloseFails
    BY <1>17, <1>0 DEF ClientCloseFails
  <1>18. CASE StopLoop
    BY <1>18, <1>0 DEF StopLoop
  <1>19. CASE FinalizeEnds
    BY <1>19, <1>0 DEF FinalizeEnds, Goto
  <1>20. ASSUME NEW m \in alive, Complete(m) PROVE Counted'
    BY <1>20, <1>0 DEF Complete
  <1>21. CASE LoopStops
    BY <1>21, <1>0 DEF LoopStops
  <1>22. QED
    BY <1>1, <1>2, <1>3, <1>4, <1>5, <1>6, <1>7, <1>8, <1>9, <1>10, <1>11, <1>12, <1>13, <1>14,
       <1>15, <1>16, <1>17, <1>18, <1>19, <1>20, <1>21, StepCases

\* _active_calls is zero when no operation is under way, and only then.
LEMMA NoneBusy ==
  ASSUME Counted
  PROVE  activeCalls = 0 <=> \A c \in Caller : pc[c] = "idle"
  <1>1. IsFiniteSet(Busy)
    BY FS_Subset, RuntimeAssumption DEF Busy
  <1>2. Cardinality(Busy) = 0 <=> Busy = {}
    BY <1>1, FS_EmptySet
  <1>3. QED
    BY <1>2 DEF Counted, Busy

\* A live task stays awaited or tracked: its thread leaves run when the task is done
\* or has a token, and nothing runs while there is one.
LEMMA StepTracked ==
  ASSUME TasksTracked, Places, Tasks, ClosedIsQuiet, [Next]_vars
  PROVE  TasksTracked'
  <1> USE Threads DEF TasksTracked, Places, Tasks, Task, StateOf, InRun, Returned, lifecycle,
          process, runner
  <1>1. CASE UNCHANGED vars
    BY <1>1 DEF vars
  <1>2. CASE Acquire
    BY <1>2 DEF Acquire, Quiet, ClosedIsQuiet
  <1>3. ASSUME NEW c \in Caller, BeginOperation(c) PROVE TasksTracked'
    BY <1>3 DEF BeginOperation, Accepting
  <1>4. ASSUME NEW c \in Caller, FinishOperation(c) PROVE TasksTracked'
    BY <1>4 DEF FinishOperation, Returned
  <1>5. ASSUME NEW t \in Thread, Runs(t) PROVE TasksTracked'
    <2>1. CASE Run(t, CallsFrom(t))
      BY <2>1 DEF Run, Goto, CallsFrom
    <2>2. CASE RunRefused(t, CallsFrom(t))
      BY <2>2 DEF RunRefused, Goto, CallsFrom
    <2>3. CASE GetResult(t)
      BY <2>3 DEF GetResult, Goto
    <2>4. CASE TimesOut(t)
      BY <2>4 DEF TimesOut, Goto
    <2>5. CASE PublishUnsettled(t)
      BY <2>5 DEF PublishUnsettled, Goto
    <2>6. QED
      BY <1>5, <2>1, <2>2, <2>3, <2>4, <2>5 DEF Runs
  <1>6. CASE SenderEnds
    BY <1>6 DEF SenderEnds, Goto
  <1>7. CASE SenderClaims
    BY <1>7 DEF SenderClaims, Goto
  <1>8. CASE SenderAwaitsSettlement
    BY <1>8 DEF SenderAwaitsSettlement
  <1>9. CASE SenderSettlesClaim
    BY <1>9 DEF SenderSettlesClaim
  <1>10. CASE FinalizeBegins
    BY <1>10 DEF FinalizeBegins, Goto
  <1>11. CASE CallsEnded
    BY <1>11 DEF CallsEnded, Goto
  <1>12. CASE SenderJoined
    BY <1>12 DEF SenderJoined, Goto
  <1>13. CASE Settled
    BY <1>13 DEF Settled, Goto
  <1>14. CASE CloseOutbox
    BY <1>14 DEF CloseOutbox
  <1>15. CASE ClientCloseEnds
    BY <1>15 DEF ClientCloseEnds
  <1>16. CASE SenderStops
    BY <1>16 DEF SenderStops
  <1>17. CASE ClientCloseFails
    BY <1>17 DEF ClientCloseFails
  <1>18. CASE StopLoop
    BY <1>18 DEF StopLoop
  <1>19. CASE FinalizeEnds
    BY <1>19 DEF FinalizeEnds, Goto
  <1>20. ASSUME NEW m \in alive, Complete(m) PROVE TasksTracked'
    BY <1>20 DEF Complete
  <1>21. CASE LoopStops
    BY <1>21 DEF LoopStops
  <1>22. QED
    BY <1>1, <1>2, <1>3, <1>4, <1>5, <1>6, <1>7, <1>8, <1>9, <1>10, <1>11, <1>12, <1>13, <1>14,
       <1>15, <1>16, <1>17, <1>18, <1>19, <1>20, <1>21, StepCases

\* A thread calls the runner only when no task of its own is left.
LEMMA StepOneTask ==
  ASSUME OneTaskPerThread, TasksTracked, Places, Tasks, [Next]_vars
  PROVE  OneTaskPerThread'
  <1> USE Threads DEF OneTaskPerThread, Tasks, lifecycle, process, runner
  <1>1. CASE UNCHANGED vars
    BY <1>1 DEF vars
  <1>2. CASE Acquire
    BY <1>2 DEF Acquire
  <1>3. ASSUME NEW c \in Caller, BeginOperation(c) PROVE OneTaskPerThread'
    BY <1>3 DEF BeginOperation, Accepting
  <1>4. ASSUME NEW c \in Caller, FinishOperation(c) PROVE OneTaskPerThread'
    BY <1>4 DEF FinishOperation, Returned
  <1>5. ASSUME NEW t \in Thread, Runs(t) PROVE OneTaskPerThread'
    <2>1. CASE Run(t, CallsFrom(t))
      <3>1. \A m \in alive : m[1] # t
        BY <2>1 DEF Run, Goto, CallsFrom, TasksTracked, InRun
      <3>2. QED
        BY <2>1, <3>1 DEF Run
    <2>2. CASE RunRefused(t, CallsFrom(t))
      BY <2>2 DEF RunRefused, Goto, CallsFrom
    <2>3. CASE GetResult(t)
      BY <2>3 DEF GetResult, Goto
    <2>4. CASE TimesOut(t)
      BY <2>4 DEF TimesOut, Goto
    <2>5. CASE PublishUnsettled(t)
      BY <2>5 DEF PublishUnsettled, Goto
    <2>6. QED
      BY <1>5, <2>1, <2>2, <2>3, <2>4, <2>5 DEF Runs
  <1>6. CASE SenderEnds
    BY <1>6 DEF SenderEnds, Goto
  <1>7. CASE SenderClaims
    BY <1>7 DEF SenderClaims, Goto
  <1>8. CASE SenderAwaitsSettlement
    BY <1>8 DEF SenderAwaitsSettlement
  <1>9. CASE SenderSettlesClaim
    BY <1>9 DEF SenderSettlesClaim
  <1>10. CASE FinalizeBegins
    BY <1>10 DEF FinalizeBegins, Goto
  <1>11. CASE CallsEnded
    BY <1>11 DEF CallsEnded, Goto
  <1>12. CASE SenderJoined
    BY <1>12 DEF SenderJoined, Goto
  <1>13. CASE Settled
    BY <1>13 DEF Settled, Goto
  <1>14. CASE CloseOutbox
    BY <1>14 DEF CloseOutbox
  <1>15. CASE ClientCloseEnds
    BY <1>15 DEF ClientCloseEnds
  <1>16. CASE SenderStops
    BY <1>16 DEF SenderStops
  <1>17. CASE ClientCloseFails
    BY <1>17 DEF ClientCloseFails
  <1>18. CASE StopLoop
    BY <1>18 DEF StopLoop
  <1>19. CASE FinalizeEnds
    BY <1>19 DEF FinalizeEnds, Goto
  <1>20. ASSUME NEW m \in alive, Complete(m) PROVE OneTaskPerThread'
    BY <1>20 DEF Complete
  <1>21. CASE LoopStops
    BY <1>21 DEF LoopStops
  <1>22. QED
    BY <1>1, <1>2, <1>3, <1>4, <1>5, <1>6, <1>7, <1>8, <1>9, <1>10, <1>11, <1>12, <1>13, <1>14,
       <1>15, <1>16, <1>17, <1>18, <1>19, <1>20, <1>21, StepCases

\* Runtimes open and close their outboxes.
LEMMA StepLifecycle ==
  ASSUME Lifecycle, Waited, Places, [Next]_vars
  PROVE  Lifecycle'
  <1> USE Threads DEF Lifecycle, Waited, Places, lifecycle, process, runner
  <1>1. CASE UNCHANGED vars
    BY <1>1 DEF vars
  <1>2. CASE Acquire
    BY <1>2 DEF Acquire
  <1>3. ASSUME NEW c \in Caller, BeginOperation(c) PROVE Lifecycle'
    BY <1>3 DEF BeginOperation, Accepting
  <1>4. ASSUME NEW c \in Caller, FinishOperation(c) PROVE Lifecycle'
    BY <1>4 DEF FinishOperation, Returned
  <1>5. ASSUME NEW t \in Thread, Runs(t) PROVE Lifecycle'
    <2>1. CASE Run(t, CallsFrom(t))
      BY <2>1 DEF Run, Goto, CallsFrom
    <2>2. CASE RunRefused(t, CallsFrom(t))
      BY <2>2 DEF RunRefused, Goto, CallsFrom
    <2>3. CASE GetResult(t)
      BY <2>3 DEF GetResult, Goto
    <2>4. CASE TimesOut(t)
      BY <2>4 DEF TimesOut, Goto
    <2>5. CASE PublishUnsettled(t)
      BY <2>5 DEF PublishUnsettled, Goto
    <2>6. QED
      BY <1>5, <2>1, <2>2, <2>3, <2>4, <2>5 DEF Runs
  <1>6. CASE SenderEnds
    BY <1>6 DEF SenderEnds, Goto
  <1>7. CASE SenderClaims
    BY <1>7 DEF SenderClaims, Goto
  <1>8. CASE SenderAwaitsSettlement
    BY <1>8 DEF SenderAwaitsSettlement
  <1>9. CASE SenderSettlesClaim
    BY <1>9 DEF SenderSettlesClaim
  <1>10. CASE FinalizeBegins
    BY <1>10 DEF FinalizeBegins, Goto
  <1>11. CASE CallsEnded
    BY <1>11 DEF CallsEnded, Goto
  <1>12. CASE SenderJoined
    BY <1>12 DEF SenderJoined, Goto
  <1>13. CASE Settled
    BY <1>13 DEF Settled, Goto
  <1>14. CASE CloseOutbox
    BY <1>14 DEF CloseOutbox
  <1>15. CASE ClientCloseEnds
    BY <1>15 DEF ClientCloseEnds
  <1>16. CASE SenderStops
    BY <1>16 DEF SenderStops
  <1>17. CASE ClientCloseFails
    BY <1>17 DEF ClientCloseFails
  <1>18. CASE StopLoop
    BY <1>18 DEF StopLoop
  <1>19. CASE FinalizeEnds
    BY <1>19 DEF FinalizeEnds, Goto
  <1>20. ASSUME NEW m \in alive, Complete(m) PROVE Lifecycle'
    BY <1>20 DEF Complete
  <1>21. CASE LoopStops
    BY <1>21 DEF LoopStops
  <1>22. QED
    BY <1>1, <1>2, <1>3, <1>4, <1>5, <1>6, <1>7, <1>8, <1>9, <1>10, <1>11, <1>12, <1>13, <1>14,
       <1>15, <1>16, <1>17, <1>18, <1>19, <1>20, <1>21, StepCases

\* Nobody starts anew behind the finalizer.
LEMMA StepWaited ==
  ASSUME Waited, Counted, Places, TasksTracked, Deserted, [Next]_vars
  PROVE  Waited'
  <1> USE Threads DEF Waited, Places, Place, StateOf, CallerState, SenderState, FinalizerState,
          InRun, Returned, Accepting, lifecycle, process, runner
  <1>1. CASE UNCHANGED vars
    BY <1>1 DEF vars
  <1>2. CASE Acquire
    BY <1>2 DEF Acquire
  <1>3. ASSUME NEW c \in Caller, BeginOperation(c) PROVE Waited'
    BY <1>3 DEF BeginOperation, Accepting
  <1>4. ASSUME NEW c \in Caller, FinishOperation(c) PROVE Waited'
    BY <1>4 DEF FinishOperation, Returned
  <1>5. ASSUME NEW t \in Thread, Runs(t) PROVE Waited'
    <2>1. CASE Run(t, CallsFrom(t))
      BY <2>1 DEF Run, Goto, CallsFrom
    <2>2. CASE RunRefused(t, CallsFrom(t))
      BY <2>2 DEF RunRefused, Goto, CallsFrom
    <2>3. CASE GetResult(t)
      BY <2>3 DEF GetResult, Goto
    <2>4. CASE TimesOut(t)
      BY <2>4 DEF TimesOut, Goto
    <2>5. CASE PublishUnsettled(t)
      BY <2>5 DEF PublishUnsettled, Goto
    <2>6. QED
      BY <1>5, <2>1, <2>2, <2>3, <2>4, <2>5 DEF Runs
  <1>6. CASE SenderEnds
    BY <1>6 DEF SenderEnds, Goto
  <1>7. CASE SenderClaims
    BY <1>7 DEF SenderClaims, Goto
  <1>8. CASE SenderAwaitsSettlement
    BY <1>8 DEF SenderAwaitsSettlement
  <1>9. CASE SenderSettlesClaim
    BY <1>9 DEF SenderSettlesClaim
  <1>10. CASE FinalizeBegins
    BY <1>10 DEF FinalizeBegins, Goto
  <1>11. CASE CallsEnded
    <2>1. \A c \in Caller : pc[c] = "idle"
      BY <1>11, NoneBusy DEF CallsEnded
    <2>2. QED
      BY <1>11, <2>1 DEF CallsEnded, Goto
  <1>12. CASE SenderJoined
    BY <1>12 DEF SenderJoined, Goto
  <1>13. CASE Settled
    BY <1>13 DEF Settled, Goto
  <1>14. CASE CloseOutbox
    BY <1>14 DEF CloseOutbox
  <1>15. CASE ClientCloseEnds
    BY <1>15 DEF ClientCloseEnds
  <1>16. CASE SenderStops
    BY <1>16 DEF SenderStops
  <1>17. CASE ClientCloseFails
    BY <1>17 DEF ClientCloseFails
  <1>18. CASE StopLoop
    BY <1>18 DEF StopLoop
  <1>19. CASE FinalizeEnds
    BY <1>19 DEF FinalizeEnds, Goto
  <1>20. ASSUME NEW m \in alive, Complete(m) PROVE Waited'
    BY <1>20 DEF Complete
  <1>21. CASE LoopStops
    BY <1>21 DEF LoopStops
  <1>22. QED
    BY <1>1, <1>2, <1>3, <1>4, <1>5, <1>6, <1>7, <1>8, <1>9, <1>10, <1>11, <1>12, <1>13, <1>14,
       <1>15, <1>16, <1>17, <1>18, <1>19, <1>20, <1>21, StepCases

\* The runner is shut down behind the last user.
LEMMA StepDeserted ==
  ASSUME Deserted, Waited, Places, Tasks, TasksTracked, [Next]_vars
  PROVE  Deserted'
  <1> USE Threads DEF Deserted, Waited, Places, Place, StateOf, CallerState, SenderState,
          FinalizerState, InRun, Returned, lifecycle, process, runner
  <1>1. CASE UNCHANGED vars
    BY <1>1 DEF vars
  <1>2. CASE Acquire
    BY <1>2 DEF Acquire
  <1>3. ASSUME NEW c \in Caller, BeginOperation(c) PROVE Deserted'
    BY <1>3 DEF BeginOperation, Accepting
  <1>4. ASSUME NEW c \in Caller, FinishOperation(c) PROVE Deserted'
    BY <1>4 DEF FinishOperation, Returned
  <1>5. ASSUME NEW t \in Thread, Runs(t) PROVE Deserted'
    <2>1. CASE Run(t, CallsFrom(t))
      BY <2>1 DEF Run, Goto, CallsFrom
    <2>2. CASE RunRefused(t, CallsFrom(t))
      BY <2>2 DEF RunRefused, Goto, CallsFrom
    <2>3. CASE GetResult(t)
      BY <2>3 DEF GetResult, Goto
    <2>4. CASE TimesOut(t)
      BY <2>4 DEF TimesOut, Goto
    <2>5. CASE PublishUnsettled(t)
      BY <2>5 DEF PublishUnsettled, Goto
    <2>6. QED
      BY <1>5, <2>1, <2>2, <2>3, <2>4, <2>5 DEF Runs
  <1>6. CASE SenderEnds
    BY <1>6 DEF SenderEnds, Goto
  <1>7. CASE SenderClaims
    BY <1>7 DEF SenderClaims, Goto
  <1>8. CASE SenderAwaitsSettlement
    BY <1>8 DEF SenderAwaitsSettlement
  <1>9. CASE SenderSettlesClaim
    BY <1>9 DEF SenderSettlesClaim
  <1>10. CASE FinalizeBegins
    BY <1>10 DEF FinalizeBegins, Goto
  <1>11. CASE CallsEnded
    BY <1>11 DEF CallsEnded, Goto
  <1>12. CASE SenderJoined
    BY <1>12 DEF SenderJoined, Goto
  <1>13. CASE Settled
    BY <1>13 DEF Settled, Goto
  <1>14. CASE CloseOutbox
    BY <1>14 DEF CloseOutbox
  <1>15. CASE ClientCloseEnds
    BY <1>15 DEF ClientCloseEnds
  <1>16. CASE SenderStops
    BY <1>16 DEF SenderStops
  <1>17. CASE ClientCloseFails
    BY <1>17 DEF ClientCloseFails
  <1>18. CASE StopLoop
    <2>1. unsettled = {} /\ finalizing
      BY <1>18 DEF StopLoop
    <2>2. \A t \in Thread : pc[t] \notin InRun
      BY <1>18 DEF StopLoop
    <2>3. alive = {}
      BY <2>1, <2>2 DEF TasksTracked, Tasks
    <2>4. QED
      BY <1>18, <2>1, <2>3 DEF StopLoop
  <1>19. CASE FinalizeEnds
    BY <1>19 DEF FinalizeEnds, Goto
  <1>20. ASSUME NEW m \in alive, Complete(m) PROVE Deserted'
    BY <1>20 DEF Complete
  <1>21. CASE LoopStops
    BY <1>21 DEF LoopStops
  <1>22. QED
    BY <1>1, <1>2, <1>3, <1>4, <1>5, <1>6, <1>7, <1>8, <1>9, <1>10, <1>11, <1>12, <1>13, <1>14,
       <1>15, <1>16, <1>17, <1>18, <1>19, <1>20, <1>21, StepCases

\* The outbox is closed behind its users.
LEMMA StepOutboxOpen ==
  ASSUME OutboxOpenInUse, Lifecycle, Waited, Places, [Next]_vars
  PROVE  OutboxOpenInUse'
  <1> USE Threads DEF OutboxOpenInUse, Lifecycle, Waited, Places, Place, StateOf, CallerState,
          SenderState, FinalizerState, InRun, Returned, lifecycle, process, runner
  <1>1. CASE UNCHANGED vars
    BY <1>1 DEF vars
  <1>2. CASE Acquire
    BY <1>2 DEF Acquire
  <1>3. ASSUME NEW c \in Caller, BeginOperation(c) PROVE OutboxOpenInUse'
    BY <1>3 DEF BeginOperation, Accepting
  <1>4. ASSUME NEW c \in Caller, FinishOperation(c) PROVE OutboxOpenInUse'
    BY <1>4 DEF FinishOperation, Returned
  <1>5. ASSUME NEW t \in Thread, Runs(t) PROVE OutboxOpenInUse'
    <2>1. CASE Run(t, CallsFrom(t))
      BY <2>1 DEF Run, Goto, CallsFrom
    <2>2. CASE RunRefused(t, CallsFrom(t))
      BY <2>2 DEF RunRefused, Goto, CallsFrom
    <2>3. CASE GetResult(t)
      BY <2>3 DEF GetResult, Goto
    <2>4. CASE TimesOut(t)
      BY <2>4 DEF TimesOut, Goto
    <2>5. CASE PublishUnsettled(t)
      BY <2>5 DEF PublishUnsettled, Goto
    <2>6. QED
      BY <1>5, <2>1, <2>2, <2>3, <2>4, <2>5 DEF Runs
  <1>6. CASE SenderEnds
    BY <1>6 DEF SenderEnds, Goto
  <1>7. CASE SenderClaims
    BY <1>7 DEF SenderClaims, Goto
  <1>8. CASE SenderAwaitsSettlement
    BY <1>8 DEF SenderAwaitsSettlement
  <1>9. CASE SenderSettlesClaim
    BY <1>9 DEF SenderSettlesClaim
  <1>10. CASE FinalizeBegins
    BY <1>10 DEF FinalizeBegins, Goto
  <1>11. CASE CallsEnded
    BY <1>11 DEF CallsEnded, Goto
  <1>12. CASE SenderJoined
    BY <1>12 DEF SenderJoined, Goto
  <1>13. CASE Settled
    BY <1>13 DEF Settled, Goto
  <1>14. CASE CloseOutbox
    BY <1>14 DEF CloseOutbox
  <1>15. CASE ClientCloseEnds
    BY <1>15 DEF ClientCloseEnds
  <1>16. CASE SenderStops
    BY <1>16 DEF SenderStops
  <1>17. CASE ClientCloseFails
    BY <1>17 DEF ClientCloseFails
  <1>18. CASE StopLoop
    BY <1>18 DEF StopLoop
  <1>19. CASE FinalizeEnds
    BY <1>19 DEF FinalizeEnds, Goto
  <1>20. ASSUME NEW m \in alive, Complete(m) PROVE OutboxOpenInUse'
    BY <1>20 DEF Complete
  <1>21. CASE LoopStops
    BY <1>21 DEF LoopStops
  <1>22. QED
    BY <1>1, <1>2, <1>3, <1>4, <1>5, <1>6, <1>7, <1>8, <1>9, <1>10, <1>11, <1>12, <1>13, <1>14,
       <1>15, <1>16, <1>17, <1>18, <1>19, <1>20, <1>21, StepCases

\* Nothing of a closed runtime starts again.
LEMMA StepClosed ==
  ASSUME ClosedIsQuiet, Lifecycle, Waited, Deserted, Counted, Places, Tasks, TasksTracked, [Next]_vars
  PROVE  ClosedIsQuiet'
  <1> USE Threads DEF ClosedIsQuiet, Quiet, Lifecycle, Waited, Places, Place, StateOf,
          CallerState, SenderState, FinalizerState, InRun, Returned, lifecycle, process, runner
  <1>1. CASE UNCHANGED vars
    BY <1>1 DEF vars
  <1>2. CASE Acquire
    BY <1>2 DEF Acquire
  <1>3. ASSUME NEW c \in Caller, BeginOperation(c) PROVE ClosedIsQuiet'
    BY <1>3 DEF BeginOperation, Accepting
  <1>4. ASSUME NEW c \in Caller, FinishOperation(c) PROVE ClosedIsQuiet'
    BY <1>4 DEF FinishOperation, Returned
  <1>5. ASSUME NEW t \in Thread, Runs(t) PROVE ClosedIsQuiet'
    <2>1. CASE Run(t, CallsFrom(t))
      BY <2>1 DEF Run, Goto, CallsFrom
    <2>2. CASE RunRefused(t, CallsFrom(t))
      BY <2>2 DEF RunRefused, Goto, CallsFrom
    <2>3. CASE GetResult(t)
      BY <2>3 DEF GetResult, Goto
    <2>4. CASE TimesOut(t)
      BY <2>4 DEF TimesOut, Goto
    <2>5. CASE PublishUnsettled(t)
      BY <2>5 DEF PublishUnsettled, Goto
    <2>6. QED
      BY <1>5, <2>1, <2>2, <2>3, <2>4, <2>5 DEF Runs
  <1>6. CASE SenderEnds
    BY <1>6 DEF SenderEnds, Goto
  <1>7. CASE SenderClaims
    BY <1>7 DEF SenderClaims, Goto
  <1>8. CASE SenderAwaitsSettlement
    BY <1>8 DEF SenderAwaitsSettlement
  <1>9. CASE SenderSettlesClaim
    BY <1>9 DEF SenderSettlesClaim
  <1>10. CASE FinalizeBegins
    BY <1>10 DEF FinalizeBegins, Goto
  <1>11. CASE CallsEnded
    BY <1>11 DEF CallsEnded, Goto
  <1>12. CASE SenderJoined
    BY <1>12 DEF SenderJoined, Goto
  <1>13. CASE Settled
    BY <1>13 DEF Settled, Goto
  <1>14. CASE CloseOutbox
    BY <1>14 DEF CloseOutbox
  <1>15. CASE ClientCloseEnds
    BY <1>15 DEF ClientCloseEnds
  <1>16. CASE SenderStops
    BY <1>16 DEF SenderStops
  <1>17. CASE ClientCloseFails
    BY <1>17 DEF ClientCloseFails
  <1>18. CASE StopLoop
    BY <1>18 DEF StopLoop, TasksTracked
  <1>19. CASE FinalizeEnds
    <2>1. shutdown /\ \A c \in Caller : pc[c] = "idle"
      BY <1>19 DEF FinalizeEnds, Goto
    <2>2. activeCalls = 0
      BY <2>1, NoneBusy
    <2>3. alive = {} /\ unsettled = {} /\ pc[Sender] = "ended"
      BY <2>1 DEF Deserted, TasksTracked
    <2>4. QED
      BY <1>19, <2>1, <2>2, <2>3 DEF FinalizeEnds, Goto
  <1>20. ASSUME NEW m \in alive, Complete(m) PROVE ClosedIsQuiet'
    BY <1>20 DEF Complete
  <1>21. CASE LoopStops
    BY <1>21 DEF LoopStops
  <1>22. QED
    BY <1>1, <1>2, <1>3, <1>4, <1>5, <1>6, <1>7, <1>8, <1>9, <1>10, <1>11, <1>12, <1>13, <1>14,
       <1>15, <1>16, <1>17, <1>18, <1>19, <1>20, <1>21, StepCases

-----------------------------------------------------------------------------
(***************************************************************************)
(* The invariant is inductive, and the properties follow from it.          *)
(***************************************************************************)
LEMMA StepRuntimeInv == RuntimeInv /\ [Next]_vars => RuntimeInv'
  <1> SUFFICES ASSUME RuntimeInv, [Next]_vars PROVE RuntimeInv'
    OBVIOUS
  <1> USE DEF RuntimeInv, RuntimeTypes
  <1>1. RuntimeTypes'
    BY StepPlaces, StepTasks, StepFlags, StepBounds
  <1>2. Counted' /\ TasksTracked' /\ Lifecycle'
    BY StepCounted, StepTracked, StepLifecycle
  <1>3. Waited' /\ Deserted'
    BY StepWaited, StepDeserted
  <1>4. OutboxOpenInUse' /\ ClosedIsQuiet' /\ OneTaskPerThread'
    BY StepOutboxOpen, StepClosed, StepOneTask
  <1>5. QED
    BY <1>1, <1>2, <1>3, <1>4

\* The runtime keeps the inductive invariant.
THEOREM RuntimeInvariant == Spec => []RuntimeInv
  BY InitRuntimeInv, StepRuntimeInv, PTL DEF Spec

\* _active_calls counts threads, one operation of each at most, and every
\* thread is at a place of its own (_begin_operation, _finish_operation).
THEOREM RuntimeTypeCorrect == Spec => []TypeOK
  <1>1. RuntimeInv => TypeOK
    <2> SUFFICES ASSUME RuntimeInv PROVE TypeOK
      OBVIOUS
    <2>1. Cardinality(Busy) \in 0..Cardinality(Caller)
      <3>1. IsFiniteSet(Busy) /\ Cardinality(Busy) <= Cardinality(Caller)
        BY FS_Subset, RuntimeAssumption DEF Busy
      <3>2. Cardinality(Busy) \in Nat /\ Cardinality(Caller) \in Nat
        BY <3>1, FS_CardinalityType, RuntimeAssumption
      <3>3. QED
        BY <3>1, <3>2
    <2>2. activeCalls \in 0..Cardinality(Caller)
      BY <2>1 DEF RuntimeInv, Counted
    <2>3. /\ \A c \in Caller : pc[c] \in CallerState
          /\ pc[Sender] \in SenderState /\ pc[Finalizer] \in FinalizerState
          /\ DOMAIN pc = Thread
      BY Threads DEF RuntimeInv, RuntimeTypes, Places, StateOf
    <2>4. QED
      BY <2>2, <2>3 DEF RuntimeInv, RuntimeTypes, Tasks, Flags, Bounds, TypeOK
  <1>2. QED
    BY <1>1, RuntimeInvariant, PTL

\* For any number of provider threads and calls: however a timeout races with
\* the end of a task, a live task is awaited or has a token, and a token stands
\* for a live task (_cancel_and_wait, _publish_unsettled, _complete).
THEOREM NoTaskIsLost == Spec => []TasksTracked
  <1>1. RuntimeInv => TasksTracked
    BY DEF RuntimeInv
  <1>2. QED
    BY <1>1, RuntimeInvariant, PTL

\* Whatever deadline finalize runs into, and however often it is retried, the
\* outbox is open while the sender or an admission may use it.
THEOREM OutboxOutlivesItsUsers == Spec => []OutboxOpenInUse
  <1>1. RuntimeInv => OutboxOpenInUse
    BY DEF RuntimeInv
  <1>2. QED
    BY <1>1, RuntimeInvariant, PTL

\* A runtime is given up by the process only when nothing of it runs: two
\* senders never share a process (finalize, finalize_process_runtime).
THEOREM ClosedRuntimeIsQuiet == Spec => []ClosedIsQuiet
  <1>1. RuntimeInv => ClosedIsQuiet
    BY DEF RuntimeInv
  <1>2. QED
    BY <1>1, RuntimeInvariant, PTL

\* The loop is told to stop only when no call waits on it (AsyncRunner.shutdown
\* behind the waits of finalize): none is stranded without a result.
THEOREM NobodyIsStranded == Spec => []ShutdownStrandsNobody
  <1>1. RuntimeInv => ShutdownStrandsNobody
    BY Threads DEF RuntimeInv, Deserted, ShutdownStrandsNobody, InRun
  <1>2. QED
    BY <1>1, RuntimeInvariant, PTL

\* A second call of a thread, or a second delivery attempt of the sender, never
\* runs beside one that timed out (the refusal of run, wait_for_settlement).
THEOREM AttemptsOfAThreadAreDisjoint == Spec => []OneTaskPerThread
  <1>1. RuntimeInv => OneTaskPerThread
    BY DEF RuntimeInv
  <1>2. QED
    BY <1>1, RuntimeInvariant, PTL
=============================================================================
