---------------------------- MODULE OutboxProofs ----------------------------
(***************************************************************************)
(* Proofs about Outbox, for every set of processes, configurations,        *)
(* turns and documents, every delay function and every bound.              *)
(***************************************************************************)
EXTENDS Outbox, FiniteSetTheorems, Induction, TLAPS

-----------------------------------------------------------------------------
(***************************************************************************)
(* Type correctness.                                                       *)
(***************************************************************************)

\* The fingerprint of a configuration for a schema is a destination.
LEMMA FingerprintType ==
  ASSUME NEW c \in Configs, NEW s \in Schema
  PROVE  Fingerprint(c, s) \in Destination /\ TargetOf(Fingerprint(c, s)) = c.target
  BY DEF Fingerprint, Configs, Destination, TargetOf

\* Every destination a process may claim is one of its own target.
LEMMA MatchingTarget ==
  ASSUME NEW c \in Configs, NEW destination \in Matching(c)
  PROVE  TargetOf(destination) = c.target
  BY DEF Matching, Fingerprint, TargetOf

\* Init establishes the types.
LEMMA InitTypeInv == Init => TypeInv
  <1> SUFFICES ASSUME Init PROVE TypeInv
    OBVIOUS
  <1>1. BacklogDestination \in Destination
    BY OutboxAssumption DEF BacklogDestination, Destination, Schema
  <1>2. NoRow \in Row /\ [NoRow EXCEPT !.state = "pending"] \in Row
    BY <1>1, OutboxAssumption DEF NoRow, Row, RowState
  <1>3. rows \in [Doc -> Row]
    BY <1>2 DEF Init
  <1>4. accepted \subseteq Doc \X Target
    BY OutboxAssumption DEF Init, BacklogDocs
  <1>5. NoClaim \in Claims
    BY OutboxAssumption DEF NoClaim, Claims
  <1>6. TypeOK
    BY <1>3, <1>4, <1>5, OutboxAssumption DEF Init, TypeOK, Owning
  <1>7. ClaimsADocument
    BY DEF Init, ClaimsADocument, Delivering
  <1>8. QED
    BY <1>6, <1>7 DEF TypeInv

\* Every step preserves the types.
LEMMA StepTypeOK == TypeInv /\ [Next]_vars => TypeOK'
  <1> SUFFICES ASSUME TypeOK, ClaimsADocument, [Next]_vars PROVE TypeOK'
    BY DEF TypeInv
  <1> USE DEF TypeOK
  <1>0. NoClaim \in Claims /\ Config \subseteq Configs
    BY OutboxAssumption DEF NoClaim, Claims
  <1>00. NoRow \in Row
    BY OutboxAssumption DEF NoRow, Row, RowState, BacklogDestination, Destination, Schema
  <1>1. CASE UNCHANGED vars
    BY <1>1 DEF vars
  <1>2. ASSUME NEW p \in Proc, Start(p) PROVE TypeOK'
    BY <1>2 DEF Start, Goto, remote, ghosts
  <1>3. ASSUME NEW p \in Proc, RequestStop(p) PROVE TypeOK'
    BY <1>3, OutboxAssumption DEF RequestStop, Fault, remote, ghosts
  <1>4. ASSUME NEW p \in Proc, Exit(p) PROVE TypeOK'
    BY <1>4 DEF Exit, Goto, remote, ghosts
  <1>5. ASSUME NEW p \in Proc, Crash(p) PROVE TypeOK'
    BY <1>5, <1>0, OutboxAssumption DEF Crash, Fault, remote, ghosts
  <1>6. ASSUME NEW p \in Proc, NEW t \in Turn, Admit(p, t) PROVE TypeOK'
    <2> DEFINE destination == Fingerprint(config[p], SchemaOf[t])
    <2>1. destination \in Destination /\ config[p].target \in Target
      BY <1>0, FingerprintType, OutboxAssumption DEF Configs
    <2>2. NewRow(destination) \in Row
      BY <2>1, OutboxAssumption DEF NewRow, Row, RowState
    <2>3. rows' \in [Doc -> Row]
      BY <1>6, <2>2 DEF Admit
    <2>4. accepted' \subseteq Doc \X Target
      BY <1>6, <2>1, OutboxAssumption DEF Admit
    <2>5. tries' \in [Doc -> Nat] /\ admissions' \in [Turn -> 0..MaxAdmissions]
      BY <1>6, OutboxAssumption DEF Admit
    <2>6. QED
      BY <1>6, <2>3, <2>4, <2>5 DEF Admit, remote
  <1>7. ASSUME NEW p \in Proc, TryAcquireProfileLock(p) PROVE TypeOK'
    BY <1>7 DEF TryAcquireProfileLock, Goto, Owning, remote, ghosts
  <1>8. ASSUME NEW p \in Proc, RecoverSending(p) PROVE TypeOK'
    <2>1. rows' \in [Doc -> Row]
      <3>1. \A r \in Row : [r EXCEPT !.state = "pending", !.next_attempt_at = now] \in Row
        BY DEF Row, RowState
      <3>2. rows' = [d \in Doc |->
                       IF rows[d].state = "sending"
                         THEN [rows[d] EXCEPT !.state = "pending", !.next_attempt_at = now]
                         ELSE rows[d]]
        BY <1>8 DEF RecoverSending
      <3> QED
        BY <3>1, <3>2
    <2>2. QED
      BY <1>8, <2>1 DEF RecoverSending, Goto, Owning, remote, ghosts
  <1>9. ASSUME NEW p \in Proc, Release(p) PROVE TypeOK'
    BY <1>9, <1>0 DEF Release, Goto, remote, ghosts
  <1>10. ASSUME NEW p \in Proc, LeaveOwnerLoop(p) PROVE TypeOK'
    BY <1>10 DEF LeaveOwnerLoop, Goto, Owning, remote, ghosts
  <1>11. ASSUME NEW p \in Proc, TransitionFails(p) PROVE TypeOK'
    BY <1>11, OutboxAssumption DEF TransitionFails, Fault, Owning, remote, ghosts
  <1>110. ASSUME NEW p \in Proc, ClaimIfRunning(p) \/ ClaimEmpty(p) PROVE TypeOK'
    BY <1>110 DEF ClaimIfRunning, ClaimEmpty, Goto, Owning, remote, ghosts
  <1>12. CASE ProbeSenderOwnership
    BY <1>12, OutboxAssumption DEF ProbeSenderOwnership, Fault, remote, ghosts
  <1>13. CASE ProbeReleases
    BY <1>13 DEF ProbeReleases, remote, ghosts
  <1>14. ASSUME NEW p \in Proc, ClaimDue(p) PROVE TypeOK'
    <2>1. PICK d \in Due(p) :
            /\ rows[d].attempt_count < MaxAttempts
            /\ rows' = [rows EXCEPT ![d].state = "sending", ![d].attempt_count = @ + 1]
            /\ claim' = [claim EXCEPT ![p] = [doc |-> d, attempt |-> rows[d].attempt_count + 1]]
      BY <1>14 DEF ClaimDue
    <2>2. d \in Doc /\ rows[d] \in Row
      BY DEF Due
    <2>3. rows[d].attempt_count + 1 \in 0..MaxAttempts
      BY <2>1, <2>2, OutboxAssumption DEF Row
    <2>4. rows' \in [Doc -> Row]
      BY <2>1, <2>2, <2>3 DEF Row, RowState
    <2>5. claim' \in [Proc -> Claims]
      BY <2>1, <2>2, <2>3 DEF Claims
    <2>6. QED
      BY <1>14, <2>4, <2>5 DEF ClaimDue, Goto, Owning, Delivering, remote, ghosts
  <1>15. ASSUME NEW p \in Proc, Dispatch(p) PROVE TypeOK'
    <2>1. claim[p].doc \in Doc /\ config[p].target \in Target
      BY <1>15, <1>0 DEF Dispatch, Goto, ClaimsADocument, Delivering, Configs
    <2>2. posted' \subseteq Doc \X Target
      BY <1>15, <2>1 DEF Dispatch
    <2>3. tries' \in [Doc -> Nat]
      BY <1>15, <2>1 DEF Dispatch
    <2>4. QED
      BY <1>15, <2>2, <2>3 DEF Dispatch, Goto, Owning, Delivering
  <1>16. ASSUME NEW p \in Proc, DispatchRefused(p) PROVE TypeOK'
    BY <1>16, OutboxAssumption DEF DispatchRefused, Fault, Goto, Owning, Delivering, remote, ghosts
  <1>17. CASE Store
    BY <1>17 DEF Store, ghosts
  <1>18. ASSUME NEW p \in Proc, ReplyConfirmed(p) PROVE TypeOK'
    BY <1>18, <1>0 DEF ReplyConfirmed, Goto, Owning, Delivering, remote, ghosts
  <1>19. ASSUME NEW p \in Proc, ReplyFails(p) PROVE TypeOK'
    BY <1>19, <1>0, OutboxAssumption DEF ReplyFails, Fault, Goto, Owning, Delivering, remote, ghosts
  <1>20. ASSUME NEW p \in Proc, CallTimesOut(p) PROVE TypeOK'
    BY <1>20, OutboxAssumption DEF CallTimesOut, Fault, Goto, Owning, Delivering, remote, ghosts
  <1>21. ASSUME NEW p \in Proc, TaskSettles(p) PROVE TypeOK'
    BY <1>21, <1>0 DEF TaskSettles, remote, ghosts
  <1>22. ASSUME NEW p \in Proc, SettlementObserved(p) PROVE TypeOK'
    BY <1>22 DEF SettlementObserved, Goto, Owning, Delivering, remote, ghosts
  <1>23. ASSUME NEW p \in Proc, NEW from, NEW row, Transition(p, from, row),
                claim[p].doc \in Doc => row \in Row
         PROVE  TypeOK'
    BY <1>23, <1>0 DEF Transition, ClaimMatches, Owning, remote, ghosts
  <1>24. ASSUME NEW p \in Proc, CompleteClaim(p) PROVE TypeOK'
    BY <1>23, <1>24, <1>00 DEF CompleteClaim
  <1>25. ASSUME NEW p \in Proc, RescheduleClaim(p) PROVE TypeOK'
    <2>1. ASSUME claim[p].doc \in Doc
          PROVE  [rows[claim[p].doc] EXCEPT !.state = "pending",
                     !.next_attempt_at = now + RetryDelay(claim[p].attempt)] \in Row
      <3>1. rows[claim[p].doc] \in Row
        BY <2>1
      <3>2. claim[p].attempt \in 0..MaxAttempts
        BY DEF Claims
      <3>3. now + RetryDelay(claim[p].attempt) \in Nat
        BY <3>2, OutboxAssumption
      <3>4. QED
        BY <3>1, <3>3 DEF Row, RowState
    <2>2. QED
      BY <1>23, <1>25, <2>1 DEF RescheduleClaim
  <1>26. CASE Tick
    BY <1>26 DEF Tick, remote, ghosts
  <1>27. CASE ClockStepsBack
    BY <1>27, OutboxAssumption DEF ClockStepsBack, Fault, remote, ghosts
  <1>28. QED
    BY <1>1, <1>2, <1>3, <1>4, <1>5, <1>6, <1>7, <1>8, <1>9, <1>10, <1>11, <1>110, <1>12,
       <1>13, <1>14, <1>15, <1>16, <1>17, <1>18, <1>19, <1>20, <1>21, <1>22, <1>24,
       <1>25, <1>26, <1>27
    DEF Next, SenderStep, Disturbance

\* A sender enters an attempt only by claiming a document, and keeps it.
LEMMA StepClaimsADocument == TypeInv /\ [Next]_vars => ClaimsADocument'
  <1> SUFFICES ASSUME TypeOK, ClaimsADocument, [Next]_vars PROVE ClaimsADocument'
    BY DEF TypeInv
  <1> USE DEF TypeOK, ClaimsADocument, Delivering
  <1>1. CASE UNCHANGED vars
    BY <1>1 DEF vars
  <1>2. ASSUME NEW p \in Proc,
               \/ Start(p) \/ RequestStop(p) \/ Exit(p) \/ Crash(p)
               \/ TryAcquireProfileLock(p) \/ RecoverSending(p) \/ Release(p)
               \/ LeaveOwnerLoop(p) \/ TransitionFails(p) \/ ClaimIfRunning(p) \/ ClaimEmpty(p)
        PROVE  ClaimsADocument'
    BY <1>2 DEF Start, RequestStop, Exit, Crash, TryAcquireProfileLock, RecoverSending,
                Release, LeaveOwnerLoop, TransitionFails, ClaimIfRunning, ClaimEmpty, Goto
  <1>3. ASSUME NEW p \in Proc, ClaimDue(p) PROVE ClaimsADocument'
    BY <1>3 DEF ClaimDue, Goto, Due
  <1>4. ASSUME NEW p \in Proc,
               \/ Dispatch(p) \/ DispatchRefused(p) \/ ReplyConfirmed(p) \/ ReplyFails(p)
               \/ CallTimesOut(p) \/ TaskSettles(p) \/ SettlementObserved(p)
        PROVE  ClaimsADocument'
    BY <1>4 DEF Dispatch, DispatchRefused, ReplyConfirmed, ReplyFails, CallTimesOut,
                TaskSettles, SettlementObserved, Goto
  <1>5. ASSUME NEW p \in Proc, CompleteClaim(p) \/ RescheduleClaim(p) PROVE ClaimsADocument'
    BY <1>5 DEF CompleteClaim, RescheduleClaim, Transition
  <1>6. ASSUME NEW p \in Proc, NEW t \in Turn, Admit(p, t) PROVE ClaimsADocument'
    BY <1>6 DEF Admit
  <1>7. CASE Store \/ ProbeSenderOwnership \/ ProbeReleases \/ Tick \/ ClockStepsBack
    BY <1>7 DEF Store, ProbeSenderOwnership, ProbeReleases, Tick, ClockStepsBack
  <1>8. QED
    BY <1>1, <1>2, <1>3, <1>4, <1>5, <1>6, <1>7 DEF Next, SenderStep, Disturbance

\* Every variable of the queue always holds a value of its kind; in
\* particular no retry delay and no clock step yields a negative deadline.
THEOREM TypeCorrect == Spec => []TypeOK
  <1>1. Init => TypeInv
    BY InitTypeInv
  <1>2. TypeInv /\ [Next]_vars => TypeInv'
    BY StepTypeOK, StepClaimsADocument DEF TypeInv
  <1>3. TypeInv => TypeOK
    BY DEF TypeInv
  <1>4. QED
    BY <1>1, <1>2, <1>3, PTL DEF Spec

-----------------------------------------------------------------------------
(***************************************************************************)
(* The sender: mutual exclusion by the profile lock, and what the owner    *)
(* may rely on while it delivers.                                          *)
(***************************************************************************)

\* Only the process that takes or drops the profile lock changes its holder,
\* and at the very step in which its sender enters or leaves ownership.
LEMMA StepLockDiscipline == TypeOK /\ LockDiscipline /\ [Next]_vars => LockDiscipline'
  <1> SUFFICES ASSUME TypeOK, LockDiscipline, [Next]_vars PROVE LockDiscipline'
    OBVIOUS
  <1> USE OutboxAssumption DEF TypeOK, LockDiscipline, Owning, Delivering
  <1>1. CASE UNCHANGED vars
    BY <1>1 DEF vars
  <1>2. ASSUME NEW p \in Proc,
               Start(p) \/ RequestStop(p) \/ Exit(p) \/ Crash(p)
        PROVE  LockDiscipline'
    BY <1>2 DEF Start, RequestStop, Exit, Crash, Goto
  <1>3. ASSUME NEW p \in Proc, TryAcquireProfileLock(p) \/ Release(p) PROVE LockDiscipline'
    BY <1>3 DEF TryAcquireProfileLock, Release, Goto
  <1>30. ASSUME NEW p \in Proc,
                \/ RecoverSending(p) \/ LeaveOwnerLoop(p) \/ TransitionFails(p)
                \/ ClaimIfRunning(p) \/ ClaimEmpty(p)
         PROVE  LockDiscipline'
    <2>1. UNCHANGED holder
      BY <1>30 DEF RecoverSending, LeaveOwnerLoop, TransitionFails, ClaimIfRunning, ClaimEmpty
    <2>2. pc[p] \in Owning /\ \E step \in Owning : pc' = [pc EXCEPT ![p] = step]
      BY <1>30 DEF RecoverSending, LeaveOwnerLoop, TransitionFails, ClaimIfRunning, ClaimEmpty, Goto
    <2> QED
      BY <2>1, <2>2
  <1>4. ASSUME NEW p \in Proc,
               \/ ClaimDue(p) \/ Dispatch(p) \/ DispatchRefused(p) \/ ReplyConfirmed(p)
               \/ ReplyFails(p) \/ CallTimesOut(p) \/ TaskSettles(p) \/ SettlementObserved(p)
        PROVE  LockDiscipline'
    BY <1>4 DEF ClaimDue, Dispatch, DispatchRefused, ReplyConfirmed, ReplyFails,
                CallTimesOut, TaskSettles, SettlementObserved, Goto
  <1>5. ASSUME NEW p \in Proc, CompleteClaim(p) \/ RescheduleClaim(p) PROVE LockDiscipline'
    BY <1>5 DEF CompleteClaim, RescheduleClaim, Transition
  <1>6. ASSUME NEW p \in Proc, NEW t \in Turn, Admit(p, t) PROVE LockDiscipline'
    BY <1>6 DEF Admit
  <1>7. CASE ProbeSenderOwnership \/ ProbeReleases
    BY <1>7 DEF ProbeSenderOwnership, ProbeReleases
  <1>8. CASE Store \/ Tick \/ ClockStepsBack
    BY <1>8 DEF Store, Tick, ClockStepsBack
  <1>9. QED
    BY <1>1, <1>2, <1>3, <1>30, <1>4, <1>5, <1>6, <1>7, <1>8 DEF Next, SenderStep, Disturbance

\* The owner is alone: no second sender is at a step that owns the lock.
LEMMA OneOwner ==
  ASSUME LockDiscipline, NEW p \in Proc, NEW q \in Proc,
         pc[p] \in Owning, pc[q] \in Owning
  PROVE  p = q
  BY DEF LockDiscipline

\* No other actor touches a claimed row, and its deliverer leaves it alone
\* until it completes or reschedules it.
LEMMA StepClaimHeld ==
  TypeOK /\ LockDiscipline /\ ClaimHeld /\ [Next]_vars => ClaimHeld'
  <1> SUFFICES ASSUME TypeOK, LockDiscipline, ClaimHeld, [Next]_vars,
                      NEW q \in Proc, pc'[q] \in Delivering
               PROVE  /\ ClaimMatches(q)'
                      /\ rows'[claim'[q].doc].destination \in Matching(config'[q])
    BY DEF ClaimHeld
  <1> DEFINE Held == /\ ClaimMatches(q)'
                     /\ rows'[claim'[q].doc].destination \in Matching(config'[q])
  <1> USE DEF TypeOK, ClaimHeld, ClaimMatches
  <1>1. CASE UNCHANGED vars
    BY <1>1 DEF vars
  <1>2. ASSUME NEW p \in Proc,
               Start(p) \/ RequestStop(p) \/ Exit(p) \/ Crash(p)
        PROVE  Held
    BY <1>2 DEF Start, RequestStop, Exit, Crash, Goto, Delivering
  <1>3. ASSUME NEW p \in Proc,
               TryAcquireProfileLock(p) \/ Release(p) \/ LeaveOwnerLoop(p) \/ TransitionFails(p)
               \/ ClaimIfRunning(p) \/ ClaimEmpty(p)
        PROVE  Held
    BY <1>3 DEF TryAcquireProfileLock, Release, LeaveOwnerLoop, TransitionFails,
                ClaimIfRunning, ClaimEmpty, Goto, Delivering
  <1>4. ASSUME NEW p \in Proc, RecoverSending(p) PROVE Held
    <2>1. pc[p] \in Owning /\ pc[q] = pc'[q] /\ p # q
      BY <1>4 DEF RecoverSending, Goto, Owning, Delivering
    <2>2. FALSE
      BY <2>1, OneOwner DEF Owning
    <2>3. QED
      BY <2>2
  <1>5. ASSUME NEW p \in Proc, ClaimDue(p) PROVE Held
    <2>1. CASE p = q
      BY <1>5, <2>1 DEF ClaimDue, Goto, Due
    <2>2. CASE p # q
      <3>1. pc[q] \in Owning /\ pc[p] \in Owning
        BY <1>5, <2>2 DEF ClaimDue, Goto, Owning
      <3>2. QED
        BY <2>2, <3>1, OneOwner
    <2>3. QED
      BY <2>1, <2>2
  <1>6. ASSUME NEW p \in Proc,
               \/ Dispatch(p) \/ DispatchRefused(p) \/ ReplyConfirmed(p) \/ ReplyFails(p)
               \/ CallTimesOut(p) \/ TaskSettles(p) \/ SettlementObserved(p)
        PROVE  Held
    BY <1>6 DEF Dispatch, DispatchRefused, ReplyConfirmed, ReplyFails, CallTimesOut,
                TaskSettles, SettlementObserved, Goto, Delivering
  <1>7. ASSUME NEW p \in Proc, CompleteClaim(p) \/ RescheduleClaim(p) PROVE Held
    <2>1. pc[p] \in Owning
      BY <1>7 DEF CompleteClaim, RescheduleClaim, Transition, Owning, Delivering
    <2>2. p # q
      BY <1>7 DEF CompleteClaim, RescheduleClaim, Transition, Delivering
    <2>3. pc[q] \in Owning
      BY <1>7, <2>2 DEF CompleteClaim, RescheduleClaim, Transition, Owning
    <2>4. QED
      BY <2>1, <2>2, <2>3, OneOwner
  <1>8. ASSUME NEW p \in Proc, NEW t \in Turn, Admit(p, t) PROVE Held
    BY <1>8 DEF Admit, NewSegments, Present
  <1>9. CASE Store \/ ProbeSenderOwnership \/ ProbeReleases \/ Tick \/ ClockStepsBack
    BY <1>9 DEF Store, ProbeSenderOwnership, ProbeReleases, Tick, ClockStepsBack
  <1>10. QED
    BY <1>1, <1>2, <1>3, <1>4, <1>5, <1>6, <1>7, <1>8, <1>9 DEF Next, SenderStep, Disturbance

\* Recovery leaves no row 'sending'; after it the owner has at most one such
\* row, the one it is delivering, and nobody else makes one.
LEMMA StepNoStrandedRow ==
  TypeOK /\ LockDiscipline /\ ClaimHeld /\ NoStrandedRow /\ [Next]_vars => NoStrandedRow'
  <1> SUFFICES ASSUME TypeOK, LockDiscipline, ClaimHeld, NoStrandedRow, [Next]_vars,
                      NEW q \in Proc, NEW d \in Doc,
                      pc'[q] \in {"own", "claiming"} \cup Delivering, rows'[d].state = "sending"
               PROVE  pc'[q] \in Delivering /\ claim'[q].doc = d
    BY DEF NoStrandedRow
  <1> DEFINE Mine == pc'[q] \in Delivering /\ claim'[q].doc = d
  <1> USE DEF TypeOK, NoStrandedRow
  <1>1. CASE UNCHANGED vars
    BY <1>1 DEF vars
  <1>2. ASSUME NEW p \in Proc, Start(p) \/ RequestStop(p) \/ Exit(p) \/ Crash(p) PROVE Mine
    BY <1>2 DEF Start, RequestStop, Exit, Crash, Goto, Delivering
  <1>3. ASSUME NEW p \in Proc,
               TryAcquireProfileLock(p) \/ Release(p) \/ LeaveOwnerLoop(p) \/ TransitionFails(p)
               \/ ClaimIfRunning(p) \/ ClaimEmpty(p)
        PROVE  Mine
    BY <1>3 DEF TryAcquireProfileLock, Release, LeaveOwnerLoop, TransitionFails,
                ClaimIfRunning, ClaimEmpty, Goto, Delivering
  <1>4. ASSUME NEW p \in Proc, RecoverSending(p) PROVE Mine
    <2>1. rows'[d].state # "sending"
      BY <1>4 DEF RecoverSending, Row
    <2>2. QED
      BY <2>1
  <1>5. ASSUME NEW p \in Proc, ClaimDue(p) PROVE Mine
    <2>1. p = q
      <3>1. pc[p] \in Owning /\ (p # q => pc[q] \in Owning)
        BY <1>5 DEF ClaimDue, Goto, Owning
      <3>2. QED
        BY <3>1, OneOwner
    <2>2. QED
      BY <1>5, <2>1 DEF ClaimDue, Goto, Due, Delivering
  <1>6. ASSUME NEW p \in Proc,
               \/ Dispatch(p) \/ DispatchRefused(p) \/ ReplyConfirmed(p) \/ ReplyFails(p)
               \/ CallTimesOut(p) \/ TaskSettles(p) \/ SettlementObserved(p)
        PROVE  Mine
    BY <1>6 DEF Dispatch, DispatchRefused, ReplyConfirmed, ReplyFails, CallTimesOut,
                TaskSettles, SettlementObserved, Goto, Delivering
  <1>7. ASSUME NEW p \in Proc, CompleteClaim(p) \/ RescheduleClaim(p) PROVE Mine
    <2>1. p = q
      <3>1. pc[p] \in Owning /\ (p # q => pc[q] \in Owning)
        BY <1>7 DEF CompleteClaim, RescheduleClaim, Transition, Owning, Delivering
      <3>2. QED
        BY <3>1, OneOwner
    <2>2. pc[p] \in Delivering /\ ClaimMatches(p)
      BY <1>7 DEF CompleteClaim, RescheduleClaim, Transition, Delivering, ClaimHeld
    <2>3. rows'[claim[p].doc].state # "sending"
      <3>1. CASE CompleteClaim(p)
        BY <3>1, <2>2 DEF CompleteClaim, Transition, NoRow, ClaimMatches
      <3>2. CASE RescheduleClaim(p)
        <4> DEFINE row == [rows[claim[p].doc] EXCEPT !.state = "pending",
                             !.next_attempt_at = now + RetryDelay(claim[p].attempt)]
        <4>1. claim[p].doc \in Doc /\ rows[claim[p].doc] \in Row
          BY <2>2 DEF ClaimMatches
        <4>2. row.state = "pending"
          BY <4>1 DEF Row
        <4>3. rows'[claim[p].doc] = row
          BY <3>2, <2>2, <4>1 DEF RescheduleClaim, Transition
        <4>4. QED
          BY <4>2, <4>3
      <3>3. QED
        BY <1>7, <3>1, <3>2
    <2>4. d # claim[p].doc => rows[d].state = "sending"
      BY <1>7, <2>2 DEF CompleteClaim, RescheduleClaim, Transition
    <2>5. QED
      BY <2>1, <2>2, <2>3, <2>4
  <1>8. ASSUME NEW p \in Proc, NEW t \in Turn, Admit(p, t) PROVE Mine
    BY <1>8 DEF Admit, NewSegments, Present, NewRow
  <1>9. CASE Store \/ ProbeSenderOwnership \/ ProbeReleases \/ Tick \/ ClockStepsBack
    BY <1>9 DEF Store, ProbeSenderOwnership, ProbeReleases, Tick, ClockStepsBack
  <1>10. QED
    BY <1>1, <1>2, <1>3, <1>4, <1>5, <1>6, <1>7, <1>8, <1>9 DEF Next, SenderStep, Disturbance

\* A retain task exists only from its dispatch until it answered or settled,
\* and for that long its sender keeps both the lock and the claim.
LEMMA StepNoOverlap ==
  TypeOK /\ LockDiscipline /\ NoOverlap /\ [Next]_vars => NoOverlap'
  <1> SUFFICES ASSUME TypeOK, LockDiscipline, NoOverlap, [Next]_vars PROVE NoOverlap'
    OBVIOUS
  <1> USE OutboxAssumption DEF TypeOK, NoOverlap
  <1>1. CASE UNCHANGED vars
    BY <1>1 DEF vars
  <1>2. ASSUME NEW p \in Proc, Start(p) \/ RequestStop(p) \/ Exit(p) \/ Crash(p)
        PROVE  NoOverlap'
    BY <1>2 DEF Start, RequestStop, Exit, Crash, Goto
  <1>3. ASSUME NEW p \in Proc,
               \/ TryAcquireProfileLock(p) \/ RecoverSending(p) \/ Release(p)
               \/ LeaveOwnerLoop(p) \/ TransitionFails(p) \/ ClaimIfRunning(p) \/ ClaimEmpty(p)
        PROVE  NoOverlap'
    BY <1>3 DEF TryAcquireProfileLock, RecoverSending, Release, LeaveOwnerLoop,
                TransitionFails, ClaimIfRunning, ClaimEmpty, Goto, LockDiscipline, Owning
  <1>4. ASSUME NEW p \in Proc, ClaimDue(p) PROVE NoOverlap'
    BY <1>4 DEF ClaimDue, Goto
  <1>5. ASSUME NEW p \in Proc, Dispatch(p) PROVE NoOverlap'
    BY <1>5 DEF Dispatch, Goto, LockDiscipline, Owning, Delivering
  <1>6. ASSUME NEW p \in Proc,
               \/ DispatchRefused(p) \/ ReplyConfirmed(p) \/ ReplyFails(p)
               \/ CallTimesOut(p) \/ TaskSettles(p) \/ SettlementObserved(p)
        PROVE  NoOverlap'
    BY <1>6 DEF DispatchRefused, ReplyConfirmed, ReplyFails, CallTimesOut, TaskSettles,
                SettlementObserved, Goto
  <1>7. ASSUME NEW p \in Proc, CompleteClaim(p) \/ RescheduleClaim(p) PROVE NoOverlap'
    BY <1>7 DEF CompleteClaim, RescheduleClaim, Transition
  <1>8. ASSUME NEW p \in Proc, NEW t \in Turn, Admit(p, t) PROVE NoOverlap'
    BY <1>8 DEF Admit
  <1>9. CASE ProbeSenderOwnership \/ ProbeReleases
    BY <1>9 DEF ProbeSenderOwnership, ProbeReleases
  <1>10. CASE Store \/ Tick \/ ClockStepsBack
    BY <1>10 DEF Store, Tick, ClockStepsBack
  <1>11. QED
    BY <1>1, <1>2, <1>3, <1>4, <1>5, <1>6, <1>7, <1>8, <1>9, <1>10
    DEF Next, SenderStep, Disturbance

\* Only a confirmation of a stored document makes a sender believe in
\* success, and the bank never forgets it.
LEMMA StepConfirmedIsStored ==
  TypeOK /\ ConfirmedIsStored /\ [Next]_vars => ConfirmedIsStored'
  <1> SUFFICES ASSUME TypeOK, ConfirmedIsStored, [Next]_vars PROVE ConfirmedIsStored'
    OBVIOUS
  <1> USE DEF TypeOK, ConfirmedIsStored
  <1>1. CASE UNCHANGED vars
    BY <1>1 DEF vars
  <1>2. ASSUME NEW p \in Proc,
               \/ Start(p) \/ RequestStop(p) \/ Exit(p) \/ Crash(p)
               \/ TryAcquireProfileLock(p) \/ RecoverSending(p) \/ Release(p)
               \/ LeaveOwnerLoop(p) \/ TransitionFails(p) \/ ClaimIfRunning(p) \/ ClaimEmpty(p)
        PROVE  ConfirmedIsStored'
    BY <1>2 DEF Start, RequestStop, Exit, Crash, TryAcquireProfileLock, RecoverSending,
                Release, LeaveOwnerLoop, TransitionFails, ClaimIfRunning, ClaimEmpty, Goto, remote
  <1>3. ASSUME NEW p \in Proc,
               \/ ClaimDue(p) \/ Dispatch(p) \/ DispatchRefused(p) \/ ReplyConfirmed(p)
               \/ ReplyFails(p) \/ CallTimesOut(p) \/ TaskSettles(p) \/ SettlementObserved(p)
        PROVE  ConfirmedIsStored'
    BY <1>3 DEF ClaimDue, Dispatch, DispatchRefused, ReplyConfirmed, ReplyFails,
                CallTimesOut, TaskSettles, SettlementObserved, Goto, remote
  <1>4. ASSUME NEW p \in Proc, CompleteClaim(p) \/ RescheduleClaim(p) PROVE ConfirmedIsStored'
    BY <1>4 DEF CompleteClaim, RescheduleClaim, Transition, remote
  <1>5. ASSUME NEW p \in Proc, NEW t \in Turn, Admit(p, t) PROVE ConfirmedIsStored'
    BY <1>5 DEF Admit, remote
  <1>6. CASE Store \/ ProbeSenderOwnership \/ ProbeReleases \/ Tick \/ ClockStepsBack
    BY <1>6 DEF Store, ProbeSenderOwnership, ProbeReleases, Tick, ClockStepsBack, remote
  <1>7. QED
    BY <1>1, <1>2, <1>3, <1>4, <1>5, <1>6 DEF Next, SenderStep, Disturbance

\* Before any sender runs there is nothing to hold.
LEMMA InitSenderInv == Init => SenderInv
  BY OutboxAssumption DEF Init, SenderInv, LockDiscipline, ClaimHeld, NoStrandedRow, NoOverlap,
         ConfirmedIsStored, Owning, Delivering

\* Types and the sender's invariant are inductive together.
LEMMA StepSenderInv == TypeInv /\ SenderInv /\ [Next]_vars => (TypeInv /\ SenderInv)'
  BY StepTypeOK, StepClaimsADocument, StepLockDiscipline, StepClaimHeld, StepNoStrandedRow,
     StepNoOverlap, StepConfirmedIsStored
  DEF TypeInv, SenderInv

\* The guards of complete_claim and reschedule_claim never miss: from claim
\* to settlement the owner's row is the attempt it claimed.
THEOREM ClaimSafe == Spec => []ClaimHeld
  <1>1. Init => TypeInv /\ SenderInv
    BY InitTypeInv, InitSenderInv
  <1>2. TypeInv /\ SenderInv => ClaimHeld
    BY DEF SenderInv
  <1>3. QED
    BY <1>1, <1>2, StepSenderInv, PTL DEF Spec

\* No row is left 'sending' behind a live owner that has recovered.
THEOREM RecoveryComplete == Spec => []NoStrandedRow
  <1>1. Init => TypeInv /\ SenderInv
    BY InitTypeInv, InitSenderInv
  <1>2. TypeInv /\ SenderInv => NoStrandedRow
    BY DEF SenderInv
  <1>3. QED
    BY <1>1, <1>2, StepSenderInv, PTL DEF Spec

\* A second attempt at a row never starts beside a living first one.
THEOREM AttemptsDisjoint == Spec => []NoOverlap
  <1>1. Init => TypeInv /\ SenderInv
    BY InitTypeInv, InitSenderInv
  <1>2. TypeInv /\ SenderInv => NoOverlap
    BY DEF SenderInv
  <1>3. QED
    BY <1>1, <1>2, StepSenderInv, PTL DEF Spec

-----------------------------------------------------------------------------
(***************************************************************************)
(* The queue.  Only an admission puts rows in and only a completion takes  *)
(* one out; every other step keeps every row's destination.                *)
(***************************************************************************)
KeepsQueue ==
  /\ accepted' = accepted
  /\ \A d \in Doc : Present(d)' = Present(d) /\ RowKept(d)

\* A completion removes a row whose document its target holds.
Retires(p) ==
  /\ Present(claim[p].doc) /\ claim[p].doc \in Doc
  /\ <<claim[p].doc, TargetOf(rows[claim[p].doc].destination)>> \in stored
  /\ rows' = [rows EXCEPT ![claim[p].doc] = NoRow]
  /\ UNCHANGED <<posted, stored, accepted, tries>>

\* complete_claim deletes the claimed row, which by then is confirmed.
LEMMA CompleteRetires ==
  ASSUME TypeOK, SenderInv, NEW p \in Proc, CompleteClaim(p)
  PROVE  Retires(p) /\ pc'[p] = "own" /\ pc' = [pc EXCEPT ![p] = "own"]
  <1>1. pc[p] = "confirmed" /\ pc[p] \in Delivering
    BY DEF CompleteClaim, Transition, Delivering
  <1>2. ClaimMatches(p) /\ rows[claim[p].doc].destination \in Matching(config[p])
    BY <1>1 DEF SenderInv, ClaimHeld
  <1>3. TargetOf(rows[claim[p].doc].destination) = config[p].target
    BY <1>2, MatchingTarget, OutboxAssumption DEF TypeOK
  <1>4. <<claim[p].doc, config[p].target>> \in stored
    BY <1>1 DEF SenderInv, ConfirmedIsStored
  <1>5. Present(claim[p].doc) /\ claim[p].doc \in Doc
    BY <1>2 DEF ClaimMatches, Present
  <1>6. QED
    BY <1>2, <1>3, <1>4, <1>5 DEF CompleteClaim, Transition, Retires, remote, ghosts, TypeOK

\* Changing the state, the deadline or upwards the attempt_count of a row
\* keeps it.
LEMMA QueueCases ==
  ASSUME TypeOK, SenderInv, [Next]_vars
  PROVE  \/ \E p \in Proc, t \in Turn : Admit(p, t)
         \/ \E p \in Proc : CompleteClaim(p)
         \/ KeepsQueue
  <1> USE DEF TypeOK, KeepsQueue, Present, RowKept
  <1>0. \A d \in Doc : rows[d].attempt_count >= rows[d].attempt_count
    BY DEF Row
  <1>1. CASE rows' = rows /\ accepted' = accepted
    BY <1>0, <1>1
  <1>2. CASE UNCHANGED vars
    BY <1>1, <1>2 DEF vars
  <1>3. ASSUME NEW p \in Proc,
               \/ Start(p) \/ RequestStop(p) \/ Exit(p) \/ Crash(p)
               \/ TryAcquireProfileLock(p) \/ Release(p)
               \/ LeaveOwnerLoop(p) \/ TransitionFails(p) \/ ClaimIfRunning(p) \/ ClaimEmpty(p)
        PROVE  rows' = rows /\ accepted' = accepted
    BY <1>3 DEF Start, RequestStop, Exit, Crash, TryAcquireProfileLock,
                Release, LeaveOwnerLoop, TransitionFails, ClaimIfRunning, ClaimEmpty, ghosts
  <1>4. ASSUME NEW p \in Proc, RecoverSending(p) PROVE KeepsQueue
    <2>1. ASSUME NEW d \in Doc PROVE Present(d)' = Present(d) /\ RowKept(d)
      <3>1. rows[d] \in Row
        OBVIOUS
      <3>2. CASE rows[d].state = "sending"
        <4> DEFINE row == [rows[d] EXCEPT !.state = "pending", !.next_attempt_at = now]
        <4>1. rows'[d] = row
          BY <1>4, <3>2 DEF RecoverSending
        <4>2. /\ row.state = "pending" /\ row.attempt_count = rows[d].attempt_count
              /\ row.destination = rows[d].destination /\ row.created_at = rows[d].created_at
          BY <3>1 DEF Row
        <4>3. QED
          BY <1>0, <3>2, <4>1, <4>2
      <3>3. CASE rows[d].state # "sending"
        BY <1>0, <1>4, <3>3 DEF RecoverSending
      <3>4. QED
        BY <3>2, <3>3
    <2>2. QED
      BY <1>4, <2>1 DEF RecoverSending, ghosts
  <1>5. ASSUME NEW p \in Proc, ClaimDue(p) PROVE KeepsQueue
    <2>1. PICK d \in Due(p) :
            rows' = [rows EXCEPT ![d].state = "sending", ![d].attempt_count = @ + 1]
      BY <1>5 DEF ClaimDue
    <2>2. d \in Doc /\ rows[d].state = "pending" /\ rows[d] \in Row
      BY DEF Due
    <2>3. /\ rows'[d].state = "sending" /\ rows'[d].attempt_count = rows[d].attempt_count + 1
          /\ rows'[d].destination = rows[d].destination /\ rows'[d].created_at = rows[d].created_at
      BY <2>1, <2>2 DEF Row
    <2>4. \A e \in Doc \ {d} : rows'[e] = rows[e]
      BY <2>1, <2>2
    <2>5. rows[d].attempt_count + 1 >= rows[d].attempt_count
      BY <2>2, OutboxAssumption DEF Row
    <2>6. QED
      BY <1>0, <1>5, <2>2, <2>3, <2>4, <2>5 DEF ClaimDue, ghosts
  <1>6. ASSUME NEW p \in Proc,
               \/ Dispatch(p) \/ DispatchRefused(p) \/ ReplyConfirmed(p) \/ ReplyFails(p)
               \/ CallTimesOut(p) \/ TaskSettles(p) \/ SettlementObserved(p)
        PROVE  rows' = rows /\ accepted' = accepted
    BY <1>6 DEF Dispatch, DispatchRefused, ReplyConfirmed, ReplyFails, CallTimesOut,
                TaskSettles, SettlementObserved, ghosts
  <1>7. ASSUME NEW p \in Proc, RescheduleClaim(p) PROVE KeepsQueue
    <2> DEFINE d == claim[p].doc
               row == [rows[d] EXCEPT !.state = "pending",
                         !.next_attempt_at = now + RetryDelay(claim[p].attempt)]
    <2>1. ClaimMatches(p)
      BY <1>7 DEF RescheduleClaim, Transition, Delivering, SenderInv, ClaimHeld
    <2>2. d \in Doc /\ rows[d] \in Row /\ rows[d].state = "sending"
      BY <2>1 DEF ClaimMatches
    <2>3. /\ row.state = "pending" /\ row.attempt_count = rows[d].attempt_count
          /\ row.destination = rows[d].destination /\ row.created_at = rows[d].created_at
      BY <2>2 DEF Row
    <2>4. rows' = [rows EXCEPT ![d] = row] /\ accepted' = accepted
      BY <1>7, <2>1 DEF RescheduleClaim, Transition, ghosts
    <2>5. rows'[d] = row /\ \A e \in Doc \ {d} : rows'[e] = rows[e]
      BY <2>2, <2>4
    <2>6. QED
      BY <1>0, <2>2, <2>3, <2>4, <2>5
  <1>8. CASE Store \/ ProbeSenderOwnership \/ ProbeReleases \/ Tick \/ ClockStepsBack
    BY <1>1, <1>8 DEF Store, ProbeSenderOwnership, ProbeReleases, Tick, ClockStepsBack, ghosts
  <1>9. QED
    BY <1>1, <1>2, <1>3, <1>4, <1>5, <1>6, <1>7, <1>8 DEF Next, SenderStep, Disturbance

\* What an admission does to the table: every segment of the turn is queued
\* for one target of the process, and no other row changes.
LEMMA AdmitEffect ==
  ASSUME TypeOK, NEW p \in Proc, NEW t \in Turn, Admit(p, t)
  PROVE  LET destination == Fingerprint(config[p], SchemaOf[t]) IN
         /\ TargetOf(destination) = config[p].target
         /\ config[p].target \in Target
         /\ accepted' = accepted \cup (SegmentsOf[t] \X {config[p].target})
         /\ \A d \in SegmentsOf[t] : Present(d)' /\ rows'[d].destination = destination
         /\ \A d \in SegmentsOf[t] : Present(d) => rows'[d] = rows[d]
         /\ \A d \in Doc \ SegmentsOf[t] : rows'[d] = rows[d]
         /\ \A d \in SegmentsOf[t] : ~Present(d) => rows'[d].attempt_count = 0 /\ tries'[d] = 0
         /\ \A d \in Doc : Present(d) \/ d \notin SegmentsOf[t] => tries'[d] = tries[d]
         /\ UNCHANGED <<pc, claim, posted, stored>>
  <1> DEFINE destination == Fingerprint(config[p], SchemaOf[t])
  <1>1. config[p] \in Configs /\ SchemaOf[t] \in Schema /\ SegmentsOf[t] \subseteq Doc
    BY OutboxAssumption DEF TypeOK
  <1>2. TargetOf(destination) = config[p].target /\ config[p].target \in Target
    BY <1>1, FingerprintType DEF Configs
  <1>3. \A d \in NewSegments(t) : rows'[d] = NewRow(destination)
    BY <1>1 DEF Admit, NewSegments
  <1>4. \A d \in Doc \ NewSegments(t) : rows'[d] = rows[d]
    BY DEF Admit
  <1>5. \A d \in SegmentsOf[t] : Present(d)' /\ rows'[d].destination = destination
    <2> SUFFICES ASSUME NEW d \in SegmentsOf[t]
                 PROVE  Present(d)' /\ rows'[d].destination = destination
      OBVIOUS
    <2>1. CASE Present(d)
      BY <1>1, <1>4, <2>1 DEF Admit, Conflict, NewSegments, Present
    <2>2. CASE ~Present(d)
      BY <1>3, <2>2 DEF NewSegments, NewRow, Present
    <2>3. QED
      BY <2>1, <2>2
  <1>6. \A d \in SegmentsOf[t] : ~Present(d) => rows'[d].attempt_count = 0 /\ tries'[d] = 0
    BY <1>1, <1>3 DEF Admit, NewSegments, NewRow
  <1>7. \A d \in SegmentsOf[t] : Present(d) => rows'[d] = rows[d]
    BY <1>1, <1>4 DEF NewSegments
  <1>8. \A d \in Doc \ SegmentsOf[t] : rows'[d] = rows[d]
    BY <1>4 DEF NewSegments
  <1>9. \A d \in Doc : Present(d) \/ d \notin SegmentsOf[t] => tries'[d] = tries[d]
    BY DEF Admit, NewSegments
  <1>10. QED
    BY <1>2, <1>5, <1>6, <1>7, <1>8, <1>9 DEF Admit, remote

\* The bank forgets nothing.
LEMMA StoredGrows == [Next]_vars => stored \subseteq stored'
  BY DEF Next, vars, SenderStep, Disturbance, Start, RequestStop, Exit, Crash, Admit,
         TryAcquireProfileLock, RecoverSending, Release, LeaveOwnerLoop, TransitionFails,
         ClaimIfRunning, ClaimEmpty,
         ProbeSenderOwnership, ProbeReleases, ClaimDue, Dispatch, DispatchRefused, Store,
         ReplyConfirmed, ReplyFails, CallTimesOut, TaskSettles, SettlementObserved,
         CompleteClaim, RescheduleClaim, Transition, Tick, ClockStepsBack, remote, ghosts

\* No accepted document gets lost.
LEMMA StepNoLoss == TypeOK /\ SenderInv /\ NoLoss /\ [Next]_vars => NoLoss'
  <1> SUFFICES ASSUME TypeOK, SenderInv, NoLoss, [Next]_vars,
                      NEW m \in accepted', m \notin stored'
               PROVE  Present(m[1])' /\ TargetOf(rows'[m[1]].destination) = m[2]
    BY DEF NoLoss
  <1>0. m \notin stored
    BY StoredGrows
  <1>1. ASSUME NEW p \in Proc, NEW t \in Turn, Admit(p, t)
        PROVE  Present(m[1])' /\ TargetOf(rows'[m[1]].destination) = m[2]
    <2>1. CASE m \in accepted
      <3>1. m[1] \in Doc /\ Present(m[1]) /\ TargetOf(rows[m[1]].destination) = m[2]
        BY <1>0, <2>1 DEF NoLoss, TypeOK
      <3>2. rows'[m[1]] = rows[m[1]]
        BY <1>1, <3>1, AdmitEffect
      <3>3. QED
        BY <3>1, <3>2 DEF Present
    <2>2. CASE m \in SegmentsOf[t] \X {config[p].target}
      BY <1>1, <2>2, AdmitEffect
    <2>3. QED
      BY <1>1, <2>1, <2>2, AdmitEffect
  <1>2. ASSUME NEW p \in Proc, CompleteClaim(p)
        PROVE  Present(m[1])' /\ TargetOf(rows'[m[1]].destination) = m[2]
    <2>1. Retires(p) /\ m \in accepted
      BY <1>2, CompleteRetires DEF Retires
    <2>2. m[1] \in Doc /\ Present(m[1]) /\ TargetOf(rows[m[1]].destination) = m[2]
      BY <1>0, <2>1 DEF NoLoss, TypeOK
    <2>3. m[1] # claim[p].doc
      <3>1. m = <<m[1], m[2]>>
        BY <2>1 DEF TypeOK
      <3>2. QED
        BY <1>0, <2>1, <2>2, <3>1 DEF Retires
    <2>4. rows'[m[1]] = rows[m[1]]
      BY <2>1, <2>2, <2>3 DEF Retires, TypeOK
    <2>5. QED
      BY <2>2, <2>4 DEF Present
  <1>3. CASE KeepsQueue
    BY <1>0, <1>3 DEF KeepsQueue, RowKept, NoLoss, TypeOK
  <1>4. QED
    BY <1>1, <1>2, <1>3, QueueCases

\* Rows leave for the target they were accepted for and no other.
LEMMA StepIsolation == TypeInv /\ SenderInv /\ Isolation /\ [Next]_vars => Isolation'
  <1> SUFFICES ASSUME TypeInv, TypeOK, SenderInv, Isolation, [Next]_vars PROVE Isolation'
    BY DEF TypeInv
  <1>1. accepted \subseteq accepted'
    BY QueueCases, AdmitEffect, CompleteRetires DEF KeepsQueue, Retires
  <1>2. posted' \subseteq accepted' /\ stored' \subseteq posted'
    <2>1. ASSUME NEW p \in Proc, Dispatch(p) PROVE posted' \subseteq accepted /\ stored' = stored
      <3> DEFINE d == claim[p].doc
      <3>1. ClaimMatches(p) /\ rows[d].destination \in Matching(config[p])
        BY <2>1 DEF Dispatch, Goto, Delivering, SenderInv, ClaimHeld
      <3>2. d \in PresentDocs /\ TargetOf(rows[d].destination) = config[p].target
        BY <3>1, MatchingTarget, OutboxAssumption DEF ClaimMatches, PresentDocs, Present, TypeOK
      <3>3. <<d, config[p].target>> \in accepted
        BY <3>2 DEF Isolation
      <3>4. QED
        BY <2>1, <3>3 DEF Dispatch, Isolation
    <2>2. CASE Store
      BY <2>2 DEF Store, Isolation, ghosts
    <2>3. UNCHANGED <<posted, stored>> \/ Store \/ \E p \in Proc : Dispatch(p)
      BY DEF Next, vars, SenderStep, Disturbance, Start, RequestStop, Exit, Crash, Admit,
         TryAcquireProfileLock, RecoverSending, Release, LeaveOwnerLoop, TransitionFails,
         ClaimIfRunning, ClaimEmpty,
         ProbeSenderOwnership, ProbeReleases, ClaimDue, DispatchRefused, ReplyConfirmed,
         ReplyFails, CallTimesOut, TaskSettles, SettlementObserved, CompleteClaim,
         RescheduleClaim, Transition, Tick, ClockStepsBack, remote
    <2>4. ASSUME NEW p \in Proc, Dispatch(p) PROVE stored' \subseteq posted'
      BY <2>4 DEF Dispatch, Isolation
    <2>5. QED
      BY <1>1, <2>1, <2>2, <2>3, <2>4 DEF Isolation
  <1>3. ASSUME NEW d \in PresentDocs'
        PROVE  <<d, TargetOf(rows'[d].destination)>> \in accepted'
    <2>0. d \in Doc /\ Present(d)'
      BY DEF PresentDocs
    <2>1. ASSUME NEW p \in Proc, NEW t \in Turn, Admit(p, t)
          PROVE  <<d, TargetOf(rows'[d].destination)>> \in accepted'
      <3>1. CASE d \in SegmentsOf[t]
        BY <2>1, <3>1, AdmitEffect
      <3>2. CASE d \notin SegmentsOf[t]
        <4>1. rows'[d] = rows[d]
          BY <2>0, <2>1, <3>2, AdmitEffect
        <4>2. d \in PresentDocs
          BY <2>0, <4>1 DEF PresentDocs, Present
        <4>3. QED
          BY <1>1, <4>1, <4>2 DEF Isolation
      <3>3. QED
        BY <3>1, <3>2
    <2>2. ASSUME NEW p \in Proc, CompleteClaim(p)
          PROVE  <<d, TargetOf(rows'[d].destination)>> \in accepted'
      <3>1. Retires(p)
        BY <2>2, CompleteRetires
      <3>2. d # claim[p].doc
        BY <2>0, <3>1 DEF Retires, Present, NoRow, TypeOK
      <3>3. rows'[d] = rows[d]
        BY <2>0, <3>1, <3>2 DEF Retires, TypeOK
      <3>4. d \in PresentDocs
        BY <2>0, <3>3 DEF PresentDocs, Present
      <3>5. QED
        BY <1>1, <3>3, <3>4 DEF Isolation
    <2>3. CASE KeepsQueue
      BY <1>1, <2>0, <2>3 DEF KeepsQueue, RowKept, PresentDocs, Isolation
    <2>4. QED
      BY <2>1, <2>2, <2>3, QueueCases
  <1>4. QED
    BY <1>2, <1>3 DEF Isolation

\* Turns are disjoint, so an admission adds whole turns and nothing else
\* changes a destination.
LEMMA StepTurnAccepted == TypeOK /\ SenderInv /\ TurnAccepted /\ [Next]_vars => TurnAccepted'
  <1> SUFFICES ASSUME TypeOK, SenderInv, TurnAccepted, [Next]_vars,
                      NEW u \in Turn, NEW d \in SegmentsOf[u], NEW e \in SegmentsOf[u],
                      Present(d)'
               PROVE  /\ <<e, TargetOf(rows'[d].destination)>> \in accepted'
                      /\ Present(e)' => rows'[e].destination = rows'[d].destination
    BY DEF TurnAccepted
  <1> DEFINE Whole == /\ <<e, TargetOf(rows'[d].destination)>> \in accepted'
                      /\ Present(e)' => rows'[e].destination = rows'[d].destination
  <1>0. d \in Doc /\ e \in Doc
    BY OutboxAssumption
  <1>1. ASSUME NEW p \in Proc, NEW t \in Turn, Admit(p, t) PROVE Whole
    <2>1. CASE t = u
      BY <1>1, <2>1, AdmitEffect
    <2>2. CASE t # u
      <3>1. d \notin SegmentsOf[t] /\ e \notin SegmentsOf[t]
        BY <2>2, OutboxAssumption
      <3>2. rows'[d] = rows[d] /\ rows'[e] = rows[e] /\ accepted \subseteq accepted'
        BY <1>0, <1>1, <3>1, AdmitEffect
      <3>3. QED
        BY <3>2 DEF TurnAccepted, Present
    <2>3. QED
      BY <2>1, <2>2
  <1>2. ASSUME NEW p \in Proc, CompleteClaim(p) PROVE Whole
    <2>1. Retires(p)
      BY <1>2, CompleteRetires
    <2>2. \A x \in Doc : Present(x)' => rows'[x] = rows[x]
      BY <2>1 DEF Retires, Present, NoRow, TypeOK
    <2>3. QED
      BY <1>0, <2>1, <2>2 DEF TurnAccepted, Present, Retires
  <1>3. CASE KeepsQueue
    BY <1>0, <1>3 DEF KeepsQueue, RowKept, TurnAccepted
  <1>4. QED
    BY <1>1, <1>2, <1>3, QueueCases

\* The attempt is counted by the claim, before its request.
LEMMA StepAttempts ==
  TypeInv /\ SenderInv /\ AttemptsCounted /\ AttemptAhead /\ [Next]_vars
    => (AttemptsCounted /\ AttemptAhead)'
  <1> SUFFICES ASSUME TypeOK, ClaimsADocument, SenderInv, AttemptsCounted, AttemptAhead,
                      [Next]_vars
               PROVE  AttemptsCounted' /\ AttemptAhead'
    BY DEF TypeInv
  <1> USE DEF TypeOK
  <1>0. /\ \A d \in Doc : rows[d].attempt_count \in Nat /\ tries[d] \in Nat
        /\ \A p \in Proc : pc[p] = "claimed" => claim[p].doc \in Doc /\ ClaimMatches(p)
    BY OutboxAssumption DEF Row, ClaimsADocument, SenderInv, ClaimHeld, Delivering
  <1>1. ASSUME NEW p \in Proc, NEW t \in Turn, Admit(p, t)
        PROVE  AttemptsCounted' /\ AttemptAhead'
    <2>1. ASSUME NEW d \in Doc, Present(d)' PROVE tries'[d] <= rows'[d].attempt_count
      <3>1. CASE Present(d) \/ d \notin SegmentsOf[t]
        <4>1. rows'[d] = rows[d] /\ tries'[d] = tries[d]
          BY <1>1, <3>1, AdmitEffect
        <4>2. d \in PresentDocs
          BY <2>1, <4>1 DEF Present, PresentDocs
        <4>3. QED
          BY <4>1, <4>2 DEF AttemptsCounted
      <3>2. CASE ~Present(d) /\ d \in SegmentsOf[t]
        <4>1. rows'[d].attempt_count = 0 /\ tries'[d] = 0
          BY <1>1, <3>2, AdmitEffect
        <4>2. QED
          BY <4>1
      <3>3. QED
        BY <3>1, <3>2
    <2>2. AttemptAhead'
      <3> SUFFICES ASSUME NEW q \in Proc, pc'[q] = "claimed"
                   PROVE  tries'[claim'[q].doc] < claim'[q].attempt
        BY DEF AttemptAhead
      <3>1. pc[q] = "claimed" /\ claim'[q] = claim[q]
        BY <1>1, AdmitEffect
      <3>2. Present(claim[q].doc) /\ claim[q].doc \in Doc
        BY <1>0, <3>1 DEF ClaimMatches, Present
      <3>3. tries'[claim[q].doc] = tries[claim[q].doc]
        BY <1>1, <3>2, AdmitEffect
      <3>4. QED
        BY <3>1, <3>3 DEF AttemptAhead
    <2>3. QED
      BY <2>1, <2>2 DEF AttemptsCounted, PresentDocs
  <1>2. ASSUME NEW p \in Proc, Dispatch(p) PROVE AttemptsCounted' /\ AttemptAhead'
    <2> DEFINE d == claim[p].doc
    <2>1. d \in Doc /\ rows[d].attempt_count = claim[p].attempt /\ tries[d] < claim[p].attempt
      BY <1>0, <1>2 DEF Dispatch, Goto, AttemptAhead, ClaimMatches
    <2>2. tries'[d] <= rows'[d].attempt_count
      BY <1>0, <1>2, <2>1 DEF Dispatch
    <2>3. \A e \in Doc \ {d} : tries'[e] = tries[e]
      BY <1>2, <2>1 DEF Dispatch
    <2>4. AttemptsCounted'
      BY <1>2, <2>2, <2>3 DEF Dispatch, AttemptsCounted, PresentDocs, Present
    <2>5. AttemptAhead'
      <3>1. \A q \in Proc : pc'[q] # "claimed"
        <4>1. \A q \in Proc : pc[q] = "claimed" => q = p
          BY <1>2, OneOwner DEF Dispatch, Goto, Owning, Delivering, SenderInv
        <4>2. QED
          BY <1>2, <4>1 DEF Dispatch, Goto
      <3>2. QED
        BY <3>1 DEF AttemptAhead
    <2>6. QED
      BY <2>4, <2>5
  <1>3. ASSUME NEW p \in Proc, CompleteClaim(p) PROVE AttemptsCounted' /\ AttemptAhead'
    <2>1. Retires(p) /\ pc' = [pc EXCEPT ![p] = "own"] /\ claim' = [claim EXCEPT ![p] = NoClaim]
      BY <1>3, CompleteRetires DEF CompleteClaim, Transition, SenderInv, ClaimHeld, Delivering
    <2>2. \A d \in Doc : Present(d)' => rows'[d] = rows[d]
      BY <2>1 DEF Retires, Present, NoRow
    <2>3. QED
      BY <2>1, <2>2 DEF Retires, AttemptsCounted, AttemptAhead, PresentDocs, Present
  <1>4. CASE KeepsQueue /\ tries' = tries
    <2>1. AttemptsCounted'
      <3> SUFFICES ASSUME NEW d \in Doc, Present(d)' PROVE tries'[d] <= rows'[d].attempt_count
        BY DEF AttemptsCounted, PresentDocs
      <3>1. Present(d) /\ rows'[d].attempt_count >= rows[d].attempt_count
        BY <1>4 DEF KeepsQueue, RowKept
      <3>2. tries[d] <= rows[d].attempt_count
        BY <3>1 DEF AttemptsCounted, PresentDocs
      <3>3. rows'[d].attempt_count \in Nat
        BY StepTypeOK, OutboxAssumption DEF TypeInv, Row
      <3>4. QED
        BY <1>0, <1>4, <3>1, <3>2, <3>3
    <2>2. \/ \A q \in Proc : pc'[q] = "claimed" => pc[q] = "claimed" /\ claim'[q] = claim[q]
          \/ \E p \in Proc : ClaimDue(p)
      <3> DEFINE Same == \A q \in Proc : pc'[q] = "claimed" => pc[q] = "claimed" /\ claim'[q] = claim[q]
      <3>1. ASSUME NEW p \in Proc,
                   \/ Start(p) \/ RequestStop(p) \/ Exit(p) \/ Crash(p)
                   \/ TryAcquireProfileLock(p) \/ RecoverSending(p) \/ Release(p)
                   \/ LeaveOwnerLoop(p) \/ TransitionFails(p) \/ ClaimIfRunning(p) \/ ClaimEmpty(p)
            PROVE  Same
        BY <3>1 DEF Start, RequestStop, Exit, Crash, TryAcquireProfileLock, RecoverSending,
                    Release, LeaveOwnerLoop, TransitionFails, ClaimIfRunning, ClaimEmpty, Goto
      <3>2. ASSUME NEW p \in Proc,
                   \/ Dispatch(p) \/ DispatchRefused(p) \/ ReplyConfirmed(p) \/ ReplyFails(p)
                   \/ CallTimesOut(p) \/ TaskSettles(p) \/ SettlementObserved(p)
            PROVE  Same
        BY <3>2 DEF Dispatch, DispatchRefused, ReplyConfirmed, ReplyFails, CallTimesOut,
                    TaskSettles, SettlementObserved, Goto
      <3>3. ASSUME NEW p \in Proc, CompleteClaim(p) \/ RescheduleClaim(p) PROVE Same
        BY <3>3 DEF CompleteClaim, RescheduleClaim, Transition
      <3>4. ASSUME NEW p \in Proc, NEW t \in Turn, Admit(p, t) PROVE Same
        BY <3>4, AdmitEffect
      <3>5. CASE Store \/ ProbeSenderOwnership \/ ProbeReleases \/ Tick \/ ClockStepsBack \/ UNCHANGED vars
        BY <3>5 DEF Store, ProbeSenderOwnership, ProbeReleases, Tick, ClockStepsBack, vars
      <3>6. QED
        BY <3>1, <3>2, <3>3, <3>4, <3>5 DEF Next, SenderStep, Disturbance
    <2>3. ASSUME NEW p \in Proc, ClaimDue(p) PROVE AttemptAhead'
      <3>1. PICK d \in Due(p) :
              claim' = [claim EXCEPT ![p] = [doc |-> d, attempt |-> rows[d].attempt_count + 1]]
        BY <2>3 DEF ClaimDue
      <3>2. d \in Doc /\ tries[d] <= rows[d].attempt_count
        BY DEF Due, AttemptsCounted, PresentDocs, Present
      <3>3. tries'[d] < rows[d].attempt_count + 1
        BY <1>0, <1>4, <3>2
      <3>4. \A q \in Proc \ {p} : pc'[q] = "claimed" => pc[q] = "claimed" /\ claim'[q] = claim[q]
        BY <2>3, <3>1 DEF ClaimDue, Goto
      <3>5. QED
        BY <1>4, <3>1, <3>3, <3>4 DEF AttemptAhead
    <2>4. QED
      BY <1>4, <2>1, <2>2, <2>3 DEF AttemptAhead
  <1>5. tries' = tries \/ (\E p \in Proc, t \in Turn : Admit(p, t)) \/ \E p \in Proc : Dispatch(p)
    BY DEF Next, vars, SenderStep, Disturbance, Start, RequestStop, Exit, Crash,
       TryAcquireProfileLock, RecoverSending, Release, LeaveOwnerLoop, TransitionFails,
       ClaimIfRunning, ClaimEmpty,
       ProbeSenderOwnership, ProbeReleases, ClaimDue, DispatchRefused, Store,
       ReplyConfirmed, ReplyFails, CallTimesOut, TaskSettles, SettlementObserved,
       CompleteClaim, RescheduleClaim, Transition, Tick, ClockStepsBack, remote, ghosts
  <1>6. QED
    BY <1>1, <1>2, <1>3, <1>4, <1>5, QueueCases

\* What an earlier version left behind is whole turns, all of them owed.
LEMMA InitQueueInv == Init => QueueInv
  <1> SUFFICES ASSUME Init PROVE QueueInv
    OBVIOUS
  <1>1. \A d \in Doc : /\ Present(d) <=> d \in BacklogDocs
                       /\ rows[d].destination = BacklogDestination
    BY DEF Init, Present, NoRow
  <1>2. accepted = BacklogDocs \X {BacklogTarget} /\ TargetOf(BacklogDestination) = BacklogTarget
    BY DEF Init, TargetOf, BacklogDestination
  <1>3. BacklogDocs \subseteq Doc
    BY OutboxAssumption DEF BacklogDocs
  <1>4. NoLoss
    BY <1>1, <1>2, <1>3 DEF NoLoss
  <1>5. Isolation
    BY <1>1, <1>2 DEF Isolation, PresentDocs, Init
  <1>6. TurnAccepted
    <2> SUFFICES ASSUME NEW t \in Turn, NEW d \in SegmentsOf[t], NEW e \in SegmentsOf[t],
                        Present(d)
                 PROVE  /\ <<e, TargetOf(rows[d].destination)>> \in accepted
                        /\ rows[e].destination = rows[d].destination
      BY DEF TurnAccepted
    <2>1. d \in Doc /\ e \in Doc
      BY OutboxAssumption
    <2>2. PICK u \in Backlog : d \in SegmentsOf[u]
      BY <1>1, <2>1 DEF BacklogDocs
    <2>3. t = u
      BY <2>2, OutboxAssumption
    <2>4. e \in BacklogDocs
      BY <2>2, <2>3 DEF BacklogDocs
    <2>5. QED
      BY <1>1, <1>2, <2>1, <2>4
  <1>7. AttemptsCounted /\ AttemptAhead
    BY DEF Init, AttemptsCounted, AttemptAhead, PresentDocs, NoRow
  <1>8. QED
    BY <1>4, <1>5, <1>6, <1>7 DEF QueueInv

\* The inductive invariant: types, the sender's hold and the queue's debts.
OutboxInv == TypeInv /\ SenderInv /\ QueueInv

\* OutboxInv is an invariant of the specification.
THEOREM OutboxInvariant == Spec => []OutboxInv
  <1>1. Init => OutboxInv
    BY InitTypeInv, InitSenderInv, InitQueueInv DEF OutboxInv
  <1>2. OutboxInv /\ [Next]_vars => OutboxInv'
    BY StepSenderInv, StepNoLoss, StepIsolation, StepTurnAccepted, StepAttempts
    DEF OutboxInv, TypeInv, QueueInv
  <1>3. QED
    BY <1>1, <1>2, PTL DEF Spec

\* An accepted document stays queued for its target until that target holds
\* it, through crashes, timeouts, lost replies and lost transitions.
THEOREM NothingLost == Spec => []NoLoss
  <1>1. OutboxInv => NoLoss
    BY DEF OutboxInv, QueueInv
  <1>2. QED
    BY <1>1, OutboxInvariant, PTL

\* Whatever configurations processes are restarted with, nothing is sent to
\* a destination it was not accepted for.
THEOREM DestinationsIsolated == Spec => []Isolation
  <1>1. OutboxInv => Isolation
    BY DEF OutboxInv, QueueInv
  <1>2. QED
    BY <1>1, OutboxInvariant, PTL

\* A turn is in the queue in full, but for what its target already holds.
THEOREM TurnsWhole == Spec => []WholeTurns
  <1>1. OutboxInv => WholeTurns
    <2> SUFFICES ASSUME OutboxInv, NEW t \in Turn, NEW d \in SegmentsOf[t],
                        NEW e \in SegmentsOf[t], Present(d), ~Present(e)
                 PROVE  <<e, TargetOf(rows[d].destination)>> \in stored
      BY DEF WholeTurns, OutboxInv, QueueInv, TurnAccepted
    <2>1. <<e, TargetOf(rows[d].destination)>> \in accepted
      BY DEF OutboxInv, QueueInv, TurnAccepted
    <2>2. QED
      BY <2>1 DEF OutboxInv, QueueInv, NoLoss
  <1>2. QED
    BY <1>1, OutboxInvariant, PTL

\* No crash makes the persisted attempt_count forget a request.
THEOREM AttemptsNeverForgotten == Spec => []AttemptsCounted
  <1>1. OutboxInv => AttemptsCounted
    BY DEF OutboxInv, QueueInv
  <1>2. QED
    BY <1>1, OutboxInvariant, PTL

\* A request with an attachment goes out only under the policy its row was
\* admitted with: the fingerprint binds it (multimodal_destination_fingerprint).
THEOREM PolicyIsBinding == Spec => []PolicyBinds
  <1>1. OutboxInv => PolicyBinds
    <2> SUFFICES ASSUME OutboxInv, NEW p \in Proc, pc[p] \in {"calling", "settling", "confirmed"},
                        rows[claim[p].doc].destination[1] = "mm"
                 PROVE  rows[claim[p].doc].destination[3] = config[p].policy
      BY DEF PolicyBinds
    <2>1. rows[claim[p].doc].destination \in Matching(config[p])
      BY DEF OutboxInv, SenderInv, ClaimHeld, Delivering
    <2>2. QED
      BY <2>1 DEF Matching, Fingerprint
  <1>2. QED
    BY <1>1, OutboxInvariant, PTL

\* Neither recovery, retry nor a repeated admission rewrites a queued row.
THEOREM RowsAreKept == Spec => RowsKept
  <1>1. OutboxInv /\ [Next]_vars => [\A d \in Doc : RowKept(d)]_vars
    <2> SUFFICES ASSUME TypeOK, SenderInv, [Next]_vars, NEW d \in Doc PROVE RowKept(d)
      BY DEF OutboxInv, TypeInv
    <2>1. rows[d].attempt_count \in Int
      BY OutboxAssumption DEF TypeOK, Row
    <2>2. ASSUME NEW p \in Proc, NEW t \in Turn, Admit(p, t) PROVE RowKept(d)
      <3>1. Present(d) => rows'[d] = rows[d]
        BY <2>2, AdmitEffect
      <3>2. QED
        BY <2>1, <3>1 DEF RowKept
    <2>3. ASSUME NEW p \in Proc, CompleteClaim(p) PROVE RowKept(d)
      <3>1. Retires(p)
        BY <2>3, CompleteRetires
      <3>2. Present(d)' => rows'[d] = rows[d]
        BY <3>1 DEF Retires, Present, NoRow, TypeOK
      <3>3. QED
        BY <2>1, <3>2 DEF RowKept
    <2>4. QED
      BY <2>2, <2>3, QueueCases DEF KeepsQueue
  <1>2. QED
    BY <1>1, OutboxInvariant, PTL DEF Spec, RowsKept

-----------------------------------------------------------------------------
(***************************************************************************)
(* Capacity.  The bytes of the queue are a fold over a set, in the order   *)
(* CHOOSE takes its elements; that the order does not matter is what the   *)
(* first lemmas are about.                                                 *)
(***************************************************************************)
Taken(s) == CHOOSE d \in s : TRUE

Sums(f, S) ==
  f = [s \in SUBSET S |-> IF s = {} THEN 0 ELSE Size[Taken(s)] + f[s \ {Taken(s)}]]

Bytes(S) == MapThenSumSet(LAMBDA d : Size[d], S)

\* Finite sets of documents, up to a number of them.
UpTo(n) == {s \in SUBSET Doc : IsFiniteSet(s) /\ Cardinality(s) <= n}

\* What is left of a set when an element is taken.
LEMMA OneLess ==
  ASSUME NEW n \in Nat, NEW s \in UpTo(n + 1), NEW d \in s
  PROVE  s \ {d} \in UpTo(n) /\ Cardinality(s \ {d}) = Cardinality(s) - 1
  <1>1. /\ IsFiniteSet(s \ {d}) /\ Cardinality(s \ {d}) = Cardinality(s) - 1
        /\ Cardinality(s) \in Nat
    BY FS_RemoveElement, FS_CardinalityType DEF UpTo
  <1>2. QED
    BY <1>1 DEF UpTo

LEMMA NoneLeft == \A s \in UpTo(0) : s = {}
  <1>1. \A s \in UpTo(0) : Cardinality(s) = 0
    BY FS_CardinalityType DEF UpTo
  <1>2. QED
    BY <1>1, FS_EmptySet DEF UpTo

LEMMA EachCounted ==
  ASSUME NEW s \in SUBSET Doc, IsFiniteSet(s)
  PROVE  \E n \in Nat : s \in UpTo(n)
  <1>1. Cardinality(s) \in Nat
    BY FS_CardinalityType
  <1>2. s \in UpTo(Cardinality(s))
    BY <1>1 DEF UpTo
  <1>3. QED
    BY <1>1, <1>2

\* A function that adds up the sizes of sets exists.
LEMMA SumsExist ==
  ASSUME NEW S \in SUBSET Doc, IsFiniteSet(S)
  PROVE  \E f : Sums(f, S)
  <1> DEFINE Kind == [SUBSET S -> Nat]
             More(f) == [s \in SUBSET S |->
                           IF s = {} THEN 0 ELSE Size[Taken(s)] + f[s \ {Taken(s)}]]
             more == [f \in Kind |-> More(f)]
             none == [s \in SUBSET S |-> 0]
  <1>1. \A s \in SUBSET S : s # {} => Taken(s) \in s
    BY DEF Taken
  <1>2. ASSUME NEW f \in Kind PROVE More(f) \in Kind
    <2>1. ASSUME NEW s \in SUBSET S, s # {} PROVE Size[Taken(s)] + f[s \ {Taken(s)}] \in Nat
      <3>1. Size[Taken(s)] \in Nat /\ f[s \ {Taken(s)}] \in Nat
        BY <1>1, <2>1, CapacityAssumption
      <3>2. QED
        BY <3>1
    <2>2. QED
      BY <2>1
  <1>3. PICK sum : Iterates(sum, Kind, none, more)
    <2>1. more \in [Kind -> Kind] /\ none \in Kind
      BY <1>2
    <2> HIDE DEF more, none, Kind
    <2>2. QED
      BY <2>1, Recursion
  <1>4. ASSUME NEW n \in Nat PROVE sum[n] \in Kind /\ sum[n + 1] = More(sum[n])
    <2> HIDE DEF More, none, Kind
    <2>1. QED
      BY <1>3 DEF Iterates
  <1> DEFINE settled == {n \in Nat : \A s \in UpTo(n) : s \subseteq S => sum[n + 1][s] = sum[n][s]}
  <1>5. 0 \in settled
    <2>1. sum[0] = none
      <3> HIDE DEF none, more, Kind
      <3>1. QED
        BY <1>3 DEF Iterates
    <2>2. sum[0 + 1] = More(sum[0])
      <3> HIDE DEF More
      <3>1. QED
        BY <1>4
    <2>3. {} \in SUBSET S
      OBVIOUS
    <2>4. sum[0 + 1][{}] = 0 /\ sum[0][{}] = 0
      BY <2>1, <2>2, <2>3
    <2> HIDE DEF More, none
    <2>5. QED
      BY <2>4, NoneLeft
  <1>6. ASSUME NEW n \in Nat, n \in settled PROVE n + 1 \in settled
    <2> SUFFICES ASSUME NEW s \in UpTo(n + 1), s \subseteq S
                 PROVE  sum[n + 2][s] = sum[n + 1][s]
      BY DEF settled
    <2>1. sum[n + 2] = More(sum[n + 1]) /\ sum[n + 1] = More(sum[n])
      <3>1. n + 1 \in Nat /\ n + 1 + 1 = n + 2
        OBVIOUS
      <3> HIDE DEF More
      <3>2. QED
        BY <1>4, <3>1
    <2>2. CASE s = {}
      BY <2>1, <2>2
    <2>3. CASE s # {}
      <3>1. s \ {Taken(s)} \in UpTo(n) /\ s \ {Taken(s)} \subseteq S
        BY <1>1, <2>3, OneLess
      <3>2. sum[n + 1][s \ {Taken(s)}] = sum[n][s \ {Taken(s)}]
        BY <1>6, <3>1
      <3>3. QED
        BY <2>1, <2>3, <3>2
    <2>4. QED
      BY <2>2, <2>3
  <1>7. Nat \subseteq settled
    <2> HIDE DEF settled
    <2>1. QED
      BY <1>5, <1>6, SetInduction
  <1> DEFINE size == Cardinality(S)
             total == sum[size]
  <1>8. size \in Nat
    BY FS_CardinalityType
  <1>9. ASSUME NEW s \in SUBSET S PROVE s \in UpTo(size)
    BY FS_Subset DEF UpTo
  <1>10. ASSUME NEW s \in SUBSET S PROVE total[s] = More(total)[s]
    <2>1. sum[size + 1][s] = sum[size][s]
      BY <1>7, <1>8, <1>9
    <2>2. sum[size + 1] = More(sum[size])
      <3> HIDE DEF More
      <3>1. QED
        BY <1>4, <1>8
    <2>3. QED
      BY <2>1, <2>2
  <1>11. total \in Kind
    BY <1>4, <1>8
  <1>12. total = More(total)
    <2>1. \A s \in SUBSET S : total[s] = More(total)[s]
      BY <1>10
    <2> HIDE DEF total
    <2>2. QED
      BY <1>11, <2>1
  <1> HIDE DEF total
  <1>13. QED
    BY <1>12 DEF Sums

\* Any element may be taken first.
AddsUp(f, s) == f[s] \in Nat /\ \A d \in s : f[s] = Size[d] + f[s \ {d}]

\* In whatever order the elements are taken, and from however large a set.
LEMMA OrderIsFree ==
  ASSUME NEW S \in SUBSET Doc, NEW f, Sums(f, S)
  PROVE  \A n \in Nat : \A s \in UpTo(n) : s \subseteq S => AddsUp(f, s)
  <1> DEFINE free == {n \in Nat : \A s \in UpTo(n) : s \subseteq S => AddsUp(f, s)}
  <1>1. f[{}] = 0
    BY DEF Sums
  <1>2. AddsUp(f, {})
    BY <1>1 DEF AddsUp
  <1>3. ASSUME NEW s \in SUBSET S, s # {}
        PROVE  Taken(s) \in s /\ f[s] = Size[Taken(s)] + f[s \ {Taken(s)}]
    <2>1. Taken(s) \in s
      BY <1>3 DEF Taken
    <2>2. QED
      BY <1>3, <2>1 DEF Sums
  <1>4. 0 \in free
    BY <1>2, NoneLeft
  <1>5. ASSUME NEW n \in Nat, n \in free PROVE n + 1 \in free
    <2> SUFFICES ASSUME NEW s \in UpTo(n + 1), s \subseteq S, s # {} PROVE AddsUp(f, s)
      <3>1. \A s \in UpTo(n + 1) : s = {} => AddsUp(f, s)
        BY <1>2, Zenon
      <3>2. QED
        BY <3>1
    <2> DEFINE x == Taken(s)
               rest == s \ {x}
    <2>1. x \in s /\ x \in Doc /\ Size[x] \in Nat /\ f[s] = Size[x] + f[rest]
      BY <1>3, CapacityAssumption
    <2> HIDE DEF x
    <2>2. rest \in UpTo(n) /\ rest \subseteq S
      BY <2>1, OneLess
    <2>3. AddsUp(f, rest)
      BY <1>5, <2>2
    <2>4. f[s] \in Nat
      BY <2>1, <2>3 DEF AddsUp
    <2>5. ASSUME NEW d \in s, d # x PROVE f[s] = Size[d] + f[s \ {d}]
      <3> DEFINE both == s \ {x, d}
      <3>1. d \in rest /\ rest \ {d} = both /\ x \in s \ {d} /\ (s \ {d}) \ {x} = both
        BY <2>1, <2>5
      <3>2. s \ {d} \in UpTo(n) /\ s \ {d} \subseteq S
        BY OneLess
      <3>3. AddsUp(f, s \ {d})
        BY <1>5, <3>2
      <3>4. f[rest] = Size[d] + f[both] /\ f[s \ {d}] = Size[x] + f[both]
        BY <2>3, <3>1, <3>3 DEF AddsUp
      <3>5. both \in UpTo(n) /\ both \subseteq S
        <4>1. both \subseteq rest /\ IsFiniteSet(rest)
          BY <2>2 DEF UpTo
        <4>2. Cardinality(both) <= Cardinality(rest) /\ IsFiniteSet(both)
          BY <4>1, FS_Subset
        <4>3. Cardinality(both) \in Nat /\ Cardinality(rest) \in Nat
          BY <4>1, <4>2, FS_CardinalityType
        <4>4. Cardinality(rest) <= n
          BY <2>2 DEF UpTo
        <4>5. Cardinality(both) <= n
          BY <4>2, <4>3, <4>4
        <4>6. QED
          BY <2>2, <4>1, <4>2, <4>5 DEF UpTo
      <3>6. f[both] \in Nat
        BY <1>5, <3>5 DEF AddsUp
      <3>7. Size[d] \in Nat
        BY CapacityAssumption
      <3> HIDE DEF both, rest
      <3>8. QED
        BY <2>1, <3>4, <3>6, <3>7
    <2>6. \A d \in s : f[s] = Size[d] + f[s \ {d}]
      BY <2>1, <2>5
    <2>7. QED
      BY <2>4, <2>6 DEF AddsUp
  <1>6. Nat \subseteq free
    <2> HIDE DEF free
    <2>1. QED
      BY <1>4, <1>5, SetInduction
  <1>7. QED
    BY <1>6

LEMMA BytesIs ==
  ASSUME NEW S
  PROVE  Bytes(S) = (CHOOSE f : Sums(f, S))[S]
  BY DEF Bytes, MapThenSumSet, MapThenFoldSet, Sums, Taken

\* Two sums agree where both are defined.
LEMMA SumsAgree ==
  ASSUME NEW S \in SUBSET Doc, NEW T \in SUBSET S, NEW f, NEW g, Sums(f, S), Sums(g, T)
  PROVE  \A n \in Nat : \A s \in UpTo(n) : s \subseteq T => f[s] = g[s]
  <1> DEFINE same == {n \in Nat : \A s \in UpTo(n) : s \subseteq T => f[s] = g[s]}
  <1>1. f[{}] = 0 /\ g[{}] = 0
    BY DEF Sums
  <1>2. 0 \in same
    BY <1>1, NoneLeft
  <1>3. ASSUME NEW n \in Nat, n \in same PROVE n + 1 \in same
    <2> SUFFICES ASSUME NEW s \in UpTo(n + 1), s \subseteq T, s # {} PROVE f[s] = g[s]
      BY <1>1
    <2>1. Taken(s) \in s
      BY DEF Taken
    <2>2. s \ {Taken(s)} \in UpTo(n) /\ s \ {Taken(s)} \subseteq T
      BY <2>1, OneLess
    <2>3. f[s \ {Taken(s)}] = g[s \ {Taken(s)}]
      BY <1>3, <2>2
    <2>4. /\ f[s] = Size[Taken(s)] + f[s \ {Taken(s)}]
          /\ g[s] = Size[Taken(s)] + g[s \ {Taken(s)}]
      BY DEF Sums
    <2>5. QED
      BY <2>3, <2>4
  <1>4. Nat \subseteq same
    <2> HIDE DEF same
    <2>1. QED
      BY <1>2, <1>3, SetInduction
  <1>5. QED
    BY <1>4

\* Without one of its documents a set has no more bytes.
LEMMA FewerBytes ==
  ASSUME NEW S \in SUBSET Doc, IsFiniteSet(S), NEW d \in S
  PROVE  /\ Bytes(S) \in Nat /\ Bytes(S \ {d}) \in Nat
         /\ Bytes(S \ {d}) <= Bytes(S)
  <1> DEFINE T == S \ {d}
             f == CHOOSE sum : Sums(sum, S)
             g == CHOOSE sum : Sums(sum, T)
  <1>1. T \in SUBSET Doc /\ IsFiniteSet(T) /\ T \subseteq S
    BY FS_Subset
  <1>2. Sums(f, S)
    BY SumsExist
  <1>3. Sums(g, T)
    BY <1>1, SumsExist
  <1>4. Bytes(S) = f[S] /\ Bytes(T) = g[T]
    BY BytesIs
  <1> HIDE DEF f, g
  <1>5. PICK n \in Nat : S \in UpTo(n)
    BY EachCounted
  <1>6. PICK m \in Nat : T \in UpTo(m)
    <2> HIDE DEF T
    <2>1. QED
      BY <1>1, EachCounted
  <1>7. f[S] \in Nat /\ f[S] = Size[d] + f[T]
    <2>1. AddsUp(f, S)
      BY <1>2, <1>5, OrderIsFree
    <2>2. QED
      BY <2>1 DEF AddsUp
  <1>8. f[T] = g[T]
    <2> HIDE DEF T
    <2>1. QED
      BY <1>1, <1>2, <1>3, <1>6, SumsAgree
  <1>9. g[T] \in Nat
    <2> HIDE DEF T
    <2>1. QED
      BY <1>1, <1>3, <1>6, OrderIsFree DEF AddsUp
  <1>10. Size[d] \in Nat
    BY CapacityAssumption
  <1>11. QED
    BY <1>4, <1>7, <1>8, <1>9, <1>10

\* What a step does to the queued documents: an admission that fits adds
\* some, a completion takes one away.
LEMMA QueuedCases ==
  ASSUME TypeOK, SenderInv, [Next]_vars
  PROVE  \/ PresentDocs' = PresentDocs
         \/ \E d \in PresentDocs : PresentDocs' = PresentDocs \ {d}
         \/ \E t \in Turn : Fits(t) /\ PresentDocs' = PresentDocs \cup NewSegments(t)
  <1>1. ASSUME NEW p \in Proc, NEW t \in Turn, Admit(p, t)
        PROVE  Fits(t) /\ PresentDocs' = PresentDocs \cup NewSegments(t)
    <2>1. SegmentsOf[t] \subseteq Doc
      BY OutboxAssumption
    <2>2. rows' = [d \in Doc |-> IF d \in NewSegments(t)
                                 THEN NewRow(Fingerprint(config[p], SchemaOf[t])) ELSE rows[d]]
      BY <1>1 DEF Admit
    <2>3. \A d \in NewSegments(t) : d \in Doc /\ rows'[d].state = "pending"
      BY <2>1, <2>2 DEF NewSegments, NewRow
    <2>4. \A d \in Doc \ NewSegments(t) : rows'[d] = rows[d]
      BY <2>2
    <2>5. PresentDocs' = PresentDocs \cup NewSegments(t)
      BY <2>3, <2>4 DEF PresentDocs, Present
    <2>6. QED
      BY <1>1, <2>5 DEF Admit
  <1>2. ASSUME NEW p \in Proc, CompleteClaim(p)
        PROVE  \E d \in PresentDocs : PresentDocs' = PresentDocs \ {d}
    <2> DEFINE d == claim[p].doc
    <2>1. d \in PresentDocs /\ rows' = [rows EXCEPT ![d] = NoRow]
      BY <1>2, CompleteRetires DEF Retires, PresentDocs
    <2> HIDE DEF d
    <2>2. \A e \in Doc : Present(e)' <=> Present(e) /\ e # d
      BY <2>1 DEF Present, NoRow, TypeOK
    <2>3. PresentDocs' = PresentDocs \ {d}
      BY <2>2 DEF PresentDocs
    <2>4. QED
      BY <2>1, <2>3
  <1>3. KeepsQueue => PresentDocs' = PresentDocs
    BY DEF KeepsQueue, PresentDocs
  <1>4. QED
    BY <1>1, <1>2, <1>3, QueueCases

\* The queue is finite: a turn has so many segments.
QueueIsFinite == IsFiniteSet(PresentDocs)

LEMMA InitFinite == Init => QueueIsFinite
  <1> SUFFICES ASSUME Init PROVE QueueIsFinite
    OBVIOUS
  <1>1. PresentDocs = BacklogDocs
    BY OutboxAssumption DEF Init, PresentDocs, Present, NoRow, BacklogDocs
  <1> DEFINE segments == {SegmentsOf[t] : t \in Backlog}
             segmentsOf == [t \in Backlog |-> SegmentsOf[t]]
  <1>2. IsFiniteSet(segments)
    <2>1. segmentsOf \in Surjection(Backlog, segments)
      BY DEF Surjection
    <2> HIDE DEF segmentsOf, segments
    <2>2. QED
      BY <2>1, CapacityAssumption, FS_Surjection
  <1>3. \A s \in segments : IsFiniteSet(s)
    BY CapacityAssumption, OutboxAssumption
  <1>4. IsFiniteSet(UNION segments)
    BY <1>2, <1>3, FS_UNION
  <1>5. QED
    BY <1>1, <1>4 DEF QueueIsFinite, BacklogDocs

\* The limits in the state before a step and in the state after.
LEMMA CapacityIs ==
  /\ WithinCapacity <=> Cardinality(PresentDocs) <= MaxRows /\ Bytes(PresentDocs) <= MaxBytes
  /\ WithinCapacity' <=> Cardinality(PresentDocs') <= MaxRows /\ Bytes(PresentDocs') <= MaxBytes
  BY DEF WithinCapacity, Bytes, MapThenSumSet, MapThenFoldSet

\* An admission leaves the queue within the limits, whatever was in it.
LEMMA AdmittedFits ==
  ASSUME TypeOK, QueueIsFinite, NEW t \in Turn, Fits(t),
         PresentDocs' = PresentDocs \cup NewSegments(t)
  PROVE  QueueIsFinite' /\ WithinCapacity'
  <1> DEFINE new == NewSegments(t)
  <1>1. IsFiniteSet(new) /\ PresentDocs \cap new = {}
    <2>1. new \subseteq SegmentsOf[t] /\ PresentDocs \cap new = {}
      BY DEF NewSegments, PresentDocs
    <2>2. QED
      BY <2>1, CapacityAssumption, FS_Subset
  <1>2. /\ IsFiniteSet(PresentDocs \cup new)
        /\ Cardinality(PresentDocs \cup new)
             = Cardinality(PresentDocs) + Cardinality(new) - Cardinality(PresentDocs \cap new)
    <2> HIDE DEF new
    <2>1. QED
      BY <1>1, FS_Union DEF QueueIsFinite
  <1>3. Cardinality(PresentDocs \cap new) = 0
    <2> HIDE DEF new
    <2>1. QED
      BY <1>1, FS_EmptySet
  <1>4. Cardinality(PresentDocs) \in Nat /\ Cardinality(new) \in Nat
    <2> HIDE DEF new
    <2>1. QED
      BY <1>1, FS_CardinalityType DEF QueueIsFinite
  <1>5. Cardinality(PresentDocs') <= MaxRows
    BY <1>2, <1>3, <1>4, CapacityAssumption DEF Fits
  <1>6. Bytes(PresentDocs') <= MaxBytes
    BY DEF Fits, Bytes, MapThenSumSet, MapThenFoldSet
  <1>7. QED
    BY <1>2, <1>5, <1>6, CapacityIs DEF QueueIsFinite

\* A completion leaves the queue within the limits it was within.
LEMMA CompletedFits ==
  ASSUME QueueIsFinite, NEW d \in PresentDocs, PresentDocs' = PresentDocs \ {d}
  PROVE  QueueIsFinite' /\ (WithinCapacity => WithinCapacity')
  <1>1. PresentDocs \in SUBSET Doc
    BY DEF PresentDocs
  <1>2. /\ IsFiniteSet(PresentDocs') /\ Cardinality(PresentDocs') \in Nat
        /\ Cardinality(PresentDocs) \in Nat
        /\ Cardinality(PresentDocs') = Cardinality(PresentDocs) - 1
    BY FS_RemoveElement, FS_CardinalityType DEF QueueIsFinite
  <1>3. /\ Bytes(PresentDocs) \in Nat /\ Bytes(PresentDocs \ {d}) \in Nat
        /\ Bytes(PresentDocs \ {d}) <= Bytes(PresentDocs)
    BY <1>1, FewerBytes DEF QueueIsFinite
  <1>4. ASSUME WithinCapacity PROVE WithinCapacity'
    <2>1. Cardinality(PresentDocs) <= MaxRows /\ Bytes(PresentDocs) <= MaxBytes
      BY <1>4, CapacityIs
    <2>2. Cardinality(PresentDocs') <= MaxRows /\ Bytes(PresentDocs') <= MaxBytes
      BY <1>2, <1>3, <2>1, CapacityAssumption
    <2>3. QED
      BY <2>2, CapacityIs
  <1>5. QED
    BY <1>2, <1>4 DEF QueueIsFinite

\* Limits are not exceeded by a step, and the queue stays finite.
LEMMA StepCapacity ==
  ASSUME TypeOK, SenderInv, QueueIsFinite, [Next]_vars
  PROVE  /\ QueueIsFinite' /\ (WithinCapacity => WithinCapacity')
         /\ PresentDocs' \subseteq PresentDocs \/ WithinCapacity'
  <1>1. ASSUME PresentDocs' = PresentDocs
        PROVE  QueueIsFinite' /\ (WithinCapacity => WithinCapacity')
    BY <1>1, CapacityIs DEF QueueIsFinite
  <1>2. QED
    BY <1>1, QueuedCases, AdmittedFits, CompletedFits

\* However rows come and go, the queue has room for what is admitted: no step
\* adds a row beyond max_pending_rows or max_pending_bytes, even where the
\* limits were lowered below what is queued already.
AdmissionsFit == [][PresentDocs' \subseteq PresentDocs \/ WithinCapacity']_vars

\* AdmissionsFit is what _admit_in_transaction compares with the limits.
THEOREM AdmissionsAreBounded == Spec => AdmissionsFit
  <1>1. Init => QueueIsFinite
    BY InitFinite
  <1>2. OutboxInv /\ QueueIsFinite /\ [Next]_vars => QueueIsFinite'
    BY StepCapacity DEF OutboxInv, TypeInv
  <1>3. OutboxInv /\ QueueIsFinite /\ [Next]_vars
          => [PresentDocs' \subseteq PresentDocs \/ WithinCapacity']_vars
    BY StepCapacity DEF OutboxInv, TypeInv
  <1>4. QED
    BY <1>1, <1>2, <1>3, OutboxInvariant, PTL DEF Spec, AdmissionsFit

\* What an earlier version left is within the limits of this one.
BacklogFits ==
  Cardinality(BacklogDocs) <= MaxRows /\ MapThenSumSet(LAMBDA d : Size[d], BacklogDocs) <= MaxBytes

\* A queue that began within its limits stays within them.
THEOREM QueueIsBounded ==
  ASSUME BacklogFits
  PROVE  Spec => []WithinCapacity
  <1>1. Init => QueueIsFinite
    BY InitFinite
  <1>2. Init => WithinCapacity
    <2>1. Init => PresentDocs = BacklogDocs
      BY OutboxAssumption DEF Init, PresentDocs, Present, NoRow, BacklogDocs
    <2>2. QED
      BY <2>1 DEF BacklogFits, WithinCapacity
  <1>3. OutboxInv /\ QueueIsFinite /\ WithinCapacity /\ [Next]_vars
          => QueueIsFinite' /\ WithinCapacity'
    BY StepCapacity DEF OutboxInv, TypeInv
  <1>4. QED
    BY <1>1, <1>2, <1>3, OutboxInvariant, PTL DEF Spec

-----------------------------------------------------------------------------
(***************************************************************************)
(* The queue implements Delivery.                                          *)
(***************************************************************************)

\* An empty table, or the backlog, is an initial queue of Delivery.
LEMMA InitRefines == Init => Promise!Init
  <1> SUFFICES ASSUME Init PROVE Promise!Init
    OBVIOUS
  <1>1. BacklogDocs \subseteq Doc /\ BacklogTarget \in Target /\ Nobody \notin Target
    BY OutboxAssumption DEF BacklogDocs
  <1>2. \A d \in Doc : QueuedFor(d) = IF d \in BacklogDocs THEN BacklogTarget ELSE Nobody
    BY DEF Init, QueuedFor, Present, NoRow, BacklogDestination, TargetOf
  <1>3. accepted = {m \in Doc \X Target :
                      [d \in Doc |-> IF d \in BacklogDocs THEN BacklogTarget ELSE Nobody][m[1]] = m[2]}
    BY <1>1 DEF Init
  <1>4. QED
    BY <1>2, <1>3 DEF Init, Promise!Init

\* An admission accepts a whole turn.
LEMMA AdmitRefines ==
  ASSUME TypeOK, NEW p \in Proc, NEW t \in Turn, Admit(p, t)
  PROVE  Promise!Accept(t, config[p].target)
  <1> DEFINE g == config[p].target
             destination == Fingerprint(config[p], SchemaOf[t])
  <1>1. \A d \in SegmentsOf[t] : QueuedFor(d) \in {Nobody, g}
    BY AdmitEffect DEF Admit, Conflict, QueuedFor
  <1>2. ASSUME NEW d \in Doc PROVE QueuedFor(d)' = IF d \in SegmentsOf[t] THEN g ELSE QueuedFor(d)
    <2>1. CASE d \in SegmentsOf[t]
      BY <2>1, AdmitEffect DEF QueuedFor
    <2>2. CASE d \notin SegmentsOf[t]
      <3>1. rows'[d] = rows[d]
        BY <2>2, AdmitEffect
      <3>2. QED
        BY <2>2, <3>1 DEF QueuedFor, Present
    <2>3. QED
      BY <2>1, <2>2
  <1>3. SegmentsOf[t] \X {g} = {<<d, g>> : d \in SegmentsOf[t]}
    OBVIOUS
  <1>4. accepted' = accepted \cup {<<d, g>> : d \in SegmentsOf[t]} /\ stored' = stored
    BY <1>3, AdmitEffect
  <1>5. \A d \in SegmentsOf[t] : d \in Doc
    BY OutboxAssumption
  <1>6. QED
    BY <1>1, <1>2, <1>4, <1>5 DEF Promise!Accept

\* Every step is one of Delivery's, or invisible to it.
LEMMA StepRefines == OutboxInv /\ [Next]_vars => [Promise!Next]_(Promise!vars)
  <1> SUFFICES ASSUME TypeOK, SenderInv, Isolation, [Next]_vars
               PROVE  Promise!Next \/ UNCHANGED Promise!vars
    BY DEF OutboxInv, TypeInv, QueueInv
  <1>1. ASSUME NEW p \in Proc, NEW t \in Turn, Admit(p, t) PROVE Promise!Next
    BY <1>1, AdmitRefines, AdmitEffect DEF Promise!Next
  <1>2. ASSUME NEW p \in Proc, CompleteClaim(p) PROVE Promise!Next
    <2> DEFINE d == claim[p].doc
    <2>1. Retires(p)
      BY <1>2, CompleteRetires
    <2>2. QueuedFor(d) = TargetOf(rows[d].destination) /\ d \in Doc
      BY <2>1 DEF Retires, QueuedFor
    <2>3. \A e \in Doc : QueuedFor(e)' = IF e = d THEN Nobody ELSE QueuedFor(e)
      BY <2>1 DEF Retires, QueuedFor, Present, NoRow, TypeOK
    <2>4. Promise!Retire(d)
      BY <2>1, <2>2, <2>3 DEF Promise!Retire, Retires
    <2>5. QED
      BY <2>2, <2>4 DEF Promise!Next
  <1>3. ASSUME KeepsQueue, stored' = stored PROVE UNCHANGED Promise!vars
    <2>1. \A d \in Doc : QueuedFor(d)' = QueuedFor(d)
      BY <1>3 DEF KeepsQueue, RowKept, QueuedFor
    <2>2. QED
      BY <1>3, <2>1 DEF KeepsQueue, Promise!vars
  <1>4. CASE Store
    <2>1. PICK m \in posted : stored' = stored \cup {m}
      BY <1>4 DEF Store
    <2>2. m \in accepted /\ m \in Doc \X Target
      BY DEF Isolation, TypeOK
    <2>3. PICK d \in Doc, g \in Target : m = <<d, g>>
      BY <2>2
    <2>4. rows' = rows /\ accepted' = accepted
      BY <1>4 DEF Store, ghosts
    <2>5. \A e \in Doc : QueuedFor(e)' = QueuedFor(e)
      BY <2>4 DEF QueuedFor, Present
    <2>6. Promise!Receive(d, g)
      BY <2>1, <2>2, <2>3, <2>4, <2>5 DEF Promise!Receive
    <2>7. QED
      BY <2>6 DEF Promise!Next
  <1>5. stored' = stored \/ Store
    BY DEF Next, vars, SenderStep, Disturbance, Start, RequestStop, Exit, Crash, Admit,
       TryAcquireProfileLock, RecoverSending, Release, LeaveOwnerLoop, TransitionFails,
       ClaimIfRunning, ClaimEmpty,
       ProbeSenderOwnership, ProbeReleases, ClaimDue, Dispatch, DispatchRefused,
       ReplyConfirmed, ReplyFails, CallTimesOut, TaskSettles, SettlementObserved,
       CompleteClaim, RescheduleClaim, Transition, Tick, ClockStepsBack, remote, ghosts
  <1>6. QED
    BY <1>1, <1>2, <1>3, <1>4, <1>5, QueueCases

\* The queue, with every interleaving of senders, crashes and retries, is an
\* at-least-once delivery of whole turns.
THEOREM OutboxImplementsDelivery == Spec => ImplementsDelivery
  <1>1. QED
    BY InitRefines, StepRefines, OutboxInvariant, PTL DEF Spec, ImplementsDelivery, Promise!Spec
=============================================================================
