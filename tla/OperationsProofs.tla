--------------------------- MODULE OperationsProofs --------------------------
(***************************************************************************)
(* Theorems about the processes beside the gateway: the canary, the        *)
(* watchdog, the passive status and the operator's commands, for every     *)
(* number of polls, rows, commands and models.                             *)
(***************************************************************************)
EXTENDS MCOperations, FiniteSetTheorems, Induction, TLAPS
-----------------------------------------------------------------------------
(***************************************************************************)
(* The canary.  Its document is in the bank only if a retain was sent, and *)
(* no run ends on its own once one was: it has to pass the cleanup.        *)
(***************************************************************************)
CanaryShape ==
  /\ document => retain = "stored"
  /\ canaryAt \in {"health", "version"} => retain = "unsent"
  /\ canaryAt \in {"health", "version", "retain"} => polls = 0
  /\ canaryAt \in {"poll", "pause"} => polls < MaxPolls

CanaryInv == CanaryTypeOK /\ CanaryShape /\ CanaryLeavesNothing

LEMMA CanaryStarts == CanaryInit => CanaryInv
<1> SUFFICES ASSUME CanaryInit PROVE CanaryInv
  OBVIOUS
<1>1. CanaryTypeOK
  <2>1. polls \in 0..MaxPolls
    BY CanaryAssumption DEF CanaryInit
  <2>2. document \in BOOLEAN /\ named \in BOOLEAN
    BY Zenon DEF CanaryInit
  <2> QED
    BY <2>1, <2>2 DEF CanaryInit, CanaryTypeOK, CanaryStep
<1>2. /\ ~document /\ canaryAt \notin {"health", "version", "poll", "pause"}
      /\ polls = 0 /\ retain # "sent"
  BY DEF CanaryInit
<1>3. CanaryShape /\ CanaryLeavesNothing
  BY <1>2 DEF CanaryShape, CanaryLeavesNothing
<1> QED
  BY <1>1, <1>3 DEF CanaryInv

LEMMA CanarySteps == CanaryInv /\ [CanaryNext]_canaryVars => CanaryInv'
<1> SUFFICES ASSUME CanaryInv, [CanaryNext]_canaryVars PROVE CanaryInv'
  OBVIOUS
<1>0. CanaryTypeOK /\ CanaryShape /\ CanaryLeavesNothing
  BY DEF CanaryInv
<1>1. ASSUME RunCanary PROVE CanaryInv'
  <2>1. CanaryTypeOK'
    <3>1. polls' \in 0..MaxPolls
      BY <1>1, CanaryAssumption DEF RunCanary
    <3>2. document' \in BOOLEAN /\ named' \in BOOLEAN
      BY <1>1, Zenon DEF RunCanary
    <3> QED
      BY <1>1, <3>1, <3>2 DEF CanaryTypeOK, CanaryStep, RunCanary
  <2>2. CanaryShape'
    <3>1. ~document' /\ retain' = "unsent" /\ polls' = 0 /\ canaryAt' \notin {"poll", "pause"}
      BY <1>1 DEF RunCanary
    <3> QED
      BY <3>1 DEF CanaryShape
  <2>3. CanaryLeavesNothing'
    BY <1>0, <1>1 DEF CanaryShape, CanaryLeavesNothing, RunCanary
  <2> QED
    BY <2>1, <2>2, <2>3 DEF CanaryInv
<1>2. ASSUME CanaryTick PROVE CanaryInv'
  <2>1. CanaryTypeOK'
    BY <1>0, <1>2, CanaryAssumption DEF CanaryTypeOK, CanaryShape, CanaryStep, CanaryTick
  <2>2. CanaryShape'
    BY <1>0, <1>2, CanaryAssumption DEF CanaryTypeOK, CanaryShape, CanaryTick
  <2>3. CanaryLeavesNothing'
    BY <1>0, <1>2 DEF CanaryShape, CanaryLeavesNothing, CanaryTick
  <2> QED
    BY <2>1, <2>2, <2>3 DEF CanaryInv
<1>3. ASSUME Healthy PROVE CanaryInv'
  <2>1. CanaryTypeOK'
    BY <1>0, <1>3, CanaryAssumption DEF CanaryTypeOK, CanaryShape, CanaryStep, Healthy, Proceed
  <2>2. CanaryShape'
    BY <1>0, <1>3, CanaryAssumption DEF CanaryTypeOK, CanaryShape, Healthy, Proceed
  <2>3. CanaryLeavesNothing'
    BY <1>0, <1>3 DEF CanaryShape, CanaryLeavesNothing, Healthy, Proceed
  <2> QED
    BY <2>1, <2>2, <2>3 DEF CanaryInv
<1>4. ASSUME PreflightFails PROVE CanaryInv'
  <2>1. CanaryTypeOK'
    BY <1>0, <1>4, CanaryAssumption DEF CanaryTypeOK, CanaryShape, CanaryStep, PreflightFails, Proceed
  <2>2. CanaryShape'
    BY <1>0, <1>4, CanaryAssumption DEF CanaryTypeOK, CanaryShape, PreflightFails, Proceed
  <2>3. CanaryLeavesNothing'
    BY <1>0, <1>4 DEF CanaryShape, CanaryLeavesNothing, PreflightFails, Proceed
  <2> QED
    BY <2>1, <2>2, <2>3 DEF CanaryInv
<1>5. ASSUME TooLateToRetain PROVE CanaryInv'
  <2>1. CanaryTypeOK'
    BY <1>0, <1>5, CanaryAssumption DEF CanaryTypeOK, CanaryShape, CanaryStep, TooLateToRetain
  <2>2. CanaryShape'
    BY <1>0, <1>5, CanaryAssumption DEF CanaryTypeOK, CanaryShape, TooLateToRetain
  <2>3. CanaryLeavesNothing'
    BY <1>0, <1>5 DEF CanaryShape, CanaryLeavesNothing, TooLateToRetain
  <2> QED
    BY <2>1, <2>2, <2>3 DEF CanaryInv
<1>6. ASSUME DispatchRetain PROVE CanaryInv'
  <2>1. CanaryTypeOK'
    BY <1>0, <1>6, CanaryAssumption DEF CanaryTypeOK, CanaryShape, CanaryStep, DispatchRetain
  <2>2. CanaryShape'
    BY <1>0, <1>6, CanaryAssumption DEF CanaryTypeOK, CanaryShape, DispatchRetain
  <2>3. CanaryLeavesNothing'
    BY <1>0, <1>6 DEF CanaryShape, CanaryLeavesNothing, DispatchRetain
  <2> QED
    BY <2>1, <2>2, <2>3 DEF CanaryInv
<1>7. ASSUME BankStores PROVE CanaryInv'
  <2>1. CanaryTypeOK'
    BY <1>0, <1>7, CanaryAssumption DEF CanaryTypeOK, CanaryShape, CanaryStep, BankStores
  <2>2. CanaryShape'
    BY <1>0, <1>7, CanaryAssumption DEF CanaryTypeOK, CanaryShape, BankStores
  <2>3. CanaryLeavesNothing'
    BY <1>0, <1>7 DEF CanaryShape, CanaryLeavesNothing, BankStores
  <2> QED
    BY <2>1, <2>2, <2>3 DEF CanaryInv
<1>8. ASSUME RetainConfirmed PROVE CanaryInv'
  <2>1. CanaryTypeOK'
    BY <1>0, <1>8, CanaryAssumption DEF CanaryTypeOK, CanaryShape, CanaryStep, RetainConfirmed, Proceed
  <2>2. CanaryShape'
    BY <1>0, <1>8, CanaryAssumption DEF CanaryTypeOK, CanaryShape, RetainConfirmed, Proceed
  <2>3. CanaryLeavesNothing'
    BY <1>0, <1>8 DEF CanaryShape, CanaryLeavesNothing, RetainConfirmed, Proceed
  <2> QED
    BY <2>1, <2>2, <2>3 DEF CanaryInv
<1>9. ASSUME RetainFails PROVE CanaryInv'
  <2>1. CanaryTypeOK'
    BY <1>0, <1>9, CanaryAssumption DEF CanaryTypeOK, CanaryShape, CanaryStep, RetainFails, Proceed
  <2>2. CanaryShape'
    BY <1>0, <1>9, CanaryAssumption DEF CanaryTypeOK, CanaryShape, RetainFails, Proceed
  <2>3. CanaryLeavesNothing'
    BY <1>0, <1>9 DEF CanaryShape, CanaryLeavesNothing, RetainFails, Proceed
  <2> QED
    BY <2>1, <2>2, <2>3 DEF CanaryInv
<1>10. ASSUME PollFinds PROVE CanaryInv'
  <2>1. CanaryTypeOK'
    BY <1>0, <1>10, CanaryAssumption DEF CanaryTypeOK, CanaryShape, CanaryStep, PollFinds, Proceed
  <2>2. CanaryShape'
    BY <1>0, <1>10, CanaryAssumption DEF CanaryTypeOK, CanaryShape, PollFinds, Proceed
  <2>3. CanaryLeavesNothing'
    BY <1>0, <1>10 DEF CanaryShape, CanaryLeavesNothing, PollFinds, Proceed
  <2> QED
    BY <2>1, <2>2, <2>3 DEF CanaryInv
<1>11. ASSUME PollFindsNothing PROVE CanaryInv'
  <2>1. CanaryTypeOK'
    BY <1>0, <1>11, CanaryAssumption DEF CanaryTypeOK, CanaryShape, CanaryStep, PollFindsNothing, Proceed
  <2>2. CanaryShape'
    BY <1>0, <1>11, CanaryAssumption DEF CanaryTypeOK, CanaryShape, PollFindsNothing, Proceed
  <2>3. CanaryLeavesNothing'
    BY <1>0, <1>11 DEF CanaryShape, CanaryLeavesNothing, PollFindsNothing, Proceed
  <2> QED
    BY <2>1, <2>2, <2>3 DEF CanaryInv
<1>12. ASSUME PauseEnds PROVE CanaryInv'
  <2>1. CanaryTypeOK'
    BY <1>0, <1>12, CanaryAssumption DEF CanaryTypeOK, CanaryShape, CanaryStep, PauseEnds, Proceed
  <2>2. CanaryShape'
    BY <1>0, <1>12, CanaryAssumption DEF CanaryTypeOK, CanaryShape, PauseEnds, Proceed
  <2>3. CanaryLeavesNothing'
    BY <1>0, <1>12 DEF CanaryShape, CanaryLeavesNothing, PauseEnds, Proceed
  <2> QED
    BY <2>1, <2>2, <2>3 DEF CanaryInv
<1>13. ASSUME PollFails PROVE CanaryInv'
  <2>1. CanaryTypeOK'
    BY <1>0, <1>13, CanaryAssumption DEF CanaryTypeOK, CanaryShape, CanaryStep, PollFails, Proceed
  <2>2. CanaryShape'
    BY <1>0, <1>13, CanaryAssumption DEF CanaryTypeOK, CanaryShape, PollFails, Proceed
  <2>3. CanaryLeavesNothing'
    BY <1>0, <1>13 DEF CanaryShape, CanaryLeavesNothing, PollFails, Proceed
  <2> QED
    BY <2>1, <2>2, <2>3 DEF CanaryInv
<1>14. ASSUME CloseAdapter PROVE CanaryInv'
  <2>1. CanaryTypeOK'
    BY <1>0, <1>14, CanaryAssumption DEF CanaryTypeOK, CanaryShape, CanaryStep, CloseAdapter, Proceed
  <2>2. CanaryShape'
    BY <1>0, <1>14, CanaryAssumption DEF CanaryTypeOK, CanaryShape, CloseAdapter, Proceed
  <2>3. CanaryLeavesNothing'
    BY <1>0, <1>14 DEF CanaryShape, CanaryLeavesNothing, CloseAdapter, Proceed
  <2> QED
    BY <2>1, <2>2, <2>3 DEF CanaryInv
<1>15. ASSUME DeleteDocument PROVE CanaryInv'
  <2>1. CanaryTypeOK'
    BY <1>0, <1>15, CanaryAssumption DEF CanaryTypeOK, CanaryShape, CanaryStep, DeleteDocument
  <2>2. CanaryShape'
    BY <1>0, <1>15, CanaryAssumption DEF CanaryTypeOK, CanaryShape, DeleteDocument
  <2>3. CanaryLeavesNothing'
    BY <1>0, <1>15 DEF CanaryShape, CanaryLeavesNothing, DeleteDocument
  <2> QED
    BY <2>1, <2>2, <2>3 DEF CanaryInv
<1>16. ASSUME DeletionConfirmed PROVE CanaryInv'
  <2>1. CanaryTypeOK'
    BY <1>0, <1>16, CanaryAssumption DEF CanaryTypeOK, CanaryShape, CanaryStep, DeletionConfirmed, Proceed
  <2>2. CanaryShape'
    BY <1>0, <1>16, CanaryAssumption DEF CanaryTypeOK, CanaryShape, DeletionConfirmed, Proceed
  <2>3. CanaryLeavesNothing'
    BY <1>0, <1>16 DEF CanaryShape, CanaryLeavesNothing, DeletionConfirmed, Proceed
  <2> QED
    BY <2>1, <2>2, <2>3 DEF CanaryInv
<1>17. ASSUME CleanupFails PROVE CanaryInv'
  <2>1. CanaryTypeOK'
    BY <1>0, <1>17, CanaryAssumption DEF CanaryTypeOK, CanaryShape, CanaryStep, CleanupFails, CleanupFailed
  <2>2. CanaryShape'
    <3>1. canaryAt' \notin {"health", "version", "retain", "poll", "pause"} /\ retain' = retain
      BY <1>17 DEF CleanupFails, CleanupFailed
    <3>2. document' => document
      BY <1>17 DEF CleanupFails
    <3> QED
      BY <1>0, <3>1, <3>2 DEF CanaryShape
  <2>3. CanaryLeavesNothing'
    BY <1>0, <1>17 DEF CanaryShape, CanaryLeavesNothing, CleanupFails, CleanupFailed
  <2> QED
    BY <2>1, <2>2, <2>3 DEF CanaryInv
<1>18. ASSUME UNCHANGED canaryVars PROVE CanaryInv'
  BY <1>0, <1>18 DEF canaryVars, CanaryInv, CanaryTypeOK, CanaryShape, CanaryLeavesNothing
<1> QED
  BY <1>1, <1>2, <1>3, <1>4, <1>5, <1>6, <1>7, <1>8, <1>9, <1>10, <1>11, <1>12, <1>13, <1>14, <1>15, <1>16, <1>17, <1>18 DEF CanaryNext

\* A canary that ended without naming its document left none behind, and none
\* appears later (run_canary and _cleanup of canary.py), for any max_polls.
THEOREM CanaryIsTidy == CanarySpec => []CanaryLeavesNothing
<1>1. CanaryInv => CanaryLeavesNothing
  BY DEF CanaryInv
<1> QED
  BY <1>1, CanaryStarts, CanarySteps, PTL DEF CanarySpec

\* It polls no more than max_polls times (poll_count).
THEOREM CanaryPolls == CanarySpec => []CanaryTypeOK
<1>1. CanaryInv => CanaryTypeOK
  BY DEF CanaryInv
<1> QED
  BY <1>1, CanaryStarts, CanarySteps, PTL DEF CanarySpec


-----------------------------------------------------------------------------
(***************************************************************************)
(* The watchdog.  What a run is about to print is the difference of its    *)
(* reasons from those it found in the file; a reader who knew the ones     *)
(* found knows the new ones after the line, and an alert says them all.    *)
(***************************************************************************)
\* What a reader believes after the line v.
Told(v) == CASE v.result = "alert" -> (shown \cup (v.reasons \ Edge)) \ v.resolved
             [] v.result = "recovered" -> {}
             [] OTHER -> shown

\* The reasons in a file are shown, unless a line was lost; and no others.
Honest(active) ==
  /\ ~muted => active \subseteq shown
  /\ mishaps = 0 => shown = active

LineIsTold ==
  /\ verdict.result \in {"alert", "recovered", "none"}
  /\ verdict.result = "alert" => verdict.reasons \ Edge \subseteq Lasting
  /\ ~muted \/ verdict.result # "none" => verdict.state.active \subseteq Told(verdict)
  /\ mishaps = 0 => Told(verdict) = verdict.state.active

WatchdogInv ==
  /\ WatchdogTypeOK
  /\ watchdogAt # "printing" => Honest(stateFile.active)
  /\ watchdogAt # "idle" => LineIsTold
  /\ watchdogAt = "printing" =>
       stateFile = verdict.state \/ (stateFile = Empty /\ mishaps # 0)

LEMMA EmptyState == Empty \in StateRecord /\ Empty.active = {} /\ Silent.state = Empty
BY DEF Empty, StateRecord, Silent

\* What a line says of a state, given the reasons found before it.
Says(v, found, state, edges) ==
  /\ v.state = state /\ v.result \in {"alert", "recovered", "none"}
  /\ v.result = "none" => state.active = found
  /\ v.result = "recovered" => state.active = {}
  /\ v.result = "alert" =>
       v.reasons = state.active \cup edges /\ v.resolved = found \ state.active

LEMMA LineSays ==
  ASSUME NEW found \in SUBSET Lasting, NEW state \in StateRecord, NEW edges \in SUBSET Edge
  PROVE  Says(Line(found, state, edges), found, state, edges)
<1> DEFINE active == state.active
           alert == [state |-> state, result |-> "alert", reasons |-> active \cup edges,
                     resolved |-> found \ active]
           quiet == [Silent EXCEPT !.state = state]
           over == [Silent EXCEPT !.state = state, !.result = IF found # {} THEN "recovered" ELSE "none"]
<1>1. /\ alert.state = state /\ alert.result = "alert" /\ alert.reasons = active \cup edges
      /\ alert.resolved = found \ active
  OBVIOUS
<1>2. quiet.state = state /\ quiet.result = "none"
  BY DEF Silent
<1>3. over.state = state /\ over.result = IF found # {} THEN "recovered" ELSE "none"
  BY DEF Silent
<1>4. Line(found, state, edges)
        = IF active \cup edges # {}
            THEN IF edges = {} /\ active = found THEN quiet ELSE alert
            ELSE over
  BY DEF Line
<1> HIDE DEF alert, quiet, over
<1>5. active \cup edges # {} /\ edges = {} /\ active = found => Says(quiet, found, state, edges)
  BY <1>2 DEF Says
<1>6. Says(alert, found, state, edges)
  BY <1>1 DEF Says
<1>7. active \cup edges = {} => Says(over, found, state, edges)
  BY <1>3 DEF Says
<1> QED
  BY <1>4, <1>5, <1>6, <1>7

LEMMA ReasonsLast ==
  ASSUME NEW statusOk, NEW canaryOk, NEW outcomes
  PROVE  ActiveReasons(statusOk, canaryOk, outcomes) \in SUBSET Lasting
BY DEF ActiveReasons, Lasting

LEMMA LastOfTypes ==
  ASSUME NEW past \in Seq(RecallOutcome), NEW events \in Events
  PROVE  LastOf(past \o events, Window) \in Seq(RecallOutcome)
<1>1. events \in Seq(RecallOutcome)
  BY WatchdogAssumption DEF Events
<1>2. past \o events \in Seq(RecallOutcome)
  BY <1>1
<1> DEFINE all == past \o events
<1> HIDE DEF all
<1>3. ASSUME NEW from \in 1..(Len(all) + 1) PROVE SubSeq(all, from, Len(all)) \in Seq(RecallOutcome)
  BY <1>2 DEF all
<1>4. Len(all) \in Nat
  BY <1>2 DEF all
<1>5. ~(Len(all) <= Window) => Len(all) - Window + 1 \in 1..(Len(all) + 1)
  BY <1>4, WatchdogAssumption
<1>6. LastOf(all, Window) \in Seq(RecallOutcome)
  BY <1>2, <1>3, <1>5 DEF LastOf, all
<1> QED
  BY <1>6 DEF all

LEMMA WatchdogStarts == WatchdogInit => WatchdogInv
<1> SUFFICES ASSUME WatchdogInit PROVE WatchdogInv
  OBVIOUS
<1>1. mishaps \in 0..MaxMishaps
  BY WatchdogAssumption DEF WatchdogInit
<1>2. muted \in BOOLEAN
  BY Zenon DEF WatchdogInit
<1>3. WatchdogTypeOK
  BY <1>1, <1>2, EmptyState DEF WatchdogInit, WatchdogTypeOK
<1>4. Honest(stateFile.active)
  BY EmptyState DEF WatchdogInit, Honest
<1> QED
  BY <1>3, <1>4 DEF WatchdogInit, WatchdogInv

LEMMA EvaluateKeeps ==
  ASSUME WatchdogInv, NEW statusOk, NEW canaryOk, Evaluate(statusOk, canaryOk)
  PROVE  WatchdogInv'
<1>1. /\ watchdogAt = "idle" /\ watchdogAt' = "writing"
      /\ UNCHANGED <<stateFile, shown, muted, mishaps>>
  BY DEF Evaluate
<1>2. WatchdogTypeOK /\ Honest(stateFile.active)
  BY <1>1 DEF WatchdogInv
<1>a. PICK events \in Events, edges \in SUBSET Edge :
        \E outcomes, active :
          /\ outcomes = LastOf(stateFile.outcomes \o events, Window)
          /\ active = ActiveReasons(statusOk, canaryOk, outcomes)
          /\ verdict' = Line(stateFile.active, [active |-> active, outcomes |-> outcomes], edges)
  BY DEF Evaluate
<1>3. PICK outcomes, active :
        /\ outcomes = LastOf(stateFile.outcomes \o events, Window)
        /\ active = ActiveReasons(statusOk, canaryOk, outcomes)
        /\ verdict' = Line(stateFile.active, [active |-> active, outcomes |-> outcomes], edges)
  BY <1>a
<1>4. stateFile.active \in SUBSET Lasting /\ stateFile.outcomes \in Seq(RecallOutcome)
  BY <1>2 DEF WatchdogTypeOK, StateRecord
<1> DEFINE state == [active |-> active, outcomes |-> outcomes]
<1>5. state \in StateRecord /\ state.active = active /\ active \in SUBSET Lasting
  BY <1>3, <1>4, ReasonsLast, LastOfTypes DEF StateRecord
<1> HIDE DEF state
<1>6. /\ verdict'.state = state /\ verdict'.result \in {"alert", "recovered", "none"}
      /\ verdict'.result = "none" => active = stateFile.active
      /\ verdict'.result = "recovered" => active = {}
      /\ verdict'.result = "alert" =>
           verdict'.reasons = active \cup edges /\ verdict'.resolved = stateFile.active \ active
  <2>1. verdict' = Line(stateFile.active, state, edges)
    BY <1>3 DEF state
  <2>2. Says(verdict', stateFile.active, state, edges)
    BY <1>4, <1>5, <2>1, LineSays
  <2> QED
    BY <1>5, <2>2 DEF Says
<1>7. WatchdogTypeOK'
  BY <1>1, <1>2, <1>5, <1>6 DEF WatchdogTypeOK
<1>8. LineIsTold'
  <2>1. active \cap Edge = {} /\ edges \subseteq Edge
    BY <1>5 DEF Lasting, Edge
  <2>2. verdict'.state.active = active
    BY <1>5, <1>6
  <2>3. CASE verdict'.result = "alert"
    <3>1. Told(verdict') = (shown \cup ((active \cup edges) \ Edge)) \ (stateFile.active \ active)
      BY <1>6, <2>3 DEF Told
    <3>2. Told(verdict') = (shown \cup active) \ (stateFile.active \ active)
      BY <2>1, <3>1
    <3>3. active \subseteq Told(verdict') /\ (shown = stateFile.active => Told(verdict') = active)
      BY <3>2
    <3>4. verdict'.reasons \ Edge \subseteq Lasting
      BY <1>5, <1>6, <2>1, <2>3
    <3>5. mishaps' = 0 => Told(verdict') = active
      BY <1>1, <1>2, <3>3 DEF Honest
    <3>6. Told(verdict)' = Told(verdict')
      BY <1>1 DEF Told
    <3> QED
      BY <1>6, <2>2, <3>3, <3>4, <3>5, <3>6 DEF LineIsTold
  <2>4. CASE verdict'.result = "recovered"
    BY <1>1, <1>6, <2>2, <2>4 DEF LineIsTold, Told
  <2>5. CASE verdict'.result = "none"
    BY <1>1, <1>2, <1>6, <2>2, <2>5 DEF LineIsTold, Told, Honest
  <2> QED
    BY <1>6, <2>3, <2>4, <2>5
<1> QED
  BY <1>1, <1>2, <1>7, <1>8 DEF WatchdogInv, Honest

LEMMA WatchdogSteps == WatchdogInv /\ [WatchdogNext]_watchdogVars => WatchdogInv'
<1> SUFFICES ASSUME WatchdogInv, [WatchdogNext]_watchdogVars PROVE WatchdogInv'
  OBVIOUS
<1>0. WatchdogTypeOK /\ mishaps \in Nat
  BY DEF WatchdogInv, WatchdogTypeOK
<1>1. ASSUME NEW statusOk \in BOOLEAN, NEW canaryOk \in BOOLEAN, Evaluate(statusOk, canaryOk)
      PROVE  WatchdogInv'
  BY <1>1, EvaluateKeeps
<1>2. ASSUME ReplaceState PROVE WatchdogInv'
  <2>1. /\ watchdogAt = "writing" /\ watchdogAt' = "printing" /\ stateFile' = verdict.state
        /\ UNCHANGED <<verdict, shown, muted, mishaps>>
    BY <1>2 DEF ReplaceState
  <2>2. WatchdogTypeOK'
    BY <1>0, <2>1 DEF WatchdogTypeOK
  <2>3. LineIsTold'
    BY <2>1 DEF WatchdogInv, LineIsTold, Told
  <2> QED
    BY <2>1, <2>2, <2>3 DEF WatchdogInv
<1>3. ASSUME Emit PROVE WatchdogInv'
  <2>1. /\ watchdogAt = "printing" /\ watchdogAt' = "idle" /\ shown' = Told(verdict)
        /\ muted' = (muted /\ verdict.result = "none") /\ verdict' = Silent
        /\ UNCHANGED <<stateFile, mishaps>>
    BY <1>3 DEF Emit, Told
  <2>2. LineIsTold /\ (stateFile = verdict.state \/ (stateFile = Empty /\ mishaps # 0))
    BY <2>1 DEF WatchdogInv
  <2>3. shown' \subseteq Lasting
    <3>1. verdict.result = "alert" => verdict.reasons \ Edge \subseteq Lasting
      BY <2>2 DEF LineIsTold
    <3> QED
      BY <1>0, <2>1, <3>1 DEF WatchdogTypeOK, Told
  <2>4. WatchdogTypeOK'
    BY <1>0, <2>1, <2>3, EmptyState DEF WatchdogTypeOK
  <2>5. Honest(stateFile.active)'
    <3>1. ~muted' => ~muted \/ verdict.result # "none"
      BY <2>1
    <3>2. CASE stateFile = verdict.state
      BY <2>1, <2>2, <3>1, <3>2 DEF Honest, LineIsTold
    <3>3. CASE stateFile = Empty /\ mishaps # 0
      BY <2>1, <3>3, EmptyState DEF Honest
    <3> QED
      BY <2>2, <3>2, <3>3
  <2> QED
    BY <2>1, <2>4, <2>5 DEF WatchdogInv
<1>4. ASSUME RunKilled PROVE WatchdogInv'
  <2>1. /\ watchdogAt # "idle" /\ watchdogAt' = "idle" /\ mishaps < MaxMishaps /\ mishaps' = mishaps + 1
        /\ muted' = (muted \/ watchdogAt = "printing") /\ verdict' = Silent
        /\ UNCHANGED <<stateFile, shown>>
    BY <1>4 DEF RunKilled
  <2>2. mishaps' \in 0..MaxMishaps /\ mishaps' # 0
    BY <1>0, <2>1, WatchdogAssumption
  <2>3. WatchdogTypeOK'
    <3>1. muted' \in BOOLEAN
      BY <2>1, Zenon
    <3> QED
      BY <1>0, <2>1, <2>2, <3>1, EmptyState DEF WatchdogTypeOK
  <2>4. Honest(stateFile.active)'
    BY <2>1, <2>2 DEF WatchdogInv, Honest
  <2> QED
    BY <2>1, <2>3, <2>4 DEF WatchdogInv
<1>5. ASSUME StateLost PROVE WatchdogInv'
  <2>1. /\ mishaps < MaxMishaps /\ mishaps' = mishaps + 1 /\ stateFile' = Empty
        /\ UNCHANGED <<watchdogAt, verdict, shown, muted>>
    BY <1>5 DEF StateLost
  <2>2. mishaps' \in 0..MaxMishaps /\ mishaps' # 0
    BY <1>0, <2>1, WatchdogAssumption
  <2>3. WatchdogTypeOK'
    BY <1>0, <2>1, <2>2, EmptyState DEF WatchdogTypeOK
  <2>4. Honest(stateFile.active)'
    BY <2>1, <2>2, EmptyState DEF Honest
  <2>5. (watchdogAt # "idle" => LineIsTold)'
    BY <2>1, <2>2 DEF WatchdogInv, LineIsTold, Told
  <2> QED
    BY <2>1, <2>2, <2>3, <2>4, <2>5 DEF WatchdogInv
<1>6. ASSUME UNCHANGED watchdogVars PROVE WatchdogInv'
  BY <1>6 DEF watchdogVars, WatchdogInv, WatchdogTypeOK, Honest, LineIsTold, Told
<1> QED
  BY <1>1, <1>2, <1>3, <1>4, <1>5, <1>6 DEF WatchdogNext

\* Between runs the lines printed have shown every alarm of the state file,
\* and no other as long as nothing was lost, for any window, rates and number
\* of mishaps (evaluate_watchdog calls _write_state before its result is printed).
THEOREM WatchdogShowsAlarms == WatchdogSpec => []AlarmsAreShown
<1>1. WatchdogInv => AlarmsAreShown
  BY DEF WatchdogInv, Honest, AlarmsAreShown
<1> QED
  BY <1>1, WatchdogStarts, WatchdogSteps, PTL DEF WatchdogSpec

\* The file always holds a state the watchdog can have written, so that the
\* next run can read it (_read_state, _write_state).
THEOREM WatchdogTypes == WatchdogSpec => []WatchdogTypeOK
<1>1. WatchdogInv => WatchdogTypeOK
  BY DEF WatchdogInv
<1> QED
  BY <1>1, WatchdogStarts, WatchdogSteps, PTL DEF WatchdogSpec

-----------------------------------------------------------------------------
(***************************************************************************)
(* The passive status.  Its verdict rests on aggregates: they have to say  *)
(* of the rows read what the status then says of the queue.                *)
(***************************************************************************)
QueueKinds ==
  /\ wallTime \in Time
  /\ IsFiniteSet(DOMAIN queue)
  /\ \A d \in DOMAIN queue : queue[d] \in Queued

LookKinds ==
  /\ look = [at |-> look.at, observed |-> look.observed, inspection |-> look.inspection,
             result |-> look.result]
  /\ look.observed \in Time
  /\ watch = [lock |-> watch.lock, blocked |-> watch.blocked, sending |-> watch.sending,
              failed |-> watch.failed]

\* What the aggregates say of the rows read, and the lock since.
AggregatesTell ==
  LET i == look.inspection IN
  /\ watch.blocked <=> i.mismatch > 0 \/ i.retry > 0 \/ IsAged(i)
  /\ watch.sending => i.mismatch > 0 \/ i.sending > 0
  /\ i.failed => watch.failed

StatusInv ==
  /\ QueueKinds
  /\ LookKinds
  /\ look.at = "probing" => AggregatesTell
  /\ watch.lock = "free" => sender = "none"

LEMMA InspectionIs ==
  ASSUME NEW rows
  PROVE  LET i == Inspection(rows) IN
         /\ i.mismatch = Cardinality({d \in DOMAIN rows : ~rows[d].matches})
         /\ i.sending = Cardinality({d \in DOMAIN rows : rows[d].matches /\ rows[d].state = "sending"})
         /\ i.retry = Cardinality({d \in DOMAIN rows : Retrying(rows[d])})
         /\ i.oldest = Minimum({rows[d].created : d \in DOMAIN rows}, Never)
         /\ i.failed = (\E d \in DOMAIN rows : rows[d].failed)
BY DEF Inspection

\* Some are counted if and only if there are some.
LEMMA CountedIfAny ==
  ASSUME NEW S, IsFiniteSet(S), NEW T \in SUBSET S
  PROVE  Cardinality(T) > 0 <=> T # {}
<1>1. IsFiniteSet(T)
  BY FS_Subset
<1> QED
  BY <1>1, FS_CardinalityType, FS_EmptySet

LEMMA MinimumIsLeast ==
  ASSUME NEW S \in SUBSET Nat, NEW none
  PROVE  /\ S = {} => Minimum(S, none) = none
         /\ S # {} => Minimum(S, none) \in S /\ \A n \in S : Minimum(S, none) <= n
<1>1. CASE S = {}
  BY <1>1 DEF Minimum
<1>2. CASE S # {}
  <2>1. \E m \in S : \A n \in S : m <= n
    BY <1>2, LeastExists
  <2>2. Minimum(S, none) = CHOOSE m \in S : \A n \in S : m <= n
    BY <1>2 DEF Minimum
  <2> QED
    BY <1>2, <2>1, <2>2
<1> QED
  BY <1>1, <1>2

LEMMA StatusStarts == QueueStatusInit => StatusInv
<1> SUFFICES ASSUME QueueStatusInit PROVE StatusInv
  OBVIOUS
<1>1. DOMAIN queue = {} /\ sender = "none" /\ wallTime = 0 /\ look = NoLook /\ watch = NoWatch
  BY DEF QueueStatusInit
<1>2. 0 \in Time
  BY QueueStatusAssumption DEF Time
<1>3. QueueKinds
  BY <1>1, <1>2, FS_EmptySet DEF QueueKinds
<1>4. LookKinds /\ look.at = "idle"
  BY <1>1, <1>2 DEF LookKinds, NoLook, NoWatch
<1> QED
  BY <1>1, <1>3, <1>4 DEF StatusInv

\* What a snapshot shows.
LEMMA SnapshotTells ==
  ASSUME StatusInv, ReadSnapshot
  PROVE  AggregatesTell'
<1> DEFINE i == Inspection(queue)
           created == {queue[d].created : d \in DOMAIN queue}
<1>1. /\ look' = [look EXCEPT !.at = "probing", !.inspection = i]
      /\ watch' = [lock |-> IF sender = "none" THEN "free" ELSE "held",
                   blocked |-> \E r \in Rows : ~r.matches \/ Retrying(r) \/ ~Young(r),
                   sending |-> \E r \in Rows : r.state = "sending",
                   failed |-> \E r \in Rows : r.failed]
  BY DEF ReadSnapshot
<1>2. /\ i.mismatch = Cardinality({d \in DOMAIN queue : ~queue[d].matches})
      /\ i.sending = Cardinality({d \in DOMAIN queue : queue[d].matches /\ queue[d].state = "sending"})
      /\ i.retry = Cardinality({d \in DOMAIN queue : Retrying(queue[d])})
      /\ i.oldest = Minimum(created, Never)
      /\ i.failed = (\E d \in DOMAIN queue : queue[d].failed)
  BY InspectionIs
<1> HIDE DEF i
<1>3. QueueKinds /\ LookKinds
  BY DEF StatusInv
<1>4. look'.inspection = i /\ look'.observed = look.observed
  BY <1>1, <1>3 DEF LookKinds
<1>5. /\ watch'.blocked <=> \E d \in DOMAIN queue :
                              ~queue[d].matches \/ Retrying(queue[d]) \/ ~Young(queue[d])
      /\ watch'.sending <=> \E d \in DOMAIN queue : queue[d].state = "sending"
      /\ watch'.failed <=> \E d \in DOMAIN queue : queue[d].failed
  BY <1>1 DEF Rows
<1>6. i.mismatch > 0 <=> \E d \in DOMAIN queue : ~queue[d].matches
  <2>1. Cardinality({d \in DOMAIN queue : ~queue[d].matches}) > 0
        <=> {d \in DOMAIN queue : ~queue[d].matches} # {}
    BY <1>3, CountedIfAny DEF QueueKinds
  <2> QED
    BY <1>2, <2>1
<1>7. i.retry > 0 <=> \E d \in DOMAIN queue : Retrying(queue[d])
  <2>1. Cardinality({d \in DOMAIN queue : Retrying(queue[d])}) > 0
        <=> {d \in DOMAIN queue : Retrying(queue[d])} # {}
    BY <1>3, CountedIfAny DEF QueueKinds
  <2> QED
    BY <1>2, <2>1
<1>8. i.sending > 0 <=> \E d \in DOMAIN queue : queue[d].matches /\ queue[d].state = "sending"
  <2>1. Cardinality({d \in DOMAIN queue : queue[d].matches /\ queue[d].state = "sending"}) > 0
        <=> {d \in DOMAIN queue : queue[d].matches /\ queue[d].state = "sending"} # {}
    BY <1>3, CountedIfAny DEF QueueKinds
  <2> QED
    BY <1>2, <2>1
<1>9. IsAged(look.inspection)' <=> \E d \in DOMAIN queue : ~Young(queue[d])
  <2>1. created \subseteq Time /\ Time \subseteq Nat /\ Never \notin Time /\ look.observed \in Nat
        /\ AgedAfter \in Nat
    BY <1>3, QueueStatusAssumption DEF QueueKinds, LookKinds, Queued, Time, Never
  <2>2. IsAged(look.inspection)' <=> i.oldest # Never /\ look.observed - i.oldest >= AgedAfter
    BY <1>4 DEF IsAged
  <2>3. \A d \in DOMAIN queue : Young(queue[d]) <=> look.observed - queue[d].created < AgedAfter
    BY DEF Young
  <2>4. CASE created = {}
    <3>1. i.oldest = Never
      BY <1>2, <2>1, <2>4, MinimumIsLeast
    <3>2. ~(\E d \in DOMAIN queue : TRUE)
      BY <2>4
    <3> QED
      BY <2>2, <3>1, <3>2
  <2>5. CASE created # {}
    <3>0. created \in SUBSET Nat
      BY <2>1
    <3>1. i.oldest \in created /\ \A n \in created : i.oldest <= n
      <4> HIDE DEF created
      <4> QED
        BY <1>2, <2>5, <3>0, MinimumIsLeast
    <3>2. PICK e \in DOMAIN queue : i.oldest = queue[e].created
      BY <3>1
    <3>3. i.oldest # Never /\ i.oldest \in Nat
      BY <2>1, <3>1
    <3>4. \A d \in DOMAIN queue : queue[d].created \in Nat /\ i.oldest <= queue[d].created
      BY <2>1, <3>1
    <3> HIDE DEF created
    <3>5. ASSUME look.observed - i.oldest >= AgedAfter PROVE ~Young(queue[e])
      BY <2>1, <2>3, <3>2, <3>3, <3>5
    <3>6. ASSUME NEW d \in DOMAIN queue, ~Young(queue[d]) PROVE look.observed - i.oldest >= AgedAfter
      BY <2>1, <2>3, <3>3, <3>4, <3>6
    <3> QED
      BY <2>2, <3>2, <3>3, <3>5, <3>6
  <2> QED
    BY <2>4, <2>5
<1> QED
  BY <1>2, <1>4, <1>5, <1>6, <1>7, <1>8, <1>9 DEF AggregatesTell

\* A row as the gateway leaves it is one the status can read.
LEMMA RowsKeepKind ==
  ASSUME NEW r \in Queued, NEW now \in Time
  PROVE  /\ [r EXCEPT !.matches = ~@] \in Queued
         /\ [r EXCEPT !.state = "pending", !.next = now] \in Queued
BY DEF Queued

LEMMA GatewayKeepsKinds ==
  ASSUME QueueKinds,
         \/ \E now \in Time : SetClock(now)
         \/ Reconfigure \/ StartSender \/ RecoverRows \/ StopSender
         \/ \E d \in Doc : \/ AdmitRow(d) \/ ClaimRow(d) \/ CompleteRow(d)
                           \/ \E next \in Time : Reschedule(d, next)
  PROVE  QueueKinds'
<1> USE DEF QueueKinds
<1>1. ASSUME NEW now \in Time, SetClock(now) PROVE QueueKinds'
  BY <1>1 DEF SetClock
<1>2. ASSUME Reconfigure PROVE QueueKinds'
  <2>1. /\ DOMAIN queue' = DOMAIN queue /\ wallTime' = wallTime
        /\ \A d \in DOMAIN queue : queue'[d] = [queue[d] EXCEPT !.matches = ~@]
    BY <1>2 DEF Reconfigure
  <2>2. ASSUME NEW d \in DOMAIN queue PROVE queue'[d] \in Queued
    <3>1. [queue[d] EXCEPT !.matches = ~@] \in Queued
      BY RowsKeepKind
    <3> QED
      BY <2>1, <3>1
  <2> QED
    BY <2>1, <2>2
<1>3. ASSUME StartSender \/ StopSender PROVE QueueKinds'
  BY <1>3 DEF StartSender, StopSender
<1>4. ASSUME RecoverRows PROVE QueueKinds'
  <2>1. /\ DOMAIN queue' = DOMAIN queue /\ wallTime' = wallTime
        /\ \A d \in DOMAIN queue :
             queue'[d] = IF queue[d].state = "sending"
                           THEN [queue[d] EXCEPT !.state = "pending", !.next = wallTime]
                           ELSE queue[d]
    BY <1>4 DEF RecoverRows
  <2>2. ASSUME NEW d \in DOMAIN queue PROVE queue'[d] \in Queued
    <3>1. [queue[d] EXCEPT !.state = "pending", !.next = wallTime] \in Queued
      BY RowsKeepKind
    <3> QED
      BY <2>1, <3>1
  <2> QED
    BY <2>1, <2>2
<1>5. ASSUME NEW d \in Doc, AdmitRow(d) PROVE QueueKinds'
  <2> DEFINE row == [state |-> "pending", tried |-> FALSE, failed |-> FALSE,
                     matches |-> TRUE, created |-> wallTime, next |-> wallTime]
  <2>1. row \in Queued
    BY DEF Queued
  <2>2. queue' = With(d, row) /\ wallTime' = wallTime
    BY <1>5 DEF AdmitRow
  <2> HIDE DEF row
  <2>3. /\ DOMAIN queue' = DOMAIN queue \cup {d}
        /\ \A e \in DOMAIN queue \cup {d} : queue'[e] = IF e = d THEN row ELSE queue[e]
    BY <2>2 DEF With
  <2>4. IsFiniteSet(DOMAIN queue \cup {d})
    BY FS_AddElement
  <2> QED
    BY <2>1, <2>2, <2>3, <2>4
<1>6. ASSUME NEW d \in Doc, ClaimRow(d) PROVE QueueKinds'
  <2>1. d \in DOMAIN queue /\ wallTime' = wallTime
        /\ queue' = [queue EXCEPT ![d].state = "sending", ![d].tried = TRUE]
    BY <1>6 DEF ClaimRow
  <2>2. DOMAIN queue' = DOMAIN queue /\ \A e \in DOMAIN queue : e # d => queue'[e] = queue[e]
    BY <2>1
  <2>3. queue'[d] = [queue[d] EXCEPT !.state = "sending", !.tried = TRUE]
    BY <2>1
  <2>4. queue'[d] \in Queued
    BY <2>1, <2>3 DEF Queued
  <2> QED
    BY <2>1, <2>2, <2>4
<1>7. ASSUME NEW d \in Doc, CompleteRow(d) PROVE QueueKinds'
  <2>1. /\ DOMAIN queue' = DOMAIN queue \ {d} /\ wallTime' = wallTime
        /\ \A e \in DOMAIN queue \ {d} : queue'[e] = queue[e]
    BY <1>7 DEF CompleteRow
  <2>2. IsFiniteSet(DOMAIN queue \ {d})
    BY FS_RemoveElement
  <2> QED
    BY <2>1, <2>2
<1>8. ASSUME NEW d \in Doc, NEW next \in Time, Reschedule(d, next) PROVE QueueKinds'
  <2>1. d \in DOMAIN queue /\ wallTime' = wallTime
        /\ queue' = [queue EXCEPT ![d].state = "pending", ![d].failed = TRUE, ![d].next = next]
    BY <1>8 DEF Reschedule
  <2>2. DOMAIN queue' = DOMAIN queue /\ \A e \in DOMAIN queue : e # d => queue'[e] = queue[e]
    BY <2>1
  <2>3. queue'[d] = [queue[d] EXCEPT !.state = "pending", !.failed = TRUE, !.next = next]
    BY <2>1
  <2>4. queue'[d] \in Queued
    BY <2>1, <2>3 DEF Queued
  <2> QED
    BY <2>1, <2>2, <2>4
<1> QED
  BY <1>1, <1>2, <1>3, <1>4, <1>5, <1>6, <1>7, <1>8

\* The gateway changes nothing the status holds, but the lock it watches.
LEMMA GatewayKeepsLook ==
  ASSUME LookKinds, watch.lock = "free" => sender = "none",
         \/ \E now \in Time : SetClock(now)
         \/ Reconfigure \/ StartSender \/ RecoverRows \/ StopSender
         \/ \E d \in Doc : \/ AdmitRow(d) \/ ClaimRow(d) \/ CompleteRow(d)
                           \/ \E next \in Time : Reschedule(d, next)
  PROVE  /\ LookKinds' /\ look' = look
         /\ watch'.blocked = watch.blocked /\ watch'.sending = watch.sending
         /\ watch'.failed = watch.failed
         /\ watch'.lock = "free" => sender' = "none"
<1>1. CASE UNCHANGED <<watch, sender, look>>
  BY <1>1 DEF LookKinds
<1>2. CASE StartSender \/ StopSender
  <2>1. watch' = [watch EXCEPT !.lock = "changed"] /\ look' = look
    BY <1>2 DEF StartSender, StopSender
  <2>2. watch' = [lock |-> "changed", blocked |-> watch.blocked, sending |-> watch.sending,
                  failed |-> watch.failed]
    BY <2>1 DEF LookKinds
  <2> QED
    BY <2>1, <2>2 DEF LookKinds
<1>3. CASE RecoverRows
  <2>1. sender = "recovering" /\ UNCHANGED <<look, watch>>
    BY <1>3 DEF RecoverRows
  <2> QED
    BY <2>1 DEF LookKinds
<1> QED
  BY <1>1, <1>2, <1>3 DEF SetClock, Reconfigure, AdmitRow, ClaimRow, CompleteRow, Reschedule

LEMMA StatusSteps == StatusInv /\ [QueueStatusNext]_queueStatusVars => StatusInv'
<1> SUFFICES ASSUME StatusInv, [QueueStatusNext]_queueStatusVars PROVE StatusInv'
  OBVIOUS
<1>0. QueueKinds /\ LookKinds
  BY DEF StatusInv
<1>1. ASSUME \/ \E now \in Time : SetClock(now)
             \/ Reconfigure \/ StartSender \/ RecoverRows \/ StopSender
             \/ \E d \in Doc : \/ AdmitRow(d) \/ ClaimRow(d) \/ CompleteRow(d)
                               \/ \E next \in Time : Reschedule(d, next)
      PROVE  StatusInv'
  <2>1. QueueKinds'
    BY <1>0, <1>1, GatewayKeepsKinds
  <2>2. /\ LookKinds' /\ look' = look
        /\ watch'.blocked = watch.blocked /\ watch'.sending = watch.sending
        /\ watch'.failed = watch.failed
        /\ watch'.lock = "free" => sender' = "none"
    BY <1>0, <1>1, GatewayKeepsLook DEF StatusInv
  <2>3. (look.at = "probing" => AggregatesTell)'
    BY <2>2 DEF StatusInv, AggregatesTell, IsAged
  <2> QED
    BY <2>1, <2>2, <2>3 DEF StatusInv
<1>2. ASSUME BeginStatus PROVE StatusInv'
  <2>1. look' = [NoLook EXCEPT !.at = "reading", !.observed = wallTime]
        /\ UNCHANGED <<wallTime, queue, sender, watch>>
    BY <1>2 DEF BeginStatus, gateway
  <2>2. look'.at = "reading" /\ LookKinds'
    BY <1>0, <2>1 DEF NoLook, LookKinds, QueueKinds
  <2> QED
    BY <1>0, <2>1, <2>2 DEF StatusInv, QueueKinds
<1>3. ASSUME ReadSnapshot PROVE StatusInv'
  <2>1. /\ look' = [look EXCEPT !.at = "probing", !.inspection = Inspection(queue)]
        /\ watch' = [lock |-> IF sender = "none" THEN "free" ELSE "held",
                     blocked |-> \E r \in Rows : ~r.matches \/ Retrying(r) \/ ~Young(r),
                     sending |-> \E r \in Rows : r.state = "sending",
                     failed |-> \E r \in Rows : r.failed]
        /\ UNCHANGED <<wallTime, queue, sender>>
    BY <1>3 DEF ReadSnapshot, gateway
  <2>2. LookKinds'
    <3>1. look' = [at |-> "probing", observed |-> look.observed, inspection |-> Inspection(queue),
                   result |-> look.result]
      BY <1>0, <2>1 DEF LookKinds
    <3> QED
      BY <1>0, <2>1, <3>1 DEF LookKinds
  <2>3. watch'.lock = "free" => sender' = "none"
    BY <2>1
  <2> QED
    BY <1>0, <1>3, <2>1, <2>2, <2>3, SnapshotTells DEF StatusInv, QueueKinds
<1>4. ASSUME SnapshotFails PROVE StatusInv'
  <2>1. look' = NoLook /\ UNCHANGED <<wallTime, queue, sender, watch>>
    BY <1>4 DEF SnapshotFails, gateway
  <2>2. look'.at = "idle" /\ LookKinds'
    BY <1>0, <2>1, QueueStatusAssumption DEF NoLook, LookKinds, Time
  <2> QED
    BY <1>0, <2>1, <2>2 DEF StatusInv, QueueKinds
<1>5. ASSUME NEW ownership \in Ownership, Report(ownership) PROVE StatusInv'
  <2>1. look' = [NoLook EXCEPT !.result = IF Degraded(look.inspection, ownership) THEN "degraded" ELSE "ok"]
        /\ watch' = NoWatch /\ UNCHANGED <<wallTime, queue, sender>>
    BY <1>5 DEF Report, gateway
  <2>2. look'.at = "idle" /\ LookKinds' /\ watch'.lock = "changed"
    BY <1>0, <2>1, QueueStatusAssumption DEF NoLook, NoWatch, LookKinds, Time
  <2> QED
    BY <1>0, <2>1, <2>2 DEF StatusInv, QueueKinds
<1>6. ASSUME UNCHANGED queueStatusVars PROVE StatusInv'
  BY <1>6 DEF queueStatusVars, gateway, StatusInv, QueueKinds, LookKinds, AggregatesTell, IsAged
<1> QED
  BY <1>1, <1>2, <1>3, <1>4, <1>5, <1>6 DEF QueueStatusNext

\* Blocked work and work in flight that nobody sends is reported as degraded,
\* with more than a count of pending rows; first attempts at fresh work under
\* a lock that is held are not (_status_payload and _compact_status_payload of
\* management.py), for any number of rows and any times.
THEOREM StatusTells == QueueStatusSpec => StatusIsHonest
<1>1. ASSUME StatusInv, NEW ownership \in Probed, Report(ownership)
      PROVE  /\ watch.blocked \/ (watch.sending /\ watch.lock = "free") => look'.result = "degraded"
             /\ look'.result = "degraded" => Details(look.inspection, ownership) \ {"pending"} # {}
             /\ /\ ~watch.blocked /\ ~watch.failed
                /\ watch.lock = "held" /\ ownership = "held"
                => look'.result = "ok"
  <2> DEFINE i == look.inspection
  <2>1. /\ look.at = "probing"
        /\ look' = [NoLook EXCEPT !.result = IF Degraded(i, ownership) THEN "degraded" ELSE "ok"]
    BY <1>1 DEF Report
  <2>2. /\ AggregatesTell
        /\ watch.lock = "free" => ownership # "held"
    BY <1>1, <2>1 DEF StatusInv, Probed
  <2>3. /\ watch.blocked <=> i.mismatch > 0 \/ i.retry > 0 \/ IsAged(i)
        /\ watch.sending => i.mismatch > 0 \/ i.sending > 0
        /\ i.failed => watch.failed
    BY <2>2 DEF AggregatesTell
  <2>4. look'.result = IF Degraded(i, ownership) THEN "degraded" ELSE "ok"
    BY <2>1 DEF NoLook
  <2> HIDE DEF i
  <2>5. watch.blocked \/ (watch.sending /\ watch.lock = "free") => Degraded(i, ownership)
    BY <2>2, <2>3 DEF Degraded
  <2>6. Degraded(i, ownership) => Details(i, ownership) \ {"pending"} # {}
    <3>1. i.mismatch > 0 => "mismatch" \in Details(i, ownership)
      BY DEF Details
    <3>2. i.sending > 0 => "sending" \in Details(i, ownership)
      BY DEF Details
    <3>3. i.retry > 0 => "retry" \in Details(i, ownership)
      BY DEF Details
    <3>4. IsAged(i) => "age_bucket" \in Details(i, ownership)
      BY DEF Details
    <3>5. ownership = "unavailable" => "sender_ownership" \in Details(i, ownership)
      BY DEF Details
    <3> QED
      BY <3>1, <3>2, <3>3, <3>4, <3>5 DEF Degraded
  <2>7. ~watch.blocked /\ ~watch.failed /\ ownership = "held" => ~Degraded(i, ownership)
    BY <2>3 DEF Degraded
  <2> QED
    BY <2>4, <2>5, <2>6, <2>7 DEF i
<1> DEFINE Honesty ==
      \A ownership \in Probed : Report(ownership) =>
        /\ watch.blocked \/ (watch.sending /\ watch.lock = "free") => look'.result = "degraded"
        /\ look'.result = "degraded" => Details(look.inspection, ownership) \ {"pending"} # {}
        /\ /\ ~watch.blocked /\ ~watch.failed
           /\ watch.lock = "held" /\ ownership = "held"
           => look'.result = "ok"
<1>2. StatusInv /\ [QueueStatusNext]_queueStatusVars => [Honesty]_queueStatusVars
  BY <1>1
<1>3. StatusIsHonest <=> [][Honesty]_queueStatusVars
  BY DEF StatusIsHonest
<1> HIDE DEF Honesty
<1> QED
  BY <1>2, <1>3, StatusStarts, StatusSteps, PTL DEF QueueStatusSpec

-----------------------------------------------------------------------------
(***************************************************************************)
(* The operator's commands.  What a command prints of its write follows    *)
(* from where it is: up to the submission nothing was sent, and past the   *)
(* acknowledgement the write was performed, which nothing undoes.          *)
(***************************************************************************)
Turns == 1..MaxCommands
BeforeWrite == {"read", "tree", "inventory", "submit"}
AfterAnswer == {"readback", "binding", "absence", "cascade", "page", "status"}

IsWrite(w) ==
  /\ w = [state |-> w.state, action |-> w.action, model |-> w.model, page |-> w.page,
          model_fields |-> w.model_fields, mission_fields |-> w.mission_fields]
  /\ w.state \in WriteState

WritesKept ==
  /\ turn \in 0..MaxCommands
  /\ DOMAIN write = Turns /\ DOMAIN outcome = Turns
  /\ \A t \in Turns : IsWrite(write[t])

\* Where the command is tells what became of its write.
StageTells ==
  /\ stage # "idle" => turn \in Turns /\ outcome[turn] = "none"
  /\ stage \in BeforeWrite => write[turn].state = "unused"
  /\ stage \in AfterAnswer => write[turn].state = "performed"
  /\ known => turn \in Turns /\ write[turn].state = "performed"

NotYet == \A t \in Turns : t > turn => write[t].state = "unused" /\ outcome[t] = "none"

OutcomeInv == WritesKept /\ StageTells /\ NotYet /\ OutcomesAreHonest

LEMMA UnsentIsWrite == IsWrite(Unsent) /\ Unsent.state = "unused"
BY DEF IsWrite, Unsent, WriteState

LEMMA OutcomesStart == OperatorInit => OutcomeInv
<1> SUFFICES ASSUME OperatorInit PROVE OutcomeInv
  OBVIOUS
<1>1. /\ turn = 0 /\ stage = "idle" /\ ~known
      /\ write = [t \in Turns |-> Unsent] /\ outcome = [t \in Turns |-> "none"]
  BY DEF OperatorInit, Turns
<1>2. WritesKept
  BY <1>1, UnsentIsWrite, OperatorAssumption DEF WritesKept
<1>3. StageTells
  BY <1>1 DEF StageTells, BeforeWrite, AfterAnswer
<1>4. NotYet /\ OutcomesAreHonest
  BY <1>1, UnsentIsWrite DEF NotYet, OutcomesAreHonest, Turns, Denial, Claim
<1> QED
  BY <1>2, <1>3, <1>4 DEF OutcomeInv

\* A step of a command that writes nothing and prints nothing.
LEMMA WaitingKeeps ==
  ASSUME OutcomeInv, stage # "idle", stage' # "idle",
         stage' \in BeforeWrite => stage \in BeforeWrite,
         stage' \in AfterAnswer => write[turn].state = "performed",
         known' => write[turn].state = "performed",
         UNCHANGED <<turn, write, outcome>>
  PROVE  OutcomeInv'
<1>1. WritesKept'
  BY DEF OutcomeInv, WritesKept
<1>2. StageTells'
  BY DEF OutcomeInv, StageTells
<1>3. NotYet' /\ OutcomesAreHonest'
  BY DEF OutcomeInv, NotYet, OutcomesAreHonest
<1> QED
  BY <1>1, <1>2, <1>3 DEF OutcomeInv

\* A command may print what is true of its write.
Warranted(r) ==
  /\ r \in Denial => write[turn].state \in {"unused", "refused"}
  /\ r \in Claim => write[turn].state = "performed"

LEMMA FinishKeeps ==
  ASSUME OutcomeInv, stage # "idle", NEW result, Finish(result), Warranted(result)
  PROVE  OutcomeInv'
<1>1. /\ stage' = "idle" /\ UNCHANGED <<turn, known, write>>
  BY DEF Finish
<1>2. PICK r \in Results(result) : outcome' = [outcome EXCEPT ![turn] = r]
  BY DEF Finish
<1>3. WritesKept /\ StageTells /\ NotYet /\ OutcomesAreHonest /\ turn \in Turns
  BY DEF OutcomeInv, StageTells
<1>4. /\ DOMAIN outcome' = Turns /\ outcome'[turn] = r
      /\ \A t \in Turns : t # turn => outcome'[t] = outcome[t]
  BY <1>2, <1>3 DEF WritesKept
<1>5. Warranted(r)
  <2>1. r \in {result, IF Attempted THEN "outcome_unknown" ELSE "cleanup_failed"}
    BY <1>2 DEF Results
  <2>2. Warranted("outcome_unknown")
    BY DEF Warranted, Denial, Claim
  <2>3. ~Attempted => Warranted("cleanup_failed")
    BY DEF Warranted, Attempted, Claim
  <2> QED
    BY <2>1, <2>2, <2>3
<1>6. WritesKept'
  BY <1>1, <1>3, <1>4 DEF WritesKept
<1>7. StageTells'
  BY <1>1, <1>3 DEF StageTells, BeforeWrite, AfterAnswer
<1>8. NotYet'
  <2>1. \A t \in Turns : t > turn => t # turn
    BY <1>3 DEF Turns
  <2> QED
    BY <1>1, <1>3, <1>4, <2>1 DEF NotYet
<1>9. OutcomesAreHonest'
  BY <1>1, <1>3, <1>4, <1>5 DEF OutcomesAreHonest, Warranted, Turns
<1> QED
  BY <1>6, <1>7, <1>8, <1>9 DEF OutcomeInv

\* The bank answers for a write that was sent and for no other.
LEMMA BankKeeps ==
  ASSUME OutcomeInv, NEW t \in Turns, write[t].state = "sent",
         UNCHANGED <<turn, stage, known, outcome>>, DOMAIN write' = Turns, IsWrite(write'[t]),
         \A u \in Turns : u # t => write'[u] = write[u]
  PROVE  OutcomeInv'
<1>1. WritesKept /\ StageTells /\ NotYet /\ OutcomesAreHonest
  BY DEF OutcomeInv
<1>2. \A u \in Turns : write[u].state # "sent" => write'[u] = write[u]
  OBVIOUS
<1>3. WritesKept'
  BY <1>1 DEF WritesKept
<1>4. StageTells'
  <2>1. stage \in BeforeWrite \cup AfterAnswer => turn \in Turns
    BY <1>1 DEF StageTells, BeforeWrite, AfterAnswer
  <2> QED
    BY <1>1, <1>2, <2>1 DEF StageTells
<1>5. NotYet'
  BY <1>1, <1>2 DEF NotYet
<1>6. OutcomesAreHonest'
  BY <1>1, <1>2 DEF OutcomesAreHonest, Turns
<1> QED
  BY <1>3, <1>4, <1>5, <1>6 DEF OutcomeInv

LEMMA PerformKeeps ==
  ASSUME OutcomeInv, NEW t \in Turns, Perform(t)
  PROVE  OutcomeInv'
<1>1. write[t].state = "sent" /\ UNCHANGED <<turn, stage, known, outcome>>
  BY DEF Perform, local
<1>2. \/ \E m, p : Create(t, m, p)
      \/ write' = [write EXCEPT ![t].state = "performed"]
  BY DEF Perform
<1>3. DOMAIN write = Turns /\ IsWrite(write[t])
  BY DEF OutcomeInv, WritesKept
<1>4. CASE write' = [write EXCEPT ![t].state = "performed"]
  <2>1. /\ DOMAIN write' = Turns /\ \A u \in Turns : u # t => write'[u] = write[u]
        /\ write'[t] = [write[t] EXCEPT !.state = "performed"]
    BY <1>3, <1>4
  <2>2. IsWrite(write'[t])
    BY <1>3, <2>1 DEF IsWrite, WriteState
  <2> QED
    BY <1>1, <2>1, <2>2, BankKeeps
<1>5. ASSUME NEW m, NEW p, Create(t, m, p) PROVE OutcomeInv'
  <2>0. write' = [write EXCEPT ![t].state = "performed", ![t].model = m, ![t].page = p]
    BY <1>5 DEF Create
  <2>1. /\ DOMAIN write' = Turns /\ \A u \in Turns : u # t => write'[u] = write[u]
        /\ write'[t] = [write[t] EXCEPT !.state = "performed", !.model = m, !.page = p]
    BY <1>3, <2>0
  <2>2. IsWrite(write'[t])
    BY <1>3, <2>1 DEF IsWrite, WriteState
  <2> QED
    BY <1>1, <2>1, <2>2, BankKeeps
<1> QED
  BY <1>2, <1>4, <1>5

LEMMA RefuseKeeps ==
  ASSUME OutcomeInv, NEW t \in Turns, Refuse(t)
  PROVE  OutcomeInv'
<1>1. /\ write[t].state = "sent" /\ UNCHANGED <<turn, stage, known, outcome>>
      /\ write' = [write EXCEPT ![t].state = "refused"]
  BY DEF Refuse, local
<1>2. DOMAIN write = Turns /\ IsWrite(write[t])
  BY DEF OutcomeInv, WritesKept
<1>3. /\ DOMAIN write' = Turns /\ \A u \in Turns : u # t => write'[u] = write[u]
      /\ write'[t] = [write[t] EXCEPT !.state = "refused"]
  BY <1>1, <1>2
<1>4. IsWrite(write'[t])
  BY <1>2, <1>3 DEF IsWrite, WriteState
<1> QED
  BY <1>1, <1>3, <1>4, BankKeeps

LEMMA SubmitKeeps ==
  ASSUME OutcomeInv, Submit
  PROVE  OutcomeInv'
<1>1. /\ stage = "submit" /\ stage' = "answer" /\ UNCHANGED <<turn, known, outcome>>
  BY DEF Submit, Await
<1>2. PICK action, model, model_fields, mission_fields :
        write' = [write EXCEPT ![turn] =
          [Unsent EXCEPT !.state = "sent", !.action = action, !.model = model,
             !.model_fields = model_fields, !.mission_fields = mission_fields]]
  BY Zenon DEF Submit
<1>3. WritesKept /\ StageTells /\ NotYet /\ OutcomesAreHonest
  BY DEF OutcomeInv
<1>4. turn \in Turns /\ outcome[turn] = "none" /\ write[turn].state = "unused"
  BY <1>1, <1>3 DEF StageTells, BeforeWrite
<1> DEFINE new == [Unsent EXCEPT !.state = "sent", !.action = action, !.model = model,
                     !.model_fields = model_fields, !.mission_fields = mission_fields]
<1>5. new.state = "sent" /\ IsWrite(new)
  <2> DEFINE sent == [Unsent EXCEPT !.state = "sent"]
             acting == [sent EXCEPT !.action = action]
             addressed == [acting EXCEPT !.model = model]
  <2>1. sent.state = "sent" /\ IsWrite(sent)
    BY UnsentIsWrite DEF IsWrite, WriteState
  <2>2. addressed.state = "sent" /\ IsWrite(addressed)
    <3> HIDE DEF sent
    <3>1. acting.state = "sent" /\ IsWrite(acting)
      BY <2>1 DEF IsWrite, WriteState
    <3> HIDE DEF acting
    <3> QED
      BY <3>1 DEF IsWrite, WriteState
  <2> HIDE DEF addressed
  <2>3. new = [addressed EXCEPT !.model_fields = model_fields, !.mission_fields = mission_fields]
    BY DEF addressed
  <2> HIDE DEF new
  <2> QED
    BY <2>2, <2>3 DEF IsWrite, WriteState
<1>6. write' = [write EXCEPT ![turn] = new]
  BY <1>2
<1> HIDE DEF new
<1>7. /\ DOMAIN write' = Turns /\ write'[turn] = new
      /\ \A t \in Turns : t # turn => write'[t] = write[t]
  BY <1>3, <1>4, <1>6 DEF WritesKept
<1>8. WritesKept'
  BY <1>1, <1>3, <1>5, <1>7 DEF WritesKept
<1>9. StageTells'
  <2>1. ~known
    BY <1>3, <1>4 DEF StageTells
  <2> QED
    BY <1>1, <1>4, <2>1 DEF StageTells, BeforeWrite, AfterAnswer
<1>10. NotYet'
  <2>1. \A t \in Turns : t > turn => t # turn
    BY <1>4 DEF Turns
  <2> QED
    BY <1>1, <1>3, <1>7, <2>1 DEF NotYet
<1>11. OutcomesAreHonest'
  BY <1>1, <1>3, <1>4, <1>7 DEF OutcomesAreHonest, Turns, Denial, Claim
<1> QED
  BY <1>8, <1>9, <1>10, <1>11 DEF OutcomeInv

LEMMA RunKeeps ==
  ASSUME OutcomeInv, RunOperator
  PROVE  OutcomeInv'
<1>1. /\ turn < MaxCommands /\ turn' = turn + 1 /\ ~known' /\ UNCHANGED <<write, outcome>>
      /\ stage' \in {"inventory", "read"}
  BY DEF RunOperator
<1>2. WritesKept /\ StageTells /\ NotYet /\ OutcomesAreHonest
  BY DEF OutcomeInv
<1>3. turn' \in 0..MaxCommands /\ turn' \in Turns /\ turn' > turn /\ turn \in Nat
  BY <1>1, <1>2, OperatorAssumption DEF WritesKept, Turns
<1>4. WritesKept'
  BY <1>1, <1>2, <1>3 DEF WritesKept
<1>5. StageTells'
  <2>1. write[turn'].state = "unused" /\ outcome[turn'] = "none"
    BY <1>2, <1>3 DEF NotYet
  <2> QED
    BY <1>1, <1>3, <2>1 DEF StageTells, BeforeWrite, AfterAnswer
<1>6. NotYet'
  <2>1. \A t \in Turns : t > turn' => t > turn
    BY <1>1, <1>3 DEF Turns
  <2> QED
    BY <1>1, <1>2, <2>1 DEF NotYet
<1>7. OutcomesAreHonest'
  BY <1>1, <1>2 DEF OutcomesAreHonest
<1> QED
  BY <1>4, <1>5, <1>6, <1>7 DEF OutcomeInv

LEMMA OutcomesStep == OutcomeInv /\ [OperatorNext]_operatorVars => OutcomeInv'
<1> SUFFICES ASSUME OutcomeInv, [OperatorNext]_operatorVars PROVE OutcomeInv'
  OBVIOUS
<1>0. WritesKept /\ StageTells /\ NotYet /\ OutcomesAreHonest
  BY DEF OutcomeInv
<1>k. stage # "idle" /\ known => write[turn].state = "performed"
  BY <1>0 DEF StageTells
<1>1. ASSUME RunOperator PROVE OutcomeInv'
  BY <1>1, RunKeeps
<1>2. ASSUME Fails PROVE OutcomeInv'
  <2>1. stage # "idle" /\ Finish(Failure)
    BY <1>2 DEF Fails
  <2>2. Warranted(Failure)
    BY <1>k, <2>1 DEF Warranted, Failure, Attempted, Denial, Claim
  <2> QED
    BY <2>1, <2>2, FinishKeeps
<1>3. ASSUME Ambiguous PROVE OutcomeInv'
  <2>1. stage # "idle" /\ Finish("ambiguous")
    BY <1>3 DEF Ambiguous
  <2>2. Warranted("ambiguous")
    BY DEF Warranted, Denial, Claim
  <2> QED
    BY <2>1, <2>2, FinishKeeps
\* Nothing was sent, and the command says so.
<1>4. ASSUME NEW result \in Denial, stage \in BeforeWrite, Finish(result) PROVE OutcomeInv'
  <2>1. stage # "idle" /\ write[turn].state = "unused"
    BY <1>0, <1>4 DEF StageTells, BeforeWrite
  <2>2. Warranted(result)
    BY <1>4, <2>1 DEF Warranted, Denial, Claim
  <2> QED
    BY <1>4, <2>1, <2>2, FinishKeeps
<1>5. ASSUME RenameRefused \/ CreateFindsModel \/ AllowanceExhausted \/ MissionsAlreadyEqual
      PROVE  OutcomeInv'
  <2>1. \E result \in Denial : stage \in BeforeWrite /\ Finish(result)
    BY <1>5 DEF RenameRefused, CreateFindsModel, AllowanceExhausted, MissionsAlreadyEqual,
                BeforeWrite, Denial
  <2> QED
    BY <1>4, <2>1
\* The bank acknowledged the write, and the command says so.
<1>6. ASSUME NEW result \in Claim, stage \in AfterAnswer, Finish(result) PROVE OutcomeInv'
  <2>1. stage # "idle" /\ write[turn].state = "performed"
    BY <1>0, <1>6 DEF StageTells, AfterAnswer
  <2>2. Warranted(result)
    BY <1>6, <2>1 DEF Warranted, Denial, Claim
  <2> QED
    BY <1>6, <2>1, <2>2, FinishKeeps
<1>7. ASSUME EditVerified \/ MissionsVerified \/ DeleteVerified \/ StatusRead PROVE OutcomeInv'
  <2>1. \E result \in Claim : stage \in AfterAnswer /\ Finish(result)
    BY <1>7 DEF EditVerified, MissionsVerified, DeleteVerified, StatusRead, AfterAnswer, Claim
  <2> QED
    BY <1>6, <2>1
<1>8. ASSUME Rejected PROVE OutcomeInv'
  <2>1. stage # "idle" /\ write[turn].state = "refused" /\ Finish("rejected")
    BY <1>8 DEF Rejected
  <2>2. Warranted("rejected")
    BY <2>1 DEF Warranted, Denial, Claim
  <2> QED
    BY <2>1, <2>2, FinishKeeps
\* One read after another, before the write and after it.
<1>9. ASSUME ReadModel \/ ReadTree \/ CreateFindsNone \/ ReadInventory \/ ReadMissions
      PROVE  OutcomeInv'
  <2>1. /\ stage \in BeforeWrite /\ stage' \in BeforeWrite
        /\ UNCHANGED <<turn, known, write, outcome>>
    BY <1>9 DEF ReadModel, ReadTree, CreateFindsNone, ReadInventory, ReadMissions, Await, BeforeWrite
  <2>2. stage # "idle" /\ stage' # "idle" /\ stage' \notin AfterAnswer
    BY <2>1 DEF BeforeWrite, AfterAnswer
  <2> QED
    BY <1>k, <2>1, <2>2, WaitingKeeps
<1>10. ASSUME CreationRead \/ BindingRead \/ ModelIsAbsent \/ NoPageInTree PROVE OutcomeInv'
  <2>1. /\ stage \in AfterAnswer /\ stage' \in AfterAnswer
        /\ UNCHANGED <<turn, known, write, outcome>>
    BY <1>10 DEF CreationRead, BindingRead, ModelIsAbsent, NoPageInTree, Await, AfterAnswer
  <2>2. stage # "idle" /\ stage' # "idle" /\ stage' \notin BeforeWrite
    BY <2>1 DEF BeforeWrite, AfterAnswer
  <2>3. write[turn].state = "performed"
    BY <1>0, <2>1 DEF StageTells
  <2> QED
    BY <2>1, <2>2, <2>3, WaitingKeeps
<1>11. ASSUME Submit PROVE OutcomeInv'
  BY <1>11, SubmitKeeps
<1>12. ASSUME Acknowledged PROVE OutcomeInv'
  <2>1. /\ stage = "answer" /\ stage' \in {"absence", "status", "readback"}
        /\ write[turn].state = "performed" /\ UNCHANGED <<turn, write, outcome>>
    BY <1>12 DEF Acknowledged, Await
  <2>2. stage' # "idle" /\ stage' \notin BeforeWrite
    BY <2>1 DEF BeforeWrite
  <2> QED
    BY <2>1, <2>2, WaitingKeeps
<1>13. ASSUME NEW t \in 1..MaxCommands, Perform(t) \/ Refuse(t) PROVE OutcomeInv'
  BY <1>13, PerformKeeps, RefuseKeeps DEF Turns
<1>14. ASSUME OtherClient \/ UNCHANGED operatorVars PROVE OutcomeInv'
  <2>1. UNCHANGED <<turn, stage, known, write, outcome>>
    BY <1>14 DEF OtherClient, local, operatorVars
  <2> QED
    BY <2>1 DEF OutcomeInv, WritesKept, StageTells, NotYet, OutcomesAreHonest
<1> QED
  BY <1>1, <1>2, <1>3, <1>5, <1>7, <1>8, <1>9, <1>10, <1>11, <1>12, <1>13, <1>14
  DEF OperatorNext

\* What a command printed of its write stays true: one that says that nothing
\* was written is right for ever, and one that reports an acknowledgement had
\* it (summary_management.py, management.py), for any commands and any bank.
THEOREM CommandsAreHonest == OperatorSpec => []OutcomesAreHonest
<1>1. OutcomeInv => OutcomesAreHonest
  BY DEF OutcomeInv
<1> QED
  BY <1>1, OutcomesStart, OutcomesStep, PTL DEF OperatorSpec

-----------------------------------------------------------------------------
(***************************************************************************)
(* What "verified" says.  Between the reads of a command other clients and *)
(* late writes change the bank: what an earlier read showed has to last    *)
(* until the command ends, or be noted.                                    *)
(***************************************************************************)
\* The way a command takes is its action's.
PathTells ==
  /\ stage # "idle" => command \in Script
  /\ stage = "tree" => command.action \in {"edit", "delete"}
  /\ stage = "inventory" => command.action \in {"create", "page_create"}
  /\ stage \in {"absence", "cascade", "page"} => command.action = "delete"

BankKept == DOMAIN bank = Model /\ DOMAIN pageOf = Page /\ DOMAIN missions = Mission

\* The missions read are those the updates were made from.
UpdatesNoted ==
  command.action = "missions" =>
    /\ stage \in {"submit", "answer", "readback"} => DOMAIN before = Mission
    /\ stage \in {"answer", "readback"} => write[turn].mission_fields = MissionUpdates(before)

\* The model of a delete stays absent once it was read as absent, and so do
\* its pages, unless it is created again; the bank gives its id to no new page.
DeletionLasts ==
  /\ command.action = "delete" /\ stage \in {"answer", "absence", "cascade", "page"} =>
       write[turn].model = command.model /\ write[turn].action = "delete"
  /\ stage \in {"cascade", "page"} => bank[command.model] = Absent \/ Created(command.model)
  /\ stage = "page" => PagesOf(command.model) = {} \/ Created(command.model)

VerifyInv == OutcomeInv /\ PathTells /\ BankKept /\ UpdatesNoted /\ DeletionLasts

LEMMA VerifyStart == OperatorInit => VerifyInv
<1> SUFFICES ASSUME OperatorInit PROVE VerifyInv
  OBVIOUS
<1>1. stage = "idle" /\ BankKept
  BY DEF OperatorInit, BankKept
<1> QED
  BY <1>1, OutcomesStart DEF VerifyInv, PathTells, UpdatesNoted, DeletionLasts

\* A command that is at rest or has only begun has noted nothing.
LEMMA RestVerifies ==
  ASSUME OutcomeInv', BankKept, UNCHANGED remote,
         \/ stage' = "idle"
         \/ stage' = "read" /\ command' \in Script
         \/ stage' = "inventory" /\ command' \in Script /\ command'.action \in {"create", "page_create"}
  PROVE  VerifyInv'
<1>1. BankKept'
  BY DEF BankKept, remote
<1>2. PathTells' /\ UpdatesNoted' /\ DeletionLasts'
  BY DEF PathTells, UpdatesNoted, DeletionLasts
<1> QED
  BY <1>1, <1>2 DEF VerifyInv

LEMMA ReadsVerify ==
  ASSUME VerifyInv, OutcomeInv',
         \/ ReadModel \/ ReadTree \/ CreateFindsNone \/ ReadInventory \/ ReadMissions
  PROVE  VerifyInv'
<1>1. PathTells /\ BankKept
  BY DEF VerifyInv
<1>2. UNCHANGED <<turn, command, write, remote>>
  BY DEF ReadModel, ReadTree, CreateFindsNone, ReadInventory, ReadMissions, Await
<1>3. BankKept' /\ (command \in Script)
  BY <1>1, <1>2 DEF BankKept, remote, PathTells, ReadModel, ReadTree, CreateFindsNone,
                   ReadInventory, ReadMissions
<1>4. CASE ReadMissions
  <2>1. stage' = "submit" /\ before' = missions /\ command.action = "missions"
    BY <1>4 DEF ReadMissions, Await
  <2>2. PathTells' /\ UpdatesNoted' /\ DeletionLasts'
    BY <1>1, <1>2, <1>3, <2>1 DEF PathTells, UpdatesNoted, DeletionLasts, BankKept
  <2> QED
    BY <1>3, <2>2 DEF VerifyInv
<1>5. CASE ReadModel \/ ReadTree \/ CreateFindsNone \/ ReadInventory
  <2>1. /\ command.action # "missions" /\ stage' \in {"submit", "tree", "inventory"}
        /\ stage' = "tree" => command.action \in {"edit", "delete"}
        /\ stage' = "inventory" => command.action \in {"create", "page_create"}
    <3>1. CASE ReadModel
      BY <3>1 DEF ReadModel, Await
    <3>2. CASE ReadTree \/ CreateFindsNone \/ ReadInventory
      BY <1>1, <3>2 DEF ReadTree, CreateFindsNone, ReadInventory, Await, PathTells
    <3> QED
      BY <1>5, <3>1, <3>2
  <2>2. PathTells' /\ UpdatesNoted' /\ DeletionLasts'
    BY <1>2, <1>3, <2>1 DEF PathTells, UpdatesNoted, DeletionLasts
  <2> QED
    BY <1>3, <2>2 DEF VerifyInv
<1> QED
  BY <1>4, <1>5

LEMMA SubmitVerifies ==
  ASSUME VerifyInv, OutcomeInv', Submit
  PROVE  VerifyInv'
<1> DEFINE fields == IF command.action = "missions" THEN MissionUpdates(before) ELSE Unmanaged
           model == IF command.action \in {"page_create", "missions"} THEN NoModel ELSE command.model
           new == [Unsent EXCEPT !.state = "sent", !.action = command.action, !.model = model,
                     !.model_fields = command.change, !.mission_fields = fields]
<1>1. /\ stage = "submit" /\ stage' = "answer" /\ UNCHANGED <<turn, command, before, remote>>
      /\ write' = [write EXCEPT ![turn] = new]
  BY DEF Submit, Await
<1>2. new.action = command.action /\ new.model = model /\ new.mission_fields = fields
  <2> HIDE DEF fields, model
  <2> QED
    BY DEF Unsent
<1> HIDE DEF new
<1>3. PathTells /\ BankKept /\ UpdatesNoted /\ turn \in DOMAIN write
  BY <1>1 DEF VerifyInv, OutcomeInv, WritesKept, StageTells
<1>4. write'[turn] = new
  BY <1>1, <1>3
<1>5. PathTells' /\ BankKept'
  BY <1>1, <1>3 DEF PathTells, BankKept, remote
<1>6. UpdatesNoted'
  <2>1. ASSUME command.action = "missions"
        PROVE  DOMAIN before = Mission /\ write'[turn].mission_fields = MissionUpdates(before)
    BY <1>1, <1>2, <1>3, <1>4, <2>1 DEF UpdatesNoted
  <2>2. MissionUpdates(before)' = MissionUpdates(before)
    BY <1>1 DEF MissionUpdates
  <2> QED
    BY <1>1, <2>1, <2>2 DEF UpdatesNoted
<1>7. DeletionLasts'
  <2>1. command.action = "delete" => write'[turn].model = command.model /\ write'[turn].action = "delete"
    BY <1>2, <1>4
  <2> QED
    BY <1>1, <2>1 DEF DeletionLasts
<1> QED
  BY <1>5, <1>6, <1>7 DEF VerifyInv

LEMMA AnswersVerify ==
  ASSUME VerifyInv, OutcomeInv',
         Acknowledged \/ CreationRead \/ BindingRead \/ ModelIsAbsent \/ NoPageInTree
  PROVE  VerifyInv'
<1>1. PathTells /\ BankKept /\ UpdatesNoted /\ DeletionLasts
  BY DEF VerifyInv
<1>2. UNCHANGED <<turn, command, before, write, bank, pageOf, missions>>
  BY DEF Acknowledged, CreationRead, BindingRead, ModelIsAbsent, NoPageInTree, Await, remote
<1>3. command \in Script
  BY <1>1 DEF PathTells, Acknowledged, CreationRead, BindingRead, ModelIsAbsent, NoPageInTree
<1>4. BankKept'
  BY <1>1, <1>2 DEF BankKept
<1>5. /\ MissionUpdates(before)' = MissionUpdates(before)
      /\ PagesOf(command.model)' = PagesOf(command.model)
      /\ Created(command.model)' = Created(command.model)
  BY <1>2 DEF MissionUpdates, PagesOf, Created
<1>6. CASE Acknowledged
  <2>1. stage = "answer" /\ stage' = CASE command.action = "delete" -> "absence"
                                       [] command.action = "refresh" -> "status"
                                       [] OTHER -> "readback"
    BY <1>6 DEF Acknowledged, Await
  <2>2. stage' \in {"absence", "status", "readback"} /\ (stage' = "absence" => command.action = "delete")
    BY <2>1
  <2>3. PathTells' /\ DeletionLasts'
    BY <1>1, <1>2, <1>3, <2>1, <2>2 DEF PathTells, DeletionLasts
  <2>4. UpdatesNoted'
    BY <1>1, <1>2, <1>5, <2>1, <2>2 DEF UpdatesNoted
  <2> QED
    BY <1>4, <2>3, <2>4 DEF VerifyInv
<1>7. CASE CreationRead \/ BindingRead
  <2>1. stage' \in {"status", "binding"}
    BY <1>7 DEF CreationRead, BindingRead, Await
  <2>2. PathTells' /\ DeletionLasts' /\ UpdatesNoted'
    BY <1>2, <1>3, <2>1 DEF PathTells, DeletionLasts, UpdatesNoted
  <2> QED
    BY <1>4, <2>2 DEF VerifyInv
<1>8. CASE ModelIsAbsent
  <2>1. stage = "absence" /\ stage' = "cascade" /\ bank[command.model] = Absent
    BY <1>8 DEF ModelIsAbsent, Await
  <2>2. PathTells' /\ DeletionLasts' /\ UpdatesNoted'
    BY <1>1, <1>2, <1>3, <2>1 DEF PathTells, DeletionLasts, UpdatesNoted
  <2> QED
    BY <1>4, <2>2 DEF VerifyInv
<1>9. CASE NoPageInTree
  <2>1. stage = "cascade" /\ stage' = "page" /\ PagesOf(command.model) = {}
    BY <1>9 DEF NoPageInTree, Await
  <2>2. PathTells' /\ DeletionLasts' /\ UpdatesNoted'
    BY <1>1, <1>2, <1>3, <1>5, <2>1 DEF PathTells, DeletionLasts, UpdatesNoted
  <2> QED
    BY <1>4, <2>2 DEF VerifyInv
<1> QED
  BY <1>6, <1>7, <1>8, <1>9

\* What the bank does with a write leaves what was noted of it, and a creation
\* it performed stays performed.
LEMMA BankVerifies ==
  ASSUME VerifyInv, OutcomeInv', NEW t \in Turns, write[t].state = "sent",
         UNCHANGED local, BankKept',
         DOMAIN write = Turns, \A u \in Turns : u # t => write'[u] = write[u],
         write'[t].action = write[t].action,
         write'[t].mission_fields = write[t].mission_fields,
         write[t].action # "page_create" /\ write[t].action # "create" =>
           write'[t].model = write[t].model,
         \* A model that is absent stays so, with no page, but for a creation.
         \A m \in Model :
           bank[m] = Absent /\ (\E u \in Turns : write[u].model = m) =>
             \/ bank'[m] = Absent /\ \A p \in Page : pageOf'[p] = m => pageOf[p] = m
             \/ Created(m)'
  PROVE  VerifyInv'
<1>1. PathTells /\ UpdatesNoted /\ DeletionLasts
  BY DEF VerifyInv
<1>2. UNCHANGED <<turn, stage, command, before>>
  BY DEF local
<1>3. PathTells'
  BY <1>1, <1>2 DEF PathTells
<1>4. UpdatesNoted'
  <2>1. write'[turn].mission_fields = write[turn].mission_fields
        \/ ~(stage \in {"answer", "readback"})
    <3>1. stage \in {"answer", "readback"} => turn \in Turns
      BY DEF VerifyInv, OutcomeInv, StageTells
    <3> QED
      BY <3>1
  <2>2. MissionUpdates(before)' = MissionUpdates(before)
    BY <1>2 DEF MissionUpdates
  <2> QED
    BY <1>1, <1>2, <2>1, <2>2 DEF UpdatesNoted
<1>5. DeletionLasts'
  <2> SUFFICES ASSUME command.action = "delete", stage \in {"answer", "absence", "cascade", "page"}
               PROVE  DeletionLasts'
    <3>1. stage \in {"absence", "cascade", "page"} => command.action = "delete"
      BY <1>1 DEF PathTells
    <3> QED
      BY <1>2, <3>1 DEF DeletionLasts
  <2> DEFINE m == command.model
  <2>1. turn \in Turns /\ write[turn].model = m /\ write[turn].action = "delete"
    BY <1>1 DEF DeletionLasts, VerifyInv, OutcomeInv, StageTells
  <2>2. m \in Model
    BY <1>1, ScriptAssumption DEF PathTells, Command
  <2>3. write'[turn].model = m /\ write'[turn].action = "delete"
    BY <2>1
  <2>4. Created(m) => Created(m)'
    <3> SUFFICES ASSUME Created(m) PROVE Created(m)'
      OBVIOUS
    <3>1. PICK u \in Turns : write[u].action = "create" /\ write[u].model = m
                             /\ write[u].state = "performed"
      BY DEF Created, Turns
    <3>2. u # t /\ write'[u] = write[u]
      BY <3>1
    <3> QED
      BY <1>2, <3>1, <3>2 DEF Created, Turns
  <2>5. bank[m] = Absent =>
          \/ bank'[m] = Absent /\ \A p \in Page : pageOf'[p] = m => pageOf[p] = m
          \/ Created(m)'
    BY <1>2, <2>1, <2>2
  <2>6. stage \in {"cascade", "page"} => bank'[m] = Absent \/ Created(m)'
    BY <1>1, <2>4, <2>5 DEF DeletionLasts
  <2>7. ASSUME stage = "page" PROVE PagesOf(m)' = {} \/ Created(m)'
    <3>1. PagesOf(m) = {} \/ Created(m)
      BY <1>1, <2>7 DEF DeletionLasts
    <3>2. bank[m] = Absent \/ Created(m)
      BY <1>1, <2>7 DEF DeletionLasts
    <3>3. PagesOf(m) = {} /\ (\A p \in Page : pageOf'[p] = m => pageOf[p] = m) => PagesOf(m)' = {}
      BY <1>2 DEF PagesOf
    <3> QED
      BY <2>4, <2>5, <3>1, <3>2, <3>3
  <2> QED
    BY <1>2, <2>3, <2>6, <2>7 DEF DeletionLasts
<1> QED
  BY <1>3, <1>4, <1>5 DEF VerifyInv

LEMMA PerformVerifies ==
  ASSUME VerifyInv, OutcomeInv', NEW t \in Turns, Perform(t)
  PROVE  VerifyInv'
<1> DEFINE w == write[t]
<1>1. w.state = "sent" /\ UNCHANGED local
  BY DEF Perform
<1>2. BankKept /\ DOMAIN write = Turns /\ IsWrite(w)
  BY DEF VerifyInv, OutcomeInv, WritesKept
<1>3. ASSUME NEW m, NEW p, Create(t, m, p)
      PROVE  /\ \A u \in Turns : u # t => write'[u] = write[u]
             /\ write'[t].action = w.action /\ write'[t].mission_fields = w.mission_fields
             /\ write'[t].state = "performed" /\ write'[t].model = m
             /\ DOMAIN bank' = Model /\ \A n \in Model : n # m => bank'[n] = bank[n]
  <2>1. /\ write' = [write EXCEPT ![t].state = "performed", ![t].model = m, ![t].page = p]
        /\ bank' = [bank EXCEPT ![m] = Overlay([name |-> 0, trigger |-> 0, tags |-> 0], w.model_fields)]
    BY <1>3 DEF Create
  <2>2. DOMAIN bank' = Model /\ \A n \in Model : n # m => bank'[n] = bank[n]
    BY <1>2, <2>1 DEF BankKept
  <2>3. write'[t] = [w EXCEPT !.state = "performed", !.model = m, !.page = p]
    BY <1>2, <2>1
  <2>4. \A u \in Turns : u # t => write'[u] = write[u]
    BY <1>2, <2>1
  <2>5. /\ write'[t].action = w.action /\ write'[t].mission_fields = w.mission_fields
        /\ write'[t].state = "performed" /\ write'[t].model = m
    <3> HIDE DEF w
    <3> QED
      BY <1>2, <2>3 DEF IsWrite
  <2> QED
    BY <2>2, <2>4, <2>5
<1>4. ASSUME write' = [write EXCEPT ![t].state = "performed"]
      PROVE  /\ \A u \in Turns : u # t => write'[u] = write[u]
             /\ write'[t].action = w.action /\ write'[t].mission_fields = w.mission_fields
             /\ write'[t].model = w.model
  <2>1. write'[t] = [w EXCEPT !.state = "performed"]
    BY <1>2, <1>4
  <2>2. \A u \in Turns : u # t => write'[u] = write[u]
    BY <1>2, <1>4
  <2>3. /\ write'[t].action = w.action /\ write'[t].mission_fields = w.mission_fields
        /\ write'[t].model = w.model
    <3> HIDE DEF w
    <3> QED
      BY <1>2, <2>1 DEF IsWrite
  <2> QED
    BY <2>2, <2>3
<1>5. CASE w.action = "create" /\ Create(t, w.model, NoModel) /\ UNCHANGED <<pageOf, missions>>
  <2>1. BankKept'
    BY <1>2, <1>3, <1>5 DEF BankKept
  <2>2. ASSUME NEW m, m = w.model PROVE Created(m)'
    BY <1>1, <1>3, <1>5, <2>2 DEF Created, Turns, local
  <2>3. ASSUME NEW m \in Model, bank[m] = Absent
        PROVE  \/ bank'[m] = Absent /\ \A p \in Page : pageOf'[p] = m => pageOf[p] = m
               \/ Created(m)'
    <3>1. CASE m = w.model
      BY <2>2, <3>1
    <3>2. CASE m # w.model
      <4>1. bank'[m] = bank[m]
        BY <1>3, <1>5, <3>2
      <4> QED
        BY <1>5, <2>3, <4>1
    <3> QED
      BY <3>1, <3>2
  <2> QED
    BY <1>1, <1>2, <1>3, <1>5, <2>1, <2>3, BankVerifies
<1>6. ASSUME w.action = "page_create", UNCHANGED missions, NEW m \in Generated, NEW p \in Page,
             \A u \in 1..MaxCommands : write[u].model # m,
             Create(t, m, p), pageOf' = [pageOf EXCEPT ![p] = m]
      PROVE  VerifyInv'
  <2>1. BankKept'
    BY <1>2, <1>3, <1>6 DEF BankKept
  <2>2. ASSUME NEW n \in Model, bank[n] = Absent, NEW u \in Turns, write[u].model = n
        PROVE  bank'[n] = Absent /\ \A q \in Page : pageOf'[q] = n => pageOf[q] = n
    <3>1. n # m
      BY <1>6, <2>2 DEF Turns
    <3>2. bank'[n] = Absent
      BY <1>3, <1>6, <2>2, <3>1
    <3>3. \A q \in Page : pageOf'[q] = n => pageOf[q] = n
      BY <1>2, <1>6, <3>1 DEF BankKept
    <3> QED
      BY <3>2, <3>3
  <2> QED
    BY <1>1, <1>2, <1>3, <1>6, <2>1, <2>2, BankVerifies
<1>7. ASSUME w.action \in {"edit", "refresh", "delete"}, bank[w.model] # Absent,
             bank' = [bank EXCEPT ![w.model] =
                        IF w.action = "delete" THEN Absent ELSE Overlay(@, w.model_fields)],
             IF w.action = "delete"
               THEN \E left \in SUBSET PagesOf(w.model) :
                      pageOf' = [p \in Page |-> IF p \in PagesOf(w.model) \ left THEN Deleted
                                                                                ELSE pageOf[p]]
               ELSE UNCHANGED pageOf,
             write' = [write EXCEPT ![t].state = "performed"], UNCHANGED missions
      PROVE  VerifyInv'
  <2>1. DOMAIN bank' = Model /\ \A m \in Model : bank[m] = Absent => bank'[m] = Absent
    BY <1>2, <1>7 DEF BankKept
  <2>2. DOMAIN pageOf' = Page /\ \A m \in Model : \A p \in Page : pageOf'[p] = m => pageOf[p] = m
    <3>1. CASE w.action = "delete"
      <4>1. PICK left : pageOf' = [p \in Page |-> IF p \in PagesOf(w.model) \ left THEN Deleted
                                                                              ELSE pageOf[p]]
        BY <1>7, <3>1
      <4>2. \A p \in Page : pageOf'[p] \in {Deleted, pageOf[p]}
        BY <4>1
      <4> QED
        BY <4>1, <4>2, OperatorAssumption
    <3>2. CASE w.action # "delete"
      BY <1>2, <1>7, <3>2 DEF BankKept
    <3> QED
      BY <3>1, <3>2
  <2>3. BankKept'
    BY <1>2, <1>7, <2>1, <2>2 DEF BankKept
  <2> QED
    BY <1>1, <1>2, <1>4, <1>7, <2>1, <2>2, <2>3, BankVerifies
<1>8. CASE /\ w.action = "missions"
           /\ missions' = Overlay(missions, w.mission_fields)
           /\ write' = [write EXCEPT ![t].state = "performed"]
           /\ UNCHANGED <<bank, pageOf>>
  <2>1. BankKept'
    BY <1>2, <1>8 DEF BankKept, Overlay
  <2> QED
    BY <1>1, <1>2, <1>4, <1>8, <2>1, BankVerifies
<1>9. \/ w.action = "create" /\ Create(t, w.model, NoModel) /\ UNCHANGED <<pageOf, missions>>
      \/ /\ w.action = "page_create"
         /\ \E m \in Generated, p \in Page :
              /\ pageOf[p] = NoModel
              /\ \A u \in 1..MaxCommands : write[u].model # m
              /\ Create(t, m, p)
              /\ pageOf' = [pageOf EXCEPT ![p] = m]
         /\ UNCHANGED missions
      \/ /\ w.action \in {"edit", "refresh", "delete"}
         /\ bank[w.model] # Absent
         /\ bank' = [bank EXCEPT ![w.model] =
                       IF w.action = "delete" THEN Absent ELSE Overlay(@, w.model_fields)]
         /\ IF w.action = "delete"
              THEN \E left \in SUBSET PagesOf(w.model) :
                     pageOf' = [p \in Page |-> IF p \in PagesOf(w.model) \ left THEN Deleted
                                                                               ELSE pageOf[p]]
              ELSE UNCHANGED pageOf
         /\ write' = [write EXCEPT ![t].state = "performed"]
         /\ UNCHANGED missions
      \/ /\ w.action = "missions"
         /\ missions' = Overlay(missions, w.mission_fields)
         /\ write' = [write EXCEPT ![t].state = "performed"]
         /\ UNCHANGED <<bank, pageOf>>
  BY Zenon DEF Perform
<1> HIDE DEF w
<1> QED
  BY <1>5, <1>6, <1>7, <1>8, <1>9, Zenon

LEMMA RefuseVerifies ==
  ASSUME VerifyInv, OutcomeInv', NEW t \in Turns, Refuse(t)
  PROVE  VerifyInv'
<1> DEFINE w == write[t]
<1>1. /\ w.state = "sent" /\ UNCHANGED <<local, remote>>
      /\ write' = [write EXCEPT ![t].state = "refused"]
  BY DEF Refuse
<1>2. BankKept /\ DOMAIN write = Turns /\ IsWrite(w)
  BY DEF VerifyInv, OutcomeInv, WritesKept
<1>3. write'[t] = [w EXCEPT !.state = "refused"] /\ \A u \in Turns : u # t => write'[u] = write[u]
  BY <1>1, <1>2
<1>4. /\ write'[t].action = w.action /\ write'[t].mission_fields = w.mission_fields
      /\ write'[t].model = w.model
  <2> HIDE DEF w
  <2> QED
    BY <1>2, <1>3 DEF IsWrite
<1>5. BankKept'
  BY <1>1, <1>2 DEF BankKept, remote
<1>6. UNCHANGED <<bank, pageOf>>
  BY <1>1 DEF remote
<1> QED
  BY <1>1, <1>2, <1>3, <1>4, <1>5, <1>6, BankVerifies

\* Another client writes only to a model that is there.
LEMMA OthersVerify ==
  ASSUME VerifyInv, OutcomeInv', OtherClient
  PROVE  VerifyInv'
<1>1. UNCHANGED <<turn, stage, command, before, write>>
  BY DEF OtherClient, local
<1>2. PathTells /\ BankKept /\ UpdatesNoted /\ DeletionLasts
  BY DEF VerifyInv
<1>3. BankKept'
  BY <1>2 DEF OtherClient, BankKept
<1>4. ASSUME NEW m \in Model, bank[m] = Absent
      PROVE  bank'[m] = Absent /\ \A p \in Page : pageOf'[p] = m => pageOf[p] = m
  <2>1. m \notin Models
    BY <1>4 DEF Models
  <2>2. CASE \E n \in Models, f \in {"name", "trigger", "tags"} :
               bank' = [bank EXCEPT ![n][f] = 1 - @] /\ UNCHANGED pageOf
    BY <1>2, <1>4, <2>1, <2>2 DEF BankKept
  <2>3. CASE \E n \in Models, p \in Page : pageOf' = [pageOf EXCEPT ![p] = n] /\ UNCHANGED bank
    BY <1>2, <1>4, <2>1, <2>3 DEF BankKept
  <2>4. CASE UNCHANGED <<bank, pageOf>>
    BY <1>4, <2>4
  <2> QED
    BY <2>2, <2>3, <2>4 DEF OtherClient
<1>5. /\ MissionUpdates(before)' = MissionUpdates(before)
      /\ Created(command.model)' = Created(command.model)
  BY <1>1 DEF MissionUpdates, Created
<1>6. PathTells' /\ UpdatesNoted'
  BY <1>1, <1>2, <1>5 DEF PathTells, UpdatesNoted
<1>7. DeletionLasts'
  <2>1. ASSUME stage \in {"cascade", "page"}, ~Created(command.model)
        PROVE  /\ bank'[command.model] = Absent
               /\ PagesOf(command.model) = {} => PagesOf(command.model)' = {}
    <3>1. command.model \in Model
      BY <1>2, <2>1, ScriptAssumption DEF PathTells, Command
    <3>2. bank[command.model] = Absent
      BY <1>2, <2>1 DEF DeletionLasts
    <3>3. bank'[command.model] = Absent
          /\ \A p \in Page : pageOf'[p] = command.model => pageOf[p] = command.model
      BY <1>4, <3>1, <3>2
    <3> QED
      BY <1>1, <3>3 DEF PagesOf
  <2> QED
    BY <1>1, <1>2, <1>5, <2>1 DEF DeletionLasts
<1> QED
  BY <1>3, <1>6, <1>7 DEF VerifyInv

LEMMA VerifyStep == VerifyInv /\ [OperatorNext]_operatorVars => VerifyInv'
<1> SUFFICES ASSUME VerifyInv, [OperatorNext]_operatorVars PROVE VerifyInv'
  OBVIOUS
<1>0. OutcomeInv' /\ BankKept /\ PathTells
  BY OutcomesStep DEF VerifyInv
<1>1. ASSUME RunOperator PROVE VerifyInv'
  <2>1. /\ command' \in Script /\ UNCHANGED remote
        /\ stage' = IF command'.action = "page_create" THEN "inventory" ELSE "read"
    BY <1>1 DEF RunOperator
  <2> QED
    BY <1>0, <2>1, RestVerifies
<1>2. ASSUME NEW result, Finish(result) PROVE VerifyInv'
  <2>1. stage' = "idle" /\ UNCHANGED remote
    BY <1>2 DEF Finish
  <2> QED
    BY <1>0, <2>1, RestVerifies
<1>3. ASSUME \/ Fails \/ Ambiguous \/ RenameRefused \/ CreateFindsModel \/ AllowanceExhausted
             \/ MissionsAlreadyEqual \/ Rejected \/ EditVerified \/ StatusRead
             \/ MissionsVerified \/ DeleteVerified
      PROVE  VerifyInv'
  <2>1. \E result : Finish(result)
    BY <1>3 DEF Fails, Ambiguous, RenameRefused, CreateFindsModel, AllowanceExhausted,
                MissionsAlreadyEqual, Rejected, EditVerified, StatusRead, MissionsVerified,
                DeleteVerified
  <2> QED
    BY <1>2, <2>1
<1>4. ASSUME ReadModel \/ ReadTree \/ CreateFindsNone \/ ReadInventory \/ ReadMissions
      PROVE  VerifyInv'
  BY <1>0, <1>4, ReadsVerify
<1>5. ASSUME Submit PROVE VerifyInv'
  BY <1>0, <1>5, SubmitVerifies
<1>6. ASSUME Acknowledged \/ CreationRead \/ BindingRead \/ ModelIsAbsent \/ NoPageInTree
      PROVE  VerifyInv'
  BY <1>0, <1>6, AnswersVerify
<1>7. ASSUME NEW t \in 1..MaxCommands, Perform(t) \/ Refuse(t) PROVE VerifyInv'
  BY <1>0, <1>7, PerformVerifies, RefuseVerifies DEF Turns
<1>8. ASSUME OtherClient PROVE VerifyInv'
  BY <1>0, <1>8, OthersVerify
<1>9. ASSUME UNCHANGED operatorVars PROVE VerifyInv'
  <2>1. UNCHANGED <<turn, stage, command, before, write, bank, pageOf, missions>>
    BY <1>9 DEF operatorVars
  <2>2. /\ MissionUpdates(before)' = MissionUpdates(before)
        /\ PagesOf(command.model)' = PagesOf(command.model)
        /\ Created(command.model)' = Created(command.model)
    BY <2>1 DEF MissionUpdates, PagesOf, Created
  <2> QED
    BY <1>0, <2>1, <2>2 DEF VerifyInv, PathTells, BankKept, UpdatesNoted, DeletionLasts
<1> QED
  BY <1>1, <1>3, <1>4, <1>5, <1>6, <1>7, <1>8, <1>9 DEF OperatorNext

\* Only three steps print "verified".
LEMMA WhoVerifies ==
  ASSUME WritesKept, [OperatorNext]_operatorVars, NEW t \in Turns,
         outcome'[t] # outcome[t], outcome'[t] = "verified"
  PROVE  EditVerified \/ MissionsVerified \/ DeleteVerified
<1>1. ASSUME NEW result, Finish(result) PROVE result = "verified"
  <2>1. PICK r \in Results(result) : outcome' = [outcome EXCEPT ![turn] = r]
    BY <1>1 DEF Finish
  <2>2. outcome'[t] \in {outcome[t], r}
    BY <2>1 DEF WritesKept
  <2>3. r = "verified"
    BY <2>2
  <2> QED
    BY <2>1, <2>3 DEF Results
<1>2. Failure # "verified"
  BY DEF Failure
<1>3. ~Fails
  BY <1>1, <1>2 DEF Fails
<1>4. ~(Ambiguous \/ RenameRefused \/ CreateFindsModel \/ AllowanceExhausted \/ MissionsAlreadyEqual
        \/ Rejected \/ StatusRead)
  <2>1. ~Finish("ambiguous") /\ ~Finish("refused") /\ ~Finish("existing") /\ ~Finish("already_equal")
        /\ ~Finish("rejected") /\ ~Finish("queued") /\ ~Finish("failed")
    BY <1>1
  <2> QED
    BY <2>1 DEF Ambiguous, RenameRefused, CreateFindsModel, AllowanceExhausted, MissionsAlreadyEqual,
                Rejected, StatusRead
<1>5. ~(RunOperator \/ ReadModel \/ ReadTree \/ CreateFindsNone \/ ReadInventory \/ ReadMissions
        \/ Submit \/ Acknowledged \/ CreationRead \/ BindingRead \/ ModelIsAbsent \/ NoPageInTree)
  BY DEF RunOperator, ReadModel, ReadTree, CreateFindsNone, ReadInventory, ReadMissions, Submit,
         Acknowledged, CreationRead, BindingRead, ModelIsAbsent, NoPageInTree
<1>6. ~(\E u \in 1..MaxCommands : Perform(u) \/ Refuse(u))
  BY DEF Perform, Refuse
<1>7. ~(OtherClient \/ UNCHANGED operatorVars)
  BY DEF OtherClient, operatorVars
<1> QED
  BY <1>3, <1>4, <1>5, <1>6, <1>7 DEF OperatorNext

\* The missions a command verified are those configured.
LEMMA MissionsAreSet ==
  ASSUME VerifyInv, MissionsVerified, NEW f \in Mission
  PROVE  command.desired[f] \in {Keep, missions[f]}
<1>1. /\ stage = "readback" /\ command.action = "missions"
      /\ missions = Overlay(before, write[turn].mission_fields)
  BY DEF MissionsVerified
<1>2. DOMAIN before = Mission /\ write[turn].mission_fields = MissionUpdates(before)
  BY <1>1 DEF VerifyInv, UpdatesNoted
<1> DEFINE updates == MissionUpdates(before)
<1>3. f \in DOMAIN updates
      /\ updates[f] = IF command.desired[f] = before[f] THEN Keep ELSE command.desired[f]
  BY DEF MissionUpdates
<1> HIDE DEF updates
<1>4. missions[f] = IF f \in DOMAIN updates /\ updates[f] # Keep THEN updates[f] ELSE before[f]
  BY <1>1, <1>2 DEF Overlay, updates
<1> QED
  BY <1>3, <1>4

\* "verified" is true when it is printed: an edit changed what it names and
\* nothing else, no page is left on a deleted model that was not made again,
\* and the configured missions are set (operator_call and edit_definition of
\* summary_management.py and the missions command of management.py), for any
\* commands, other clients and late writes.
THEOREM VerifiedHolds == OperatorSpec => VerifiedIsTrue
<1> DEFINE Truth ==
      \A t \in 1..MaxCommands : outcome'[t] # outcome[t] /\ outcome'[t] = "verified" =>
        /\ command.action = "edit" => bank[command.model] = Overlay(before, command.change)
        /\ command.action = "delete" => PagesOf(command.model) = {} \/ Created(command.model)
        /\ command.action = "missions" =>
             \A f \in Mission : command.desired[f] \in {Keep, missions[f]}
<1>1. VerifyInv /\ [OperatorNext]_operatorVars => [Truth]_operatorVars
  <2> SUFFICES ASSUME VerifyInv, [OperatorNext]_operatorVars, NEW t \in 1..MaxCommands,
                      outcome'[t] # outcome[t], outcome'[t] = "verified"
               PROVE  /\ command.action = "edit" => bank[command.model] = Overlay(before, command.change)
                      /\ command.action = "delete" => PagesOf(command.model) = {} \/ Created(command.model)
                      /\ command.action = "missions" =>
                           \A f \in Mission : command.desired[f] \in {Keep, missions[f]}
    OBVIOUS
  <2>1. EditVerified \/ MissionsVerified \/ DeleteVerified
    BY WhoVerifies DEF VerifyInv, OutcomeInv, Turns
  <2>2. CASE EditVerified
    BY <2>2 DEF EditVerified, EditedAsAsked
  <2>3. CASE MissionsVerified
    <3>1. command.action = "missions"
      BY <2>3 DEF MissionsVerified
    <3> QED
      BY <2>3, <3>1, MissionsAreSet
  <2>4. CASE DeleteVerified
    <3>1. stage = "page"
      BY <2>4 DEF DeleteVerified
    <3> QED
      BY <3>1 DEF VerifyInv, PathTells, DeletionLasts
  <2> QED
    BY <2>1, <2>2, <2>3, <2>4
<1>2. VerifiedIsTrue <=> [][Truth]_operatorVars
  BY DEF VerifiedIsTrue
<1> HIDE DEF Truth
<1> QED
  BY <1>1, <1>2, VerifyStart, VerifyStep, PTL DEF OperatorSpec

-----------------------------------------------------------------------------
(***************************************************************************)
(* The types of the operator's machine.  Overlay makes a function where    *)
(* the bank holds a record; the two are the same by their domain.          *)
(***************************************************************************)
LEMMA OverlayDefines ==
  ASSUME NEW d \in Definition, NEW g \in [Editable -> Value \cup {Keep}]
  PROVE  Overlay(d, g) \in Definition
<1> DEFINE fields == {"name", "trigger", "tags"}
           o == Overlay(d, g)
<1>1. DOMAIN d = fields /\ \A f \in fields : d[f] \in Value
  BY DEF Definition
<1>2. DOMAIN o = fields /\ \A f \in fields : o[f] \in Value
  BY <1>1 DEF Overlay
<1>3. o = [f \in fields |-> o[f]]
  BY <1>1 DEF Overlay
<1>4. o = [name |-> o.name, trigger |-> o.trigger, tags |-> o.tags]
  BY <1>2, <1>3
<1> HIDE DEF o
<1>5. o.name \in Value /\ o.trigger \in Value /\ o.tags \in Value
  BY <1>2
<1>6. \A a, b, c \in Value : [name |-> a, trigger |-> b, tags |-> c] \in Definition
  BY DEF Definition
<1>7. o \in Definition
  BY <1>4, <1>5, <1>6
<1> QED
  BY <1>7 DEF o

\* Of two missions as of a definition.
LEMMA OverlaySets ==
  ASSUME NEW s \in Snapshot, NEW g \in [Mission -> Value \cup {Keep}]
  PROVE  Overlay(s, g) \in Snapshot
BY DEF Overlay, Snapshot

\* A write whose state changes is still a write.
LEMMA WriteStays ==
  ASSUME NEW w \in Write, NEW s \in WriteState
  PROVE  [w EXCEPT !.state = s] \in Write
BY DEF Write

\* So is one whose model and page the bank has chosen.
LEMMA WriteIsNamed ==
  ASSUME NEW w \in Write, NEW s \in WriteState, NEW m \in Model \cup {NoModel},
         NEW p \in Page \cup {NoModel}
  PROVE  [w EXCEPT !.state = s, !.model = m, !.page = p] \in Write
BY DEF Write

LEMMA UnsentTypes == Unsent \in Write
BY DEF Unsent, Write, WriteState, Action, Nothing, Unmanaged

LEMMA TypesStart ==
  ASSUME Script # {}, OperatorInit
  PROVE  OperatorTypeOK
<1>1. Unsent \in Write
  BY UnsentTypes
<1>2. [name |-> 0, trigger |-> 0, tags |-> 0] \in Definition
  BY DEF Definition, Value
<1>3. missions \in Snapshot
  BY DEF OperatorInit, Snapshot, Value
<1>4. bank \in [Model -> Definition \cup {Absent}] /\ before \in Definition \cup {Absent} \cup Snapshot
  BY <1>2 DEF OperatorInit
<1>5. write \in [1..MaxCommands -> Write] /\ outcome \in [1..MaxCommands -> Outcome]
  BY <1>1 DEF OperatorInit, Outcome
<1>6. turn \in 0..MaxCommands /\ stage \in Stage /\ command \in Script /\ changes \in 0..MaxChanges
  BY OperatorAssumption DEF OperatorInit, Stage
<1> QED
  BY <1>3, <1>4, <1>5, <1>6 DEF OperatorInit, OperatorTypeOK

\* What a command prints is an outcome.
LEMMA FinishTypes ==
  ASSUME OperatorTypeOK, NEW r \in Outcome, Finish(r)
  PROVE  OperatorTypeOK'
<1>1. Results(r) \subseteq Outcome
  BY DEF Results, Outcome, Denial, Doubt
<1>2. stage' \in Stage /\ outcome' \in [1..MaxCommands -> Outcome]
  BY <1>1 DEF Finish, OperatorTypeOK, Stage
<1> QED
  BY <1>2 DEF Finish, OperatorTypeOK, remote

\* The steps of a command that end it.
LEMMA EndsTypes ==
  ASSUME OperatorTypeOK,
         Fails \/ Ambiguous \/ RenameRefused \/ CreateFindsModel \/ AllowanceExhausted
           \/ MissionsAlreadyEqual \/ Rejected \/ EditVerified \/ StatusRead \/ MissionsVerified
           \/ DeleteVerified
  PROVE  OperatorTypeOK'
<1>1. \E r \in Outcome : Finish(r)
  BY DEF Fails, Failure, Ambiguous, RenameRefused, CreateFindsModel, AllowanceExhausted,
         MissionsAlreadyEqual, Rejected, EditVerified, StatusRead, MissionsVerified, DeleteVerified,
         Outcome, Denial, Claim, Doubt
<1> QED
  BY <1>1, FinishTypes

\* The steps that read, up to the next await.
LEMMA ReadsTypes ==
  ASSUME OperatorTypeOK, PathTells,
         RunOperator \/ ReadModel \/ ReadTree \/ CreateFindsNone \/ ReadInventory \/ ReadMissions
           \/ Acknowledged \/ CreationRead \/ BindingRead \/ ModelIsAbsent \/ NoPageInTree
  PROVE  OperatorTypeOK'
<1>1. UNCHANGED <<write, outcome, bank, pageOf, missions, changes>>
  BY DEF RunOperator, ReadModel, ReadTree, CreateFindsNone, ReadInventory, ReadMissions,
         Acknowledged, CreationRead, BindingRead, ModelIsAbsent, NoPageInTree, remote
<1>2. turn' \in 0..MaxCommands /\ command' \in Script
  BY OperatorAssumption
     DEF RunOperator, ReadModel, ReadTree, CreateFindsNone, ReadInventory, ReadMissions,
         Acknowledged, CreationRead, BindingRead, ModelIsAbsent, NoPageInTree, Await, OperatorTypeOK
<1>3. stage' \in Stage
  BY DEF RunOperator, ReadModel, ReadTree, CreateFindsNone, ReadInventory, ReadMissions,
         Acknowledged, CreationRead, BindingRead, ModelIsAbsent, NoPageInTree, Await, Stage, Reading
<1>4. before' \in {before, Absent, missions, bank[command.model]}
  BY DEF RunOperator, ReadModel, ReadTree, CreateFindsNone, ReadInventory, ReadMissions,
         Acknowledged, CreationRead, BindingRead, ModelIsAbsent, NoPageInTree
<1>5. command.model \in Model
  BY ScriptAssumption DEF OperatorTypeOK, Command
<1>6. before' \in Definition \cup {Absent} \cup Snapshot
  BY <1>4, <1>5 DEF OperatorTypeOK
<1>7. affected' \in {affected, {}, PagesOf(command.model)}
  BY DEF RunOperator, ReadModel, ReadTree, CreateFindsNone, ReadInventory, ReadMissions,
         Acknowledged, CreationRead, BindingRead, ModelIsAbsent, NoPageInTree
<1>8. affected' \subseteq Page
  BY <1>7 DEF PagesOf, OperatorTypeOK
<1>9. known' \in BOOLEAN
  <2>1. \/ known' \in {known, FALSE}
        \/ known' = (command.action \in {"create", "page_create", "refresh"})
    BY DEF RunOperator, ReadModel, ReadTree, CreateFindsNone, ReadInventory, ReadMissions,
           Acknowledged, CreationRead, BindingRead, ModelIsAbsent, NoPageInTree
  <2>2. CASE known' \in {known, FALSE}
    BY <2>2, Zenon DEF OperatorTypeOK
  <2>3. (command.action \in {"create", "page_create", "refresh"}) \in BOOLEAN
    OBVIOUS
  <2> QED
    BY <2>1, <2>2, <2>3, Zenon
<1> QED
  BY <1>1, <1>2, <1>3, <1>6, <1>8, <1>9 DEF OperatorTypeOK

\* What is submitted is made of the command's arguments.
LEMMA SubmitTypes ==
  ASSUME OperatorTypeOK, Submit
  PROVE  OperatorTypeOK'
<1>1. command \in Command
  BY ScriptAssumption DEF OperatorTypeOK
<1> DEFINE to == IF command.action \in {"page_create", "missions"} THEN NoModel ELSE command.model
           set == IF command.action = "missions" THEN MissionUpdates(before) ELSE Unmanaged
           addressed == [Unsent EXCEPT !.state = "sent", !.action = command.action, !.model = to]
           w == [addressed EXCEPT !.model_fields = command.change, !.mission_fields = set]
<1>2. to \in Model \cup {NoModel}
  BY <1>1 DEF Command
<1>3. set \in [Mission -> Value \cup {Keep}]
  <2>1. MissionUpdates(before) \in [Mission -> Value \cup {Keep}]
    BY <1>1 DEF Command, MissionUpdates
  <2>2. Unmanaged \in [Mission -> Value \cup {Keep}]
    BY DEF Unmanaged
  <2> QED
    BY <2>1, <2>2
<1>4. write' = [write EXCEPT ![turn] = w]
  BY Zenon DEF Submit
<1> HIDE DEF to, set
<1>5. w \in Write
  <2>1. addressed \in Write
    BY <1>1, <1>2, UnsentTypes DEF Command, Write, WriteState
  <2> HIDE DEF addressed
  <2> QED
    BY <1>1, <1>3, <2>1 DEF Command, Write
<1> HIDE DEF w
<1>6. write' \in [1..MaxCommands -> Write]
  BY <1>4, <1>5 DEF OperatorTypeOK
<1>7. stage' \in Stage
  BY DEF Submit, Await, Stage
<1> QED
  BY <1>6, <1>7 DEF Submit, Await, OperatorTypeOK, remote

\* The bank performs a write.
LEMMA PerformTypes ==
  ASSUME OperatorTypeOK, NEW t \in 1..MaxCommands, Perform(t)
  PROVE  OperatorTypeOK'
<1> DEFINE w == write[t]
<1>1. /\ w \in Write /\ w.model \in Model \cup {NoModel} /\ w.page \in Page \cup {NoModel}
      /\ w.model_fields \in [Editable -> Value \cup {Keep}]
      /\ w.mission_fields \in [Mission -> Value \cup {Keep}]
  BY DEF OperatorTypeOK, Write
<1>2. UNCHANGED <<turn, stage, command, before, affected, known, outcome, changes>>
  BY DEF Perform, local
<1>3. \A m \in Model \cup {NoModel}, p \in Page \cup {NoModel} :
        Create(t, m, p) => /\ write' \in [1..MaxCommands -> Write]
                           /\ bank' \in [Model -> Definition \cup {Absent}]
  <2> SUFFICES ASSUME NEW m \in Model \cup {NoModel}, NEW p \in Page \cup {NoModel}, Create(t, m, p)
               PROVE  /\ write' \in [1..MaxCommands -> Write]
                      /\ bank' \in [Model -> Definition \cup {Absent}]
    OBVIOUS
  <2> DEFINE zero == [name |-> 0, trigger |-> 0, tags |-> 0]
  <2>1. zero \in Definition
    BY DEF Definition, Value
  <2> HIDE DEF zero
  <2>2. Overlay(zero, w.model_fields) \in Definition
    BY <1>1, <2>1, OverlayDefines
  <2>3. bank' = [bank EXCEPT ![m] = Overlay(zero, w.model_fields)]
    BY DEF Create, zero
  <2>4. write' = [write EXCEPT ![t] = [w EXCEPT !.state = "performed", !.model = m, !.page = p]]
    BY DEF Create
  <2>5. [w EXCEPT !.state = "performed", !.model = m, !.page = p] \in Write
    BY <1>1, WriteIsNamed DEF WriteState
  <2> QED
    BY <2>2, <2>3, <2>4, <2>5 DEF OperatorTypeOK
<1>4. ASSUME write' = [write EXCEPT ![t].state = "performed"]
      PROVE  write' \in [1..MaxCommands -> Write]
  <2>1. write' = [write EXCEPT ![t] = [w EXCEPT !.state = "performed"]]
    BY <1>4
  <2>2. [w EXCEPT !.state = "performed"] \in Write
    BY <1>1, WriteStays DEF WriteState
  <2> QED
    BY <2>1, <2>2 DEF OperatorTypeOK
<1>5. CASE /\ w.action = "create"
           /\ Create(t, w.model, NoModel)
           /\ UNCHANGED <<pageOf, missions>>
  BY <1>1, <1>2, <1>3, <1>5 DEF OperatorTypeOK
<1>6. CASE /\ w.action = "page_create"
           /\ \E m \in Generated, p \in Page :
                Create(t, m, p) /\ pageOf' = [pageOf EXCEPT ![p] = m]
           /\ UNCHANGED missions
  BY <1>2, <1>3, <1>6, OperatorAssumption DEF OperatorTypeOK
<1>7. CASE /\ w.action \in {"edit", "refresh", "delete"}
           /\ bank[w.model] # Absent
           /\ bank' = [bank EXCEPT ![w.model] =
                         IF w.action = "delete" THEN Absent ELSE Overlay(@, w.model_fields)]
           /\ \/ UNCHANGED pageOf
              \/ \E left \in SUBSET PagesOf(w.model) :
                   pageOf' = [p \in Page |-> IF p \in PagesOf(w.model) \ left THEN Deleted
                                                                             ELSE pageOf[p]]
           /\ write' = [write EXCEPT ![t].state = "performed"]
           /\ UNCHANGED missions
  <2>1. w.model \in Model => Overlay(bank[w.model], w.model_fields) \in Definition
    BY <1>1, <1>7, OverlayDefines DEF OperatorTypeOK
  <2>2. bank' \in [Model -> Definition \cup {Absent}]
    BY <1>7, <2>1 DEF OperatorTypeOK
  <2>3. pageOf' \in [Page -> Model \cup {NoModel, Deleted}]
    BY <1>7 DEF OperatorTypeOK
  <2> QED
    BY <1>2, <1>4, <1>7, <2>2, <2>3 DEF OperatorTypeOK
<1>8. CASE /\ missions' = Overlay(missions, w.mission_fields)
           /\ write' = [write EXCEPT ![t].state = "performed"]
           /\ UNCHANGED <<bank, pageOf>>
  <2>1. missions' \in Snapshot
    BY <1>1, <1>8, OverlaySets DEF OperatorTypeOK
  <2> QED
    BY <1>2, <1>4, <1>8, <2>1 DEF OperatorTypeOK
<1> QED
  BY <1>5, <1>6, <1>7, <1>8 DEF Perform

\* The bank refuses a write, or another client changes it.
LEMMA OthersTypes ==
  ASSUME OperatorTypeOK, (\E t \in 1..MaxCommands : Refuse(t)) \/ OtherClient
  PROVE  OperatorTypeOK'
<1>1. ASSUME NEW t \in 1..MaxCommands, Refuse(t) PROVE OperatorTypeOK'
  <2>1. write' = [write EXCEPT ![t] = [write[t] EXCEPT !.state = "refused"]]
    BY <1>1 DEF Refuse
  <2>2. [write[t] EXCEPT !.state = "refused"] \in Write
    <3>1. write[t] \in Write /\ "refused" \in WriteState
      BY DEF OperatorTypeOK, WriteState
    <3> QED
      BY <3>1, WriteStays
  <2>3. write' \in [1..MaxCommands -> Write]
    BY <2>1, <2>2 DEF OperatorTypeOK
  <2> QED
    BY <1>1, <2>3 DEF Refuse, local, remote, OperatorTypeOK
<1>2. CASE OtherClient
  <2>1. changes' \in 0..MaxChanges
    BY <1>2, OperatorAssumption DEF OtherClient, OperatorTypeOK
  <2>2. ASSUME NEW m \in Models, NEW f \in {"name", "trigger", "tags"},
               bank' = [bank EXCEPT ![m][f] = 1 - @]
        PROVE  bank' \in [Model -> Definition \cup {Absent}]
    <3> DEFINE d == bank[m]
    <3>1. m \in Model /\ d \in Definition
      BY DEF Models, OperatorTypeOK
    <3>2. bank' = [bank EXCEPT ![m] = [d EXCEPT ![f] = 1 - d[f]]]
      BY <2>2
    <3>3. [d EXCEPT ![f] = 1 - d[f]] \in Definition
      BY <3>1 DEF Definition, Value
    <3> HIDE DEF d
    <3> QED
      BY <3>1, <3>2, <3>3 DEF OperatorTypeOK
  <2>3. ASSUME NEW m \in Models, NEW p \in Page, pageOf' = [pageOf EXCEPT ![p] = m]
        PROVE  pageOf' \in [Page -> Model \cup {NoModel, Deleted}]
    BY <2>3 DEF Models, OperatorTypeOK
  <2>4. ASSUME NEW f \in Mission, missions' = [missions EXCEPT ![f] = 1 - @]
        PROVE  missions' \in Snapshot
    BY <2>4 DEF OperatorTypeOK, Snapshot, Value
  <2> QED
    BY <1>2, <2>1, <2>2, <2>3, <2>4 DEF OtherClient, local, OperatorTypeOK
<1> QED
  BY <1>1, <1>2

\* Every variable of the operator's machine holds a value of its kind, if
\* there is a command to give: the bank's records keep their fields
\* (summary_management.py, management.py).
THEOREM OperatorTypes == Script # {} /\ OperatorSpec => []OperatorTypeOK
<1>1. Script # {} /\ OperatorInit => OperatorTypeOK
  BY TypesStart
<1>2. OperatorTypeOK /\ VerifyInv /\ [OperatorNext]_operatorVars => OperatorTypeOK'
  <2> SUFFICES ASSUME OperatorTypeOK, VerifyInv, [OperatorNext]_operatorVars PROVE OperatorTypeOK'
    OBVIOUS
  <2>1. CASE UNCHANGED operatorVars
    BY <2>1 DEF operatorVars, OperatorTypeOK
  <2>2. PathTells
    BY DEF VerifyInv
  <2> QED
    BY <2>1, <2>2, EndsTypes, ReadsTypes, SubmitTypes, PerformTypes, OthersTypes DEF OperatorNext
<1> QED
  BY <1>1, <1>2, VerifyStart, VerifyStep, PTL DEF OperatorSpec

-----------------------------------------------------------------------------
(***************************************************************************)
(* The four run beside each other and share nothing.                       *)
(***************************************************************************)
LEMMA PartsBehave ==
  Spec => OperatorSpec /\ QueueStatusSpec /\ CanarySpec /\ WatchdogSpec
<1>1. Init => OperatorInit /\ QueueStatusInit /\ CanaryInit /\ WatchdogInit
  BY DEF Init
<1>2. [Next]_vars =>
        /\ [OperatorNext]_operatorVars /\ [QueueStatusNext]_queueStatusVars
        /\ [CanaryNext]_canaryVars /\ [WatchdogNext]_watchdogVars
  BY DEF Next, vars
<1> QED
  BY <1>1, <1>2, PTL DEF Spec, OperatorSpec, QueueStatusSpec, CanarySpec, WatchdogSpec

\* What the operator is told beside the gateway holds in the whole: the
\* outcomes of the commands, the verdict of the status, what the canary leaves
\* in the bank and the alarms of the watchdog.
THEOREM OperationsAreSafe ==
  Spec => /\ [](OutcomesAreHonest /\ CanaryLeavesNothing /\ AlarmsAreShown)
          /\ VerifiedIsTrue /\ StatusIsHonest
BY PartsBehave, CommandsAreHonest, VerifiedHolds, StatusTells, CanaryIsTidy, WatchdogShowsAlarms, PTL

=============================================================================
