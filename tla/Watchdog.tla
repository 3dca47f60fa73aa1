------------------------------ MODULE Watchdog -------------------------------
(***************************************************************************)
(* The watchdog (watchdog.py): a process that runs now and then, compares  *)
(* the reasons for an alarm with those of its last run, which it keeps in  *)
(* a file, and prints a line when they changed.  The file is replaced      *)
(* before the line is printed, and may be lost or damaged between runs.    *)
(* Whoever reads the lines must end up with the right alarms.              *)
(***************************************************************************)
EXTENDS FiniteSets, Integers, Sequences

CONSTANTS
  Window,     \* recall_window
  MinSamples, \* minimum_recall_samples
  Percent,    \* recall_timeout_rate and recall_error_rate, in percent
  MaxEvents,  \* recall events of one run; a bound
  MaxMishaps  \* runs killed and state files lost; a bound

ASSUME WatchdogAssumption ==
  /\ Window \in Nat \ {0} /\ MinSamples \in 1..Window
  /\ Percent \in 1..100
  /\ MaxEvents \in Nat /\ MaxMishaps \in Nat

VARIABLES
  watchdogAt,  \* "idle", "writing" or "printing"
  stateFile,   \* its content
  verdict,     \* what this run will write and print
  shown,       \* the alarms a reader of the lines believes in (ghost)
  muted,       \* a line was lost since the last one (ghost)
  mishaps      \* runs killed and files lost

watchdogVars == <<watchdogAt, stateFile, verdict, shown, muted, mishaps>>

\* Reasons that last, and events that alert once.
Lasting == {"local_status_degraded", "recall_timeout_rate_elevated",
            "recall_error_rate_elevated", "e2e_failed"}
Edge == {"new_retention_failure"} \* one for the four there are
RecallOutcome == {"success", "timeout", "client_error"}

Empty == [active |-> {}, outcomes |-> <<>>]

\* result is "alert", "recovered" or "none", with reasons and resolved ones.
Silent == [state |-> Empty, result |-> "none", reasons |-> {}, resolved |-> {}]

WatchdogInit ==
  /\ watchdogAt = "idle"
  /\ stateFile = Empty
  /\ verdict = Silent
  /\ shown = {} /\ muted = FALSE
  /\ mishaps = 0

-----------------------------------------------------------------------------
LastOf(s, n) == IF Len(s) <= n THEN s ELSE SubSeq(s, Len(s) - n + 1, Len(s))

Elevated(outcomes, outcome) ==
  /\ Len(outcomes) >= MinSamples
  /\ 100 * Cardinality({i \in DOMAIN outcomes : outcomes[i] = outcome}) >= Percent * Len(outcomes)

\* The lasting reasons, from the latest status and canary and the outcomes.
ActiveReasons(statusOk, canaryOk, outcomes) ==
  (IF statusOk THEN {} ELSE {"local_status_degraded"})
    \cup (IF Elevated(outcomes, "timeout") THEN {"recall_timeout_rate_elevated"} ELSE {})
    \cup (IF Elevated(outcomes, "client_error") THEN {"recall_error_rate_elevated"} ELSE {})
    \cup (IF canaryOk THEN {} ELSE {"e2e_failed"})

\* Faulty variant: reasons that went away are not mentioned in an alert.
LineWithoutResolved(before, state, edges) ==
  LET active == state.active IN
  IF active \cup edges # {}
    THEN IF edges = {} /\ active = before
           THEN [Silent EXCEPT !.state = state]
           ELSE [state |-> state, result |-> "alert", reasons |-> active \cup edges, resolved |-> {}]
    ELSE [Silent EXCEPT !.state = state, !.result = IF before # {} THEN "recovered" ELSE "none"]

\* The line to print: an alert when a new event is seen or the reasons
\* changed, a recovery when none is left, and nothing otherwise.
Line(before, state, edges) ==
  LET active == state.active IN
  IF active \cup edges # {}
    THEN IF edges = {} /\ active = before
           THEN [Silent EXCEPT !.state = state]
           ELSE [state |-> state, result |-> "alert", reasons |-> active \cup edges,
                 resolved |-> before \ active]
    ELSE [Silent EXCEPT !.state = state, !.result = IF before # {} THEN "recovered" ELSE "none"]

Events == UNION {[1..n -> RecallOutcome] : n \in 0..MaxEvents}

\* evaluate_watchdog up to the write, and _read_state.
Evaluate(statusOk, canaryOk) ==
  /\ watchdogAt = "idle"
  /\ \E events \in Events, edges \in SUBSET Edge :
       LET outcomes == LastOf(stateFile.outcomes \o events, Window)
           active == ActiveReasons(statusOk, canaryOk, outcomes)
       IN verdict' = Line(stateFile.active, [active |-> active, outcomes |-> outcomes], edges)
  /\ watchdogAt' = "writing"
  /\ UNCHANGED <<stateFile, shown, muted, mishaps>>

\* _write_state replaces the file at once.
ReplaceState ==
  /\ watchdogAt = "writing"
  /\ stateFile' = verdict.state
  /\ watchdogAt' = "printing"
  /\ UNCHANGED <<verdict, shown, muted, mishaps>>

\* A reader adds the lasting reasons of an alert and drops the resolved ones;
\* a recovery drops all.
Emit ==
  /\ watchdogAt = "printing"
  /\ watchdogAt' = "idle"
  /\ shown' = CASE verdict.result = "alert" -> (shown \cup (verdict.reasons \ Edge)) \ verdict.resolved
                [] verdict.result = "recovered" -> {}
                [] OTHER -> shown
  /\ muted' = (muted /\ verdict.result = "none")
  /\ verdict' = Silent
  /\ UNCHANGED <<stateFile, mishaps>>

\* The run ends early: it is killed, or the write fails and it reports
\* evaluation_failed; killed before printing, it may have lost a line.
RunKilled ==
  /\ watchdogAt # "idle"
  /\ mishaps < MaxMishaps
  /\ mishaps' = mishaps + 1
  /\ watchdogAt' = "idle"
  /\ muted' = (muted \/ watchdogAt = "printing")
  /\ verdict' = Silent
  /\ UNCHANGED <<stateFile, shown>>

\* A file that is missing, damaged or too large is read as an empty one.
StateLost ==
  /\ mishaps < MaxMishaps
  /\ mishaps' = mishaps + 1
  /\ stateFile' = Empty
  /\ UNCHANGED <<watchdogAt, verdict, shown, muted>>

WatchdogNext ==
  \/ \E statusOk, canaryOk \in BOOLEAN : Evaluate(statusOk, canaryOk)
  \/ ReplaceState \/ Emit \/ RunKilled \/ StateLost

WatchdogSpec == WatchdogInit /\ [][WatchdogNext]_watchdogVars

-----------------------------------------------------------------------------
(***************************************************************************)
(* Properties.                                                             *)
(***************************************************************************)
StateRecord == [active : SUBSET Lasting, outcomes : Seq(RecallOutcome)]

WatchdogTypeOK ==
  /\ watchdogAt \in {"idle", "writing", "printing"}
  /\ stateFile \in StateRecord
  /\ verdict.state \in StateRecord
  /\ shown \subseteq Lasting /\ muted \in BOOLEAN /\ mishaps \in 0..MaxMishaps

\* Between runs the lines printed so far have shown every alarm the state file
\* holds as active, even after a file was lost; and, as long as nothing was
\* lost or killed, no other one.  A run killed after the write hides its line
\* until the next one, which names all reasons again.
AlarmsAreShown ==
  watchdogAt = "idle" =>
    /\ ~muted => stateFile.active \subseteq shown
    /\ mishaps = 0 => shown = stateFile.active
=============================================================================
