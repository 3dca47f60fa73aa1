------------------------------- MODULE Outbox -------------------------------
(***************************************************************************)
(* The durable retention queue of one Hermes home: the SQLite outbox       *)
(* (outbox.py), the POSIX profile lock that elects one sender among the    *)
(* processes sharing that home, and each process's OutboxSender thread     *)
(* (runtime.py) with the remote bank it retains documents in.              *)
(*                                                                         *)
(* Every SQLite transaction is one step, and so is every lock operation;   *)
(* between two steps of a sender any other process, the server, the clock  *)
(* or a crash may act.  A document identifies its content (document_id is  *)
(* a hash), so a document is its own payload here.                         *)
(***************************************************************************)
EXTENDS Naturals, FiniteSets, FiniteSetsExt

CONSTANTS
  Proc,          \* processes (gateways) sharing one Hermes home
  Target,        \* remote destinations: endpoint, bank, tags and scopes
  Policy,        \* multimodal admission policies; NoPolicy when disabled
  NoPolicy,
  Config,        \* configurations a process may be started with
  Turn,          \* retained turns
  Doc,           \* document ids, one per segment of a turn
  SegmentsOf,    \* the segments of each turn
  SchemaOf,      \* the payload schema of each turn: "v1", "v2" or "mm"
  Rank,          \* the order of (source_sha256, segment_index, document_id)
  Size,          \* logical bytes of a document, accounting allowance included
  RetryDelay(_), \* _retry_delay_seconds for an attempt_count
  MaxRows,       \* outbox.max_pending_rows
  MaxBytes,      \* outbox.max_pending_bytes
  Backlog,       \* turns an earlier version left pending in the database
  BacklogTarget, \* the destination those turns were admitted for
  Status,        \* the operator's status command, probing the lock
  Nobody,        \* no holder of the profile lock
  NoDoc,         \* no document is claimed
  \* Bounds on the model, none of them in the code:
  MaxAttempts,   \* highest attempt_count
  MaxAdmissions, \* admissions of one turn
  MaxFaults,     \* crashes, stops, probes and failures of any step
  Horizon        \* the clock runs freely up to here

Configs == [target : Target, policy : Policy \cup {NoPolicy}]
Schema == {"v1", "v2", "mm"}
Destination == Schema \X Target \X (Policy \cup {NoPolicy})

(***************************************************************************)
(* A fingerprint binds a row to its schema and destination, and a binary   *)
(* row also to the admission policy.                                       *)
(***************************************************************************)
Fingerprint(c, schema) ==
  <<schema, c.target, IF schema = "mm" THEN c.policy ELSE NoPolicy>>

\* Faulty variant (of Matching): the target is not compared.
MatchingAnyTarget(c) == {<<"v2", g, NoPolicy>> : g \in Target}

\* The (fingerprint, schema) pairs a process with configuration c may claim.
Matching(c) ==
  {Fingerprint(c, "v2"), Fingerprint(c, "v1")}
    \cup (IF c.policy # NoPolicy THEN {Fingerprint(c, "mm")} ELSE {})

TargetOf(destination) == destination[2]

RowState == {"absent", "pending", "sending"}
Row == [state : RowState, attempt_count : 0..MaxAttempts,
        next_attempt_at : Nat, created_at : Nat, destination : Destination]

BacklogDocs == UNION {SegmentsOf[t] : t \in Backlog}
BacklogDestination == <<"v1", BacklogTarget, NoPolicy>>

ASSUME OutboxAssumption ==
  /\ Config \subseteq Configs
  /\ BacklogTarget \in Target
  /\ SegmentsOf \in [Turn -> SUBSET Doc]
  /\ \A t, u \in Turn : t # u => SegmentsOf[t] \cap SegmentsOf[u] = {}
  /\ SchemaOf \in [Turn -> Schema]
  /\ Backlog \subseteq Turn
  /\ \A t \in Turn : t \in Backlog <=> SchemaOf[t] = "v1"
  /\ \A n \in 0..MaxAttempts : RetryDelay(n) \in Nat
  /\ MaxAttempts \in Nat \ {0}
  /\ MaxFaults \in Nat
  /\ MaxAdmissions \in Nat
  /\ Horizon \in Nat
  /\ Nobody \notin Proc /\ Status \notin Proc /\ Status # Nobody
  /\ NoDoc \notin Doc
  /\ NoPolicy \notin Policy
  /\ Nobody \notin Target

ASSUME CapacityAssumption ==
  /\ \A d \in Doc : Size[d] \in Nat
  /\ MaxRows \in Nat /\ MaxBytes \in Nat
  /\ \A t \in Turn : IsFiniteSet(SegmentsOf[t])
  /\ IsFiniteSet(Backlog)

VARIABLES
  now,       \* the wall clock
  rows,      \* the outbox table
  holder,    \* who holds the profile lock
  config,    \* the configuration each process was started with
  stopping,  \* _stop_requested of each process's sender
  pc,        \* where each process's sender thread is
  claim,     \* the row (document, attempt_count) each sender is delivering
  task,      \* the retain call alive on each process's event loop
  posted,    \* <<document, target>> pairs a request was sent for
  stored,    \* <<document, target>> pairs the remote bank holds
  accepted,  \* <<document, target>> pairs an admission promised to deliver
  tries,     \* requests sent for a document since its row was inserted
  admissions,\* how often each turn was admitted
  faults     \* the faults still allowed

remote == <<posted, stored>>
ghosts == <<accepted, tries, admissions>>
vars == <<now, rows, holder, config, stopping, pc, claim, task,
          posted, stored, accepted, tries, admissions, faults>>

NoClaim == [doc |-> NoDoc, attempt |-> 0]
Claims == [doc : Doc \cup {NoDoc}, attempt : 0..MaxAttempts]

\* A sender that delivers the row it claimed, and one that owns the lock.
Delivering == {"claimed", "calling", "settling", "confirmed", "failed"}
Owning == {"recover", "own", "claiming", "release"} \cup Delivering

Present(d) == rows[d].state # "absent"
PresentDocs == {d \in Doc : Present(d)}

NewRow(schemaDestination) ==
  [state |-> "pending", attempt_count |-> 0, next_attempt_at |-> now,
   created_at |-> now, destination |-> schemaDestination]

\* The value of a row that is not in the table; only its state has a meaning.
NoRow == [state |-> "absent", attempt_count |-> 0, next_attempt_at |-> 0,
          created_at |-> 0, destination |-> BacklogDestination]

Init ==
  /\ now = 0
  /\ rows = [d \in Doc |->
               IF d \in BacklogDocs THEN [NoRow EXCEPT !.state = "pending"] ELSE NoRow]
  /\ holder = Nobody
  /\ config \in [Proc -> Config]
  /\ stopping = [p \in Proc |-> FALSE]
  /\ pc = [p \in Proc |-> "down"]
  /\ claim = [p \in Proc |-> NoClaim]
  /\ task = [p \in Proc |-> NoClaim]
  /\ posted = {}
  /\ stored = {}
  /\ accepted = BacklogDocs \X {BacklogTarget}
  /\ tries = [d \in Doc |-> 0]
  /\ admissions = [t \in Turn |-> 0]
  /\ faults = MaxFaults

Goto(p, from, to) ==
  /\ pc[p] = from
  /\ pc' = [pc EXCEPT ![p] = to]

\* A fault is an event the model allows MaxFaults times.
Fault ==
  /\ faults > 0
  /\ faults' = faults - 1

-----------------------------------------------------------------------------
(***************************************************************************)
(* The life of a process.                                                  *)
(***************************************************************************)

\* Faulty variant: opening the outbox resets 'sending' rows without the lock.
StartResetsSending(p) ==
  /\ Goto(p, "down", "seek")
  /\ \E c \in Config : config' = [config EXCEPT ![p] = c]
  /\ stopping' = [stopping EXCEPT ![p] = FALSE]
  /\ rows' = [d \in Doc |-> IF Present(d) THEN [rows[d] EXCEPT !.state = "pending"] ELSE rows[d]]
  /\ UNCHANGED <<now, holder, claim, task, remote, ghosts, faults>>

\* ProcessRuntime constructed with the sender enabled: the outbox is opened
\* and the sender thread started.
Start(p) ==
  /\ Goto(p, "down", "seek")
  /\ \E c \in Config : config' = [config EXCEPT ![p] = c]
  /\ stopping' = [stopping EXCEPT ![p] = FALSE]
  /\ UNCHANGED <<now, rows, holder, claim, task, remote, ghosts, faults>>

\* finalize: no new admission is accepted and the sender is told to stop.
RequestStop(p) ==
  /\ Fault
  /\ pc[p] # "down"
  /\ ~stopping[p]
  /\ stopping' = [stopping EXCEPT ![p] = TRUE]
  /\ UNCHANGED <<now, rows, holder, config, pc, claim, task, remote, ghosts>>

\* The sender thread leaves its loop and finalize closes the outbox.
Exit(p) ==
  /\ stopping[p]
  /\ Goto(p, "seek", "down")
  /\ UNCHANGED <<now, rows, holder, config, stopping, claim, task, remote, ghosts, faults>>

\* The process dies: the kernel drops its lock, its event loop is gone, the
\* table keeps what was committed, a request already sent may still land.
Crash(p) ==
  /\ Fault
  /\ pc[p] # "down"
  /\ pc' = [pc EXCEPT ![p] = "down"]
  /\ holder' = IF holder = p THEN Nobody ELSE holder
  /\ claim' = [claim EXCEPT ![p] = NoClaim]
  /\ task' = [task EXCEPT ![p] = NoClaim]
  /\ UNCHANGED <<now, rows, config, stopping, remote, ghosts>>

-----------------------------------------------------------------------------
(***************************************************************************)
(* Admission: one transaction takes every new segment of a turn or none.   *)
(***************************************************************************)
NewSegments(t) == {d \in SegmentsOf[t] : ~Present(d)}

\* Faulty variant: a queued segment counts as a duplicate wherever it goes.
NoConflict(destination, t) == FALSE

\* A segment that is queued already must be queued for the same destination.
Conflict(destination, t) ==
  \E d \in SegmentsOf[t] : Present(d) /\ rows[d].destination # destination

\* Faulty variant: rows being sent are not counted.
FitsPending(t) ==
  LET counted == {d \in Doc : rows[d].state = "pending"} IN
  /\ Cardinality(counted) + Cardinality(NewSegments(t)) <= MaxRows
  /\ MapThenSumSet(LAMBDA d : Size[d], counted \cup NewSegments(t)) <= MaxBytes

Fits(t) ==
  /\ Cardinality(PresentDocs) + Cardinality(NewSegments(t)) <= MaxRows
  /\ MapThenSumSet(LAMBDA d : Size[d], PresentDocs \cup NewSegments(t)) <= MaxBytes

\* Faulty variant: segments are inserted one by one, and some fail.
AdmitPartly(p, t) ==
  LET destination == Fingerprint(config[p], SchemaOf[t]) IN
  /\ pc[p] # "down"
  /\ admissions[t] < MaxAdmissions
  /\ SchemaOf[t] = "v2" \/ (SchemaOf[t] = "mm" /\ config[p].policy # NoPolicy)
  /\ NewSegments(t) # {}
  /\ ~Conflict(destination, t)
  /\ Fits(t)
  /\ \E S \in SUBSET NewSegments(t) :
       rows' = [d \in Doc |-> IF d \in S THEN NewRow(destination) ELSE rows[d]]
  /\ tries' = [d \in Doc |-> IF d \in NewSegments(t) THEN 0 ELSE tries[d]]
  /\ accepted' = accepted \cup (SegmentsOf[t] \X {config[p].target})
  /\ admissions' = [admissions EXCEPT ![t] = @ + 1]
  /\ UNCHANGED <<now, holder, config, stopping, pc, claim, task, remote, faults>>

\* finalize waits for an admission it finds active, so one may commit after
\* the stop request and until the process is down.
Admit(p, t) ==
  LET destination == Fingerprint(config[p], SchemaOf[t]) IN
  /\ pc[p] # "down"
  /\ admissions[t] < MaxAdmissions
  /\ SchemaOf[t] = "v2" \/ (SchemaOf[t] = "mm" /\ config[p].policy # NoPolicy)
  /\ NewSegments(t) # {}
  /\ ~Conflict(destination, t)
  /\ Fits(t)
  /\ rows' = [d \in Doc |-> IF d \in NewSegments(t) THEN NewRow(destination) ELSE rows[d]]
  /\ tries' = [d \in Doc |-> IF d \in NewSegments(t) THEN 0 ELSE tries[d]]
  /\ accepted' = accepted \cup (SegmentsOf[t] \X {config[p].target})
  /\ admissions' = [admissions EXCEPT ![t] = @ + 1]
  /\ UNCHANGED <<now, holder, config, stopping, pc, claim, task, remote, faults>>

-----------------------------------------------------------------------------
(***************************************************************************)
(* Sender election.  A failed attempt (contention or a local failure)      *)
(* changes nothing: the sender polls again.                                *)
(***************************************************************************)
TryAcquireProfileLock(p) ==
  /\ ~stopping[p]
  /\ holder = Nobody
  /\ Goto(p, "seek", "recover")
  /\ holder' = p
  /\ UNCHANGED <<now, rows, config, stopping, claim, task, remote, ghosts, faults>>

\* Faulty variant: only the rows this process may claim are recovered.
RecoverMatching(p) ==
  /\ Goto(p, "recover", "own")
  /\ rows' = [d \in Doc |->
                IF rows[d].state = "sending" /\ rows[d].destination \in Matching(config[p])
                THEN [rows[d] EXCEPT !.state = "pending", !.next_attempt_at = now]
                ELSE rows[d]]
  /\ UNCHANGED <<now, holder, config, stopping, claim, task, remote, ghosts, faults>>

\* Every row left 'sending' by an earlier owner becomes due again, whatever
\* its destination; its attempt_count is kept.
RecoverSending(p) ==
  /\ Goto(p, "recover", "own")
  /\ rows' = [d \in Doc |->
                IF rows[d].state = "sending"
                THEN [rows[d] EXCEPT !.state = "pending", !.next_attempt_at = now]
                ELSE rows[d]]
  /\ UNCHANGED <<now, holder, config, stopping, claim, task, remote, ghosts, faults>>

\* owner.release(): after lost ownership or a requested stop.
Release(p) ==
  /\ Goto(p, "release", "seek")
  /\ holder' = Nobody
  /\ claim' = [claim EXCEPT ![p] = NoClaim]
  /\ UNCHANGED <<now, rows, config, stopping, task, remote, ghosts, faults>>

\* Faulty variant: the owner drains the queue before it stops.
LeaveWhenEmpty(p) ==
  /\ stopping[p]
  /\ PresentDocs = {}
  /\ Goto(p, "own", "release")
  /\ UNCHANGED <<now, rows, holder, config, stopping, claim, task, remote, ghosts, faults>>

\* _run_as_owner returns at a loop head once a stop is requested.
LeaveOwnerLoop(p) ==
  /\ stopping[p]
  /\ Goto(p, "own", "release")
  /\ UNCHANGED <<now, rows, holder, config, stopping, claim, task, remote, ghosts, faults>>

\* Faulty variant: after a failed transition the owner carries on.
TransitionIgnored(p) ==
  /\ Fault
  /\ pc[p] \in {"confirmed", "failed"}
  /\ pc' = [pc EXCEPT ![p] = "own"]
  /\ UNCHANGED <<now, rows, holder, config, stopping, claim, task, remote, ghosts>>

\* recover_sending, claim_due, complete_claim or reschedule_claim reports a
\* local failure (a busy database, a lock file that no longer validates):
\* its transaction is rolled back and the owner gives the lock up.
TransitionFails(p) ==
  /\ Fault
  /\ pc[p] \in {"recover", "claiming", "confirmed", "failed"}
  /\ pc' = [pc EXCEPT ![p] = "release"]
  /\ UNCHANGED <<now, rows, holder, config, stopping, claim, task, remote, ghosts>>

\* The status command takes the free lock for an instant to see it is free.
ProbeSenderOwnership ==
  /\ Fault
  /\ holder = Nobody
  /\ holder' = Status
  /\ UNCHANGED <<now, rows, config, stopping, pc, claim, task, remote, ghosts>>

ProbeReleases ==
  /\ holder = Status
  /\ holder' = Nobody
  /\ UNCHANGED <<now, rows, config, stopping, pc, claim, task, remote, ghosts, faults>>

-----------------------------------------------------------------------------
(***************************************************************************)
(* One delivery attempt.                                                   *)
(***************************************************************************)
Due(p) == {d \in Doc : /\ rows[d].state = "pending"
                       /\ rows[d].next_attempt_at <= now
                       /\ rows[d].destination \in Matching(config[p])}

\* _claim_if_running reads _stop_requested; a stop may still arrive before
\* the claim's transaction.
ClaimIfRunning(p) ==
  /\ ~stopping[p]
  /\ Goto(p, "own", "claiming")
  /\ UNCHANGED <<now, rows, holder, config, stopping, claim, task, remote, ghosts, faults>>

\* Nothing is due for this process: it waits and comes back to the loop head.
ClaimEmpty(p) ==
  /\ Due(p) = {}
  /\ Goto(p, "claiming", "own")
  /\ UNCHANGED <<now, rows, holder, config, stopping, claim, task, remote, ghosts, faults>>

\* ORDER BY next_attempt_at, created_at, source_sha256, segment_index, document_id
Precedes(d, e) ==
  \/ rows[d].next_attempt_at < rows[e].next_attempt_at
  \/ /\ rows[d].next_attempt_at = rows[e].next_attempt_at
     /\ \/ rows[d].created_at < rows[e].created_at
        \/ rows[d].created_at = rows[e].created_at /\ Rank[d] < Rank[e]

\* Faulty variant: the attempt is not counted by the claim.
ClaimUncounted(p) ==
  /\ Goto(p, "claiming", "claimed")
  /\ \E d \in Due(p) :
       /\ \A e \in Due(p) \ {d} : Precedes(d, e)
       /\ rows' = [rows EXCEPT ![d].state = "sending"]
       /\ claim' = [claim EXCEPT ![p] = [doc |-> d, attempt |-> rows[d].attempt_count]]
  /\ UNCHANGED <<now, holder, config, stopping, task, remote, ghosts, faults>>

\* The attempt is counted in the transaction that claims the row, before
\* any request is sent.
ClaimDue(p) ==
  /\ Goto(p, "claiming", "claimed")
  /\ \E d \in Due(p) :
       /\ \A e \in Due(p) \ {d} : Precedes(d, e)
       /\ rows[d].attempt_count < MaxAttempts
       /\ rows' = [rows EXCEPT ![d].state = "sending", ![d].attempt_count = @ + 1]
       /\ claim' = [claim EXCEPT ![p] = [doc |-> d, attempt |-> rows[d].attempt_count + 1]]
  /\ UNCHANGED <<now, holder, config, stopping, task, remote, ghosts, faults>>

\* runner.run schedules retain_segment on the event loop.
Dispatch(p) ==
  /\ Goto(p, "claimed", "calling")
  /\ task' = [task EXCEPT ![p] = claim[p]]
  /\ posted' = posted \cup {<<claim[p].doc, config[p].target>>}
  /\ tries' = [tries EXCEPT ![claim[p].doc] = @ + 1]
  /\ UNCHANGED <<now, rows, holder, config, stopping, claim, stored, accepted, admissions, faults>>

\* runner.run refuses: a recall or reflection that timed out on the same
\* event loop has not settled.  The sender waits for it and counts a failure.
DispatchRefused(p) ==
  /\ Fault
  /\ Goto(p, "claimed", "failed")
  /\ UNCHANGED <<now, rows, holder, config, stopping, claim, task, remote, ghosts>>

\* The server replaces the document; it may do so long after the caller
\* stopped waiting, or died.
Store ==
  /\ \E m \in posted \ stored : stored' = stored \cup {m}
  /\ UNCHANGED <<now, rows, holder, config, stopping, pc, claim, task, posted, ghosts, faults>>

\* A typed confirmation arrives before the deadline.
ReplyConfirmed(p) ==
  /\ <<claim[p].doc, config[p].target>> \in stored
  /\ Goto(p, "calling", "confirmed")
  /\ task' = [task EXCEPT ![p] = NoClaim]
  /\ UNCHANGED <<now, rows, holder, config, stopping, claim, remote, ghosts, faults>>

\* Faulty variant: any well-formed reply counts as a confirmation.
AnyReplyConfirms(p) ==
  /\ Fault
  /\ Goto(p, "calling", "confirmed")
  /\ task' = [task EXCEPT ![p] = NoClaim]
  /\ UNCHANGED <<now, rows, holder, config, stopping, claim, remote, ghosts>>

\* An error, a cancellation or a well-formed reply that confirms nothing.
ReplyFails(p) ==
  /\ Fault
  /\ Goto(p, "calling", "failed")
  /\ task' = [task EXCEPT ![p] = NoClaim]
  /\ UNCHANGED <<now, rows, holder, config, stopping, claim, remote, ghosts>>

\* The deadline passes: the task is cancelled but may still be alive.
CallTimesOut(p) ==
  /\ Fault
  /\ Goto(p, "calling", "settling")
  /\ UNCHANGED <<now, rows, holder, config, stopping, claim, task, remote, ghosts>>

\* The cancelled task ends.
TaskSettles(p) ==
  /\ pc[p] = "settling"
  /\ task[p] # NoClaim
  /\ task' = [task EXCEPT ![p] = NoClaim]
  /\ UNCHANGED <<now, rows, holder, config, stopping, pc, claim, remote, ghosts, faults>>

\* Faulty variant: the sender reschedules without waiting for settlement.
SettlementAssumed(p) ==
  /\ Goto(p, "settling", "failed")
  /\ UNCHANGED <<now, rows, holder, config, stopping, claim, task, remote, ghosts, faults>>

\* _wait_for_runner_settlement(stop_sensitive=False) returns.
SettlementObserved(p) ==
  /\ task[p] = NoClaim
  /\ Goto(p, "settling", "failed")
  /\ UNCHANGED <<now, rows, holder, config, stopping, claim, task, remote, ghosts, faults>>

\* The WHERE clause of complete_claim and reschedule_claim.
ClaimMatches(p) ==
  /\ claim[p].doc \in Doc
  /\ rows[claim[p].doc].state = "sending"
  /\ rows[claim[p].doc].attempt_count = claim[p].attempt

\* A guarded UPDATE or DELETE of the claimed row; when no row matches the
\* guard, nothing is written and ownership counts as lost.
Transition(p, from, row) ==
  /\ pc[p] = from
  /\ IF ClaimMatches(p)
       THEN /\ rows' = [rows EXCEPT ![claim[p].doc] = row]
            /\ pc' = [pc EXCEPT ![p] = "own"]
            /\ claim' = [claim EXCEPT ![p] = NoClaim]
       ELSE /\ pc' = [pc EXCEPT ![p] = "release"]
            /\ UNCHANGED <<rows, claim>>
  /\ UNCHANGED <<now, holder, config, stopping, task, remote, ghosts, faults>>

CompleteClaim(p) == Transition(p, "confirmed", NoRow)

RescheduleClaim(p) ==
  Transition(p, "failed",
    [rows[claim[p].doc] EXCEPT !.state = "pending",
                               !.next_attempt_at = now + RetryDelay(claim[p].attempt)])

-----------------------------------------------------------------------------
\* Beyond the horizon time passes only while some row waits for its retry.
Tick ==
  /\ now < Horizon \/ \E d \in Doc : rows[d].state = "pending" /\ rows[d].next_attempt_at > now
  /\ now' = now + 1
  /\ UNCHANGED <<rows, holder, config, stopping, pc, claim, task, remote, ghosts, faults>>

\* Deadlines are wall-clock times: the host's clock may be set back.
ClockStepsBack ==
  /\ Fault
  /\ \E t \in 0..now : t < now /\ now' = t
  /\ UNCHANGED <<rows, holder, config, stopping, pc, claim, task, remote, ghosts>>

SenderStep(p) ==
  \/ Exit(p) \/ TryAcquireProfileLock(p) \/ RecoverSending(p) \/ Release(p)
  \/ LeaveOwnerLoop(p) \/ ClaimIfRunning(p) \/ ClaimEmpty(p) \/ ClaimDue(p)
  \/ Dispatch(p) \/ ReplyConfirmed(p)
  \/ SettlementObserved(p) \/ CompleteClaim(p) \/ RescheduleClaim(p)

Disturbance(p) ==
  \/ RequestStop(p) \/ Crash(p) \/ TransitionFails(p) \/ DispatchRefused(p)
  \/ ReplyFails(p) \/ CallTimesOut(p)

Next ==
  \/ \E p \in Proc : Start(p) \/ SenderStep(p) \/ TaskSettles(p) \/ Disturbance(p)
  \/ \E p \in Proc, t \in Turn : Admit(p, t)
  \/ Store
  \/ ProbeSenderOwnership
  \/ ProbeReleases
  \/ Tick
  \/ ClockStepsBack

(***************************************************************************)
(* A running sender thread is scheduled, a cancelled task ends, the server *)
(* performs what it was sent, the clock runs.  Faults are bounded, so the  *)
(* remote answers eventually; nothing makes a process start or a turn be   *)
(* admitted.                                                               *)
(***************************************************************************)
Fairness ==
  /\ \A p \in Proc : WF_vars(SenderStep(p)) /\ WF_vars(TaskSettles(p))
  /\ WF_vars(Store)
  /\ WF_vars(ProbeReleases)
  /\ WF_vars(Tick)

Spec == Init /\ [][Next]_vars
FairSpec == Spec /\ Fairness

-----------------------------------------------------------------------------
(***************************************************************************)
(* Properties.                                                             *)
(***************************************************************************)

\* Every variable holds a value of its kind.
TypeOK ==
  /\ now \in Nat
  /\ rows \in [Doc -> Row]
  /\ holder \in Proc \cup {Status, Nobody}
  /\ config \in [Proc -> Config]
  /\ stopping \in [Proc -> BOOLEAN]
  /\ pc \in [Proc -> {"down", "seek"} \cup Owning]
  /\ claim \in [Proc -> Claims]
  /\ task \in [Proc -> Claims]
  /\ posted \subseteq Doc \X Target
  /\ stored \subseteq Doc \X Target
  /\ accepted \subseteq Doc \X Target
  /\ tries \in [Doc -> Nat]
  /\ admissions \in [Turn -> 0..MaxAdmissions]
  /\ faults \in 0..MaxFaults

\* A sender acts on the queue exactly while it holds the profile lock
\* (configuration.md: the lock elects the sole process allowed to recover,
\* claim, complete or reschedule rows).
LockDiscipline ==
  \A p \in Proc : pc[p] \in Owning <=> holder = p

\* From claim to completion or reschedule the claimed row stays in the table
\* as the very attempt that was claimed, for a destination of this process:
\* the guards of complete_claim and reschedule_claim never miss.
ClaimHeld ==
  \A p \in Proc : pc[p] \in Delivering =>
    /\ ClaimMatches(p)
    /\ rows[claim[p].doc].destination \in Matching(config[p])

\* Once the owner has recovered, no row is 'sending' but the one it is
\* delivering: a row abandoned by a dead or demoted owner is never stranded
\* behind a live one.
NoStrandedRow ==
  \A p \in Proc, d \in Doc :
    /\ pc[p] \in {"own", "claiming"} \cup Delivering
    /\ rows[d].state = "sending"
    => pc[p] \in Delivering /\ claim[p].doc = d

\* A retain call still alive on an event loop belongs to the owner's current
\* claim: a row is never handed to a second attempt while a task of the
\* first one may still write (the wait for settlement after a timeout).
NoOverlap ==
  \A p \in Proc : task[p] # NoClaim =>
    /\ holder = p
    /\ pc[p] \in {"calling", "settling"}
    /\ task[p] = claim[p]

\* A document leaves the queue only after the bank it was accepted for holds
\* it, whatever crashes, timeouts and lost replies happened in between.
NoLoss ==
  \A m \in accepted :
    \/ Present(m[1]) /\ TargetOf(rows[m[1]].destination) = m[2]
    \/ m \in stored

\* Nothing is sent to a destination it was not accepted for, even when the
\* configuration changes between restarts.
Isolation ==
  /\ posted \subseteq accepted
  /\ stored \subseteq posted
  /\ \A d \in PresentDocs : <<d, TargetOf(rows[d].destination)>> \in accepted

\* A turn is queued in full or not at all: beside any queued segment, every
\* other segment is queued for the same destination or already stored there.
WholeTurns ==
  \A t \in Turn : \A d, e \in SegmentsOf[t] : Present(d) =>
    \/ Present(e) /\ rows[e].destination = rows[d].destination
    \/ ~Present(e) /\ <<e, TargetOf(rows[d].destination)>> \in stored

\* Pending and sending rows of every destination together stay within the
\* configured limits.
WithinCapacity ==
  /\ Cardinality(PresentDocs) <= MaxRows
  /\ MapThenSumSet(LAMBDA d : Size[d], PresentDocs) <= MaxBytes

\* The persisted attempt_count never falls behind the requests sent for the
\* row: an attempt is counted before its I/O, so a crash cannot lose it.
AttemptsCounted ==
  \A d \in PresentDocs : tries[d] <= rows[d].attempt_count

\* A binary row is sent only under the very admission policy it was taken in
\* with: disabling or changing the policy blocks it.
PolicyBinds ==
  \A p \in Proc : pc[p] \in {"calling", "settling", "confirmed"} =>
    LET destination == rows[claim[p].doc].destination IN
    destination[1] = "mm" => destination[3] = config[p].policy

\* A row's attempt_count only grows while the row stays in the table, and
\* its destination and creation time never change: neither recovery, retry
\* nor a repeated admission rewrites a queued row.
RowKept(d) ==
  Present(d) /\ Present(d)' =>
    /\ rows'[d].attempt_count >= rows[d].attempt_count
    /\ rows'[d].destination = rows[d].destination
    /\ rows'[d].created_at = rows[d].created_at
RowsKept == [][\A d \in Doc : RowKept(d)]_vars

\* Process p runs, and may claim the row of d under its configuration.
Serves(p, d) == pc[p] # "down" /\ rows[d].destination \in Matching(config[p])
Served(d) == \E p \in Proc : Serves(p, d) /\ ~stopping[p]
Uncontested(d) == \A p \in Proc : pc[p] # "down" => Serves(p, d)

\* A queued row is eventually delivered and removed if from some time on a
\* process configured for it keeps running, and none runs that is not.
MatchedRowsDrain ==
  \A d \in Doc : <>[](Present(d) => Served(d) /\ Uncontested(d)) => []<>(~Present(d))

\* operations.md:52, of a destination mismatch: "Restore the original
\* configuration to let those rows drain".  Without the second condition:
\* a process with the restored configuration keeps running.
RestoredConfigurationDrains ==
  \A d \in Doc : <>[](Present(d) => Served(d)) => []<>(~Present(d))

\* A stop request eventually ends the sender, even in the middle of an
\* attempt.
StopCompletes ==
  \A p \in Proc : stopping[p] /\ pc[p] # "down" ~> pc[p] = "down"

-----------------------------------------------------------------------------
(***************************************************************************)
(* Inductive invariants: the properties above with what they rest on.      *)
(***************************************************************************)

\* A sender past its claim has claimed a document.
ClaimsADocument == \A p \in Proc : pc[p] \in Delivering => claim[p].doc \in Doc

\* A sender believes an attempt delivered only when the bank holds the
\* document (retain_segment returns a typed confirmation).
ConfirmedIsStored ==
  \A p \in Proc : pc[p] = "confirmed" => <<claim[p].doc, config[p].target>> \in stored

\* Beside a queued segment every segment of its turn was accepted for the
\* same target, and those still queued share its destination.
TurnAccepted ==
  \A t \in Turn : \A d, e \in SegmentsOf[t] : Present(d) =>
    /\ <<e, TargetOf(rows[d].destination)>> \in accepted
    /\ Present(e) => rows[e].destination = rows[d].destination

\* Between the claim and its request the counted attempt is ahead of the
\* requests sent.
AttemptAhead ==
  \A p \in Proc : pc[p] = "claimed" => tries[claim[p].doc] < claim[p].attempt

TypeInv == TypeOK /\ ClaimsADocument

\* The owner's exclusive hold on the row it delivers.
SenderInv ==
  LockDiscipline /\ ClaimHeld /\ NoStrandedRow /\ NoOverlap /\ ConfirmedIsStored

\* What the queue owes and what was sent.
QueueInv ==
  NoLoss /\ Isolation /\ TurnAccepted /\ AttemptsCounted /\ AttemptAhead

-----------------------------------------------------------------------------
\* The queue implements at-least-once delivery to the accepted target:
\* whatever the senders, crashes and retries do, each step is an
\* acceptance of a whole turn, a write the target was owed, a removal of a
\* stored document, or invisible.
QueuedFor(d) == IF Present(d) THEN TargetOf(rows[d].destination) ELSE Nobody

Promise ==
  INSTANCE Delivery WITH
    Nowhere <- Nobody,
    InitiallyQueued <- [d \in Doc |-> IF d \in BacklogDocs THEN BacklogTarget ELSE Nobody],
    queue <- [d \in Doc |-> QueuedFor(d)],
    owed <- accepted,
    held <- stored

ImplementsDelivery == Promise!Spec

=============================================================================
