----------------------------- MODULE QueueStatus -----------------------------
(***************************************************************************)
(* The passive status of the queue (outbox.py, inspect_outbox;             *)
(* management.py, status; provider.py, better_hindsight_status).  The      *)
(* clock, the rows and the sender's lock are read one after the other      *)
(* while the gateway goes on: the verdict speaks of no single moment.      *)
(*                                                                         *)
(* The gateway is here what status can see of it; Outbox has the rest.     *)
(* Clock values stand for hours where ages and retries are reported.       *)
(***************************************************************************)
EXTENDS Integers, FiniteSets

CONSTANTS
  Doc,       \* the rows there may be
  AgedAfter, \* the age at which queued work counts as aged
  Horizon    \* last value of the clock; a bound

ASSUME QueueStatusAssumption ==
  AgedAfter \in Nat /\ Horizon \in Nat

VARIABLES
  wallTime, \* time.time(), which may be set back
  queue,    \* the outbox table; tried is attempt_count > 0
  sender,   \* the holder of the profile lock: "none", "recovering" or "sending"
  look,     \* the status command
  watch     \* what the rows read were, and the lock since (ghost)

gateway == <<wallTime, queue, sender>>
queueStatusVars == <<wallTime, queue, sender, look, watch>>

Time == 0..Horizon
Queued ==
  [state : {"pending", "sending"}, tried : BOOLEAN, failed : BOOLEAN,
   matches : BOOLEAN, created : Time, next : Time]
Ownership == {"held", "free", "unavailable"}

Minimum(S, none) == IF S = {} THEN none ELSE CHOOSE m \in S : \A n \in S : m <= n
Never == Horizon + 1

Retrying(r) == r.matches /\ r.state = "pending" /\ r.tried

\* The aggregates of the one SELECT.
Inspection(rows) ==
  LET Counted(P(_)) == Cardinality({d \in DOMAIN rows : P(rows[d])}) IN
  [mismatch |-> Counted(LAMBDA r : ~r.matches),
   sending |-> Counted(LAMBDA r : r.matches /\ r.state = "sending"),
   retry |-> Counted(Retrying),
   pending |-> Counted(LAMBDA r : r.matches /\ r.state = "pending" /\ ~r.tried),
   oldest |-> Minimum({rows[d].created : d \in DOMAIN rows}, Never),
   failed |-> \E d \in DOMAIN rows : rows[d].failed,
   next |-> Minimum({rows[d].next : d \in {e \in DOMAIN rows : Retrying(rows[e])}}, Never)]

\* The clock and the queue read so far, and the last answer but its details.
NoLook == [at |-> "idle", observed |-> 0, inspection |-> Inspection(<<>>), result |-> "none"]

NoWatch == [lock |-> "changed", blocked |-> FALSE, sending |-> FALSE, failed |-> FALSE]

QueueStatusInit ==
  /\ wallTime = 0
  /\ queue = [d \in {} |-> 0]
  /\ sender = "none"
  /\ look = NoLook
  /\ watch = NoWatch

-----------------------------------------------------------------------------
(***************************************************************************)
(* The gateway.                                                            *)
(***************************************************************************)
With(d, row) == [e \in DOMAIN queue \cup {d} |-> IF e = d THEN row ELSE queue[e]]

SetClock(now) ==
  /\ now # wallTime
  /\ wallTime' = now
  /\ UNCHANGED <<queue, sender, look, watch>>

AdmitRow(d) ==
  /\ d \notin DOMAIN queue
  /\ queue' = With(d, [state |-> "pending", tried |-> FALSE, failed |-> FALSE,
                       matches |-> TRUE, created |-> wallTime, next |-> wallTime])
  /\ UNCHANGED <<wallTime, sender, look, watch>>

\* The gateway's and the command's configuration changes, or changes back.
Reconfigure ==
  /\ sender = "none"
  /\ DOMAIN queue # {}
  /\ queue' = [d \in DOMAIN queue |-> [queue[d] EXCEPT !.matches = ~@]]
  /\ UNCHANGED <<wallTime, sender, look, watch>>

StartSender ==
  /\ sender = "none"
  /\ sender' = "recovering"
  /\ watch' = [watch EXCEPT !.lock = "changed"]
  /\ UNCHANGED <<wallTime, queue, look>>

RecoverRows ==
  /\ sender = "recovering"
  /\ sender' = "sending"
  /\ queue' = [d \in DOMAIN queue |->
                 IF queue[d].state = "sending"
                   THEN [queue[d] EXCEPT !.state = "pending", !.next = wallTime]
                   ELSE queue[d]]
  /\ UNCHANGED <<wallTime, look, watch>>

ClaimRow(d) ==
  /\ sender = "sending"
  /\ \A e \in DOMAIN queue : queue[e].state = "pending"
  /\ d \in DOMAIN queue
  /\ queue[d].matches /\ queue[d].next <= wallTime
  /\ queue' = [queue EXCEPT ![d].state = "sending", ![d].tried = TRUE]
  /\ UNCHANGED <<wallTime, sender, look, watch>>

CompleteRow(d) ==
  /\ sender = "sending"
  /\ d \in DOMAIN queue /\ queue[d].state = "sending"
  /\ queue' = [e \in DOMAIN queue \ {d} |-> queue[e]]
  /\ UNCHANGED <<wallTime, sender, look, watch>>

Reschedule(d, next) ==
  /\ sender = "sending"
  /\ d \in DOMAIN queue /\ queue[d].state = "sending"
  /\ next >= wallTime
  /\ queue' = [queue EXCEPT ![d].state = "pending", ![d].failed = TRUE, ![d].next = next]
  /\ UNCHANGED <<wallTime, sender, look, watch>>

\* The gateway stops, or dies while it sends.
StopSender ==
  /\ sender # "none"
  /\ sender' = "none"
  /\ watch' = [watch EXCEPT !.lock = "changed"]
  /\ UNCHANGED <<wallTime, queue, look>>

-----------------------------------------------------------------------------
(***************************************************************************)
(* The command.                                                            *)
(***************************************************************************)
BeginStatus ==
  /\ look.at = "idle"
  /\ look' = [NoLook EXCEPT !.at = "reading", !.observed = wallTime]
  /\ UNCHANGED <<gateway, watch>>

Rows == {queue[d] : d \in DOMAIN queue}
Young(r) == look.observed - r.created < AgedAfter

\* _read_status_snapshot: one read transaction.
ReadSnapshot ==
  /\ look.at = "reading"
  /\ look' = [look EXCEPT !.at = "probing", !.inspection = Inspection(queue)]
  /\ watch' = [lock |-> IF sender = "none" THEN "free" ELSE "held",
                blocked |-> \E r \in Rows : ~r.matches \/ Retrying(r) \/ ~Young(r),
                sending |-> \E r \in Rows : r.state = "sending",
                failed |-> \E r \in Rows : r.failed]
  /\ UNCHANGED gateway

\* A file or a schema that is not as it should be: status_unavailable.
SnapshotFails ==
  /\ look.at = "reading"
  /\ look' = NoLook
  /\ UNCHANGED <<gateway, watch>>

Total(i) == i.mismatch + i.sending + i.retry + i.pending
IsAged(i) == i.oldest # Never /\ look.observed - i.oldest >= AgedAfter
IsDue(i) == Total(i) > 0 /\ (i.next = Never \/ i.next <= look.observed)

\* Faulty variant: work in flight is suspect only when nobody can tell who
\* owns the lock.
DegradedIfUnknown(i, ownership) ==
  \/ i.mismatch > 0
  \/ i.retry > 0
  \/ i.sending > 0 /\ (ownership = "unavailable" \/ i.failed)
  \/ IsAged(i)
  \/ IsDue(i) /\ ownership = "unavailable"

\* _status_payload
Degraded(i, ownership) ==
  \/ i.mismatch > 0
  \/ i.retry > 0
  \/ i.sending > 0 /\ (ownership # "held" \/ i.failed)
  \/ IsAged(i)
  \/ IsDue(i) /\ ownership = "unavailable"

\* _compact_status_payload: what the model's tool adds to a degraded queue.
Details(i, ownership) ==
  {name \in {"mismatch", "sending", "retry", "pending"} : i[name] > 0}
    \cup (IF IsAged(i) THEN {"age_bucket"} ELSE {})
    \cup (IF i.next # Never THEN {"next_retry_bucket"} ELSE {})
    \cup (IF i.failed THEN {"last_error_category"} ELSE {})
    \cup (IF ownership = "unavailable" THEN {"sender_ownership"} ELSE {})

\* _probe_sender_ownership tries the lock for a moment; then the answer.
Probed == {IF sender = "none" THEN "free" ELSE "held", "unavailable"}

Report(ownership) ==
  LET i == look.inspection IN
  /\ look.at = "probing"
  /\ ownership \in Probed
  /\ look' = [NoLook EXCEPT !.result = IF Degraded(i, ownership) THEN "degraded" ELSE "ok"]
  /\ watch' = NoWatch
  /\ UNCHANGED gateway

-----------------------------------------------------------------------------
QueueStatusNext ==
  \/ \E now \in Time : SetClock(now)
  \/ Reconfigure \/ StartSender \/ RecoverRows \/ StopSender
  \/ \E d \in Doc : \/ AdmitRow(d) \/ ClaimRow(d) \/ CompleteRow(d)
                    \/ \E next \in Time : Reschedule(d, next)
  \/ BeginStatus \/ ReadSnapshot \/ SnapshotFails
  \/ \E ownership \in Ownership : Report(ownership)

QueueStatusSpec == QueueStatusInit /\ [][QueueStatusNext]_queueStatusVars

-----------------------------------------------------------------------------
(***************************************************************************)
(* Properties.                                                             *)
(***************************************************************************)
\* Blocked work is reported as degraded (_status_payload): work for another
\* destination, work that failed or was abandoned before, work as old as
\* AgedAfter, and a row in flight while nobody held the lock from the moment
\* it was read.  The compact answer says more than that work is pending.  First
\* attempts at fresh work are healthy while a sender is seen to hold the lock,
\* and does hold it from the moment the rows are read.
StatusIsHonest ==
  [][\A ownership \in Probed : Report(ownership) =>
       /\ watch.blocked \/ (watch.sending /\ watch.lock = "free") => look'.result = "degraded"
       /\ look'.result = "degraded" => Details(look.inspection, ownership) \ {"pending"} # {}
       /\ /\ ~watch.blocked /\ ~watch.failed
          /\ watch.lock = "held" /\ ownership = "held"
          => look'.result = "ok"
    ]_queueStatusVars
=============================================================================
