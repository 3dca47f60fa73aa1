------------------------------- MODULE Canary --------------------------------
(***************************************************************************)
(* The end-to-end canary (canary.py).  It retains one synthetic document,  *)
(* polls until recall returns it, closes its client and deletes the        *)
(* document, within one deadline of which the last part is reserved for    *)
(* the deletion.  What matters is what it leaves in the bank: the retain   *)
(* request may be performed after the canary stopped waiting for it.       *)
(***************************************************************************)
EXTENDS Naturals

CONSTANT MaxPolls \* max_polls

ASSUME CanaryAssumption == MaxPolls \in Nat \ {0}

VARIABLES
  canaryAt,     \* where run_canary is
  clock,        \* before operation_deadline, before the deadline, or after it
  polls,        \* poll_count
  retain,       \* the retain request of this run: unsent, sent, stored or lost
  document,     \* its document is in the bank
  canaryResult, \* result["result"], of the last run when none is under way
  named         \* result holds cleanup_document_id

canaryVars == <<canaryAt, clock, polls, retain, document, canaryResult, named>>

CanaryStep == {"off", "health", "version", "retain", "poll", "pause", "close", "cleanup", "deleting"}

CanaryInit ==
  /\ canaryAt = "off"
  /\ clock = "operation"
  /\ polls = 0
  /\ retain = "unsent" /\ document = FALSE
  /\ canaryResult = "none" /\ named = FALSE

\* Every run makes a document id of its own.
RunCanary ==
  /\ canaryAt = "off"
  /\ canaryAt' = "health"
  /\ clock' = "operation"
  /\ polls' = 0
  /\ retain' = "unsent" /\ document' = FALSE
  /\ canaryResult' = "error" /\ named' = FALSE

CanaryTick ==
  /\ canaryAt # "off"
  /\ clock # "over"
  /\ clock' = IF clock = "operation" THEN "reserved" ELSE "over"
  /\ UNCHANGED <<canaryAt, polls, retain, document, canaryResult, named>>

Proceed(from, to) ==
  /\ canaryAt = from
  /\ canaryAt' = to

\* The health and version checks; the adapter is created.
Healthy ==
  /\ \/ Proceed("health", "version")
     \/ Proceed("version", "retain")
  /\ clock = "operation"
  /\ UNCHANGED <<clock, polls, retain, document, canaryResult, named>>

\* A check fails, or the operation deadline passes before the dispatch:
\* nothing was retained and there is nothing to clean up.
PreflightFails ==
  /\ \/ Proceed("health", "off")
     \/ Proceed("version", "off")
  /\ UNCHANGED <<clock, polls, retain, document, canaryResult, named>>

TooLateToRetain ==
  /\ clock # "operation"
  /\ canaryAt = "retain" /\ retain = "unsent"
  /\ canaryAt' = "close"
  /\ UNCHANGED <<clock, polls, retain, document, canaryResult, named>>

\* dispatch_retain: retain_dispatched is set and the request sent.
DispatchRetain ==
  /\ canaryAt = "retain"
  /\ retain = "unsent"
  /\ clock = "operation"
  /\ retain' = "sent"
  /\ UNCHANGED <<canaryAt, clock, polls, document, canaryResult, named>>

\* The bank performs the request, at any time, or never will.
BankStores ==
  /\ retain = "sent"
  /\ \/ retain' = "stored" /\ document' = TRUE
     \/ retain' = "lost" /\ UNCHANGED document
  /\ UNCHANGED <<canaryAt, clock, polls, canaryResult, named>>

RetainConfirmed ==
  /\ retain = "stored"
  /\ Proceed("retain", "poll")
  /\ UNCHANGED <<clock, polls, retain, document, canaryResult, named>>

\* Timeout, client error or an answer that confirms nothing.
RetainFails ==
  /\ retain # "unsent"
  /\ Proceed("retain", "close")
  /\ UNCHANGED <<clock, polls, retain, document, canaryResult, named>>

\* A recall returns the document; or not, and another poll follows a pause.
PollFinds ==
  /\ document
  /\ clock = "operation"
  /\ Proceed("poll", "close")
  /\ polls' = polls + 1
  /\ canaryResult' = "ok"
  /\ UNCHANGED <<clock, retain, document, named>>

PollFindsNothing ==
  /\ clock = "operation"
  /\ polls < MaxPolls
  /\ Proceed("poll", IF polls + 1 < MaxPolls THEN "pause" ELSE "close")
  /\ polls' = polls + 1
  /\ UNCHANGED <<clock, retain, document, canaryResult, named>>

PauseEnds ==
  /\ clock = "operation"
  /\ Proceed("pause", "poll")
  /\ UNCHANGED <<clock, polls, retain, document, canaryResult, named>>

\* The recall fails or times out, or no time is left for a pause.
PollFails ==
  /\ \/ Proceed("poll", "close")
     \/ clock # "operation" /\ Proceed("pause", "close")
  /\ UNCHANGED <<clock, polls, retain, document, canaryResult, named>>

\* The adapter is closed; when that fails the result is an error.  Cleanup
\* follows if the retain was dispatched, whatever became of it.
CloseAdapter ==
  /\ Proceed("close", IF retain = "unsent" THEN "off" ELSE "cleanup")
  /\ canaryResult' \in {canaryResult, "error"}
  /\ UNCHANGED <<clock, polls, retain, document, named>>

CleanupFailed ==
  /\ canaryAt' = "off"
  /\ canaryResult' = "error"
  /\ named' = TRUE

\* _cleanup: the deletion is answered with the number of memory units it
\* deleted.  One that deleted none is a failure: the document may come later.
DeleteDocument ==
  /\ canaryAt = "cleanup"
  /\ clock # "over"
  /\ canaryAt' = "deleting"
  /\ UNCHANGED <<clock, polls, retain, document, canaryResult, named>>

\* Faulty variant: any success answer will do.
DeletedAny ==
  /\ Proceed("deleting", "off")
  /\ document' = FALSE
  /\ UNCHANGED <<clock, polls, retain, canaryResult, named>>

DeletionConfirmed ==
  /\ document
  /\ Proceed("deleting", "off")
  /\ document' = FALSE
  /\ UNCHANGED <<clock, polls, retain, canaryResult, named>>

\* No time, no valid answer, or nothing deleted; the request may have worked.
CleanupFails ==
  /\ \/ canaryAt = "cleanup" /\ clock = "over" /\ UNCHANGED document
     \/ canaryAt = "deleting" /\ document' \in {document, FALSE}
  /\ CleanupFailed
  /\ UNCHANGED <<clock, polls, retain>>

CanaryNext ==
  \/ RunCanary \/ CanaryTick \/ Healthy \/ PreflightFails \/ TooLateToRetain \/ DispatchRetain
  \/ BankStores \/ RetainConfirmed \/ RetainFails \/ PollFinds \/ PollFindsNothing \/ PauseEnds
  \/ PollFails \/ CloseAdapter \/ DeleteDocument \/ DeletionConfirmed \/ CleanupFails

CanarySpec == CanaryInit /\ [][CanaryNext]_canaryVars

-----------------------------------------------------------------------------
(***************************************************************************)
(* Properties.                                                             *)
(***************************************************************************)

CanaryTypeOK ==
  /\ canaryAt \in CanaryStep
  /\ clock \in {"operation", "reserved", "over"}
  /\ polls \in 0..MaxPolls
  /\ retain \in {"unsent", "sent", "stored", "lost"}
  /\ document \in BOOLEAN /\ named \in BOOLEAN
  /\ canaryResult \in {"none", "ok", "error"}

\* A canary that ended without naming its document left nothing in the bank,
\* and nothing will appear there later: a retain whose answer was lost is not
\* taken for one that did not happen (_cleanup, cleanup_document_id).
CanaryLeavesNothing ==
  canaryAt = "off" /\ ~named => ~document /\ retain # "sent"

=============================================================================
