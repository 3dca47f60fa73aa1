-------------------------- MODULE OperatorCommands --------------------------
(***************************************************************************)
(* The operator commands that write to the bank: summaries create, edit,   *)
(* refresh and delete, pages create (summary_management.py) and missions   *)
(* apply (management.py).  A command is one process with a client of its   *)
(* own and one deadline.  It reads, writes at most once, verifies what it  *)
(* wrote by reading, and prints one outcome.  It never retries; the        *)
(* operator may, while the bank still works on an earlier write.           *)
(*                                                                         *)
(* Between two requests the bank may change: other clients write to it,    *)
(* and it performs late what an earlier command sent.                      *)
(***************************************************************************)
EXTENDS FiniteSets, Naturals

CONSTANTS
  Model,       \* ids of mental models
  Generated,   \* of these, ids the bank makes for new pages, each used once
  Page,        \* ids of knowledge pages
  Existing,    \* models the bank holds at the start
  Allowance,   \* mental_models.max_models
  MaxCommands, \* commands of the operator; a bound
  MaxChanges,  \* changes other clients make; a bound
  Script,      \* commands the operator may give
  NoModel,
  Deleted

ASSUME OperatorAssumption ==
  /\ IsFiniteSet(Model) /\ NoModel \notin Model /\ Deleted \notin Model /\ NoModel # Deleted
  /\ Existing \subseteq Model /\ Generated \subseteq Model
  /\ Existing # {} /\ Allowance \in Nat /\ MaxCommands \in Nat /\ MaxChanges \in Nat

VARIABLES
  turn,     \* the number of the command
  stage,    \* the await the command is at
  command,  \* its arguments
  before,   \* the record it read before writing
  affected, \* the pages a delete found on the model
  known,    \* the acknowledgement of a creation or refresh is recorded
  write,    \* the write of each command and what became of it
  outcome,  \* what each command printed
  bank,     \* the definition of each model
  pageOf,   \* the model behind each page
  missions, \* the two missions of the bank
  changes   \* changes other clients made

local == <<turn, stage, command, before, affected, known>>
remote == <<bank, pageOf, missions>>
operatorVars == <<turn, stage, command, before, affected, known, write, outcome, bank,
                  pageOf, missions, changes>>

Value == {0, 1}
Keep == 2            \* an argument that is not given, a mission not configured

\* What a command may change of a model, and what it must preserve.
Editable == {"name", "trigger"}
Definition == [name : Value, trigger : Value, tags : Value]
Absent == [name |-> Keep, trigger |-> Keep, tags |-> Keep]
Mission == {"retain", "observations"}
Snapshot == [Mission -> Value]

Action == {"edit", "delete", "refresh", "create", "page_create", "missions"}
Command ==
  [action : Action, model : Model, change : [Editable -> Value \cup {Keep}],
   desired : [Mission -> Value \cup {Keep}]]

ASSUME ScriptAssumption == Script \subseteq Command

Nothing == [f \in Editable |-> Keep]
Unmanaged == [f \in Mission |-> Keep]

\* A write: not sent, sent, refused by the bank or performed; and what it says.
WriteState == {"unused", "sent", "refused", "performed"}
Write == [state : WriteState, action : Action, model : Model \cup {NoModel},
          page : Page \cup {NoModel}, model_fields : [Editable -> Value \cup {Keep}],
          mission_fields : [Mission -> Value \cup {Keep}]]
Unsent == [state |-> "unused", action |-> "edit", model |-> NoModel, page |-> NoModel,
           model_fields |-> Nothing, mission_fields |-> Unmanaged]

\* Outcomes that say that no write took effect, and none will; that one did;
\* and that leave it open.
Denial == {"refused", "rejected", "existing", "already_equal", "prewrite_unavailable",
           "cleanup_failed"}
Claim == {"verified", "queued", "failed", "known"}
Doubt == {"unconfirmed", "ambiguous", "outcome_unknown"}
Outcome == {"none"} \cup Denial \cup Claim \cup Doubt

Reading == {"read", "tree", "inventory", "readback", "binding", "absence", "cascade", "page",
            "status"}
Stage == {"idle", "submit", "answer"} \cup Reading

Models == {m \in Model : bank[m] # Absent}
PagesOf(m) == {p \in Page : pageOf[p] = m}

OperatorInit ==
  /\ turn = 0
  /\ stage = "idle"
  /\ command = CHOOSE c \in Script : TRUE
  /\ before = Absent
  /\ affected = {}
  /\ known = FALSE
  /\ write = [t \in 1..MaxCommands |-> Unsent]
  /\ outcome = [t \in 1..MaxCommands |-> "none"]
  /\ bank = [m \in Model |-> IF m \in Existing THEN [name |-> 0, trigger |-> 0, tags |-> 0]
                                               ELSE Absent]
  /\ pageOf = [p \in Page |-> NoModel]
  /\ missions = [f \in Mission |-> 0]
  /\ changes = 0

-----------------------------------------------------------------------------
(***************************************************************************)
(* Beginning and ending.                                                   *)
(***************************************************************************)

RunOperator ==
  /\ stage = "idle"
  /\ turn < MaxCommands
  /\ command' \in Script
  /\ stage' = IF command'.action = "page_create" THEN "inventory" ELSE "read"
  /\ turn' = turn + 1
  /\ before' = Absent /\ affected' = {} /\ known' = FALSE
  /\ UNCHANGED <<write, outcome, remote, changes>>

Await(next) ==
  /\ stage' = next
  /\ UNCHANGED <<turn, command>>

Attempted == write[turn].state # "unused"

\* A missions command whose runtime cannot be finalized prints less than it
\* knows; the other commands add a warning.
Results(result) ==
  IF command.action = "missions"
    THEN {result, IF Attempted THEN "outcome_unknown" ELSE "cleanup_failed"}
    ELSE {result}

Finish(result) ==
  /\ stage' = "idle"
  /\ \E r \in Results(result) : outcome' = [outcome EXCEPT ![turn] = r]
  /\ UNCHANGED <<turn, command, before, affected, known, write, remote, changes>>

\* What is printed when a request fails, an answer is malformed, a check
\* finds something else, or the deadline of the command passes.
Failure ==
  IF command.action = "missions"
    THEN IF Attempted THEN "outcome_unknown" ELSE "prewrite_unavailable"
    ELSE IF known THEN "known" ELSE "unconfirmed"

Fails ==
  /\ stage # "idle"
  /\ Finish(Failure)

\* A creation or refresh whose answer proves nothing.
Ambiguous ==
  /\ stage = "answer"
  /\ command.action \in {"create", "page_create", "refresh"}
  /\ Finish("ambiguous")

-----------------------------------------------------------------------------
(***************************************************************************)
(* Before the write.                                                       *)
(***************************************************************************)

\* models.read of the target.  Only a rename and a delete look at the tree.
ReadModel ==
  /\ stage = "read"
  /\ command.action \in {"edit", "refresh", "delete"}
  /\ bank[command.model] # Absent
  /\ before' = bank[command.model]
  /\ Await(IF command.action = "delete"
                \/ (command.action = "edit" /\ command.change.name \notin {Keep, before'.name})
             THEN "tree" ELSE "submit")
  /\ UNCHANGED <<affected, known, write, outcome, remote, changes>>

\* A page-backed model is not renamed.
RenameRefused ==
  /\ stage = "tree"
  /\ command.action = "edit"
  /\ PagesOf(command.model) # {}
  /\ Finish("refused")

\* A delete notes the pages of its model.
ReadTree ==
  /\ stage = "tree"
  /\ command.action = "edit" => PagesOf(command.model) = {}
  /\ affected' = PagesOf(command.model)
  /\ Await("submit")
  /\ UNCHANGED <<before, known, write, outcome, remote, changes>>

\* models.create reports an existing model.
CreateFindsModel ==
  /\ stage = "read"
  /\ command.action = "create"
  /\ bank[command.model] # Absent
  /\ Finish("existing")

CreateFindsNone ==
  /\ stage = "read"
  /\ command.action = "create"
  /\ bank[command.model] = Absent
  /\ Await("inventory")
  /\ UNCHANGED <<before, affected, known, write, outcome, remote, changes>>

\* models.page: the inventory must leave room under the allowance.
AllowanceExhausted ==
  /\ stage = "inventory"
  /\ Cardinality(Models) >= Allowance
  /\ Finish("refused")

ReadInventory ==
  /\ stage = "inventory"
  /\ Cardinality(Models) < Allowance
  /\ Await("submit")
  /\ UNCHANGED <<before, affected, known, write, outcome, remote, changes>>

\* _mission_updates: the configured missions that differ from the bank's.
MissionUpdates(snapshot) ==
  [f \in Mission |-> IF command.desired[f] = snapshot[f] THEN Keep ELSE command.desired[f]]

MissionsAlreadyEqual ==
  /\ stage = "read"
  /\ command.action = "missions"
  /\ MissionUpdates(missions) = Unmanaged
  /\ Finish("already_equal")

ReadMissions ==
  /\ stage = "read"
  /\ command.action = "missions"
  /\ MissionUpdates(missions) # Unmanaged
  /\ before' = missions
  /\ Await("submit")
  /\ UNCHANGED <<affected, known, write, outcome, remote, changes>>

-----------------------------------------------------------------------------
(***************************************************************************)
(* The write and its answer.                                               *)
(***************************************************************************)

\* The bank chooses the ids of a page creation when it performs it.
Submit ==
  /\ stage = "submit"
  /\ write' = [write EXCEPT ![turn] =
       [Unsent EXCEPT !.state = "sent", !.action = command.action,
          !.model = IF command.action \in {"page_create", "missions"} THEN NoModel ELSE command.model,
          !.model_fields = command.change,
          !.mission_fields = IF command.action = "missions" THEN MissionUpdates(before)
                                                            ELSE Unmanaged]]
  /\ Await("answer")
  /\ UNCHANGED <<before, affected, known, outcome, remote, changes>>

\* The acknowledgement of a creation or a refresh is kept from here on.
Acknowledged ==
  /\ stage = "answer"
  /\ write[turn].state = "performed"
  /\ known' = (command.action \in {"create", "page_create", "refresh"})
  /\ Await(CASE command.action = "delete" -> "absence"
             [] command.action = "refresh" -> "status"
             [] OTHER -> "readback")
  /\ UNCHANGED <<before, affected, write, outcome, remote, changes>>

\* Faulty variant: any error answer counts as a refusal.
RejectedOnAnyError ==
  /\ stage = "answer"
  /\ command.action \in {"edit", "create", "page_create", "refresh"}
  /\ Finish("rejected")

\* Statuses 422 and 429, for a page 409 too, say that the write was refused.
Rejected ==
  /\ stage = "answer"
  /\ command.action \in {"edit", "create", "page_create", "refresh"}
  /\ write[turn].state = "refused"
  /\ Finish("rejected")

-----------------------------------------------------------------------------
(***************************************************************************)
(* After the acknowledgement: the write is verified by reading.            *)
(***************************************************************************)
Overlay(record, fields) ==
  [f \in DOMAIN record |->
     IF f \in DOMAIN fields /\ fields[f] # Keep THEN fields[f] ELSE record[f]]

\* edit_definition: all of the definition is as before but for the change.
EditedAsAsked == bank[command.model] = Overlay(before, command.change)

EditVerified ==
  /\ stage = "readback"
  /\ command.action = "edit"
  /\ EditedAsAsked
  /\ Finish("verified")

\* verify_creation: the definition is the one asked for.
CreationRead ==
  /\ stage = "readback"
  /\ command.action \in {"create", "page_create"}
  /\ bank[write[turn].model] = Overlay([name |-> 0, trigger |-> 0, tags |-> 0], command.change)
  /\ Await(IF command.action = "create" THEN "status" ELSE "binding")
  /\ UNCHANGED <<before, affected, known, write, outcome, remote, changes>>

\* pages.read: the page is in the tree, and bound to the model.
BindingRead ==
  /\ stage = "binding"
  /\ pageOf[write[turn].page] = write[turn].model
  /\ Await("status")
  /\ UNCHANGED <<before, affected, known, write, outcome, remote, changes>>

\* submission_result: the operation is under way, or it failed.
StatusRead ==
  /\ stage = "status"
  /\ \E result \in {"queued", "failed"} : Finish(result)

MissionsVerified ==
  /\ stage = "readback"
  /\ command.action = "missions"
  /\ missions = Overlay(before, write[turn].mission_fields)
  /\ Finish("verified")

\* A delete reads the model, the tree and the pages it had noted.
ModelIsAbsent ==
  /\ stage = "absence"
  /\ bank[command.model] = Absent
  /\ Await("cascade")
  /\ UNCHANGED <<before, affected, known, write, outcome, remote, changes>>

\* Faulty variant: only the pages noted before the delete are looked for.
NotedPagesGone ==
  /\ stage = "cascade"
  /\ \A p \in affected : pageOf[p] = Deleted
  /\ Await("page")
  /\ UNCHANGED <<before, affected, known, write, outcome, remote, changes>>

NoPageInTree ==
  /\ stage = "cascade"
  /\ PagesOf(command.model) = {}
  /\ \A p \in affected : pageOf[p] = Deleted
  /\ Await("page")
  /\ UNCHANGED <<before, affected, known, write, outcome, remote, changes>>

DeleteVerified ==
  /\ stage = "page"
  /\ \A p \in affected : pageOf[p] = Deleted
  /\ Finish("verified")

-----------------------------------------------------------------------------
(***************************************************************************)
(* The bank performs a write once, at any time after it was sent, or       *)
(* refuses it.  It may leave pages of a deleted model behind.              *)
(***************************************************************************)
Create(t, m, p) ==
  /\ bank[m] = Absent
  /\ bank' = [bank EXCEPT ![m] = Overlay([name |-> 0, trigger |-> 0, tags |-> 0],
                                         write[t].model_fields)]
  /\ write' = [write EXCEPT ![t].state = "performed", ![t].model = m, ![t].page = p]

Perform(t) ==
  LET w == write[t] IN
  /\ w.state = "sent"
  /\ \/ /\ w.action = "create"
        /\ Create(t, w.model, NoModel)
        /\ UNCHANGED <<pageOf, missions>>
     \/ /\ w.action = "page_create"
        /\ \E m \in Generated, p \in Page :
             /\ pageOf[p] = NoModel
             /\ \A u \in 1..MaxCommands : write[u].model # m
             /\ Create(t, m, p)
             /\ pageOf' = [pageOf EXCEPT ![p] = m]
        /\ UNCHANGED missions
     \/ /\ w.action \in {"edit", "refresh", "delete"}
        /\ bank[w.model] # Absent
        /\ bank' = [bank EXCEPT ![w.model] =
                      IF w.action = "delete" THEN Absent ELSE Overlay(@, w.model_fields)]
        /\ IF w.action = "delete"
             THEN \E left \in SUBSET PagesOf(w.model) :
                    pageOf' = [p \in Page |-> IF p \in PagesOf(w.model) \ left THEN Deleted
                                                                              ELSE pageOf[p]]
             ELSE UNCHANGED pageOf
        /\ write' = [write EXCEPT ![t].state = "performed"]
        /\ UNCHANGED missions
     \/ /\ w.action = "missions"
        /\ missions' = Overlay(missions, w.mission_fields)
        /\ write' = [write EXCEPT ![t].state = "performed"]
        /\ UNCHANGED <<bank, pageOf>>
  /\ UNCHANGED <<local, outcome, changes>>

Refuse(t) ==
  /\ write[t].state = "sent"
  /\ write' = [write EXCEPT ![t].state = "refused"]
  /\ UNCHANGED <<local, outcome, remote, changes>>

\* Another client edits a model, gives it a page, or sets a mission.
OtherClient ==
  /\ changes < MaxChanges
  /\ changes' = changes + 1
  /\ \/ /\ \E m \in Models, f \in {"name", "trigger", "tags"} :
             bank' = [bank EXCEPT ![m][f] = 1 - @]
        /\ UNCHANGED <<pageOf, missions>>
     \/ /\ \E m \in Models, p \in Page :
             /\ pageOf[p] = NoModel
             /\ pageOf' = [pageOf EXCEPT ![p] = m]
        /\ UNCHANGED <<bank, missions>>
     \/ /\ \E f \in Mission : missions' = [missions EXCEPT ![f] = 1 - @]
        /\ UNCHANGED <<bank, pageOf>>
  /\ UNCHANGED <<local, write, outcome>>

OperatorNext ==
  \/ RunOperator \/ Fails \/ Ambiguous
  \/ ReadModel \/ RenameRefused \/ ReadTree
  \/ CreateFindsModel \/ CreateFindsNone \/ AllowanceExhausted \/ ReadInventory
  \/ MissionsAlreadyEqual \/ ReadMissions
  \/ Submit \/ Acknowledged \/ Rejected
  \/ EditVerified \/ CreationRead \/ BindingRead \/ StatusRead \/ MissionsVerified
  \/ ModelIsAbsent \/ NoPageInTree \/ DeleteVerified
  \/ \E t \in 1..MaxCommands : Perform(t) \/ Refuse(t)
  \/ OtherClient

OperatorSpec == OperatorInit /\ [][OperatorNext]_operatorVars

-----------------------------------------------------------------------------
(***************************************************************************)
(* Properties.                                                             *)
(***************************************************************************)

\* Every variable holds a value of its kind.
OperatorTypeOK ==
  /\ turn \in 0..MaxCommands /\ stage \in Stage /\ command \in Script
  /\ before \in Definition \cup {Absent} \cup Snapshot
  /\ affected \subseteq Page /\ known \in BOOLEAN
  /\ write \in [1..MaxCommands -> Write]
  /\ outcome \in [1..MaxCommands -> Outcome]
  /\ bank \in [Model -> Definition \cup {Absent}]
  /\ pageOf \in [Page -> Model \cup {NoModel, Deleted}]
  /\ missions \in Snapshot
  /\ changes \in 0..MaxChanges

\* A command that reports that nothing was written is right for ever: its
\* write, if any, was refused and cannot be performed later.  One that reports
\* an acknowledgement, verified or not, has one ("No definition changed", "No
\* page created", write_attempted_outcome_unknown).
OutcomesAreHonest ==
  \A t \in 1..MaxCommands :
    /\ outcome[t] \in Denial => write[t].state \in {"unused", "refused"}
    /\ outcome[t] \in Claim => write[t].state = "performed"

\* A creation of the model was performed: a late one may make it anew.
Created(m) ==
  \E t \in 1..MaxCommands :
    write[t].action = "create" /\ write[t].model = m /\ write[t].state = "performed"

\* What "verified" says holds in the bank when it is printed, whatever other
\* clients and late writes of earlier commands did meanwhile: the edit changed
\* the fields it names and none else since the command read the model; no page
\* is left on a deleted model, unless a creation made that model again; the
\* configured missions are set.
VerifiedIsTrue ==
  [][\A t \in 1..MaxCommands : outcome'[t] # outcome[t] /\ outcome'[t] = "verified" =>
       /\ command.action = "edit" => bank[command.model] = Overlay(before, command.change)
       /\ command.action = "delete" => PagesOf(command.model) = {} \/ Created(command.model)
       /\ command.action = "missions" =>
            \A f \in Mission : command.desired[f] \in {Keep, missions[f]}
    ]_operatorVars
=============================================================================
