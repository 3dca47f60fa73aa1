---------------------------- MODULE MentalModels -----------------------------
(***************************************************************************)
(* Creation, refresh and status of mental models (mental_models.py): tool  *)
(* calls of several provider threads run as tasks on the shared event      *)
(* loop.  Creation and refresh take one lock; status does not.  A request  *)
(* whose outcome stays unknown may be performed at any later time, so what *)
(* the process remembers of it must outlive the call, its deadline and its *)
(* cancellation.                                                           *)
(*                                                                         *)
(* A step is what a task does between two awaits.  Requests to the server  *)
(* that change nothing there are answered within a step, except for the    *)
(* inventory, whose answer is used later.                                  *)
(***************************************************************************)
EXTENDS FiniteSets, Naturals

CONSTANTS
  Caller,     \* provider threads
  Model,      \* ids: stable_id of a question, or of models made elsewhere
  Existing,   \* models the bank holds at the start
  MaxModels,  \* mental_models.max_models
  Request,    \* a request that writes, and the operation it starts; a bound
  NoModel,
  NoRequest,
  Nobody

ASSUME MentalModelsAssumption ==
  /\ IsFiniteSet(Model) /\ Existing \subseteq Model
  /\ MaxModels \in Nat /\ Cardinality(Existing) <= MaxModels
  /\ NoModel \notin Model /\ NoRequest \notin Request /\ Nobody \notin Caller

VARIABLES
  pc,          \* where the task of each thread is
  call,        \* the arguments of its call, and the request it sent
  inventory,   \* the ids on the page it read
  late,        \* threads whose deadline has passed
  gone,        \* threads that returned with their task still alive
  lock,        \* the task holding the lock
  reservations,\* reservations
  ambiguities, \* refresh_ambiguities
  unconfirmed, \* refresh_unconfirmed: the operation of each model
  request,     \* every writing request and what became of it
  bank,        \* the models the bank holds
  told,        \* operations some thread was told of (ghost)
  acked,       \* refresh operations acknowledged to a task (ghost)
  resolved     \* refresh requests a task knows the outcome of (ghost)

memory == <<reservations, ambiguities, unconfirmed>>
server == <<request, bank>>
vars == <<pc, call, inventory, late, gone, lock, reservations, ambiguities,
          unconfirmed, request, bank, told, acked, resolved>>

\* Awaits inside the lock, and all of them.
Locked == {"createRead", "createPage", "createDecide", "createPost",
           "refreshRead", "refreshPost", "refreshStatus"}
Awaiting == {"locking", "status"} \cup Locked

Action == {"create", "refresh", "status"}
Call == [action : Action, model : Model \cup {NoModel}, op : Request \cup {NoRequest}]
NoCall == [action |-> "status", model |-> NoModel, op |-> NoRequest]

\* Not sent; sent; refused with 422 or 429; performed, with its operation
\* pending; its operation ended.
RequestState == {"unused", "sent", "refused", "pending", "ended"}
Requests == [kind : {"create", "refresh"}, model : Model \cup {NoModel}, state : RequestState]
Unused == [kind |-> "create", model |-> NoModel, state |-> "unused"]

Init ==
  /\ pc = [c \in Caller |-> "idle"]
  /\ call = [c \in Caller |-> NoCall]
  /\ inventory = [c \in Caller |-> {}]
  /\ late = {} /\ gone = {}
  /\ lock = Nobody
  /\ reservations = {} /\ ambiguities = {}
  /\ unconfirmed = [m \in Model |-> NoRequest]
  /\ request = [i \in Request |-> Unused]
  /\ bank = Existing
  /\ told = {} /\ acked = {} /\ resolved = {}

Sent(kind, m) ==
  {i \in Request : request[i].kind = kind /\ request[i].model = m /\ request[i].state = "sent"}

-----------------------------------------------------------------------------
(***************************************************************************)
(* Calls and their ends.                                                   *)
(***************************************************************************)

\* AsyncRunner.run refuses while a task outlives its thread.
Begin(c) ==
  /\ pc[c] = "idle"
  /\ gone = {}
  /\ \/ \E m \in Model, a \in {"create", "refresh"} :
          /\ call' = [call EXCEPT ![c] = [action |-> a, model |-> m, op |-> NoRequest]]
          /\ pc' = [pc EXCEPT ![c] = "locking"]
     \/ \E i \in told :
          /\ call' = [call EXCEPT ![c] = [action |-> "status", model |-> request[i].model, op |-> i]]
          /\ pc' = [pc EXCEPT ![c] = "status"]
  /\ UNCHANGED <<inventory, late, gone, lock, memory, server, told, acked, resolved>>

\* The task of c ends and gives the lock back.  Its thread gets the result,
\* which names the operations ops, unless its deadline has passed.
End(c, ops) ==
  /\ lock' = IF lock = c THEN Nobody ELSE lock
  /\ IF c \in late \ gone
       THEN /\ pc' = [pc EXCEPT ![c] = "ended"]
            /\ UNCHANGED <<call, late, gone, told>>
       ELSE /\ pc' = [pc EXCEPT ![c] = "idle"]
            /\ call' = [call EXCEPT ![c] = NoCall]
            /\ told' = IF c \in gone THEN told ELSE told \cup ops
            /\ late' = late \ {c}
            /\ gone' = gone \ {c}
  /\ inventory' = [inventory EXCEPT ![c] = {}]

Goto(c, from, to) ==
  /\ pc[c] = from
  /\ pc' = [pc EXCEPT ![c] = to]

\* A read, a page or a status answer is an error, is malformed or says that
\* the model does not exist.
RequestFails(c) ==
  /\ pc[c] \in {"createRead", "createPage", "refreshRead", "status"}
  /\ End(c, {})
  /\ UNCHANGED <<memory, server, acked, resolved>>

\* The deadline of the tool call: result() raises TimeoutError.
DeadlinePasses(c) ==
  /\ pc[c] \in Awaiting
  /\ c \notin late
  /\ late' = late \cup {c}
  /\ UNCHANGED <<pc, call, inventory, gone, lock, memory, server, told, acked, resolved>>

\* _cancel reaches the task at one of its awaits.
Cancelled(c) ==
  /\ c \in late
  /\ pc[c] \in Awaiting
  /\ End(c, {})
  /\ UNCHANGED <<memory, server, acked, resolved>>

\* ProcessRuntime.mental_models, on the way out of a failed refresh.
Known(c) ==
  IF call[c].action = "refresh" THEN {unconfirmed[call[c].model]} \ {NoRequest} ELSE {}

\* The thread of a late call raises, once its task has ended ...
Raise(c) ==
  /\ pc[c] = "ended"
  /\ pc' = [pc EXCEPT ![c] = "idle"]
  /\ call' = [call EXCEPT ![c] = NoCall]
  /\ late' = late \ {c}
  /\ told' = told \cup Known(c)
  /\ UNCHANGED <<inventory, gone, lock, memory, server, acked, resolved>>

\* ... or the time to wait for that is over.
GiveUp(c) ==
  /\ c \in late \ gone
  /\ pc[c] \in Awaiting
  /\ gone' = gone \cup {c}
  /\ told' = told \cup Known(c)
  /\ UNCHANGED <<pc, call, inventory, late, lock, memory, server, acked, resolved>>

-----------------------------------------------------------------------------
(***************************************************************************)
(* Creation.                                                               *)
(***************************************************************************)

\* The lock is taken.  A refresh of a model with an unconfirmed operation
\* ends with that operation.
TakeLock(c) ==
  LET known == Known(c) IN
  /\ lock = Nobody
  /\ pc[c] = "locking"
  /\ IF known # {}
       THEN End(c, known)
       ELSE /\ lock' = c
            /\ pc' = [pc EXCEPT ![c] = IF call[c].action = "create" THEN "createRead" ELSE "refreshRead"]
            /\ UNCHANGED <<call, inventory, late, gone, told>>
  /\ UNCHANGED <<memory, server, acked, resolved>>

\* The model exists: it is reported, and no longer reserved.
CreateExisting(c) ==
  /\ pc[c] = "createRead"
  /\ call[c].model \in bank
  /\ End(c, {})
  /\ reservations' = reservations \ {call[c].model}
  /\ UNCHANGED <<ambiguities, unconfirmed, server, acked, resolved>>

\* It does not, but an earlier request for it may still be performed.
CreateReserved(c) ==
  /\ pc[c] = "createRead"
  /\ call[c].model \in reservations \ bank
  /\ End(c, {})
  /\ UNCHANGED <<memory, server, acked, resolved>>

CreateAbsent(c) ==
  /\ call[c].model \notin bank \cup reservations
  /\ Goto(c, "createRead", "createPage")
  /\ UNCHANGED <<call, inventory, late, gone, lock, memory, server, told, acked, resolved>>

\* The server answers with a page of all its models.
CreatePage(c) ==
  /\ Goto(c, "createPage", "createDecide")
  /\ inventory' = [inventory EXCEPT ![c] = bank]
  /\ UNCHANGED <<call, late, gone, lock, memory, server, told, acked, resolved>>

\* Faulty variant: only the models of the inventory count.
CountsInventory(present) == Cardinality(present)

\* total + len(reservations - present)
Counted(present) == Cardinality(present \cup reservations)

CreateRefused(c) ==
  /\ pc[c] = "createDecide"
  /\ Counted(inventory[c]) >= MaxModels
  /\ End(c, {})
  /\ UNCHANGED <<memory, server, acked, resolved>>

Send(c, kind) ==
  \E i \in Request :
    /\ request[i].state = "unused"
    /\ request' = [request EXCEPT ![i] = [kind |-> kind, model |-> call[c].model, state |-> "sent"]]
    /\ call' = [call EXCEPT ![c].op = i]

\* The model is reserved and the request sent.
CreateSubmit(c) ==
  /\ Counted(inventory[c]) < MaxModels
  /\ Goto(c, "createDecide", "createPost")
  /\ reservations' = (reservations \ inventory[c]) \cup {call[c].model}
  /\ Send(c, "create")
  /\ UNCHANGED <<inventory, late, gone, lock, ambiguities, unconfirmed, bank, told, acked, resolved>>

\* What became of the request this call sent.
Answer(c) == request[call[c].op].state
Performed == {"pending", "ended"}

\* Queued: the reservation stays until the model is seen.
CreateQueued(c) ==
  /\ pc[c] = "createPost"
  /\ Answer(c) \in Performed
  /\ End(c, {call[c].op})
  /\ UNCHANGED <<memory, server, acked, resolved>>

CreateRejected(c) ==
  /\ pc[c] = "createPost"
  /\ Answer(c) = "refused"
  /\ End(c, {})
  /\ reservations' = reservations \ {call[c].model}
  /\ UNCHANGED <<ambiguities, unconfirmed, server, acked, resolved>>

\* Faulty variant: any failure releases the reservation.
CreateFailed(c) ==
  /\ pc[c] = "createPost"
  /\ End(c, {})
  /\ reservations' = reservations \ {call[c].model}
  /\ UNCHANGED <<ambiguities, unconfirmed, server, acked, resolved>>

\* Transport loss, a server error or a malformed answer proves nothing.
CreateAmbiguous(c) ==
  /\ pc[c] = "createPost"
  /\ End(c, {})
  /\ UNCHANGED <<memory, server, acked, resolved>>

-----------------------------------------------------------------------------
(***************************************************************************)
(* Refresh and status.                                                     *)
(***************************************************************************)

\* The model was read, but an earlier refresh of it is ambiguous.
RefreshReserved(c) ==
  /\ pc[c] = "refreshRead"
  /\ call[c].model \in bank \cap ambiguities
  /\ End(c, {})
  /\ UNCHANGED <<memory, server, acked, resolved>>

RefreshSubmit(c) ==
  /\ call[c].model \in bank \ ambiguities
  /\ Goto(c, "refreshRead", "refreshPost")
  /\ ambiguities' = ambiguities \cup {call[c].model}
  /\ Send(c, "refresh")
  /\ UNCHANGED <<inventory, late, gone, lock, reservations, unconfirmed, bank, told, acked, resolved>>

\* The acknowledged operation is kept while its status is verified.
RefreshAcknowledged(c) ==
  /\ Goto(c, "refreshPost", "refreshStatus")
  /\ Answer(c) \in Performed
  /\ unconfirmed' = [unconfirmed EXCEPT ![call[c].model] = call[c].op]
  /\ acked' = acked \cup {call[c].op}
  /\ UNCHANGED <<call, inventory, late, gone, lock, reservations, ambiguities, server, told, resolved>>

RefreshRejected(c) ==
  /\ pc[c] = "refreshPost"
  /\ Answer(c) = "refused"
  /\ End(c, {})
  /\ ambiguities' = ambiguities \ {call[c].model}
  /\ resolved' = resolved \cup {call[c].op}
  /\ UNCHANGED <<reservations, unconfirmed, server, acked>>

RefreshAmbiguous(c) ==
  /\ pc[c] = "refreshPost"
  /\ End(c, {})
  /\ UNCHANGED <<memory, server, acked, resolved>>

\* The operation i of model m is known: nothing stays reserved for it.
Reconcile(m, i) ==
  /\ unconfirmed' = [unconfirmed EXCEPT ![m] = NoRequest]
  /\ ambiguities' = ambiguities \ {m}
  /\ resolved' = resolved \cup {i}

RefreshQueued(c) ==
  /\ pc[c] = "refreshStatus"
  /\ End(c, {call[c].op})
  /\ Reconcile(call[c].model, call[c].op)
  /\ UNCHANGED <<reservations, server, acked>>

\* Faulty variant: a status that cannot be read forgets the operation.
RefreshForgotten(c) ==
  /\ pc[c] = "refreshStatus"
  /\ End(c, {call[c].op})
  /\ unconfirmed' = [unconfirmed EXCEPT ![call[c].model] = NoRequest]
  /\ ambiguities' = ambiguities \ {call[c].model}
  /\ UNCHANGED <<reservations, server, acked, resolved>>

\* The status cannot be verified: what is recorded of the operation is the
\* result.  A missing record is a KeyError, and there is nothing to tell.
RefreshUnconfirmed(c) ==
  /\ pc[c] = "refreshStatus"
  /\ End(c, Known(c))
  /\ UNCHANGED <<memory, server, acked, resolved>>

\* A status call without the lock.  The end of the operation a refresh left
\* unconfirmed reconciles that model.
StatusAnswered(c) ==
  LET m == call[c].model
      i == call[c].op IN
  /\ pc[c] = "status"
  /\ End(c, {i})
  /\ IF Answer(c) = "ended" /\ unconfirmed[m] = i
       THEN Reconcile(m, i)
       ELSE UNCHANGED <<ambiguities, unconfirmed, resolved>>
  /\ UNCHANGED <<reservations, server, acked>>

-----------------------------------------------------------------------------
(***************************************************************************)
(* The server performs a request now, later or never, or refuses it; its   *)
(* operation ends.  An operator deletes models.                            *)
(***************************************************************************)
Perform(i) ==
  /\ request[i].state = "sent"
  /\ request[i].kind = "refresh" => request[i].model \in bank
  /\ request' = [request EXCEPT ![i].state = "pending"]
  /\ bank' = bank \cup {request[i].model}
  /\ UNCHANGED <<pc, call, inventory, late, gone, lock, memory, told, acked, resolved>>

Refuse(i) ==
  /\ request[i].state = "sent"
  /\ request' = [request EXCEPT ![i].state = "refused"]
  /\ UNCHANGED <<pc, call, inventory, late, gone, lock, memory, bank, told, acked, resolved>>

OperationEnds(i) ==
  /\ request[i].state = "pending"
  /\ request' = [request EXCEPT ![i].state = "ended"]
  /\ UNCHANGED <<pc, call, inventory, late, gone, lock, memory, bank, told, acked, resolved>>

Delete ==
  /\ \E m \in bank : bank' = bank \ {m}
  /\ UNCHANGED <<pc, call, inventory, late, gone, lock, memory, request, told, acked, resolved>>

Create(c) ==
  \/ CreateExisting(c) \/ CreateReserved(c) \/ CreateAbsent(c) \/ CreatePage(c)
  \/ CreateRefused(c) \/ CreateSubmit(c)
  \/ CreateQueued(c) \/ CreateRejected(c) \/ CreateAmbiguous(c)

Refresh(c) ==
  \/ RefreshReserved(c) \/ RefreshSubmit(c) \/ RefreshAcknowledged(c) \/ RefreshRejected(c)
  \/ RefreshAmbiguous(c) \/ RefreshQueued(c) \/ RefreshUnconfirmed(c)

Next ==
  \/ \E c \in Caller :
       \/ Begin(c) \/ TakeLock(c) \/ Create(c) \/ Refresh(c) \/ StatusAnswered(c)
       \/ RequestFails(c) \/ DeadlinePasses(c) \/ Cancelled(c) \/ Raise(c) \/ GiveUp(c)
  \/ \E i \in Request : Perform(i) \/ Refuse(i) \/ OperationEnds(i)
  \/ Delete

Spec == Init /\ [][Next]_vars

-----------------------------------------------------------------------------
(***************************************************************************)
(* Properties.                                                             *)
(***************************************************************************)

\* Every variable holds a value of its kind, and the lock is held exactly by
\* a task inside it: no deadline or cancellation leaves it locked.
TypeOK ==
  /\ pc \in [Caller -> {"idle", "ended"} \cup Awaiting]
  /\ call \in [Caller -> Call]
  /\ inventory \in [Caller -> SUBSET Model]
  /\ late \subseteq Caller /\ gone \subseteq late
  /\ \A c \in Caller : lock = c <=> pc[c] \in Locked
  /\ lock \in Caller \cup {Nobody}
  /\ reservations \subseteq Model /\ ambiguities \subseteq Model
  /\ unconfirmed \in [Model -> Request \cup {NoRequest}]
  /\ request \in [Request -> Requests]
  /\ bank \subseteq Model
  /\ told \subseteq Request /\ acked \subseteq Request /\ resolved \subseteq Request

\* With every creation whose outcome is unknown performed, however late, the
\* bank stays within max_models, as long as nobody else creates models in it
\* and the process lives (reservations count toward the cap until observed).
WithinAllowance ==
  Cardinality(bank \cup {request[i].model : i \in {j \in Request :
      request[j].kind = "create" /\ request[j].state = "sent"}}) <= MaxModels

\* A creation is never sent a second time while the first one may still be
\* performed: not after a timeout, a cancellation or a lost answer.
NoSecondCreation ==
  \A m \in Model : Cardinality(Sent("create", m)) <= 1

\* A model is not refreshed while the outcome of an earlier refresh of it is
\* unknown to this process.
OneUncertainRefresh ==
  \A m \in Model : Cardinality({i \in Request :
      request[i].kind = "refresh" /\ request[i].model = m /\ request[i].state # "unused"
        /\ i \notin resolved}) <= 1

\* mental_models.py:468, "Keep validated ACK IDs even if status verification
\* fails or is cancelled": while a refresh verifies the operation acknowledged
\* to it, the operation stays recorded, for refresh to report it on failure.
RecordedWhileVerified ==
  \A c \in Caller : pc[c] = "refreshStatus" => unconfirmed[call[c].model] = call[c].op

\* mental-models.md:280, "Provider deadline cancellation after a validated
\* refresh ACK also preserves known IDs": an acknowledged operation is kept,
\* or some caller was told of it.
AcknowledgedKept ==
  \A i \in acked : i \in told \/ \E m \in Model : unconfirmed[m] = i \/
    (\E c \in Caller : pc[c] = "ended" /\ i \in Known(c))
=============================================================================
