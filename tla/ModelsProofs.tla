---------------------------- MODULE ModelsProofs -----------------------------
(***************************************************************************)
(* Proofs about MentalModels, for every set of threads and requests, every *)
(* bank and every cap.                                                     *)
(***************************************************************************)
EXTENDS MentalModels, FiniteSetTheorems, TLAPS

\* A creation that may still be performed.
SentCreation(i) == request[i].kind = "create" /\ request[i].state = "sent"
Promised == {request[i].model : i \in {j \in Request : SentCreation(j)}}

\* A refresh whose outcome the process does not know.
Uncertain(i) == request[i].kind = "refresh" /\ request[i].state # "unused" /\ i \notin resolved

\* The request that the task of c waits for is its own.
SentBy(c, kind) ==
  /\ call[c].op \in Request
  /\ request[call[c].op].kind = kind
  /\ request[call[c].op].state # "unused"
  /\ request[call[c].op].model = call[c].model

(***************************************************************************)
(* The inductive invariant.                                                *)
(***************************************************************************)
\* Where a task is tells what it was called for.
Calls ==
  \A c \in Caller :
    /\ pc[c] = "locking" => call[c].action \in {"create", "refresh"}
    /\ pc[c] \in {"createRead", "createPage", "createDecide", "createPost"}
         => call[c].action = "create"
    /\ pc[c] \in {"refreshRead", "refreshPost", "refreshStatus"} => call[c].action = "refresh"
    /\ call[c].action # "status" => call[c].model \in Model
    /\ pc[c] = "status" => /\ call[c].op \in Request
                           /\ request[call[c].op].state # "unused"
                           /\ request[call[c].op].model = call[c].model
    /\ pc[c] = "ended" => c \notin gone
    /\ pc[c] = "createPost" => SentBy(c, "create")
    /\ pc[c] \in {"refreshPost", "refreshStatus"} => SentBy(c, "refresh")

\* Operations that are told or recorded were requested.
Operations ==
  /\ \A i \in told : request[i].state # "unused"
  /\ \A m \in Model : unconfirmed[m] # NoRequest => request[unconfirmed[m]].state # "unused"
  /\ \A i \in Request : request[i].state # "unused" => request[i].model \in Model

\* What may still be created is reserved and not in the bank, and a task that
\* goes on to create a model has found it neither there nor reserved.
Creations ==
  /\ \A i \in Request : SentCreation(i) => request[i].model \in reservations \ bank
  /\ \A i, j \in Request :
       SentCreation(i) /\ SentCreation(j) /\ request[i].model = request[j].model => i = j
  /\ \A c \in Caller :
       pc[c] \in {"createPage", "createDecide"} => call[c].model \notin bank \cup reservations
  /\ \A c \in Caller, i \in Request :
       pc[c] = "createDecide" /\ SentCreation(i) => request[i].model \notin inventory[c]
  /\ \A c \in Caller, i \in Request :
       /\ pc[c] = "createPost" /\ SentCreation(i) /\ request[i].model = call[c].model
       => i = call[c].op

\* A task that decides knows of all there is and may yet be.
Allowance ==
  /\ Cardinality(bank \cup Promised) <= MaxModels
  /\ \A c \in Caller :
       pc[c] = "createDecide" => bank \cup Promised \subseteq inventory[c] \cup reservations

\* An uncertain refresh is remembered, is the one its task waits for, and the
\* one that is recorded for its model.
Refreshes ==
  /\ \A i \in Request : Uncertain(i) => request[i].model \in ambiguities
  /\ \A i, j \in Request :
       Uncertain(i) /\ Uncertain(j) /\ request[i].model = request[j].model => i = j
  /\ \A c \in Caller, i \in Request :
       /\ pc[c] \in {"refreshPost", "refreshStatus"}
       /\ Uncertain(i) /\ request[i].model = call[c].model
       => i = call[c].op
  /\ \A m \in Model, i \in Request :
       unconfirmed[m] # NoRequest /\ Uncertain(i) /\ request[i].model = m => i = unconfirmed[m]
  /\ \A c \in Caller : pc[c] = "refreshRead" => unconfirmed[call[c].model] = NoRequest

IInv == TypeOK /\ Calls /\ Operations /\ Creations /\ Allowance /\ Refreshes

(***************************************************************************)
(* Facts that many steps share.                                            *)
(***************************************************************************)
\* Every call that stays inside the lock stays where it is.
Quiet ==
  \A d \in Caller :
    pc'[d] \in Locked =>
      pc'[d] = pc[d] /\ call'[d] = call[d] /\ inventory'[d] = inventory[d]

\* What the lock protects is untouched by steps of other calls.
LEMMA CreationsStay ==
  ASSUME IInv, Quiet, UNCHANGED <<server, reservations>>
  PROVE  Creations' /\ Allowance'
<1>1. \A i : SentCreation(i)' <=> SentCreation(i)
  BY DEF SentCreation, server
<1>2. Promised' = Promised
  BY <1>1 DEF Promised, server
<1>3. Creations'
  BY <1>1 DEF IInv, Creations, Quiet, Locked, server
<1>4. Allowance'
  BY <1>2 DEF IInv, Allowance, Quiet, Locked, server
<1> QED
  BY <1>3, <1>4

LEMMA RefreshesStay ==
  ASSUME IInv, Quiet, UNCHANGED <<request, ambiguities, unconfirmed, resolved>>
  PROVE  Refreshes'
<1>1. \A i : Uncertain(i)' <=> Uncertain(i)
  BY DEF Uncertain
<1>2. \A d \in Caller :
        pc'[d] \in {"refreshRead", "refreshPost", "refreshStatus"}
          => pc'[d] = pc[d] /\ call'[d] = call[d]
  BY DEF Quiet, Locked
<1> QED
  BY <1>1, <1>2 DEF IInv, Refreshes

\* What the task that ends leaves behind.
LEMMA Ending ==
  ASSUME TypeOK, NEW c \in Caller, NEW ops, End(c, ops), pc[c] \notin {"idle", "ended"}
  PROVE  /\ pc' \in [Caller -> {"idle", "ended"} \cup Awaiting]
         /\ call' \in [Caller -> Call]
         /\ inventory' \in [Caller -> SUBSET Model]
         /\ pc'[c] \in {"idle", "ended"}
         /\ call'[c] = call[c] \/ (call'[c].action = "status" /\ pc'[c] = "idle")
         /\ \A d \in Caller \ {c} :
              pc'[d] = pc[d] /\ call'[d] = call[d] /\ inventory'[d] = inventory[d]
         /\ late' \subseteq Caller /\ gone' \subseteq late'
         /\ gone' \subseteq gone /\ (pc'[c] = "ended" => c \notin gone')
         /\ \A d \in Caller : lock' = d <=> pc'[d] \in Locked
         /\ lock' \in Caller \cup {Nobody}
         /\ told \subseteq told' /\ told' \subseteq told \cup ops
<1>1. NoCall \in Call /\ NoCall.action = "status"
  BY DEF NoCall, Call, Action
<1>2. pc' \in [Caller -> {"idle", "ended"} \cup Awaiting] /\ pc'[c] \in {"idle", "ended"}
  BY DEF End, TypeOK
<1>3. /\ call' \in [Caller -> Call]
      /\ call'[c] = call[c] \/ (call'[c].action = "status" /\ pc'[c] = "idle")
  BY <1>1 DEF End, TypeOK
<1>4. inventory' \in [Caller -> SUBSET Model]
  BY DEF End, TypeOK
<1>5. \A d \in Caller \ {c} :
        pc'[d] = pc[d] /\ call'[d] = call[d] /\ inventory'[d] = inventory[d]
  BY DEF End, TypeOK
<1>6. /\ late' \subseteq Caller /\ gone' \subseteq late'
      /\ gone' \subseteq gone /\ (pc'[c] = "ended" => c \notin gone')
  BY DEF End, TypeOK
<1>7. /\ \A d \in Caller : lock' = d <=> pc'[d] \in Locked
      /\ lock' \in Caller \cup {Nobody}
  BY <1>2, <1>5, MentalModelsAssumption DEF End, TypeOK, Locked
<1>8. told \subseteq told' /\ told' \subseteq told \cup ops
  BY DEF End
<1> QED
  BY <1>2, <1>3, <1>4, <1>5, <1>6, <1>7, <1>8

\* The operations a call may be told of.
Requested == {i \in Request : request[i].state # "unused"}

LEMMA KnownIsRequested ==
  ASSUME IInv, NEW c \in Caller
  PROVE  Known(c) \subseteq Requested
<1> SUFFICES ASSUME call[c].action = "refresh", unconfirmed[call[c].model] # NoRequest
             PROVE  unconfirmed[call[c].model] \in Requested
  BY DEF Known
<1>1. call[c].model \in Model
  BY DEF IInv, Calls
<1> QED
  BY <1>1 DEF IInv, TypeOK, Operations, Requested

\* A call that ends, with what else it forgets, keeps the rest of the calls.
LEMMA EndingCalls ==
  ASSUME IInv, NEW c \in Caller, NEW ops \in SUBSET Requested, End(c, ops),
         pc[c] \notin {"idle", "ended"},
         UNCHANGED <<server, acked>>,
         reservations' \subseteq Model, ambiguities' \subseteq Model, resolved' \subseteq Request,
         unconfirmed' \in [Model -> Request \cup {NoRequest}],
         \A m \in Model : unconfirmed'[m] \in {unconfirmed[m], NoRequest}
  PROVE  TypeOK' /\ Calls' /\ Operations' /\ Quiet
<1>0. TypeOK
  BY DEF IInv
<1> DEFINE E == /\ pc' \in [Caller -> {"idle", "ended"} \cup Awaiting]
                /\ call' \in [Caller -> Call]
                /\ inventory' \in [Caller -> SUBSET Model]
                /\ pc'[c] \in {"idle", "ended"}
                /\ call'[c] = call[c] \/ (call'[c].action = "status" /\ pc'[c] = "idle")
                /\ \A d \in Caller \ {c} :
                     pc'[d] = pc[d] /\ call'[d] = call[d] /\ inventory'[d] = inventory[d]
                /\ late' \subseteq Caller /\ gone' \subseteq late'
                /\ gone' \subseteq gone /\ (pc'[c] = "ended" => c \notin gone')
                /\ \A d \in Caller : lock' = d <=> pc'[d] \in Locked
                /\ lock' \in Caller \cup {Nobody}
                /\ told \subseteq told' /\ told' \subseteq told \cup ops
<1>1. E
  BY <1>0, Ending
<1>2. request' = request /\ bank' = bank
  BY DEF server
<1>3. TypeOK'
  BY <1>0, <1>1, <1>2 DEF TypeOK, Requested
<1>4. Calls'
  BY <1>1, <1>2 DEF IInv, Calls, SentBy
<1>5. Operations'
  BY <1>1, <1>2 DEF IInv, Operations, Requested
<1>6. Quiet
  BY <1>1 DEF Quiet, Locked
<1> QED
  BY <1>3, <1>4, <1>5, <1>6

\* A task that ends and forgets nothing.
LEMMA EndsPlainly ==
  ASSUME IInv, NEW c \in Caller, NEW ops \in SUBSET Requested, End(c, ops),
         pc[c] \notin {"idle", "ended"}, UNCHANGED <<memory, server, acked, resolved>>
  PROVE  IInv'
<1>1. TypeOK' /\ Calls' /\ Operations' /\ Quiet
  BY EndingCalls DEF IInv, TypeOK, memory
<1>2. Creations' /\ Allowance' /\ Refreshes'
  BY <1>1, CreationsStay, RefreshesStay DEF memory, server
<1> QED
  BY <1>1, <1>2 DEF IInv

(***************************************************************************)
(* Calls and their ends.                                                   *)
(***************************************************************************)
LEMMA BeginKeeps ==
  ASSUME IInv, NEW c \in Caller, Begin(c)
  PROVE  IInv'
<1>0. /\ pc[c] = "idle"
      /\ UNCHANGED <<inventory, late, gone, lock, memory, server, told, acked, resolved>>
  BY DEF Begin
<1>1. PICK a \in Action, m \in Model \cup {NoModel}, i \in Request \cup {NoRequest} :
        /\ call' = [call EXCEPT ![c] = [action |-> a, model |-> m, op |-> i]]
        /\ \/ a # "status" /\ m \in Model /\ pc' = [pc EXCEPT ![c] = "locking"]
           \/ /\ a = "status" /\ pc' = [pc EXCEPT ![c] = "status"]
              /\ i \in Request /\ request[i].state # "unused" /\ request[i].model = m
  <2>1. CASE \E m \in Model, a \in {"create", "refresh"} :
               /\ call' = [call EXCEPT ![c] = [action |-> a, model |-> m, op |-> NoRequest]]
               /\ pc' = [pc EXCEPT ![c] = "locking"]
    BY <2>1 DEF Action
  <2>2. CASE \E i \in told :
               /\ call' = [call EXCEPT ![c] = [action |-> "status", model |-> request[i].model, op |-> i]]
               /\ pc' = [pc EXCEPT ![c] = "status"]
    <3>1. \A i \in told : /\ i \in Request /\ request[i].state # "unused"
                          /\ request[i].model \in Model \cup {NoModel}
      BY DEF IInv, TypeOK, Operations, Requests
    <3> QED
      BY <2>2, <3>1 DEF Action
  <2> QED
    BY <2>1, <2>2 DEF Begin
<1>2. /\ \A d \in Caller \ {c} : pc'[d] = pc[d] /\ call'[d] = call[d]
      /\ pc'[c] \in {"locking", "status"}
      /\ call'[c] = [action |-> a, model |-> m, op |-> i]
  BY <1>1 DEF IInv, TypeOK
<1>3. call' \in [Caller -> Call] /\ pc' \in [Caller -> {"idle", "ended"} \cup Awaiting]
  BY <1>1 DEF IInv, TypeOK, Call, Awaiting
<1>4. TypeOK'
  BY <1>0, <1>2, <1>3 DEF IInv, TypeOK, Locked, memory, server
<1>5. Calls'
  <2>1. ASSUME NEW d \in Caller \ {c}
        PROVE  pc'[d] = pc[d] /\ call'[d] = call[d] /\ request' = request
    BY <1>0, <1>2 DEF server
  <2>2. pc'[c] = "locking" => call'[c].action \in {"create", "refresh"} /\ call'[c].model \in Model
    BY <1>1, <1>2 DEF IInv, TypeOK, Action
  <2>3. pc'[c] = "status" => /\ call'[c].action = "status"
                             /\ call'[c].op \in Request
                             /\ request[call'[c].op].state # "unused"
                             /\ request[call'[c].op].model = call'[c].model
    BY <1>1, <1>2 DEF IInv, TypeOK
  <2> QED
    BY <1>0, <1>2, <2>1, <2>2, <2>3 DEF IInv, Calls, SentBy, server
<1>6. Operations'
  BY <1>0 DEF IInv, Operations, memory, server
<1>7. Quiet
  BY <1>0, <1>2 DEF Quiet, Locked
<1> QED
  BY <1>0, <1>4, <1>5, <1>6, <1>7, CreationsStay, RefreshesStay DEF IInv, memory, server

\* The ends that leave the memory of the process as it is.
LEMMA PlainEndsKeep ==
  ASSUME IInv, NEW c \in Caller,
         \/ RequestFails(c) \/ Cancelled(c)
         \/ CreateReserved(c) \/ CreateRefused(c) \/ CreateQueued(c) \/ CreateAmbiguous(c)
         \/ RefreshReserved(c) \/ RefreshAmbiguous(c) \/ RefreshUnconfirmed(c)
  PROVE  IInv'
<1>1. UNCHANGED <<memory, server, acked, resolved>> /\ pc[c] \notin {"idle", "ended"}
  BY DEF RequestFails, Cancelled, CreateReserved, CreateRefused, CreateQueued, CreateAmbiguous,
         RefreshReserved, RefreshAmbiguous, RefreshUnconfirmed, Awaiting, Locked
<1>2. \E ops \in SUBSET Requested : End(c, ops)
  <2>1. {} \in SUBSET Requested /\ Known(c) \in SUBSET Requested
    BY KnownIsRequested
  <2>2. CreateQueued(c) => {call[c].op} \in SUBSET Requested
    BY DEF CreateQueued, IInv, Calls, SentBy, Requested
  <2> QED
    BY <2>1, <2>2 DEF RequestFails, Cancelled, CreateReserved, CreateRefused, CreateQueued,
       CreateAmbiguous, RefreshReserved, RefreshAmbiguous, RefreshUnconfirmed
<1> QED
  BY <1>1, <1>2, EndsPlainly

\* The deadline, and the thread of a late call.
LEMMA LateKeeps ==
  ASSUME IInv, NEW c \in Caller, DeadlinePasses(c) \/ Raise(c) \/ GiveUp(c)
  PROVE  IInv'
<1>0. UNCHANGED <<inventory, lock, memory, server, acked, resolved>>
  BY DEF DeadlinePasses, Raise, GiveUp
<1>1. Known(c) \subseteq Requested
  BY KnownIsRequested
<1>2. NoCall \in Call /\ NoCall.action = "status"
  BY DEF NoCall, Call, Action
<1>3. /\ pc' \in [Caller -> {"idle", "ended"} \cup Awaiting] /\ call' \in [Caller -> Call]
      /\ \A d \in Caller :
           \/ pc'[d] = pc[d] /\ call'[d] = call[d]
           \/ pc[d] = "ended" /\ pc'[d] = "idle" /\ call'[d].action = "status"
  BY <1>2 DEF DeadlinePasses, Raise, GiveUp, IInv, TypeOK
<1>4. late' \subseteq Caller /\ gone' \subseteq late'
  <2>1. DeadlinePasses(c) \/ GiveUp(c) => late' \subseteq Caller /\ gone' \subseteq late'
    BY DEF DeadlinePasses, GiveUp, IInv, TypeOK
  <2>2. Raise(c) => late' \subseteq Caller /\ gone' \subseteq late'
    BY DEF Raise, IInv, TypeOK, Calls
  <2> QED
    BY <2>1, <2>2
<1>5. told \subseteq told' /\ told' \subseteq told \cup Requested
  BY <1>1 DEF DeadlinePasses, Raise, GiveUp
<1>6. TypeOK'
  BY <1>0, <1>3, <1>4, <1>5 DEF IInv, TypeOK, Locked, memory, server, Requested
<1>7. Calls'
  <2>1. \A d \in Caller : pc'[d] = "ended" => d \notin gone'
    BY <1>3 DEF DeadlinePasses, Raise, GiveUp, IInv, Calls, Awaiting, Locked
  <2> QED
    BY <1>0, <1>3, <2>1 DEF IInv, Calls, SentBy, server
<1>8. Operations'
  BY <1>0, <1>5 DEF IInv, Operations, memory, server, Requested
<1>9. Quiet
  BY <1>0, <1>3 DEF Quiet, Locked
<1> QED
  BY <1>0, <1>6, <1>7, <1>8, <1>9, CreationsStay, RefreshesStay DEF IInv, memory, server

(***************************************************************************)
(* Creation.                                                               *)
(***************************************************************************)
\* A step inside the lock that moves the call of c on and sends nothing.
LEMMA MovingOn ==
  ASSUME IInv, NEW c \in Caller, NEW to \in Awaiting,
         pc' = [pc EXCEPT ![c] = to], to # "status", to # "locking",
         UNCHANGED <<call, late, gone, memory, server, told, acked, resolved>>,
         inventory' \in [Caller -> SUBSET Model],
         \A d \in Caller : lock' = d <=> pc'[d] \in Locked, lock' \in Caller \cup {Nobody},
         \/ call[c].action = "create" /\ to \in {"createRead", "createPage", "createDecide"}
         \/ call[c].action = "refresh" /\ to = "refreshRead"
  PROVE  TypeOK' /\ Calls' /\ Operations'
<1>1. TypeOK'
  BY DEF IInv, TypeOK, memory, server
<1>2. \A d \in Caller \ {c} : pc'[d] = pc[d]
  BY DEF IInv, TypeOK
<1>3. pc'[c] = to
  BY DEF IInv, TypeOK
<1>4. Calls'
  BY <1>2, <1>3 DEF IInv, Calls, SentBy, server
<1>5. Operations'
  BY DEF IInv, Operations, memory, server
<1> QED
  BY <1>1, <1>4, <1>5

\* Whoever is inside the lock is alone there.
LEMMA Alone ==
  ASSUME IInv, NEW c \in Caller, pc[c] \in Locked \/ lock = Nobody
  PROVE  \A d \in Caller \ {c} : pc[d] \notin Locked
BY MentalModelsAssumption DEF IInv, TypeOK

LEMMA TakeLockKeeps ==
  ASSUME IInv, NEW c \in Caller, TakeLock(c)
  PROVE  IInv'
<1>0. pc[c] = "locking" /\ lock = Nobody /\ UNCHANGED <<memory, server, acked, resolved>>
  BY DEF TakeLock
<1>1. CASE Known(c) # {}
  <2>1. Known(c) \in SUBSET Requested
    BY KnownIsRequested
  <2> QED
    BY <1>0, <1>1, <2>1, EndsPlainly DEF TakeLock
<1>2. CASE Known(c) = {}
  <2> DEFINE to == IF call[c].action = "create" THEN "createRead" ELSE "refreshRead"
  <2>1. /\ lock' = c /\ pc' = [pc EXCEPT ![c] = to]
        /\ UNCHANGED <<call, inventory, late, gone, told>>
    BY <1>2 DEF TakeLock
  <2>2. call[c].action \in {"create", "refresh"} /\ call[c].model \in Model
    BY <1>0 DEF IInv, Calls
  <2>3. to \in {"createRead", "refreshRead"}
    OBVIOUS
  <2>4. \A d \in Caller : pc'[d] = IF d = c THEN to ELSE pc[d]
    BY <2>1 DEF IInv, TypeOK
  <2>5. \A d \in Caller \ {c} : pc[d] \notin Locked
    BY <1>0, Alone
  <2>6. \A d \in Caller : lock' = d <=> pc'[d] \in Locked
    BY <2>1, <2>3, <2>4, <2>5 DEF Locked
  <2>7. TypeOK' /\ Calls' /\ Operations'
    <3>1. to \in Awaiting /\ to # "status" /\ to # "locking"
      BY <2>3 DEF Awaiting, Locked
    <3>2. inventory' \in [Caller -> SUBSET Model] /\ lock' \in Caller \cup {Nobody}
      BY <2>1 DEF IInv, TypeOK
    <3>3. \/ call[c].action = "create" /\ to \in {"createRead", "createPage", "createDecide"}
          \/ call[c].action = "refresh" /\ to = "refreshRead"
      BY <2>2
    <3> HIDE DEF to
    <3> QED
      BY <1>0, <2>1, <2>6, <3>1, <3>2, <3>3, MovingOn
  <2>8. request' = request /\ bank' = bank /\ reservations' = reservations
        /\ ambiguities' = ambiguities /\ unconfirmed' = unconfirmed
    BY <1>0 DEF server, memory
  <2>9. \A i : (SentCreation(i)' <=> SentCreation(i)) /\ (Uncertain(i)' <=> Uncertain(i))
    BY <1>0, <2>8 DEF SentCreation, Uncertain
  <2>10. \A d \in Caller : pc'[d] \in Locked => pc'[d] \in {"createRead", "refreshRead"}
    BY <2>3, <2>4, <2>5
  <2>11. Creations'
    BY <2>8, <2>9, <2>10 DEF IInv, Creations, Locked
  <2>12. Allowance'
    <3>1. Promised' = Promised
      BY <2>8, <2>9 DEF Promised
    <3> QED
      BY <2>8, <2>10, <3>1 DEF IInv, Allowance, Locked
  <2>13. Refreshes'
    <3>1. \A d \in Caller : pc'[d] = "refreshRead" => unconfirmed[call[d].model] = NoRequest
      <4>1. call[c].action = "refresh" => unconfirmed[call[c].model] = NoRequest
        BY <1>2 DEF Known
      <4> QED
        BY <2>2, <2>4, <2>5, <4>1 DEF Locked
    <3> QED
      BY <2>1, <2>8, <2>9, <2>10, <3>1 DEF IInv, Refreshes, Locked
  <2> QED
    BY <2>7, <2>11, <2>12, <2>13 DEF IInv
<1> QED
  BY <1>1, <1>2

\* The model is in the bank: nothing that may yet be created is forgotten.
LEMMA CreateExistingKeeps ==
  ASSUME IInv, NEW c \in Caller, CreateExisting(c)
  PROVE  IInv'
<1>0. /\ pc[c] = "createRead" /\ call[c].model \in bank /\ End(c, {})
      /\ reservations' = reservations \ {call[c].model}
      /\ UNCHANGED <<ambiguities, unconfirmed, server, acked, resolved>>
  BY DEF CreateExisting
<1>1. TypeOK' /\ Calls' /\ Operations' /\ Quiet
  <2>1. {} \in SUBSET Requested
    OBVIOUS
  <2> QED
    BY <1>0, <2>1, EndingCalls DEF IInv, TypeOK
<1>2. \A i : SentCreation(i)' <=> SentCreation(i)
  BY <1>0 DEF SentCreation, server
<1>3. \A d \in Caller : pc'[d] \notin {"createPage", "createDecide", "createPost"}
  <2>1. \A d \in Caller \ {c} : pc[d] \notin Locked
    BY <1>0, Alone DEF Locked
  <2>2. \A d \in Caller : pc[d] \notin {"createPage", "createDecide", "createPost"}
    BY <1>0, <2>1 DEF Locked
  <2> QED
    BY <1>1, <2>2 DEF Quiet, Locked
<1>4. Creations'
  BY <1>0, <1>2, <1>3 DEF IInv, Creations, server
<1>5. Allowance'
  <2>1. Promised' = Promised
    BY <1>0, <1>2 DEF Promised, server
  <2> QED
    BY <1>0, <1>3, <2>1 DEF IInv, Allowance, server
<1>6. Refreshes'
  BY <1>0, <1>1, RefreshesStay DEF server
<1> QED
  BY <1>1, <1>4, <1>5, <1>6 DEF IInv

\* A rejected request gives its reservation back: it was the only one.
LEMMA CreateRejectedKeeps ==
  ASSUME IInv, NEW c \in Caller, CreateRejected(c)
  PROVE  IInv'
<1>0. /\ pc[c] = "createPost" /\ request[call[c].op].state = "refused" /\ End(c, {})
      /\ reservations' = reservations \ {call[c].model}
      /\ UNCHANGED <<ambiguities, unconfirmed, server, acked, resolved>>
  BY DEF CreateRejected, Answer
<1>1. TypeOK' /\ Calls' /\ Operations' /\ Quiet
  <2>1. {} \in SUBSET Requested
    OBVIOUS
  <2> QED
    BY <1>0, <2>1, EndingCalls DEF IInv, TypeOK
<1>2. \A i : SentCreation(i)' <=> SentCreation(i)
  BY <1>0 DEF SentCreation, server
<1>3. \A d \in Caller : pc'[d] \notin {"createPage", "createDecide", "createPost"}
  <2>1. \A d \in Caller \ {c} : pc[d] \notin Locked
    BY <1>0, Alone DEF Locked
  <2>2. pc'[c] \notin Locked
    <3>1. TypeOK /\ pc[c] \notin {"idle", "ended"}
      BY <1>0 DEF IInv
    <3>2. pc'[c] \in {"idle", "ended"}
      BY <1>0, <3>1, Ending
    <3> QED
      BY <3>2 DEF Locked
  <2> QED
    BY <1>1, <2>1, <2>2 DEF Quiet, Locked
<1>4. \A i \in Request : SentCreation(i) => request[i].model # call[c].model
  BY <1>0 DEF IInv, Creations, SentCreation
<1>5. Creations'
  BY <1>0, <1>2, <1>3, <1>4 DEF IInv, Creations, server
<1>6. Allowance'
  <2>1. Promised' = Promised
    BY <1>0, <1>2 DEF Promised, server
  <2> QED
    BY <1>0, <1>3, <2>1 DEF IInv, Allowance, server
<1>7. Refreshes'
  BY <1>0, <1>1, RefreshesStay DEF server
<1> QED
  BY <1>1, <1>5, <1>6, <1>7 DEF IInv

\* The task has found the model neither in the bank nor reserved.
LEMMA CreateAbsentKeeps ==
  ASSUME IInv, NEW c \in Caller, CreateAbsent(c)
  PROVE  IInv'
<1>0. /\ pc[c] = "createRead" /\ pc' = [pc EXCEPT ![c] = "createPage"]
      /\ call[c].model \notin bank \cup reservations
      /\ UNCHANGED <<call, inventory, late, gone, lock, memory, server, told, acked, resolved>>
  BY DEF CreateAbsent, Goto
<1>1. \A d \in Caller : pc'[d] = IF d = c THEN "createPage" ELSE pc[d]
  BY <1>0 DEF IInv, TypeOK
<1>2. TypeOK' /\ Calls' /\ Operations'
  <2>1. "createPage" \in Awaiting /\ call[c].action = "create"
    BY <1>0 DEF IInv, Calls, Awaiting, Locked
  <2>2. \A d \in Caller : lock' = d <=> pc'[d] \in Locked
    BY <1>0, <1>1 DEF IInv, TypeOK, Locked
  <2>3. inventory' \in [Caller -> SUBSET Model] /\ lock' \in Caller \cup {Nobody}
    BY <1>0 DEF IInv, TypeOK
  <2> QED
    BY <1>0, <2>1, <2>2, <2>3, MovingOn
<1>3. \A i : (SentCreation(i)' <=> SentCreation(i)) /\ (Uncertain(i)' <=> Uncertain(i))
  BY <1>0 DEF SentCreation, Uncertain, server
<1>4. Creations'
  BY <1>0, <1>1, <1>3 DEF IInv, Creations, memory, server
<1>5. Allowance'
  <2>1. Promised' = Promised
    BY <1>0, <1>3 DEF Promised, server
  <2> QED
    BY <1>0, <1>1, <2>1 DEF IInv, Allowance, memory, server
<1>6. Refreshes'
  BY <1>0, <1>1, <1>3 DEF IInv, Refreshes, memory, server
<1> QED
  BY <1>2, <1>4, <1>5, <1>6 DEF IInv

\* It reads the inventory: all that the bank holds.
LEMMA CreatePageKeeps ==
  ASSUME IInv, NEW c \in Caller, CreatePage(c)
  PROVE  IInv'
<1>0. /\ pc[c] = "createPage" /\ pc' = [pc EXCEPT ![c] = "createDecide"]
      /\ inventory' = [inventory EXCEPT ![c] = bank]
      /\ UNCHANGED <<call, late, gone, lock, memory, server, told, acked, resolved>>
  BY DEF CreatePage, Goto
<1>1. \A d \in Caller : /\ pc'[d] = IF d = c THEN "createDecide" ELSE pc[d]
                        /\ inventory'[d] = IF d = c THEN bank ELSE inventory[d]
  BY <1>0 DEF IInv, TypeOK
<1>2. TypeOK' /\ Calls' /\ Operations'
  <2>1. "createDecide" \in Awaiting /\ call[c].action = "create"
    BY <1>0 DEF IInv, Calls, Awaiting, Locked
  <2>2. \A d \in Caller : lock' = d <=> pc'[d] \in Locked
    BY <1>0, <1>1 DEF IInv, TypeOK, Locked
  <2>3. inventory' \in [Caller -> SUBSET Model] /\ lock' \in Caller \cup {Nobody}
    BY <1>0 DEF IInv, TypeOK
  <2> QED
    BY <1>0, <2>1, <2>2, <2>3, MovingOn
<1>3. \A i : (SentCreation(i)' <=> SentCreation(i)) /\ (Uncertain(i)' <=> Uncertain(i))
  BY <1>0 DEF SentCreation, Uncertain, server
<1>4. Creations'
  BY <1>0, <1>1, <1>3 DEF IInv, Creations, memory, server
<1>5. Allowance'
  <2>1. Promised' = Promised
    BY <1>0, <1>3 DEF Promised, server
  <2>2. Promised \subseteq reservations
    BY DEF IInv, Creations, Promised
  <2> QED
    BY <1>0, <1>1, <2>1, <2>2 DEF IInv, Allowance, memory, server
<1>6. Refreshes'
  BY <1>0, <1>1, <1>3 DEF IInv, Refreshes, memory, server
<1> QED
  BY <1>2, <1>4, <1>5, <1>6 DEF IInv

\* A union with one more element.
LEMMA OneMore ==
  ASSUME NEW S \in SUBSET Model, NEW T \in SUBSET Model, NEW m \in Model,
         Cardinality(S) < MaxModels, T \subseteq S \cup {m}
  PROVE  Cardinality(T) <= MaxModels
<1>1. IsFiniteSet(S) /\ IsFiniteSet(S \cup {m})
  BY FS_Subset, FS_AddElement, MentalModelsAssumption
<1>2. Cardinality(S \cup {m}) \in Nat /\ Cardinality(S) \in Nat
  BY <1>1, FS_CardinalityType
<1>3. Cardinality(S \cup {m}) <= Cardinality(S) + 1
  BY <1>1, <1>2, FS_AddElement
<1>4. Cardinality(T) <= Cardinality(S \cup {m}) /\ Cardinality(T) \in Nat
  BY <1>1, FS_Subset, FS_CardinalityType
<1> QED
  BY <1>2, <1>3, <1>4, MentalModelsAssumption

\* Fewer models fit as well.
LEMMA Fewer ==
  ASSUME NEW S \in SUBSET Model, NEW T \in SUBSET S, Cardinality(S) <= MaxModels
  PROVE  Cardinality(T) <= MaxModels
<1>1. IsFiniteSet(S) /\ IsFiniteSet(T)
  BY FS_Subset, MentalModelsAssumption
<1>2. Cardinality(T) <= Cardinality(S) /\ Cardinality(T) \in Nat /\ Cardinality(S) \in Nat
  BY <1>1, FS_Subset, FS_CardinalityType
<1> QED
  BY <1>2, MentalModelsAssumption

\* Where the answer to a request is awaited.
PostOf(kind) == IF kind = "create" THEN "createPost" ELSE "refreshPost"

\* A task inside the lock sends a request for the model it was called for ...
Submits(c, kind) ==
  /\ pc[c] \in Locked /\ call[c].model \in Model /\ call[c].action = kind
  /\ Send(c, kind)
  /\ pc' = [pc EXCEPT ![c] = PostOf(kind)]
  /\ UNCHANGED <<inventory, late, gone, lock, unconfirmed, bank, told, acked, resolved>>
  /\ reservations' \subseteq Model /\ ambiguities' \subseteq Model

\* ... which is request i, until now not in use.
SentAs(c, kind, i) ==
  /\ request[i].state = "unused" /\ call'[c].op = i
  /\ call'[c].model = call[c].model
  /\ request'[i].kind = kind /\ request'[i].model = call[c].model
  /\ request'[i].state = "sent"
  /\ \A j \in Request \ {i} : request'[j] = request[j]

LEMMA Sending ==
  ASSUME IInv, NEW c \in Caller, NEW kind \in {"create", "refresh"}, Submits(c, kind)
  PROVE  /\ TypeOK' /\ Calls' /\ Operations'
         /\ \A d \in Caller : pc'[d] \in Locked => d = c
         /\ pc'[c] = PostOf(kind)
         /\ \E i \in Request : SentAs(c, kind, i)
<1>0. /\ pc[c] \in Locked /\ call[c].model \in Model /\ call[c].action = kind
      /\ Send(c, kind)
      /\ pc' = [pc EXCEPT ![c] = PostOf(kind)]
      /\ UNCHANGED <<inventory, late, gone, lock, unconfirmed, bank, told, acked, resolved>>
      /\ reservations' \subseteq Model /\ ambiguities' \subseteq Model
  BY DEF Submits
<1>1. PICK i \in Request :
        /\ request[i].state = "unused"
        /\ request' = [request EXCEPT ![i] =
                        [kind |-> kind, model |-> call[c].model, state |-> "sent"]]
        /\ call' = [call EXCEPT ![c].op = i]
  BY <1>0 DEF Send
<1>2. /\ request'[i].kind = kind /\ request'[i].model = call[c].model
      /\ request'[i].state = "sent"
      /\ \A j \in Request \ {i} : request'[j] = request[j]
  BY <1>1 DEF IInv, TypeOK
<1>3. /\ call'[c].op = i /\ call'[c].model = call[c].model /\ call'[c].action = call[c].action
      /\ \A d \in Caller \ {c} : call'[d] = call[d]
      /\ call' \in [Caller -> Call]
  BY <1>1 DEF IInv, TypeOK, Call
<1>4. \A d \in Caller : pc'[d] = IF d = c THEN PostOf(kind) ELSE pc[d]
  BY <1>0 DEF IInv, TypeOK
<1>5. \A d \in Caller \ {c} : pc[d] \notin Locked
  BY <1>0, Alone
<1>6. PostOf(kind) \in Locked /\ PostOf(kind) \in Awaiting
  BY DEF PostOf, Locked, Awaiting
<1>7. request' \in [Request -> Requests]
  BY <1>0, <1>1 DEF IInv, TypeOK, Requests, RequestState
<1>8. TypeOK'
  <2>1. pc' \in [Caller -> {"idle", "ended"} \cup Awaiting]
    BY <1>0, <1>6 DEF IInv, TypeOK
  <2>2. \A d \in Caller : lock' = d <=> pc'[d] \in Locked
    BY <1>0, <1>4, <1>6 DEF IInv, TypeOK
  <2> QED
    BY <1>0, <1>3, <1>7, <2>1, <2>2 DEF IInv, TypeOK
<1>9. Calls'
  <2>1. ASSUME NEW d \in Caller \ {c}
        PROVE  /\ pc'[d] = pc[d] /\ pc'[d] \notin Locked /\ call'[d] = call[d]
    BY <1>3, <1>4, <1>5
  <2>2. ASSUME NEW d \in Caller \ {c}, pc[d] = "status"
        PROVE  /\ call[d].op \in Request
               /\ request'[call[d].op].state # "unused"
               /\ request'[call[d].op].model = call[d].model
    BY <1>1, <1>2, <2>2 DEF IInv, Calls
  <2>3. SentBy(c, kind)'
    BY <1>2, <1>3 DEF SentBy
  <2> QED
    BY <1>0, <1>3, <1>4, <2>1, <2>2, <2>3 DEF IInv, Calls, Locked, PostOf
<1>10. Operations'
  BY <1>0, <1>1, <1>2 DEF IInv, Operations, TypeOK
<1>11. SentAs(c, kind, i)
  BY <1>1, <1>2, <1>3 DEF SentAs
<1> QED
  BY <1>4, <1>5, <1>8, <1>9, <1>10, <1>11

\* The cap counts what the bank holds and what may still be created in it.
LEMMA CreateSubmitKeeps ==
  ASSUME IInv, NEW c \in Caller, CreateSubmit(c)
  PROVE  IInv'
<1> DEFINE m == call[c].model
<1>0. /\ pc[c] = "createDecide" /\ pc' = [pc EXCEPT ![c] = "createPost"]
      /\ Cardinality(inventory[c] \cup reservations) < MaxModels
      /\ reservations' = (reservations \ inventory[c]) \cup {m}
      /\ Send(c, "create")
      /\ UNCHANGED <<inventory, late, gone, lock, ambiguities, unconfirmed, bank, told, acked, resolved>>
  BY DEF CreateSubmit, Counted, Goto
<1>1. /\ call[c].action = "create" /\ m \in Model /\ pc[c] \in Locked
      /\ m \notin bank \cup reservations
      /\ \A j \in Request : SentCreation(j) => request[j].model \notin inventory[c]
      /\ bank \cup Promised \subseteq inventory[c] \cup reservations
  BY <1>0 DEF IInv, Calls, Locked, Creations, Allowance
<1>2. /\ TypeOK' /\ Calls' /\ Operations'
      /\ \A d \in Caller : pc'[d] \in Locked => d = c
      /\ pc'[c] = "createPost"
      /\ \E i \in Request : SentAs(c, "create", i)
  <2>1. reservations' \subseteq Model /\ ambiguities' \subseteq Model
    BY <1>0, <1>1 DEF IInv, TypeOK
  <2>2. PostOf("create") = "createPost" /\ "create" \in {"create", "refresh"}
    BY DEF PostOf
  <2>3. Submits(c, "create")
    BY <1>0, <1>1, <2>1, <2>2 DEF Submits
  <2> QED
    BY <2>2, <2>3, Sending
<1>3. PICK i \in Request :
        /\ request[i].state = "unused" /\ call'[c].op = i /\ call'[c].model = m
        /\ request'[i].kind = "create" /\ request'[i].model = m /\ request'[i].state = "sent"
        /\ \A j \in Request \ {i} : request'[j] = request[j]
  BY <1>2 DEF SentAs
<1>4. \A j \in Request : SentCreation(j)' <=> SentCreation(j) \/ j = i
  BY <1>3 DEF SentCreation
<1>5. ~SentCreation(i)
  BY <1>3 DEF SentCreation
<1>6. \A j \in Request : SentCreation(j) => request[j].model \in reservations /\ request[j].model # m
  BY <1>1 DEF IInv, Creations
<1> HIDE DEF m
<1>7. Creations'
  <2>1. \A j \in Request : SentCreation(j)' => request'[j].model \in reservations' \ bank'
    <3>1. \A j \in Request \ {i} : SentCreation(j)' => request'[j].model \in reservations' \ bank'
      BY <1>0, <1>1, <1>3, <1>4, <1>6 DEF IInv, Creations
    <3> QED
      BY <1>0, <1>1, <1>3, <3>1
  <2>2. \A j, k \in Request :
          SentCreation(j)' /\ SentCreation(k)' /\ request'[j].model = request'[k].model => j = k
    BY <1>3, <1>4, <1>5, <1>6 DEF IInv, Creations
  <2>3. \A d \in Caller : pc'[d] \notin {"createPage", "createDecide"}
    BY <1>2 DEF Locked
  <2>4. \A d \in Caller, j \in Request :
          /\ pc'[d] = "createPost" /\ SentCreation(j)' /\ request'[j].model = call'[d].model
          => j = call'[d].op
    <3>1. \A d \in Caller : pc'[d] = "createPost" => d = c
      BY <1>2 DEF Locked
    <3> QED
      BY <1>3, <1>4, <1>6, <3>1
  <2> QED
    BY <2>1, <2>2, <2>3, <2>4 DEF Creations
<1>8. Allowance'
  <2>1. Promised' \subseteq Promised \cup {m}
    BY <1>3, <1>4 DEF Promised
  <2>2. bank' \cup Promised' \subseteq (inventory[c] \cup reservations) \cup {m}
    BY <1>0, <1>1, <2>1
  <2>3. inventory[c] \cup reservations \in SUBSET Model /\ bank' \cup Promised' \in SUBSET Model
    <3>1. inventory[c] \cup reservations \in SUBSET Model
      BY DEF IInv, TypeOK
    <3> QED
      BY <1>1, <2>2, <3>1
  <2>4. Cardinality(bank' \cup Promised') <= MaxModels
    BY <1>0, <1>1, <2>2, <2>3, OneMore
  <2>5. \A d \in Caller : pc'[d] # "createDecide"
    BY <1>2 DEF Locked
  <2> QED
    BY <2>4, <2>5 DEF Allowance
<1>9. Refreshes'
  <2>1. \A j \in Request : Uncertain(j)' => Uncertain(j) /\ request'[j] = request[j]
    BY <1>0, <1>3 DEF Uncertain
  <2>2. \A d \in Caller : pc'[d] \notin {"refreshRead", "refreshPost", "refreshStatus"}
    BY <1>2 DEF Locked
  <2> QED
    BY <1>0, <2>1, <2>2 DEF IInv, Refreshes
<1> QED
  BY <1>2, <1>7, <1>8, <1>9 DEF IInv

(***************************************************************************)
(* Refresh and status.                                                     *)
(***************************************************************************)
LEMMA RefreshSubmitKeeps ==
  ASSUME IInv, NEW c \in Caller, RefreshSubmit(c)
  PROVE  IInv'
<1> DEFINE m == call[c].model
<1>0. /\ pc[c] = "refreshRead" /\ pc' = [pc EXCEPT ![c] = "refreshPost"]
      /\ m \in bank \ ambiguities
      /\ ambiguities' = ambiguities \cup {m}
      /\ Send(c, "refresh")
      /\ UNCHANGED <<inventory, late, gone, lock, reservations, unconfirmed, bank, told, acked, resolved>>
  BY DEF RefreshSubmit, Goto
<1>1. call[c].action = "refresh" /\ m \in Model /\ pc[c] \in Locked /\ unconfirmed[m] = NoRequest
  BY <1>0 DEF IInv, Calls, Locked, Refreshes
<1>2. /\ TypeOK' /\ Calls' /\ Operations'
      /\ \A d \in Caller : pc'[d] \in Locked => d = c
      /\ pc'[c] = "refreshPost"
      /\ \E i \in Request : SentAs(c, "refresh", i)
  <2>1. reservations' \subseteq Model /\ ambiguities' \subseteq Model
    BY <1>0, <1>1 DEF IInv, TypeOK
  <2>2. PostOf("refresh") = "refreshPost" /\ "refresh" \in {"create", "refresh"}
    BY DEF PostOf
  <2>3. Submits(c, "refresh")
    BY <1>0, <1>1, <2>1, <2>2 DEF Submits
  <2> QED
    BY <2>2, <2>3, Sending
<1>3. PICK i \in Request :
        /\ request[i].state = "unused" /\ call'[c].op = i /\ call'[c].model = m
        /\ request'[i].kind = "refresh" /\ request'[i].model = m /\ request'[i].state = "sent"
        /\ \A j \in Request \ {i} : request'[j] = request[j]
  BY <1>2 DEF SentAs
<1>4. \A j \in Request : Uncertain(j)' => Uncertain(j) \/ j = i
  BY <1>0, <1>3 DEF Uncertain
<1>5. \A j \in Request : Uncertain(j) => request[j].model \in ambiguities /\ request[j].model # m
  BY <1>0 DEF IInv, Refreshes
<1>6. ~Uncertain(i)
  BY <1>3 DEF Uncertain
<1> HIDE DEF m
<1>7. Refreshes'
  <2>1. \A j \in Request : Uncertain(j)' => request'[j].model \in ambiguities'
    BY <1>0, <1>3, <1>4, <1>5
  <2>2. \A j, k \in Request :
          Uncertain(j)' /\ Uncertain(k)' /\ request'[j].model = request'[k].model => j = k
    BY <1>3, <1>4, <1>5, <1>6 DEF IInv, Refreshes
  <2>3. \A d \in Caller : pc'[d] # "refreshRead" /\ (pc'[d] \in {"refreshPost", "refreshStatus"} => d = c)
    BY <1>2 DEF Locked
  <2>4. \A j \in Request : Uncertain(j)' /\ request'[j].model = m => j = i
    BY <1>3, <1>4, <1>5
  <2>5. \A n \in Model, j \in Request :
          unconfirmed'[n] # NoRequest /\ Uncertain(j)' /\ request'[j].model = n => j = unconfirmed'[n]
    BY <1>0, <1>1, <1>3, <1>4 DEF IInv, Refreshes
  <2> QED
    BY <1>3, <2>1, <2>2, <2>3, <2>4, <2>5 DEF Refreshes
<1>8. \A j \in Request : SentCreation(j)' => SentCreation(j) /\ request'[j] = request[j]
  BY <1>3 DEF SentCreation
<1>9. \A d \in Caller : pc'[d] \notin {"createPage", "createDecide", "createPost"}
  BY <1>2 DEF Locked
<1>10. Creations'
  BY <1>0, <1>8, <1>9 DEF IInv, Creations
<1>11. Allowance'
  <2>1. Promised' \subseteq Promised
    BY <1>8 DEF Promised
  <2>2. bank \cup Promised \in SUBSET Model
    BY DEF Promised, IInv, TypeOK, Creations
  <2>3. bank' \cup Promised' \in SUBSET (bank \cup Promised)
    BY <1>0, <2>1
  <2>4. Cardinality(bank' \cup Promised') <= MaxModels
    BY <2>2, <2>3, Fewer DEF IInv, Allowance
  <2> QED
    BY <1>9, <2>4 DEF Allowance
<1> QED
  BY <1>2, <1>7, <1>10, <1>11 DEF IInv

\* The operation is recorded while its status is verified.
LEMMA RefreshAcknowledgedKeeps ==
  ASSUME IInv, NEW c \in Caller, RefreshAcknowledged(c)
  PROVE  IInv'
<1> DEFINE m == call[c].model
           i == call[c].op
<1>0. /\ pc[c] = "refreshPost" /\ pc' = [pc EXCEPT ![c] = "refreshStatus"]
      /\ unconfirmed' = [unconfirmed EXCEPT ![m] = i]
      /\ acked' = acked \cup {i}
      /\ UNCHANGED <<call, inventory, late, gone, lock, reservations, ambiguities, server, told, resolved>>
  BY DEF RefreshAcknowledged, Goto
<1>1. /\ m \in Model /\ i \in Request /\ request[i].state # "unused"
      /\ pc[c] \in Locked
  BY <1>0 DEF IInv, Calls, SentBy, Locked
<1>2. \A d \in Caller : pc'[d] = IF d = c THEN "refreshStatus" ELSE pc[d]
  BY <1>0 DEF IInv, TypeOK
<1>3. \A n \in Model : unconfirmed'[n] = IF n = m THEN i ELSE unconfirmed[n]
  BY <1>0 DEF IInv, TypeOK
<1>4. \A d \in Caller \ {c} : pc[d] \notin Locked
  BY <1>1, Alone
<1>5. TypeOK'
  <2>1. unconfirmed' \in [Model -> Request \cup {NoRequest}] /\ acked' \subseteq Request
    BY <1>0, <1>1 DEF IInv, TypeOK
  <2>2. /\ pc' \in [Caller -> {"idle", "ended"} \cup Awaiting]
        /\ \A d \in Caller : lock' = d <=> pc'[d] \in Locked
    BY <1>0, <1>1, <1>2 DEF IInv, TypeOK, Awaiting, Locked
  <2> QED
    BY <1>0, <2>1, <2>2 DEF IInv, TypeOK, server
<1>6. Calls'
  BY <1>0, <1>2 DEF IInv, Calls, SentBy, server
<1>7. Operations'
  BY <1>0, <1>1, <1>3 DEF IInv, Operations, server
<1>8. \A j : (SentCreation(j)' <=> SentCreation(j)) /\ (Uncertain(j)' <=> Uncertain(j))
  BY <1>0 DEF SentCreation, Uncertain, server
<1>9. Creations' /\ Allowance'
  <2>1. Promised' = Promised
    BY <1>0, <1>8 DEF Promised, server
  <2>2. Creations'
    BY <1>0, <1>2, <1>8 DEF IInv, Creations, server
  <2>3. Allowance'
    BY <1>0, <1>2, <2>1 DEF IInv, Allowance, server
  <2> QED
    BY <2>2, <2>3
<1>10. \A j \in Request : Uncertain(j) /\ request[j].model = m => j = i
  BY <1>0 DEF IInv, Refreshes
<1> HIDE DEF m, i
<1>11. Refreshes'
  <2>1. \A n \in Model, j \in Request :
          unconfirmed'[n] # NoRequest /\ Uncertain(j)' /\ request'[j].model = n => j = unconfirmed'[n]
    BY <1>0, <1>3, <1>8, <1>10 DEF IInv, Refreshes, server
  <2>2. \A d \in Caller : pc'[d] # "refreshRead" /\ (pc'[d] \in {"refreshPost", "refreshStatus"} => d = c)
    BY <1>2, <1>4 DEF Locked
  <2>3. call'[c].model = m /\ call'[c].op = i
    BY <1>0 DEF m, i
  <2> QED
    BY <1>0, <1>8, <1>10, <2>1, <2>2, <2>3 DEF IInv, Refreshes, server
<1> QED
  BY <1>5, <1>6, <1>7, <1>9, <1>11 DEF IInv

\* What is known of the only uncertain refresh of a model settles the model.
LEMMA ReconcileKeeps ==
  ASSUME IInv, NEW c \in Caller, NEW ops \in SUBSET Requested, End(c, ops),
         pc[c] \notin {"idle", "ended"},
         NEW m \in Model, NEW i \in Request,
         \A j \in Request : Uncertain(j) /\ request[j].model = m => j = i,
         ambiguities' = ambiguities \ {m}, resolved' = resolved \cup {i},
         unconfirmed' \in {unconfirmed, [unconfirmed EXCEPT ![m] = NoRequest]},
         UNCHANGED <<reservations, server, acked>>
  PROVE  IInv'
<1>1. \A n \in Model :
        /\ unconfirmed'[n] \in {unconfirmed[n], NoRequest}
        /\ unconfirmed' \in [Model -> Request \cup {NoRequest}]
  BY DEF IInv, TypeOK
<1>2. TypeOK' /\ Calls' /\ Operations' /\ Quiet
  <2>1. /\ reservations' \subseteq Model /\ ambiguities' \subseteq Model
        /\ resolved' \subseteq Request
        /\ unconfirmed' \in [Model -> Request \cup {NoRequest}]
        /\ UNCHANGED <<server, acked>>
    BY DEF IInv, TypeOK
  <2> QED
    BY <1>1, <2>1, EndingCalls
<1>3. Creations' /\ Allowance'
  BY <1>2, CreationsStay
<1>4. \A j \in Request : Uncertain(j)' => Uncertain(j) /\ request[j].model # m
  BY DEF Uncertain, server
<1>5. request' = request
  BY DEF server
<1>6. \A d \in Caller :
        pc'[d] \in {"refreshRead", "refreshPost", "refreshStatus"}
          => /\ pc'[d] = pc[d] /\ call'[d] = call[d]
             /\ call[d].model \in Model
  BY <1>2 DEF Quiet, Locked, IInv, Calls
<1>7. Refreshes'
  BY <1>1, <1>4, <1>5, <1>6 DEF IInv, Refreshes
<1> QED
  BY <1>2, <1>3, <1>7 DEF IInv

LEMMA RefreshEndsKeep ==
  ASSUME IInv, NEW c \in Caller, RefreshRejected(c) \/ RefreshQueued(c)
  PROVE  IInv'
<1> DEFINE m == call[c].model
           i == call[c].op
<1>1. pc[c] \in {"refreshPost", "refreshStatus"}
  BY DEF RefreshRejected, RefreshQueued
<1>2. /\ m \in Model /\ i \in Request /\ request[i].state # "unused"
      /\ \A j \in Request : Uncertain(j) /\ request[j].model = m => j = i
  BY <1>1 DEF IInv, Calls, SentBy, Refreshes
<1>3. {} \in SUBSET Requested /\ {i} \in SUBSET Requested
  BY <1>2 DEF Requested
<1>4. /\ End(c, {}) \/ End(c, {i})
      /\ ambiguities' = ambiguities \ {m} /\ resolved' = resolved \cup {i}
      /\ unconfirmed' \in {unconfirmed, [unconfirmed EXCEPT ![m] = NoRequest]}
      /\ UNCHANGED <<reservations, server, acked>>
  BY DEF RefreshRejected, RefreshQueued, Reconcile
<1> HIDE DEF m, i
<1>5. pc[c] \notin {"idle", "ended"}
  BY <1>1
<1> QED
  BY <1>2, <1>3, <1>4, <1>5, ReconcileKeeps

\* The status of an operation, which may be the unconfirmed one of its model.
LEMMA StatusAnsweredKeeps ==
  ASSUME IInv, NEW c \in Caller, StatusAnswered(c)
  PROVE  IInv'
<1> DEFINE m == call[c].model
           i == call[c].op
<1>0. /\ pc[c] = "status" /\ End(c, {i}) /\ UNCHANGED <<reservations, server, acked>>
      /\ \/ unconfirmed[m] = i /\ Reconcile(m, i)
         \/ UNCHANGED <<ambiguities, unconfirmed, resolved>>
  BY DEF StatusAnswered
<1>1. i \in Request /\ request[i].state # "unused" /\ m \in Model
  BY <1>0 DEF IInv, Calls, Operations
<1>2. {i} \in SUBSET Requested
  BY <1>1 DEF Requested
<1>3. CASE UNCHANGED <<ambiguities, unconfirmed, resolved>>
  BY <1>0, <1>2, <1>3, EndsPlainly DEF memory
<1>4. CASE unconfirmed[m] = i /\ Reconcile(m, i)
  <2>1. \A j \in Request : Uncertain(j) /\ request[j].model = m => j = i
    BY <1>1, <1>4, MentalModelsAssumption DEF IInv, Refreshes
  <2>2. /\ ambiguities' = ambiguities \ {m} /\ resolved' = resolved \cup {i}
        /\ unconfirmed' \in {unconfirmed, [unconfirmed EXCEPT ![m] = NoRequest]}
        /\ pc[c] \notin {"idle", "ended"}
    BY <1>0, <1>4 DEF Reconcile
  <2> HIDE DEF m, i
  <2> QED
    BY <1>0, <1>1, <1>2, <2>1, <2>2, ReconcileKeeps
<1> QED
  BY <1>0, <1>3, <1>4

(***************************************************************************)
(* The server.                                                             *)
(***************************************************************************)
\* A request in use moves on: whose it is and what for stays.
LEMMA ServerKeeps ==
  ASSUME IInv, NEW i \in Request, Perform(i) \/ Refuse(i) \/ OperationEnds(i)
  PROVE  IInv'
<1>0. UNCHANGED <<pc, call, inventory, late, gone, lock, memory, told, acked, resolved>>
  BY DEF Perform, Refuse, OperationEnds
<1>1. /\ request[i].state # "unused"
      /\ request'[i].kind = request[i].kind /\ request'[i].model = request[i].model
      /\ request'[i].state \in {"pending", "refused", "ended"}
      /\ \A j \in Request \ {i} : request'[j] = request[j]
      /\ request' \in [Request -> Requests]
  BY DEF Perform, Refuse, OperationEnds, IInv, TypeOK, Requests, RequestState
<1>2. /\ bank \subseteq bank' /\ bank' \subseteq bank \cup {request[i].model}
      /\ bank' = bank \/ request[i].model \in bank \/ SentCreation(i)
  BY DEF Perform, Refuse, OperationEnds, SentCreation, IInv, TypeOK, Requests
<1>3. request[i].model \in Model
  BY <1>1 DEF IInv, Operations
<1>4. TypeOK'
  BY <1>0, <1>1, <1>2, <1>3 DEF IInv, TypeOK, memory
<1>5. /\ \A j \in Request : /\ request'[j].kind = request[j].kind
                            /\ request'[j].model = request[j].model
                            /\ request'[j].state = "unused" <=> request[j].state = "unused"
      /\ \A j \in Request : SentCreation(j)' <=> SentCreation(j) /\ j # i
      /\ \A j \in Request : Uncertain(j)' <=> Uncertain(j)
  BY <1>0, <1>1 DEF SentCreation, Uncertain
<1>6. Calls'
  BY <1>0, <1>5 DEF IInv, Calls, SentBy
<1>7. Operations'
  BY <1>0, <1>5 DEF IInv, Operations, TypeOK, memory
<1>8. SentCreation(i) => request[i].model \in Promised
  BY DEF Promised
<1>9. Creations'
  <2>1. \A j \in Request : SentCreation(j)' => request'[j].model \in reservations' \ bank'
    BY <1>0, <1>2, <1>5 DEF IInv, Creations, memory
  <2>2. \A c \in Caller :
          pc'[c] \in {"createPage", "createDecide"} => call'[c].model \notin bank' \cup reservations'
    BY <1>0, <1>2 DEF IInv, Creations, memory
  <2> QED
    BY <1>0, <1>5, <2>1, <2>2 DEF IInv, Creations, memory
<1>10. Allowance'
  <2>1. Promised' \subseteq Promised
    BY <1>5 DEF Promised
  <2>2. bank' \cup Promised' \in SUBSET (bank \cup Promised)
    BY <1>2, <1>8, <2>1
  <2>3. bank \cup Promised \in SUBSET Model
    BY DEF Promised, IInv, TypeOK, Creations
  <2>4. Cardinality(bank' \cup Promised') <= MaxModels
    BY <2>2, <2>3, Fewer DEF IInv, Allowance
  <2> QED
    BY <1>0, <2>2, <2>4 DEF IInv, Allowance, memory
<1>11. Refreshes'
  BY <1>0, <1>5 DEF IInv, Refreshes, memory
<1> QED
  BY <1>4, <1>6, <1>7, <1>9, <1>10, <1>11 DEF IInv

\* A model less in the bank.
LEMMA DeleteKeeps ==
  ASSUME IInv, Delete
  PROVE  IInv'
<1>0. /\ UNCHANGED <<pc, call, inventory, late, gone, lock, memory, request, told, acked, resolved>>
      /\ bank' \subseteq bank
  BY DEF Delete
<1>1. TypeOK'
  BY <1>0 DEF IInv, TypeOK, memory
<1>2. Calls' /\ Operations'
  BY <1>0 DEF IInv, Calls, Operations, SentBy, memory
<1>3. \A j : (SentCreation(j)' <=> SentCreation(j)) /\ (Uncertain(j)' <=> Uncertain(j))
  BY <1>0 DEF SentCreation, Uncertain
<1>4. Creations'
  BY <1>0, <1>3 DEF IInv, Creations, memory
<1>5. Allowance'
  <2>1. Promised' = Promised
    BY <1>0, <1>3 DEF Promised
  <2>2. bank \cup Promised \in SUBSET Model
    BY DEF Promised, IInv, TypeOK, Creations
  <2>3. bank' \cup Promised' \in SUBSET (bank \cup Promised)
    BY <1>0, <2>1
  <2>4. Cardinality(bank' \cup Promised') <= MaxModels
    BY <2>2, <2>3, Fewer DEF IInv, Allowance
  <2> QED
    BY <1>0, <2>3, <2>4 DEF IInv, Allowance, memory
<1>6. Refreshes'
  BY <1>0, <1>3 DEF IInv, Refreshes, memory
<1> QED
  BY <1>1, <1>2, <1>4, <1>5, <1>6 DEF IInv

(***************************************************************************)
(* The invariant holds.                                                    *)
(***************************************************************************)
LEMMA Initially == Init => IInv
<1> SUFFICES ASSUME Init PROVE IInv
  OBVIOUS
<1>1. /\ \A i \in Request : request[i].state = "unused"
      /\ \A c \in Caller : pc[c] = "idle" /\ call[c].action = "status"
      /\ \A m \in Model : unconfirmed[m] = NoRequest
  BY DEF Init, Unused, NoCall
<1>2. NoCall \in Call /\ Unused \in Requests
  BY DEF NoCall, Call, Action, Unused, Requests, RequestState
<1>3. TypeOK
  BY <1>2, MentalModelsAssumption DEF Init, TypeOK, Locked
<1>4. Calls /\ Operations
  BY <1>1 DEF Init, Calls, Operations
<1>5. \A i \in Request : ~SentCreation(i) /\ ~Uncertain(i)
  BY <1>1 DEF SentCreation, Uncertain
<1>6. Creations /\ Refreshes
  BY <1>1, <1>5 DEF Creations, Refreshes
<1>7. Allowance
  <2>1. Promised = {}
    BY <1>5 DEF Promised
  <2>2. bank \cup Promised = Existing
    BY <2>1 DEF Init
  <2> QED
    BY <1>1, <2>2, MentalModelsAssumption DEF Allowance
<1> QED
  BY <1>3, <1>4, <1>6, <1>7 DEF IInv

LEMMA Stutters == ASSUME IInv, UNCHANGED vars PROVE IInv'
<1>1. /\ UNCHANGED <<pc, call, inventory, late, gone, lock, reservations, ambiguities, unconfirmed,
                     request, bank, told, acked, resolved>>
  BY DEF vars
<1>2. TypeOK' /\ Calls' /\ Operations'
  BY <1>1 DEF IInv, TypeOK, Calls, Operations, SentBy
<1>3. Quiet
  BY <1>1 DEF Quiet
<1> QED
  BY <1>1, <1>2, <1>3, CreationsStay, RefreshesStay DEF IInv, server

LEMMA Inductive == IInv /\ [Next]_vars => IInv'
<1> SUFFICES ASSUME IInv, [Next]_vars PROVE IInv'
  OBVIOUS
<1>1. ASSUME NEW c \in Caller, Begin(c) \/ TakeLock(c) PROVE IInv'
  BY <1>1, BeginKeeps, TakeLockKeeps
<1>2. ASSUME NEW c \in Caller, Create(c) PROVE IInv'
  BY <1>2, PlainEndsKeep, CreateExistingKeeps, CreateAbsentKeeps, CreatePageKeeps,
     CreateSubmitKeeps, CreateRejectedKeeps DEF Create
<1>3. ASSUME NEW c \in Caller, Refresh(c) PROVE IInv'
  BY <1>3, PlainEndsKeep, RefreshSubmitKeeps, RefreshAcknowledgedKeeps, RefreshEndsKeep DEF Refresh
<1>4. ASSUME NEW c \in Caller, StatusAnswered(c) PROVE IInv'
  BY <1>4, StatusAnsweredKeeps
<1>5. ASSUME NEW c \in Caller, RequestFails(c) \/ Cancelled(c) PROVE IInv'
  BY <1>5, PlainEndsKeep
<1>6. ASSUME NEW c \in Caller, DeadlinePasses(c) \/ Raise(c) \/ GiveUp(c) PROVE IInv'
  BY <1>6, LateKeeps
<1>7. ASSUME NEW i \in Request, Perform(i) \/ Refuse(i) \/ OperationEnds(i) PROVE IInv'
  BY <1>7, ServerKeeps
<1>8. CASE Delete
  BY <1>8, DeleteKeeps
<1>9. CASE UNCHANGED vars
  BY <1>9, Stutters
<1> QED
  BY <1>1, <1>2, <1>3, <1>4, <1>5, <1>6, <1>7, <1>8, <1>9 DEF Next

\* Every reachable state satisfies the invariant.
THEOREM ModelsInvariant == Spec => []IInv
<1> QED
  BY Initially, Inductive, PTL DEF Spec

\* A set without two members has at most one.
LEMMA AtMostOne ==
  ASSUME NEW S, \A x, y \in S : x = y
  PROVE  Cardinality(S) <= 1
<1>1. CASE S = {}
  BY <1>1, FS_EmptySet
<1>2. CASE S # {}
  <2>1. PICK x \in S : TRUE
    BY <1>2
  <2>2. S = {x}
    BY <2>1
  <2> QED
    BY <2>2, FS_Singleton
<1> QED
  BY <1>1, <1>2

\* The lock is held exactly by a task inside it, whatever is cancelled or given
\* up (mental_models.py, create and refresh under self._lock).
THEOREM ModelsTypeCorrect == Spec => []TypeOK
<1>1. IInv => TypeOK
  BY DEF IInv
<1> QED
  BY <1>1, ModelsInvariant, PTL

\* The bank stays within max_models, however late the creations sent are
\* performed (reservations count toward the cap until they are observed).
THEOREM CapIsKept == Spec => []WithinAllowance
<1>1. IInv => WithinAllowance
  BY DEF IInv, Allowance, WithinAllowance, Promised, SentCreation
<1> QED
  BY <1>1, ModelsInvariant, PTL

\* No creation is sent while an earlier one of the model may yet be performed.
THEOREM CreatedOnce == Spec => []NoSecondCreation
<1>1. IInv => NoSecondCreation
  <2> SUFFICES ASSUME IInv, NEW m \in Model PROVE Cardinality(Sent("create", m)) <= 1
    BY DEF NoSecondCreation
  <2>1. \A i, j \in Sent("create", m) : i = j
    BY DEF IInv, Creations, SentCreation, Sent
  <2> QED
    BY <2>1, AtMostOne
<1> QED
  BY <1>1, ModelsInvariant, PTL

\* No model is refreshed while the outcome of an earlier refresh is unknown.
THEOREM RefreshedOneByOne == Spec => []OneUncertainRefresh
<1>1. IInv => OneUncertainRefresh
  <2> SUFFICES ASSUME IInv, NEW m \in Model
               PROVE  Cardinality({i \in Request :
                        request[i].kind = "refresh" /\ request[i].model = m
                          /\ request[i].state # "unused" /\ i \notin resolved}) <= 1
    BY DEF OneUncertainRefresh
  <2> DEFINE S == {i \in Request : request[i].kind = "refresh" /\ request[i].model = m
                     /\ request[i].state # "unused" /\ i \notin resolved}
  <2>1. \A i, j \in S : i = j
    BY DEF IInv, Refreshes, Uncertain
  <2> HIDE DEF S
  <2>2. Cardinality(S) <= 1
    BY <2>1, AtMostOne
  <2> QED
    BY <2>2 DEF S
<1> QED
  BY <1>1, ModelsInvariant, PTL
=============================================================================
