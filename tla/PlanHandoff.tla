---------------------------- MODULE PlanHandoff -----------------------------
(***************************************************************************)
(* What the plan mailbox promises, without turn ids, redirects, tombstones *)
(* or clocks: a session has at most one turn in planning, that of the last *)
(* hook which began one; only this hook's decision is ever handed to a     *)
(* prefetch of the session, for the query it was made for, and only once.  *)
(***************************************************************************)
CONSTANTS Session, Worker, Query, NoWorker

VARIABLES
  turns,   \* turns in planning: a session and the hook that owns it
  offers,  \* their reservations and decisions
  begun,   \* the hooks that have asked for a turn
  handed   \* the hooks whose decision was handed out

vars == <<turns, offers, begun, handed>>

Init ==
  /\ turns = {}
  /\ offers = {}
  /\ begun = {}
  /\ handed = {}

Without(entries, sessions) == {x \in entries : x.session \notin sessions}

\* Hook w begins a turn of s, which ends whatever s had in planning; a
\* session that s replaces ends its turn too.
Begin(w, s, replaced) ==
  /\ w \notin begun
  /\ begun' = begun \cup {w}
  /\ turns' = Without(turns, {s} \cup replaced) \cup {[session |-> s, owner |-> w]}
  /\ offers' = Without(offers, {s} \cup replaced)
  /\ UNCHANGED handed

\* Hook w is refused a turn.
Refuse(w) ==
  /\ w \notin begun
  /\ begun' = begun \cup {w}
  /\ UNCHANGED <<turns, offers, handed>>

\* The owner of a turn offers to decide about query q.
Reserve(w, s, q) ==
  /\ [session |-> s, owner |-> w] \in turns
  /\ Without(offers, {s}) = offers
  /\ offers' = offers \cup {[session |-> s, owner |-> w, query |-> q, decision |-> NoWorker]}
  /\ UNCHANGED <<turns, begun, handed>>

\* It decides.
Decide(o) ==
  /\ offers' = (offers \ {o}) \cup {[o EXCEPT !.decision = o.owner]}
  /\ UNCHANGED <<turns, begun, handed>>

\* Offers lapse, but their turns stay.
Lapse(gone) ==
  /\ offers' = offers \ gone
  /\ UNCHANGED <<turns, begun, handed>>

\* A prefetch with query q ends the turn of s and may take its decision.
Take(s, q) ==
  /\ \/ UNCHANGED handed
     \/ \E o \in offers :
          /\ o.session = s /\ o.query = q
          /\ [session |-> s, owner |-> o.decision] \in turns
          /\ handed' = handed \cup {o.decision}
  /\ turns' = Without(turns, {s})
  /\ offers' = Without(offers, {s})
  /\ UNCHANGED begun

\* Sessions end or start over.
Clear(sessions) ==
  /\ turns' = Without(turns, sessions)
  /\ offers' = Without(offers, sessions)
  /\ UNCHANGED <<begun, handed>>

Next ==
  \/ \E w \in Worker :
       \/ Refuse(w)
       \/ \E s \in Session, replaced \in SUBSET Session : Begin(w, s, replaced)
       \/ \E s \in Session, q \in Query : Reserve(w, s, q)
  \/ \E o \in offers : Decide(o)
  \/ \E gone \in SUBSET offers : Lapse(gone)
  \/ \E s \in Session, q \in Query : Take(s, q)
  \/ \E sessions \in SUBSET Session : Clear(sessions)

Spec == Init /\ [][Next]_vars
=============================================================================
