------------------------------ MODULE Delivery ------------------------------
(***************************************************************************)
(* What the retention queue promises, without senders, locks, attempts or  *)
(* clocks: a turn is accepted for one target as a whole, its documents are *)
(* kept until that target holds them, and nothing else is ever written.    *)
(* Delivery is at least once: a target may receive a document that has     *)
(* left the queue again, which replaces it by itself.                      *)
(***************************************************************************)
CONSTANTS Doc, Target, Turn, SegmentsOf,
          Nowhere,          \* not queued
          InitiallyQueued   \* where each document is queued at first

VARIABLES
  queue,    \* the target each document is queued for, or Nowhere
  owed,     \* <<document, target>> pairs ever accepted
  held      \* <<document, target>> pairs the targets hold

vars == <<queue, owed, held>>

Init ==
  /\ queue = InitiallyQueued
  /\ owed = {m \in Doc \X Target : InitiallyQueued[m[1]] = m[2]}
  /\ held = {}

\* Accept a turn for g: every segment is queued for g afterwards, and no
\* segment was queued for another target before.
Accept(t, g) ==
  /\ \A d \in SegmentsOf[t] : queue[d] \in {Nowhere, g}
  /\ queue' = [d \in Doc |-> IF d \in SegmentsOf[t] THEN g ELSE queue[d]]
  /\ owed' = owed \cup {<<d, g>> : d \in SegmentsOf[t]}
  /\ UNCHANGED held

\* A target receives a document it is owed.
Receive(d, g) ==
  /\ <<d, g>> \in owed
  /\ held' = held \cup {<<d, g>>}
  /\ UNCHANGED <<queue, owed>>

\* A document leaves the queue once its target holds it.
Retire(d) ==
  /\ <<d, queue[d]>> \in held
  /\ queue' = [queue EXCEPT ![d] = Nowhere]
  /\ UNCHANGED <<owed, held>>

Next ==
  \/ \E t \in Turn, g \in Target : Accept(t, g)
  \/ \E d \in Doc, g \in Target : Receive(d, g)
  \/ \E d \in Doc : Retire(d)

Spec == Init /\ [][Next]_vars
=============================================================================
