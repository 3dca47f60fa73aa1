--------------------------- MODULE SessionSwitch ----------------------------
(***************************************************************************)
(* How a provider handle follows the sessions of its conversation          *)
(* (provider.py, on_session_switch).  The host rotates a session into a    *)
(* child and tells the provider by a callback; callbacks arrive late, out  *)
(* of order or again.  A planner hook may move the handle's activation in  *)
(* the mailbox ahead of them (PlanMailbox, BeginBridging), without the     *)
(* provider's session lock.                                                *)
(*                                                                         *)
(* Sessions are numbered as the host creates them.  The switch to one that *)
(* has no parent is not fenced: it arrives before the host starts another  *)
(* such session or initializes the handle again.                           *)
(***************************************************************************)
EXTENDS Integers, Sequences

CONSTANTS
  MaxPending, \* _MAX_PENDING_SESSION_SWITCHES
  MaxSeen,    \* _MAX_SEEN_SESSION_IDS
  LastSession \* bound on the sessions of a conversation, not in the code

ASSUME SwitchAssumption ==
  /\ MaxPending \in Nat \ {0} /\ MaxSeen \in Nat \ {0}
  /\ LastSession \in Nat

Session == 0..LastSession
Nowhere == -1   \* no activation; no parent

VARIABLES
  tip,        \* the host's session
  roots,      \* sessions started without a parent
  delivered,  \* sessions whose callback has arrived
  sessionId,  \* _session_id
  activation, \* the session of the handle's activation, or Nowhere
  pending,    \* _pending_session_switches, oldest first
  seen,       \* _seen_session_ids, oldest first
  draining,   \* a callback holds _session_lock and drains pending switches
  evicted     \* a pending switch was dropped at its limit (ghost)

host == <<tip, roots, delivered>>
switchVars == <<tip, roots, delivered, sessionId, activation, pending, seen, draining, evicted>>

Members(q) == {q[i] : i \in 1..Len(q)}

\* The entries of q that are not gone, in their order.
Without(q, gone) ==
  LET kept[i \in 0..Len(q)] ==
        IF i = 0 THEN <<>>
        ELSE IF q[i] \in gone THEN kept[i - 1] ELSE Append(kept[i - 1], q[i])
  IN  kept[Len(q)]

ParentOf(s) == IF s \in roots THEN Nowhere ELSE s - 1

SwitchInit ==
  /\ tip = 0
  /\ roots = {0}
  /\ delivered = {0}
  /\ sessionId = 0
  /\ activation \in {0, Nowhere}
  /\ pending = <<>>
  /\ seen = <<0>>
  /\ draining = FALSE
  /\ evicted = FALSE

-----------------------------------------------------------------------------
\* The host continues its session in a child, or starts another one.
Rotate ==
  /\ tip < LastSession
  /\ tip' = tip + 1
  /\ UNCHANGED <<roots, delivered, sessionId, activation, pending, seen, draining, evicted>>

Restart ==
  /\ tip < LastSession
  /\ roots \subseteq delivered
  /\ tip' = tip + 1
  /\ roots' = roots \cup {tip + 1}
  /\ UNCHANGED <<delivered, sessionId, activation, pending, seen, draining, evicted>>

\* begin_turn of a hook in the host's session, whose parent is active.
Bridge ==
  /\ tip \notin roots
  /\ activation = tip - 1
  /\ activation' = tip
  /\ UNCHANGED <<host, sessionId, pending, seen, draining, evicted>>

\* initialize in the host's session, with the planner on or off.
Initialize ==
  /\ ~draining
  /\ roots \subseteq delivered
  /\ activation' \in {tip, Nowhere}
  /\ sessionId' = tip
  /\ pending' = <<>>
  /\ seen' = <<tip>>
  /\ UNCHANGED <<host, draining, evicted>>

-----------------------------------------------------------------------------
\* Faulty variant: the mailbox is not asked whether the switch is stale.
AcceptsChild(s, parent) ==
  \/ s = sessionId
  \/ parent = Nowhere \/ sessionId = parent

\* _on_session_switch_locked and rebind: the switch is known, has no parent
\* to expect or starts from the session the handle is in.
Accepts(s, parent) ==
  \/ s = sessionId
  \/ parent = Nowhere
  \/ activation = Nowhere /\ sessionId = parent
  \/ activation # Nowhere /\ activation \in {s, parent}

\* _on_session_switch_locked when accepted; the session is remembered.
Follow(s) ==
  /\ sessionId' = s
  /\ activation' = IF s = sessionId \/ activation = Nowhere THEN activation ELSE s
  /\ seen' = LET q == Append(Without(seen, {s}), s)
             IN IF Len(q) > MaxSeen THEN Tail(q) ELSE q

\* Faulty variant: a refused switch is forgotten.
RetainNone(s, parent) ==
  /\ parent # Nowhere /\ parent \notin Members(seen)
  /\ UNCHANGED <<pending, evicted>>

\* A refused switch of an unknown parent waits for it; the oldest one gives
\* way at the limit.  A session has one child at most: an entry is never
\* replaced by another.
Retain(s, parent) ==
  LET q == IF [parent |-> parent, new |-> s] \in Members(pending)
             THEN pending ELSE Append(pending, [parent |-> parent, new |-> s]) IN
  /\ parent # Nowhere /\ parent \notin Members(seen)
  /\ pending' = IF Len(q) > MaxPending THEN Tail(q) ELSE q
  /\ evicted' = (evicted \/ Len(q) > MaxPending)

\* on_session_switch for session s; the host may repeat it for a child.
Deliver(s) ==
  /\ ~draining
  /\ s \in 1..tip
  /\ s \notin delivered \/ s \notin roots
  /\ delivered' = delivered \cup {s}
  /\ \/ /\ Accepts(s, ParentOf(s))
        /\ Follow(s)
        /\ draining' = TRUE
        /\ UNCHANGED <<pending, evicted>>
     \/ /\ ~Accepts(s, ParentOf(s))
        /\ Retain(s, ParentOf(s))
        /\ UNCHANGED <<sessionId, activation, seen, draining>>
     \/ /\ ~Accepts(s, ParentOf(s))
        /\ ParentOf(s) = Nowhere \/ ParentOf(s) \in Members(seen)
        /\ UNCHANGED <<sessionId, activation, pending, seen, draining, evicted>>
  /\ UNCHANGED <<tip, roots>>

\* Switches of parents already passed are dropped.
Stale == {e \in Members(pending) : e.parent \in Members(seen) /\ e.parent # sessionId}

\* _drain_session_switches_locked: the switch waiting for this session.
Drain(e) ==
  /\ draining
  /\ e \in Members(pending) /\ e.parent = sessionId
  /\ Accepts(e.new, sessionId)
  /\ Follow(e.new)
  /\ pending' = Without(pending, {e})
  /\ UNCHANGED <<host, draining, evicted>>

\* No switch waits for this session, or the one that does is refused: it is
\* forgotten, stale ones are dropped and the lock is released.
DrainEnds ==
  LET waiting == {e \in Members(pending) : e.parent = sessionId} IN
  /\ draining
  /\ \A e \in waiting : ~Accepts(e.new, sessionId)
  /\ pending' = Without(pending, waiting \cup Stale)
  /\ draining' = FALSE
  /\ UNCHANGED <<host, sessionId, activation, seen, evicted>>

SwitchNext ==
  \/ Rotate \/ Restart \/ Bridge \/ Initialize
  \/ \E s \in Session : Deliver(s)
  \/ \E e \in Members(pending) : Drain(e)
  \/ DrainEnds

SwitchSpec == SwitchInit /\ [][SwitchNext]_switchVars

-----------------------------------------------------------------------------
(***************************************************************************)
(* Properties.                                                             *)
(***************************************************************************)

\* Every variable holds a value of its kind, and both tables keep their
\* limits.
SwitchTypeOK ==
  /\ tip \in Session /\ roots \subseteq Session /\ delivered \subseteq Session
  /\ sessionId \in Session /\ activation \in Session \cup {Nowhere}
  /\ \A e \in Members(pending) : e.new \in Session /\ e.parent \in Session
  /\ Len(pending) <= MaxPending
  /\ Members(seen) \subseteq Session /\ Len(seen) <= MaxSeen
  /\ draining \in BOOLEAN /\ evicted \in BOOLEAN

\* Neither a stale callback nor one that waited ever moves the provider or
\* its activation back to an earlier session of the conversation.
NeverBackward ==
  [][/\ sessionId' >= sessionId
     /\ activation' >= activation \/ activation' = Nowhere]_switchVars

\* Once all callbacks have arrived, in whatever order and with whatever
\* bridges in between, the provider is in the host's session and so is its
\* activation, unless the limit on waiting switches was exceeded.
Converges ==
  delivered = 0..tip /\ ~draining /\ ~evicted =>
    sessionId = tip /\ activation \in {tip, Nowhere}
=============================================================================
