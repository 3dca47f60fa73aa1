---------------------------- MODULE MailboxProofs ----------------------------
(***************************************************************************)
(* Proofs about PlanMailbox, for every set of handles, hooks, sessions and *)
(* turns and every age and timeout.                                        *)
(***************************************************************************)
EXTENDS PlanMailbox, TLAPS

(***************************************************************************)
(* The inductive invariant.                                                *)
(***************************************************************************)
\* A turn is planned in its own session only.
TurnsAreTheirs == \A c \in current : c.session = SessionOf[c.turn]

\* A decision is that of the hook which reserved it, and this hook is done.
DecisionsAreFinal ==
  \A p \in plans : p.decision # NoWorker => p.decision = p.owner /\ hook[p.owner].stage = "done"

\* A hook owns one turn, and only after it began it: none whose decision has
\* been handed out.
OwnersHaveBegun ==
  \A c \in current :
    /\ hook[c.owner] # At("idle")
    /\ \A h \in handed : h.decision # c.owner
    /\ \A d \in current : c.owner = d.owner => c = d

\* A decision that was handed out was made by a hook that has begun.
HandedHaveBegun == \A h \in handed : hook[h.decision] # At("idle")

IInv ==
  /\ TypeOK
  /\ PlanIsCurrent /\ RedirectIsCurrent /\ ClosedIsNotPlanned
  /\ TurnsAreTheirs /\ DecisionsAreFinal /\ OwnersHaveBegun /\ HandedHaveBegun /\ HandedOnce

(***************************************************************************)
(* Facts about the helpers.                                                *)
(***************************************************************************)
\* Purging and clearing only drop entries (_purge_expired, _clear_session).
LEMMA Drops ==
  ASSUME NEW entries, NEW sessions
  PROVE  /\ Live(entries) \subseteq entries
         /\ Without(entries, sessions) \subseteq entries
         /\ RedirectsOf(sessions, entries) \subseteq redirects
  BY DEF Live, Without, RedirectsOf

\* An empty home loses its redirects, any other keeps them (_drop_empty_home).
LEMMA KeepsOrDrops ==
  ASSUME NEW entries, KeepRedirects(entries)
  PROVE  redirects' \subseteq entries
  BY DEF KeepRedirects

(***************************************************************************)
(* The methods that only drop entries: whatever they drop, the rest still  *)
(* fits together when plans keep their turns and turns their handles.      *)
(***************************************************************************)
LEMMA Dropping ==
  ASSUME IInv,
         active' \in [Provider -> Session \cup {NoSession}],
         plans' \subseteq plans, closed' \subseteq closed,
         current' \subseteq current, redirects' \subseteq redirects,
         \A p \in plans' :
           [session |-> p.session, turn |-> p.turn, owner |-> p.owner] \in current',
         \A c \in current' : Active(c.session)',
         hook' \in [Worker -> Hook],
         \A w \in Worker : hook[w] # At("idle") => hook'[w] # At("idle"),
         \A w \in Worker : hook[w].stage = "done" => hook'[w].stage = "done",
         handed' = handed, now' \in {now, now + 1}
  PROVE  IInv'
<1>1. TypeOK'
  BY DEF IInv, TypeOK
<1>2. PlanIsCurrent' /\ RedirectIsCurrent' /\ TurnsAreTheirs' /\ HandedOnce'
  BY DEF IInv, PlanIsCurrent, RedirectIsCurrent, TurnsAreTheirs, HandedOnce
<1>3. ClosedIsNotPlanned'
  <2>1. SUFFICES ASSUME NEW c \in closed', c.expires > now', NEW d \in current',
                        c.session = d.session
                 PROVE  c.turn # d.turn
    BY DEF ClosedIsNotPlanned, Live
  <2>2. c \in closed /\ c.expires \in Nat /\ now \in Nat /\ d \in current
    BY <2>1 DEF IInv, TypeOK, ClosedTurn
  <2>3. c.expires > now
    BY <2>1, <2>2
  <2> QED
    BY <2>1, <2>2, <2>3 DEF IInv, ClosedIsNotPlanned, Live
<1>4. DecisionsAreFinal'
  BY DEF IInv, TypeOK, DecisionsAreFinal, Plan
<1>5. OwnersHaveBegun' /\ HandedHaveBegun'
  BY DEF IInv, TypeOK, OwnersHaveBegun, HandedHaveBegun, CurrentTurn
<1> QED
  BY <1>1, <1>2, <1>3, <1>4, <1>5 DEF IInv

\* Initialization, and what it activates.
LEMMA ActivateKeeps ==
  ASSUME IInv, NEW p \in Provider, NEW s \in Session, Activate(p, s)
  PROVE  IInv'
<1>1. active' \in [Provider -> Session \cup {NoSession}]
  BY DEF IInv, TypeOK, Activate
<1>2. \A c \in current' : Active(c.session)'
  BY DEF IInv, TypeOK, PlanIsCurrent, Activate, Active
<1> QED
  BY <1>1, <1>2, Dropping, Drops DEF Activate, IInv, TypeOK, PlanIsCurrent

\* The handle that leaves: what no other handle holds goes with it.
LEMMA LeavingKeeps ==
  ASSUME IInv, NEW p \in Provider, active[p] # NoSession,
         NEW x \in Session \cup {NoSession},
         active' = [active EXCEPT ![p] = x],
         NEW c \in current, c.session \notin Orphan(p)
  PROVE  Active(c.session)'
<1>1. PICK q \in Provider : active[q] = c.session /\ c.session # NoSession
  BY DEF IInv, PlanIsCurrent, Active
<1>2. CASE q # p
  BY <1>1, <1>2 DEF IInv, TypeOK, Active
<1>3. CASE q = p
  <2>1. PICK o \in Provider \ {p} : active[o] = active[p]
    BY <1>1, <1>3 DEF Orphan
  <2> QED
    BY <1>1, <1>3, <2>1 DEF IInv, TypeOK, Active
<1> QED
  BY <1>2, <1>3

LEMMA DeactivateKeeps ==
  ASSUME IInv, NEW p \in Provider, Deactivate(p)
  PROVE  IInv'
<1>1. active' \in [Provider -> Session \cup {NoSession}]
  BY DEF IInv, TypeOK, Deactivate
<1>2. \A c \in current' : Active(c.session)'
  BY LeavingKeeps DEF Deactivate, Without
<1>3. \A y \in plans' : [session |-> y.session, turn |-> y.turn, owner |-> y.owner] \in current'
  BY DEF IInv, PlanIsCurrent, Deactivate, Without, Live
<1>4. /\ plans' \subseteq plans /\ closed' \subseteq closed
      /\ current' \subseteq current /\ redirects' \subseteq redirects
  BY KeepsOrDrops DEF Deactivate, Without, Live
<1> QED
  BY <1>1, <1>2, <1>3, <1>4, Dropping DEF Deactivate, IInv, TypeOK

LEMMA PurgeOnlyKeeps ==
  ASSUME IInv, PurgeOnly, hook' \in [Worker -> Hook],
         \A w \in Worker : hook[w] # At("idle") => hook'[w] # At("idle"),
         \A w \in Worker : hook[w].stage = "done" => hook'[w].stage = "done",
         handed' = handed, now' = now
  PROVE  IInv'
<1>1. \A c \in current' : Active(c.session)'
  BY DEF IInv, PlanIsCurrent, PurgeOnly, Active
<1> QED
  BY <1>1, Dropping, Drops DEF PurgeOnly, IInv, TypeOK, PlanIsCurrent

LEMMA RebindKeeps ==
  ASSUME IInv, NEW p \in Provider, NEW s \in Session, NEW parent, Rebind(p, s, parent)
  PROVE  IInv'
<1>1. CASE PurgeOnly
  BY <1>1, PurgeOnlyKeeps DEF Rebind, IInv, TypeOK
<1>2. CASE ~PurgeOnly
  <2>0. /\ active[p] # NoSession
        /\ active' = [active EXCEPT ![p] = s]
        /\ plans' = Without(Live(plans), Orphan(p) \cup {s})
        /\ closed' = Without(Live(closed), Orphan(p) \cup {s})
        /\ current' = Without(current, Orphan(p) \cup {s})
        /\ UNCHANGED <<redirects, hook, handed, now>>
    BY <1>2 DEF Rebind
  <2>1. active' \in [Provider -> Session \cup {NoSession}]
    BY <2>0 DEF IInv, TypeOK
  <2>2. \A c \in current' : Active(c.session)'
    BY <2>0, LeavingKeeps DEF Without
  <2>3. \A y \in plans' : [session |-> y.session, turn |-> y.turn, owner |-> y.owner] \in current'
    BY <2>0 DEF IInv, PlanIsCurrent, Without, Live
  <2>4. /\ plans' \subseteq plans /\ closed' \subseteq closed
        /\ current' \subseteq current /\ redirects' \subseteq redirects
    BY <2>0 DEF Without, Live
  <2> QED
    BY <2>0, <2>1, <2>2, <2>3, <2>4, Dropping DEF IInv, TypeOK
<1> QED
  BY <1>1, <1>2

\* A reset or rewind.
LEMMA ClearKeeps ==
  ASSUME IInv, NEW s \in Session, ClearSessionPlans(s)
  PROVE  IInv'
<1>1. \A c \in current' : Active(c.session)'
  BY DEF IInv, PlanIsCurrent, ClearSessionPlans, Active, Without
<1>2. \A y \in plans' : [session |-> y.session, turn |-> y.turn, owner |-> y.owner] \in current'
  BY DEF IInv, PlanIsCurrent, ClearSessionPlans, Without
<1>3. /\ plans' \subseteq plans /\ closed' \subseteq closed
      /\ current' \subseteq current /\ redirects' \subseteq redirects
  BY KeepsOrDrops DEF ClearSessionPlans, Without
<1> QED
  BY <1>1, <1>2, <1>3, Dropping DEF ClearSessionPlans, IInv, TypeOK

\* A hook that is refused a turn, or a reservation, is done.
LEMMA RefusedKeeps ==
  ASSUME IInv, NEW w \in Worker, NEW s, NEW t, NEW parent,
         \/ BeginClosedTurn(w, s, t) \/ BeginInactive(w, s, t, parent)
         \/ ReserveRefused(w) \/ NotPlanned(w)
  PROVE  IInv'
<1>1. /\ hook' = [hook EXCEPT ![w] = At("done")]
      /\ handed' = handed /\ now' = now
      /\ active' = active /\ current' = current
  BY DEF BeginClosedTurn, BeginInactive, ReserveRefused, NotPlanned, PurgeOnly, mailbox
<1>2. plans' \subseteq plans /\ closed' \subseteq closed /\ redirects' \subseteq redirects
  BY DEF BeginClosedTurn, BeginInactive, ReserveRefused, NotPlanned, PurgeOnly, mailbox,
         Live, RedirectsOf
<1>3. hook' \in [Worker -> Hook]
  BY <1>1 DEF IInv, TypeOK, Hook, At
<1>4. /\ \A v \in Worker : hook[v] # At("idle") => hook'[v] # At("idle")
      /\ \A v \in Worker : hook[v].stage = "done" => hook'[v].stage = "done"
  BY <1>1 DEF IInv, TypeOK, At
<1>5. \A c \in current' : Active(c.session)'
  BY <1>1 DEF IInv, PlanIsCurrent, Active
<1> QED
  BY <1>1, <1>2, <1>3, <1>4, <1>5, Dropping DEF IInv, TypeOK, PlanIsCurrent

\* A prefetch that finds no active session, and the clock.
LEMMA ConsumeInactiveKeeps ==
  ASSUME IInv, NEW s \in Session, ConsumeInactive(s)
  PROVE  IInv'
<1>1. \A c \in current' : Active(c.session)'
  BY DEF IInv, PlanIsCurrent, ConsumeInactive, Active
<1> QED
  BY <1>1, Dropping, Drops DEF ConsumeInactive, IInv, TypeOK, PlanIsCurrent

LEMMA TickKeeps ==
  ASSUME IInv, Tick
  PROVE  IInv'
<1>1. \A c \in current' : Active(c.session)'
  BY DEF IInv, PlanIsCurrent, Tick, mailbox, Active
<1> QED
  BY <1>1, Dropping DEF Tick, mailbox, IInv, TypeOK, PlanIsCurrent

(***************************************************************************)
(* begin_turn: a session's new turn replaces whatever it had in planning.  *)
(***************************************************************************)
LEMMA Beginning ==
  ASSUME IInv, NEW w \in Worker, NEW t \in Turn, NEW s \in Session, s = SessionOf[t],
         NEW replaced \in SUBSET Session,
         Begun(w, s, t), ~IsClosed(s, t),
         active' \in [Provider -> Session \cup {NoSession}],
         plans' = Without(Live(plans), replaced \cup {s}),
         closed' \subseteq Live(closed),
         current' = Without(current, replaced \cup {s})
                      \cup {[session |-> s, turn |-> t, owner |-> w]},
         redirects' \subseteq Redirect,
         \A r, x \in redirects' : r.source = x.source => r = x,
         \A r \in redirects' :
           \/ r.target = s /\ r.turn = t
           \/ r.target # s /\ r \in redirects,
         \A c \in current' : Active(c.session)'
  PROVE  IInv'
<1> DEFINE c0 == [session |-> s, turn |-> t, owner |-> w]
<1>0. /\ hook[w] = At("idle") /\ handed' = handed /\ now' = now
      /\ hook' = [hook EXCEPT ![w] = [stage |-> "begun", session |-> s, turn |-> t]]
      /\ c0 \in CurrentTurn /\ c0.session = s /\ c0.turn = t /\ c0.owner = w
  BY DEF Begun, CurrentTurn
<1>1. \A c \in current' : c = c0 \/ (c \in current /\ c.session # s)
  BY DEF Without
<1>2. plans' \subseteq plans /\ closed' \subseteq closed
  BY DEF Without, Live
<1>3. PlanIsCurrent'
  BY DEF IInv, PlanIsCurrent, Without, Live
<1> HIDE DEF c0
<1>4. TypeOK'
  <2>1. hook' \in [Worker -> Hook]
    BY <1>0 DEF IInv, TypeOK, Hook
  <2>2. current' \subseteq CurrentTurn /\ \A c, d \in current' : c.session = d.session => c = d
    <3>1. current \subseteq CurrentTurn /\ \A c, d \in current : c.session = d.session => c = d
      BY DEF IInv, TypeOK
    <3> QED
      BY <1>0, <1>1, <3>1
  <2> QED
    BY <1>0, <1>2, <2>1, <2>2 DEF IInv, TypeOK
<1>5. RedirectIsCurrent'
  BY <1>0, <1>1 DEF IInv, RedirectIsCurrent
<1>6. ClosedIsNotPlanned'
  <2>1. SUFFICES ASSUME NEW c \in closed', c.expires > now', NEW d \in current',
                        c.session = d.session
                 PROVE  c.turn # d.turn
    BY DEF ClosedIsNotPlanned, Live
  <2>2. c \in Live(closed)
    BY <2>1
  <2>3. CASE d = c0
    BY <1>0, <2>1, <2>2, <2>3 DEF IsClosed
  <2>4. CASE d \in current
    BY <2>1, <2>2, <2>4 DEF IInv, ClosedIsNotPlanned
  <2> QED
    BY <1>1, <2>3, <2>4
<1>7. TurnsAreTheirs' /\ HandedOnce'
  BY <1>0, <1>1 DEF IInv, TurnsAreTheirs, HandedOnce
<1>8. \A v \in Worker : v # w => hook'[v] = hook[v]
  BY <1>0 DEF IInv, TypeOK
<1>9. hook'[w] # At("idle") /\ hook'[w].stage # "done" /\ hook[w].stage # "done"
  BY <1>0 DEF IInv, TypeOK, At
<1>10. DecisionsAreFinal'
  BY <1>2, <1>8, <1>9 DEF IInv, TypeOK, DecisionsAreFinal, Plan
<1>11. OwnersHaveBegun' /\ HandedHaveBegun'
  <2>1. \A v \in Worker : hook[v] # At("idle") => hook'[v] # At("idle")
    BY <1>8, <1>9
  <2>2. HandedHaveBegun'
    BY <1>0, <2>1 DEF IInv, TypeOK, HandedHaveBegun
  <2>3. \A h \in handed : h.decision # w
    BY <1>0 DEF IInv, TypeOK, HandedHaveBegun
  <2>4. \A c \in current : c.owner \in Worker /\ c.owner # w
    BY <1>0 DEF IInv, TypeOK, OwnersHaveBegun, CurrentTurn
  <2>5. \A c, d \in current' : c.owner = d.owner => c = d
    <3>1. SUFFICES ASSUME NEW c \in current', NEW d \in current', c.owner = d.owner
                   PROVE  c = d
      OBVIOUS
    <3>2. CASE c = c0 \/ d = c0
      BY <1>0, <1>1, <2>4, <3>1, <3>2
    <3>3. CASE c \in current /\ d \in current
      BY <3>1, <3>3 DEF IInv, OwnersHaveBegun
    <3> QED
      BY <1>1, <3>2, <3>3
  <2>6. \A c \in current' : hook'[c.owner] # At("idle")
    BY <1>0, <1>1, <1>9, <2>1, <2>4 DEF IInv, OwnersHaveBegun
  <2>7. \A c \in current', h \in handed' : h.decision # c.owner
    BY <1>0, <1>1, <2>3 DEF IInv, OwnersHaveBegun
  <2> QED
    BY <2>2, <2>5, <2>6, <2>7 DEF OwnersHaveBegun
<1> QED
  BY <1>3, <1>4, <1>5, <1>6, <1>7, <1>10, <1>11 DEF IInv

LEMMA BeginTurnKeeps ==
  ASSUME IInv, NEW w \in Worker, NEW t \in Turn, NEW parent,
         BeginTurn(w, SessionOf[t], t, parent)
  PROVE  IInv'
<1> DEFINE s == SessionOf[t]
<1>1. s \in Session
  BY MailboxAssumption
<1>2. \A c \in current' : Active(c.session)'
  BY <1>1 DEF IInv, PlanIsCurrent, BeginTurn, Active, Without
<1>3. /\ plans' = Without(Live(plans), {} \cup {s})
      /\ current' = Without(current, {} \cup {s})
                      \cup {[session |-> s, turn |-> t, owner |-> w]}
      /\ closed' \subseteq Live(closed)
      /\ Begun(w, s, t) /\ ~IsClosed(s, t)
  BY DEF BeginTurn
<1>4. active' \in [Provider -> Session \cup {NoSession}]
  BY DEF IInv, TypeOK, BeginTurn
<1>5. redirects' = {r \in redirects : r.target # s \/ r.turn = t}
  BY DEF BeginTurn, RedirectsOf
<1>6. /\ redirects' \subseteq Redirect
      /\ \A r, x \in redirects' : r.source = x.source => r = x
      /\ \A r \in redirects' : (r.target = s /\ r.turn = t) \/ (r.target # s /\ r \in redirects)
  BY <1>5 DEF IInv, TypeOK
<1> HIDE DEF s
<1>7. s = SessionOf[t]
  BY DEF s
<1>8. {} \in SUBSET Session
  OBVIOUS
<1> QED
  BY <1>1, <1>2, <1>3, <1>4, <1>6, <1>7, <1>8, Beginning

\* A parent that is active is a session, and the one that s continues.
LEMMA BridgingKeeps ==
  ASSUME IInv, NEW w \in Worker, NEW t \in Turn,
         NEW parent \in {NoSession, Parent[SessionOf[t]]},
         BeginBridging(w, SessionOf[t], t, parent)
  PROVE  IInv'
<1> DEFINE s == SessionOf[t]
<1>1. s \in Session /\ parent \in Session
  BY MailboxAssumption DEF BeginBridging, Active
<1>2. active' \in [Provider -> Session \cup {NoSession}]
  BY <1>1 DEF IInv, TypeOK, BeginBridging
<1>3. Active(s)'
  BY <1>1, MailboxAssumption DEF BeginBridging, Active
<1>4. \A c \in current' : Active(c.session)'
  BY <1>1, <1>3 DEF IInv, PlanIsCurrent, BeginBridging, Active, Without
<1>5. /\ plans' = Without(Live(plans), {parent} \cup {s})
      /\ current' = Without(current, {parent} \cup {s})
                      \cup {[session |-> s, turn |-> t, owner |-> w]}
      /\ closed' \subseteq Live(closed)
      /\ Begun(w, s, t) /\ ~IsClosed(s, t)
  <2>1. {parent, s} = {parent} \cup {s}
    OBVIOUS
  <2> QED
    BY <2>1 DEF BeginBridging, Without
<1>6. redirects' = {r \in redirects : (r.target # s \/ r.turn = t)
                                       /\ {r.source, r.target} \cap {parent, s} = {}}
                      \cup {[source |-> parent, target |-> s, turn |-> t]}
  BY DEF BeginBridging, RedirectsOf
<1>7. \A r \in redirects' :
        \/ r = [source |-> parent, target |-> s, turn |-> t]
        \/ r \in redirects /\ r.source # parent /\ r.target # s
  BY <1>6
<1>8. /\ redirects' \subseteq Redirect
      /\ \A r, x \in redirects' : r.source = x.source => r = x
      /\ \A r \in redirects' : (r.target = s /\ r.turn = t) \/ (r.target # s /\ r \in redirects)
  BY <1>1, <1>7 DEF IInv, TypeOK, Redirect
<1> HIDE DEF s
<1>9. s = SessionOf[t]
  BY DEF s
<1>10. {parent} \in SUBSET Session
  BY <1>1
<1> QED
  BY <1>1, <1>2, <1>4, <1>5, <1>8, <1>9, <1>10, Beginning

(***************************************************************************)
(* reserve, finalize, cancel: a hook and the plan of its turn.             *)
(***************************************************************************)
LEMMA ReserveKeeps ==
  ASSUME IInv, NEW w \in Worker, NEW q \in Query, NEW evaluated \in BOOLEAN,
         Reserve(w, q, evaluated)
  PROVE  IInv'
<1> DEFINE p0 == [turn |-> hook[w].turn, session |-> hook[w].session, query |-> q, owner |-> w,
                  evaluated |-> evaluated, decision |-> NoWorker,
                  before |-> now + PlannerTimeout, expires |-> now + MaxAge]
<1>0. /\ active' = active /\ current' = current /\ redirects' = redirects
      /\ handed' = handed /\ now' = now /\ closed' \subseteq closed
      /\ hook' = [hook EXCEPT ![w].stage = "deciding"] /\ hook[w].stage = "begun"
  BY DEF Reserve, Live
<1>1. [session |-> hook[w].session, turn |-> hook[w].turn, owner |-> w] \in current
  BY DEF Reserve, IsCurrent
<1>2. /\ p0 \in Plan /\ p0.turn = hook[w].turn /\ p0.session = hook[w].session
      /\ p0.owner = w /\ p0.decision = NoWorker
  <2>1. hook[w].session \in Session /\ hook[w].turn \in Turn
    BY <1>1 DEF IInv, TypeOK, CurrentTurn
  <2>2. now + PlannerTimeout \in Nat /\ now + MaxAge \in Nat
    BY MailboxAssumption DEF IInv, TypeOK
  <2> QED
    BY <2>1, <2>2 DEF Plan
<1> HIDE DEF p0
<1>3. /\ \A p \in plans' : p = p0 \/ (p \in plans /\ p.turn # hook[w].turn)
      /\ p0 \in plans'
  BY DEF Reserve, Live, p0
<1>4. TypeOK'
  <2>1. hook' \in [Worker -> Hook]
    BY <1>0 DEF IInv, TypeOK, Hook
  <2>2. plans \subseteq Plan /\ \A p, r \in plans : p.turn = r.turn => p = r
    BY DEF IInv, TypeOK
  <2>3. plans' \subseteq Plan /\ \A p, r \in plans' : p.turn = r.turn => p = r
    BY <1>2, <1>3, <2>2
  <2> QED
    BY <1>0, <2>1, <2>3 DEF IInv, TypeOK
<1>5. PlanIsCurrent'
  BY <1>0, <1>1, <1>2, <1>3 DEF IInv, PlanIsCurrent, Active
<1>6. RedirectIsCurrent' /\ TurnsAreTheirs' /\ HandedOnce'
  BY <1>0 DEF IInv, RedirectIsCurrent, TurnsAreTheirs, HandedOnce
<1>7. ClosedIsNotPlanned'
  BY <1>0 DEF IInv, ClosedIsNotPlanned, Live
<1>8. /\ \A v \in Worker : v # w => hook'[v] = hook[v]
      /\ hook'[w] # At("idle")
  BY <1>0 DEF IInv, TypeOK, Hook, At
<1>9. DecisionsAreFinal'
  <2>1. \A p \in plans : p.owner \in Worker
    BY DEF IInv, TypeOK, Plan
  <2> QED
    BY <1>0, <1>2, <1>3, <1>8, <2>1 DEF IInv, DecisionsAreFinal
<1>10. OwnersHaveBegun' /\ HandedHaveBegun'
  <2>1. \A v \in Worker : hook[v] # At("idle") => hook'[v] # At("idle")
    BY <1>8
  <2>2. /\ \A c \in current : c.owner \in Worker
        /\ \A h \in handed : h.decision \in Worker
    BY DEF IInv, TypeOK, CurrentTurn
  <2> QED
    BY <1>0, <2>1, <2>2 DEF IInv, OwnersHaveBegun, HandedHaveBegun
<1> QED
  BY <1>4, <1>5, <1>6, <1>7, <1>9, <1>10 DEF IInv

\* A hook that is done changes no more than the decision of its own plan.
LEMMA Deciding ==
  ASSUME IInv, NEW w \in Worker, Done(w),
         closed' \subseteq closed, redirects' \subseteq redirects, now' = now,
         plans' \subseteq Plan,
         \A p, r \in plans' : p.turn = r.turn => p = r,
         \A p \in plans' : \E o \in plans :
           /\ <<p.session, p.turn, p.owner>> = <<o.session, o.turn, o.owner>>
           /\ p.decision \in {o.decision, NoWorker} \/ (p.decision = w /\ o.owner = w)
  PROVE  IInv'
<1>0. /\ active' = active /\ current' = current /\ handed' = handed
      /\ hook' = [hook EXCEPT ![w] = At("done")] /\ hook[w].stage = "deciding"
  BY DEF Done
<1>1. hook' \in [Worker -> Hook]
  BY <1>0 DEF IInv, TypeOK, Hook, At
<1>2. TypeOK'
  BY <1>0, <1>1 DEF IInv, TypeOK
<1>3. /\ \A v \in Worker : v # w => hook'[v] = hook[v]
      /\ hook'[w] # At("idle") /\ hook'[w].stage = "done"
  BY <1>0 DEF IInv, TypeOK, At
<1>4. PlanIsCurrent'
  <2>1. SUFFICES ASSUME NEW p \in plans'
                 PROVE  [session |-> p.session, turn |-> p.turn, owner |-> p.owner] \in current
    BY <1>0 DEF IInv, PlanIsCurrent, Active
  <2>2. PICK o \in plans : <<p.session, p.turn, p.owner>> = <<o.session, o.turn, o.owner>>
    BY <2>1
  <2> QED
    BY <2>2 DEF IInv, PlanIsCurrent
<1>5. RedirectIsCurrent' /\ TurnsAreTheirs' /\ HandedOnce'
  BY <1>0 DEF IInv, RedirectIsCurrent, TurnsAreTheirs, HandedOnce
<1>6. ClosedIsNotPlanned'
  BY <1>0 DEF IInv, ClosedIsNotPlanned, Live
<1>7. DecisionsAreFinal'
  <2>1. SUFFICES ASSUME NEW p \in plans', p.decision # NoWorker
                 PROVE  p.decision = p.owner /\ hook'[p.owner].stage = "done"
    BY DEF DecisionsAreFinal
  <2>2. PICK o \in plans :
          /\ p.owner = o.owner
          /\ p.decision \in {o.decision, NoWorker} \/ (p.decision = w /\ o.owner = w)
    BY <2>1
  <2>3. o.owner \in Worker
    BY DEF IInv, TypeOK, Plan
  <2> QED
    BY <1>3, <2>1, <2>2, <2>3 DEF IInv, DecisionsAreFinal
<1>8. OwnersHaveBegun' /\ HandedHaveBegun'
  <2>1. \A v \in Worker : hook[v] # At("idle") => hook'[v] # At("idle")
    BY <1>3
  <2>2. /\ \A c \in current : c.owner \in Worker
        /\ \A h \in handed : h.decision \in Worker
    BY DEF IInv, TypeOK, CurrentTurn
  <2> QED
    BY <1>0, <2>1, <2>2 DEF IInv, OwnersHaveBegun, HandedHaveBegun
<1> QED
  BY <1>2, <1>4, <1>5, <1>6, <1>7, <1>8 DEF IInv

LEMMA FinalizeKeeps ==
  ASSUME IInv, NEW w \in Worker, Finalize(w)
  PROVE  IInv'
<1> DEFINE Decided(p) ==
      IF p.turn = hook[w].turn /\ p.owner = w /\ p.decision = NoWorker /\ now < p.before
        THEN [p EXCEPT !.decision = w] ELSE p
<1>1. plans' = {Decided(p) : p \in Live(plans)}
  BY DEF Finalize
<1>2. \A p \in Plan :
        /\ Decided(p) \in Plan
        /\ <<Decided(p).session, Decided(p).turn, Decided(p).owner>> = <<p.session, p.turn, p.owner>>
        /\ Decided(p).decision = p.decision \/ (Decided(p).decision = w /\ p.owner = w)
  BY DEF Plan
<1> HIDE DEF Decided
<1>3. plans \subseteq Plan /\ \A p, r \in plans : p.turn = r.turn => p = r
  BY DEF IInv, TypeOK
<1>4. \A p \in plans' : \E o \in plans : p = Decided(o)
  BY <1>1 DEF Live
<1>5. /\ plans' \subseteq Plan
      /\ \A p, r \in plans' : p.turn = r.turn => p = r
      /\ \A p \in plans' : \E o \in plans :
           /\ <<p.session, p.turn, p.owner>> = <<o.session, o.turn, o.owner>>
           /\ p.decision \in {o.decision, NoWorker} \/ (p.decision = w /\ o.owner = w)
  BY <1>2, <1>3, <1>4
<1>6. /\ Done(w) /\ closed' \subseteq closed /\ redirects' \subseteq redirects /\ now' = now
  BY DEF Finalize, Done, Live
<1> QED
  BY <1>5, <1>6, Deciding

LEMMA CancelKeeps ==
  ASSUME IInv, NEW w \in Worker, Cancel(w)
  PROVE  IInv'
<1> DEFINE own == {p \in plans : p.turn = hook[w].turn /\ p.owner = w}
           Withdrawn(p) == [p EXCEPT !.decision = NoWorker, !.before = 0]
<1>1. plans' = (plans \ own) \cup {Withdrawn(p) : p \in {x \in own : x.evaluated}}
  BY DEF Cancel
<1>2. \A p \in Plan :
        /\ Withdrawn(p) \in Plan
        /\ <<Withdrawn(p).session, Withdrawn(p).turn, Withdrawn(p).owner>> = <<p.session, p.turn, p.owner>>
        /\ Withdrawn(p).decision = NoWorker
  BY DEF Plan
<1> HIDE DEF Withdrawn
<1>3. plans \subseteq Plan /\ \A p, r \in plans : p.turn = r.turn => p = r
  BY DEF IInv, TypeOK
<1>4. \A p \in plans' : \E o \in plans : (p = o /\ o \notin own) \/ (p = Withdrawn(o) /\ o \in own)
  BY <1>1
<1>5. /\ plans' \subseteq Plan
      /\ \A p, r \in plans' : p.turn = r.turn => p = r
      /\ \A p \in plans' : \E o \in plans :
           /\ <<p.session, p.turn, p.owner>> = <<o.session, o.turn, o.owner>>
           /\ p.decision \in {o.decision, NoWorker} \/ (p.decision = w /\ o.owner = w)
  BY <1>2, <1>3, <1>4
<1>6. /\ Done(w) /\ closed' \subseteq closed /\ redirects' \subseteq redirects /\ now' = now
  BY KeepsOrDrops DEF Cancel, Done
<1> QED
  BY <1>5, <1>6, Deciding

(***************************************************************************)
(* consume: the turn ends with its plan.                                   *)
(***************************************************************************)
\* What is left of s: no turn, no plan.
LEMMA ConsumeEnds ==
  ASSUME IInv, NEW s \in Session, NEW q \in Query, NEW turns \in SUBSET Turn,
         NEW kept, ConsumeFrom(s, q, turns, kept)
  PROVE  /\ current' = {c \in current : c.session # s}
         /\ plans' = {p \in Live(plans) : p.session # s}
<1> DEFINE mine == {c \in current : c.session = s}
           popped == {p \in Live(plans) : \E c \in mine : p.turn = c.turn}
           matches == {p \in IF mine = {} THEN Live(plans) ELSE popped :
                         p.session = s /\ p.query = q /\ p.turn \in turns}
<1>1. current' = current \ mine /\ plans' = Live(plans) \ (popped \cup matches)
  BY DEF ConsumeFrom
<1>2. \A p \in Live(plans) : p.session = s => p \in popped
  <2>1. SUFFICES ASSUME NEW p \in Live(plans), p.session = s
                 PROVE  \E c \in current : c.session = s /\ p.turn = c.turn
    OBVIOUS
  <2>2. [session |-> p.session, turn |-> p.turn, owner |-> p.owner] \in current
    BY DEF IInv, PlanIsCurrent, Live
  <2> QED
    BY <2>1, <2>2
<1>3. \A p \in popped : p.session = s
  <2>1. SUFFICES ASSUME NEW p \in plans, NEW c \in mine, p.turn = c.turn
                 PROVE  p.session = s
    BY DEF Live
  <2>2. p.session = SessionOf[p.turn]
    BY DEF IInv, PlanIsCurrent, TurnsAreTheirs
  <2> QED
    BY <2>1, <2>2 DEF IInv, TurnsAreTheirs
<1> QED
  BY <1>1, <1>2, <1>3

\* A decision is handed out as the one its session's owner made.
LEMMA ConsumeHands ==
  ASSUME IInv, NEW s \in Session, NEW q \in Query, NEW turns \in SUBSET Turn,
         NEW kept, ConsumeFrom(s, q, turns, kept)
  PROVE  \/ handed' = handed
         \/ \E p \in Live(plans) :
              /\ p.session = s /\ p.query = q
              /\ p.decision = p.owner /\ p.owner \in Worker
              /\ handed' = handed \cup {[decision |-> p.owner, session |-> s,
                                         turn |-> p.turn, at |-> now]}
<1>1. SUFFICES ASSUME handed' # handed
               PROVE  \E p \in Live(plans) :
                        /\ p.session = s /\ p.query = q
                        /\ p.decision = p.owner /\ p.owner \in Worker
                        /\ handed' = handed \cup {[decision |-> p.owner, session |-> s,
                                                   turn |-> p.turn, at |-> now]}
  OBVIOUS
<1>2. PICK p \in Live(plans) :
        /\ p.session = s /\ p.query = q /\ p.decision # NoWorker
        /\ handed' = handed \cup {[decision |-> p.decision, session |-> s,
                                   turn |-> p.turn, at |-> now]}
  BY <1>1 DEF ConsumeFrom
<1>3. p.decision = p.owner /\ p.owner \in Worker
  BY <1>2 DEF IInv, TypeOK, DecisionsAreFinal, Plan, Live
<1> QED
  BY <1>2, <1>3

LEMMA ConsumeKeeps ==
  ASSUME IInv, NEW s \in Session, NEW q \in Query, NEW turns \in SUBSET Turn,
         NEW kept \in SUBSET redirects, ConsumeFrom(s, q, turns, kept)
  PROVE  IInv'
<1>1. /\ current' = {c \in current : c.session # s}
      /\ plans' = {p \in Live(plans) : p.session # s}
  BY ConsumeEnds
<1>2. /\ active' = active /\ hook' = hook /\ now' = now
      /\ redirects' \subseteq redirects
      /\ closed' = {c \in Live(closed) : \A m \in current :
                      m.session = s => <<m.session, m.turn>> # <<c.session, c.turn>>}
                     \cup {[session |-> s, turn |-> m.turn, expires |-> now + MaxAge] :
                             m \in {c \in current : c.session = s}}
  BY DEF ConsumeFrom
<1>3. \A c \in closed' :
        \/ /\ c \in closed
           /\ \A m \in current : m.session = s => ~(c.session = s /\ c.turn = m.turn)
        \/ \E m \in current :
             m.session = s /\ c = [session |-> s, turn |-> m.turn, expires |-> now + MaxAge]
  BY <1>2 DEF Live
<1>4. /\ current \subseteq CurrentTurn /\ closed \subseteq ClosedTurn
      /\ \A c, d \in current : c.session = d.session => c = d
      /\ \A c, d \in closed : c.session = d.session /\ c.turn = d.turn => c = d
      /\ now + MaxAge \in Nat
  BY MailboxAssumption DEF IInv, TypeOK
<1>5. closed' \subseteq ClosedTurn
  BY <1>3, <1>4 DEF ClosedTurn, CurrentTurn
<1>6. \A c, d \in closed' : c.session = d.session /\ c.turn = d.turn => c = d
  BY <1>3, <1>4
<1>7. /\ \A h \in handed' :
           h.decision \in Worker /\ h.session \in Session /\ h.turn \in Turn /\ h.at \in Nat
      /\ HandedOnce' /\ HandedHaveBegun'
  <2>1. CASE handed' = handed
    BY <1>2, <2>1 DEF IInv, TypeOK, HandedOnce, HandedHaveBegun
  <2>2. CASE handed' # handed
    <3>1. PICK p \in Live(plans) :
            /\ p.session = s /\ p.owner \in Worker
            /\ handed' = handed \cup {[decision |-> p.owner, session |-> s,
                                       turn |-> p.turn, at |-> now]}
      BY <2>2, ConsumeHands
    <3>2. [session |-> p.session, turn |-> p.turn, owner |-> p.owner] \in current
      BY DEF IInv, PlanIsCurrent, Live
    <3>3. /\ hook[p.owner] # At("idle") /\ \A h \in handed : h.decision # p.owner
          /\ p.turn \in Turn
      BY <3>2 DEF IInv, TypeOK, OwnersHaveBegun, CurrentTurn
    <3>4. \A h \in handed' : h \in handed \/
            h = [decision |-> p.owner, session |-> s, turn |-> p.turn, at |-> now]
      BY <3>1
    <3>5. HandedOnce' /\ HandedHaveBegun'
      BY <1>2, <3>3, <3>4 DEF IInv, HandedOnce, HandedHaveBegun
    <3> QED
      BY <3>1, <3>3, <3>4, <3>5 DEF IInv, TypeOK
  <2> QED
    BY <2>1, <2>2
<1>8. TypeOK'
  BY <1>1, <1>2, <1>5, <1>6, <1>7 DEF IInv, TypeOK, Live
<1>9. PlanIsCurrent'
  BY <1>1, <1>2 DEF IInv, PlanIsCurrent, Live, Active
<1>10. RedirectIsCurrent' /\ TurnsAreTheirs'
  BY <1>1, <1>2 DEF IInv, RedirectIsCurrent, TurnsAreTheirs
<1>11. ClosedIsNotPlanned'
  <2>1. SUFFICES ASSUME NEW c \in closed', c.expires > now, NEW d \in current',
                        c.session = d.session
                 PROVE  c.turn # d.turn
    BY <1>2 DEF ClosedIsNotPlanned, Live
  <2>2. d \in current /\ d.session # s
    BY <1>1
  <2>3. c \in closed
    BY <1>3, <2>1, <2>2
  <2> QED
    BY <2>1, <2>2, <2>3 DEF IInv, ClosedIsNotPlanned, Live
<1>12. DecisionsAreFinal'
  BY <1>1, <1>2 DEF IInv, DecisionsAreFinal, Live
<1>13. OwnersHaveBegun'
  <2>1. SUFFICES ASSUME NEW c \in current, c.session # s, NEW h \in handed'
                 PROVE  h.decision # c.owner
    <3>1. \A c \in current' : c \in current /\ c.session # s
      BY <1>1
    <3>2. \A c, d \in current : hook[c.owner] # At("idle") /\ (c.owner = d.owner => c = d)
      BY DEF IInv, OwnersHaveBegun
    <3> QED
      BY <1>2, <3>1, <3>2 DEF OwnersHaveBegun
  <2>2. CASE h \in handed
    BY <2>2 DEF IInv, OwnersHaveBegun
  <2>3. CASE h \notin handed
    <3>1. PICK p \in Live(plans) : p.session = s /\ h.decision = p.owner
      BY <2>3, ConsumeHands
    <3>2. [session |-> p.session, turn |-> p.turn, owner |-> p.owner] \in current
      BY DEF IInv, PlanIsCurrent, Live
    <3>3. p.owner # c.owner
      BY <2>1, <3>1, <3>2 DEF IInv, OwnersHaveBegun
    <3> QED
      BY <3>1, <3>3
  <2> QED
    BY <2>2, <2>3
<1> QED
  BY <1>7, <1>8, <1>9, <1>10, <1>11, <1>12, <1>13 DEF IInv

(***************************************************************************)
(* The invariant holds.                                                    *)
(***************************************************************************)
LEMMA Initially == Init => IInv
<1> SUFFICES ASSUME Init PROVE IInv
  OBVIOUS
<1>1. At("idle") \in Hook
  BY DEF At, Hook
<1>2. TypeOK
  BY <1>1 DEF Init, TypeOK
<1> QED
  BY <1>2 DEF Init, IInv, PlanIsCurrent, RedirectIsCurrent, ClosedIsNotPlanned, TurnsAreTheirs,
              DecisionsAreFinal, OwnersHaveBegun, HandedHaveBegun, HandedOnce, Live

LEMMA Stutters ==
  ASSUME IInv, UNCHANGED vars
  PROVE  IInv'
<1> QED
  BY DEF vars, IInv, TypeOK, PlanIsCurrent, RedirectIsCurrent, ClosedIsNotPlanned,
         TurnsAreTheirs, DecisionsAreFinal, OwnersHaveBegun, HandedHaveBegun, HandedOnce,
         Live, Active, At

LEMMA Inductive == IInv /\ [Next]_vars => IInv'
<1> SUFFICES ASSUME IInv, [Next]_vars PROVE IInv'
  OBVIOUS
<1>1. ASSUME NEW p \in Provider, NEW s \in Session,
             Activate(p, s) \/ \E parent \in {NoSession, Parent[s]} : Rebind(p, s, parent)
      PROVE  IInv'
  BY <1>1, ActivateKeeps, RebindKeeps
<1>2. ASSUME NEW p \in Provider, Deactivate(p) PROVE IInv'
  BY <1>2, DeactivateKeeps
<1>3. ASSUME NEW s \in Session, ClearSessionPlans(s) \/ ConsumeInactive(s) PROVE IInv'
  BY <1>3, ClearKeeps, ConsumeInactiveKeeps
<1>4. ASSUME NEW w \in Worker, NEW t \in Turn, HookBegins(w, t) PROVE IInv'
  <2>1. CASE BeginClosedTurn(w, SessionOf[t], t)
    BY <2>1, RefusedKeeps
  <2>2. ASSUME NEW parent \in {NoSession, Parent[SessionOf[t]]},
               BeginInactive(w, SessionOf[t], t, parent)
        PROVE  IInv'
    BY <2>2, RefusedKeeps
  <2>3. ASSUME NEW parent \in {NoSession, Parent[SessionOf[t]]},
               BeginTurn(w, SessionOf[t], t, parent)
        PROVE  IInv'
    BY <2>3, BeginTurnKeeps
  <2>4. ASSUME NEW parent \in {NoSession, Parent[SessionOf[t]]},
               BeginBridging(w, SessionOf[t], t, parent)
        PROVE  IInv'
    BY <2>4, BridgingKeeps
  <2> QED
    BY <1>4, <2>1, <2>2, <2>3, <2>4 DEF HookBegins
<1>5. ASSUME NEW w \in Worker, NEW q \in Planned, NEW evaluated \in BOOLEAN,
             Reserve(w, q, evaluated)
      PROVE  IInv'
  BY <1>5, ReserveKeeps, MailboxAssumption
<1>6. ASSUME NEW w \in Worker, ReserveRefused(w) \/ NotPlanned(w) \/ Finalize(w) \/ Cancel(w)
      PROVE  IInv'
  BY <1>6, RefusedKeeps, FinalizeKeeps, CancelKeeps
<1>7. ASSUME NEW s \in Session, NEW q \in Query, Consume(s, q) \/ ConsumeRedirected(s, q)
      PROVE  IInv'
  <2>1. CASE Consume(s, q)
    <3>1. Turn \in SUBSET Turn /\ redirects \in SUBSET redirects
      OBVIOUS
    <3> QED
      BY <2>1, <3>1, ConsumeKeeps DEF Consume
  <2>2. CASE ConsumeRedirected(s, q)
    <3>1. PICK r \in redirects : ConsumeFrom(r.target, q, {r.turn}, redirects \ {r})
      BY <2>2 DEF ConsumeRedirected
    <3>2. r.target \in Session /\ {r.turn} \in SUBSET Turn
      BY DEF IInv, TypeOK, Redirect
    <3>3. redirects \ {r} \in SUBSET redirects
      OBVIOUS
    <3> QED
      BY <3>1, <3>2, <3>3, ConsumeKeeps
  <2> QED
    BY <1>7, <2>1, <2>2
<1>8. CASE Tick
  BY <1>8, TickKeeps
<1>9. CASE UNCHANGED vars
  BY <1>9, Stutters
<1> QED
  BY <1>1, <1>2, <1>3, <1>4, <1>5, <1>6, <1>7, <1>8, <1>9 DEF Next

\* Every reachable mailbox satisfies the invariant.
THEOREM MailboxInvariant == Spec => []IInv
<1> QED
  BY Initially, Inductive, PTL DEF Spec

\* The dictionaries of the mailbox (plan_mailbox.py, _HomeMailboxState) have
\* one entry for a key: a turn a session, a plan a turn, a redirect a source.
THEOREM MailboxTypeCorrect == Spec => []TypeOK
<1>1. IInv => TypeOK
  BY DEF IInv
<1> QED
  BY <1>1, MailboxInvariant, PTL

\* A plan belongs to the current turn of a session that an active handle owns,
\* and to the last hook that began it (begin_turn, reserve, rebind).
THEOREM PlansAreCurrent == Spec => []PlanIsCurrent
<1>1. IInv => PlanIsCurrent
  BY DEF IInv
<1> QED
  BY <1>1, MailboxInvariant, PTL

\* A redirect leads to its own turn or to none (begin_turn's bridge, consume).
THEOREM RedirectsAreCurrent == Spec => []RedirectIsCurrent
<1>1. IInv => RedirectIsCurrent
  BY DEF IInv
<1> QED
  BY <1>1, MailboxInvariant, PTL

\* No turn is planned while its tombstone lives (begin_turn, consume).
THEOREM ClosedAreNotPlanned == Spec => []ClosedIsNotPlanned
<1>1. IInv => ClosedIsNotPlanned
  BY DEF IInv
<1> QED
  BY <1>1, MailboxInvariant, PTL

\* Whatever is retried, duplicated or late, the decision a hook made is given
\* to one prefetch at most (consume pops the plan).
THEOREM DecisionsAreHandedOnce == Spec => []HandedOnce
<1>1. IInv => HandedOnce
  BY DEF IInv
<1> QED
  BY <1>1, MailboxInvariant, PTL

(***************************************************************************)
(* The mailbox implements the handoff: every method is a step of           *)
(* PlanHandoff or leaves what it speaks of alone.                          *)
(***************************************************************************)
\* A session has one turn, and only its owner an offer in it.
LEMMA OffersHaveTurns ==
  ASSUME IInv
  PROVE  /\ \A x \in Turns : x.session \in Session /\ x.owner \in Worker
         /\ \A x, y \in Turns : x.session = y.session => x = y
         /\ \A o \in Offers : [session |-> o.session, owner |-> o.owner] \in Turns
         /\ \A p, r \in Live(plans) : p.session = r.session => p = r
<1>1. \A c \in current : c \in CurrentTurn
  BY DEF IInv, TypeOK
<1>2. \A x \in Turns : \E c \in current : x.session = c.session /\ x.owner = c.owner /\ x = TurnOf(c)
  BY DEF Turns, TurnOf
<1>3. \A x \in Turns : x.session \in Session /\ x.owner \in Worker
  BY <1>1, <1>2 DEF CurrentTurn
<1>4. \A x, y \in Turns : x.session = y.session => x = y
  BY <1>2 DEF IInv, TypeOK
<1>5. \A o \in Offers : [session |-> o.session, owner |-> o.owner] \in Turns
  <2>0. \A o \in Offers : \E p \in Live(plans) : o.session = p.session /\ o.owner = p.owner
    BY DEF Offers, OfferOf
  <2>1. SUFFICES ASSUME NEW p \in Live(plans)
                 PROVE  [session |-> p.session, owner |-> p.owner] \in Turns
    BY <2>0
  <2>2. [session |-> p.session, turn |-> p.turn, owner |-> p.owner] \in current
    BY DEF IInv, PlanIsCurrent, Live
  <2> QED
    BY <2>2 DEF Turns, TurnOf
<1>6. \A p, r \in Live(plans) : p.session = r.session => p = r
  <2>1. SUFFICES ASSUME NEW p \in plans, NEW r \in plans, p.session = r.session
                 PROVE  p = r
    BY DEF Live
  <2>2. /\ [session |-> p.session, turn |-> p.turn, owner |-> p.owner] \in current
        /\ [session |-> r.session, turn |-> r.turn, owner |-> r.owner] \in current
    BY DEF IInv, PlanIsCurrent
  <2>3. p.turn = r.turn
    BY <2>1, <2>2 DEF IInv, TypeOK
  <2> QED
    BY <2>3 DEF IInv, TypeOK
<1> QED
  BY <1>3, <1>4, <1>5, <1>6

\* Purging twice purges once.
LEMMA PurgeTwice ==
  ASSUME now' = now
  PROVE  \A sessions :
           /\ plans' = Live(plans) => Offers' = Offers
           /\ plans' = Without(Live(plans), sessions)
                => Offers' = {o \in Offers : o.session \notin sessions}
           /\ current' = Without(current, sessions)
                => Turns' = {x \in Turns : x.session \notin sessions}
BY DEF Offers, Turns, OfferOf, TurnOf, Live, Without

\* A hook's progress past its beginning is none of the handoff's business.
LEMMA StillBegun ==
  ASSUME IInv, NEW w \in Worker, hook[w] # At("idle"),
         \/ hook' = [hook EXCEPT ![w] = At("done")]
         \/ hook' = [hook EXCEPT ![w].stage = "deciding"]
  PROVE  HaveBegun' = HaveBegun
<1>1. \A v \in Worker : v # w => hook'[v] = hook[v]
  BY DEF IInv, TypeOK
<1>2. hook'[w] # At("idle")
  BY DEF IInv, TypeOK, Hook, At
<1> QED
  BY <1>1, <1>2 DEF HaveBegun

LEMMA NowBegun ==
  ASSUME IInv, NEW w \in Worker, hook[w] = At("idle"), NEW h,
         h # At("idle"), hook' = [hook EXCEPT ![w] = h]
  PROVE  w \notin HaveBegun /\ HaveBegun' = HaveBegun \cup {w}
<1>1. /\ \A v \in Worker : v # w => hook'[v] = hook[v]
      /\ hook'[w] = h
  BY DEF IInv, TypeOK
<1> QED
  BY <1>1 DEF HaveBegun

\* deactivate, rebind and the resets.
LEMMA ClearsHandoff ==
  ASSUME IInv, NEW sessions \in SUBSET Session, UNCHANGED <<hook, handed, now>>,
         plans' = Without(Live(plans), sessions) \/ plans' = Without(plans, sessions),
         current' = Without(current, sessions)
  PROVE  Handoff!Next
<1>1. Turns' = {x \in Turns : x.session \notin sessions}
  BY PurgeTwice
<1>2. Offers' = {x \in Offers : x.session \notin sessions}
  BY DEF Offers, OfferOf, Live, Without
<1>3. UNCHANGED <<HaveBegun, HandedOut>>
  BY DEF HaveBegun, HandedOut
<1>4. Handoff!Clear(sessions)
  BY <1>1, <1>2, <1>3 DEF Handoff!Clear, Handoff!Without
<1> QED
  BY <1>4 DEF Handoff!Next

\* begin_turn.
LEMMA BeginsHandoff ==
  ASSUME IInv, NEW w \in Worker, NEW t \in Turn, NEW s \in Session,
         NEW replaced \in SUBSET Session,
         Begun(w, s, t),
         plans' = Without(Live(plans), {s} \cup replaced),
         current' = Without(current, {s} \cup replaced)
                      \cup {[session |-> s, turn |-> t, owner |-> w]}
  PROVE  Handoff!Next
<1>1. Turns' = {x \in Turns : x.session \notin {s} \cup replaced} \cup {[session |-> s, owner |-> w]}
  <2> DEFINE c0 == [session |-> s, turn |-> t, owner |-> w]
             rest == Without(current, {s} \cup replaced)
  <2>1. {TurnOf(c) : c \in rest} = {x \in Turns : x.session \notin {s} \cup replaced}
    BY DEF Turns, TurnOf, Without
  <2>2. TurnOf(c0) = [session |-> s, owner |-> w]
    BY DEF TurnOf
  <2>3. current' = rest \cup {c0}
    OBVIOUS
  <2> HIDE DEF c0, rest
  <2>4. Turns' = {TurnOf(c) : c \in rest} \cup {TurnOf(c0)}
    BY <2>3 DEF Turns
  <2> QED
    BY <2>1, <2>2, <2>4
<1>2. Offers' = {x \in Offers : x.session \notin {s} \cup replaced}
  BY PurgeTwice DEF Begun
<1>3. w \notin HaveBegun /\ HaveBegun' = HaveBegun \cup {w}
  <2>1. [stage |-> "begun", session |-> s, turn |-> t] # At("idle")
    BY DEF At
  <2> QED
    BY <2>1, NowBegun DEF Begun
<1>4. HandedOut' = HandedOut
  BY DEF HandedOut, Begun
<1>5. Handoff!Begin(w, s, replaced)
  BY <1>1, <1>2, <1>3, <1>4 DEF Handoff!Begin, Handoff!Without
<1> QED
  BY <1>5 DEF Handoff!Next

\* begin_turn in a closed turn or an inactive session.
LEMMA RefusesHandoff ==
  ASSUME IInv, NEW w \in Worker, NEW s, NEW t, NEW parent,
         BeginClosedTurn(w, s, t) \/ BeginInactive(w, s, t, parent)
  PROVE  Handoff!Next
<1>1. /\ hook[w] = At("idle") /\ hook' = [hook EXCEPT ![w] = At("done")]
      /\ current' = current /\ handed' = handed /\ now' = now /\ plans' = Live(plans)
  BY DEF BeginClosedTurn, BeginInactive, PurgeOnly
<1>2. UNCHANGED <<Turns, Offers, HandedOut>>
  BY <1>1, PurgeTwice DEF Turns, HandedOut
<1>3. w \notin HaveBegun /\ HaveBegun' = HaveBegun \cup {w}
  <2>1. At("done") # At("idle")
    BY DEF At
  <2> QED
    BY <1>1, <2>1, NowBegun
<1>4. Handoff!Refuse(w)
  BY <1>2, <1>3 DEF Handoff!Refuse
<1> QED
  BY <1>4 DEF Handoff!Next

\* reserve.
LEMMA ReservesHandoff ==
  ASSUME IInv, NEW w \in Worker, NEW q \in Query, NEW evaluated \in BOOLEAN,
         Reserve(w, q, evaluated)
  PROVE  Handoff!Next
<1> DEFINE s == hook[w].session
           t == hook[w].turn
           p0 == [turn |-> t, session |-> s, query |-> q, owner |-> w,
                  evaluated |-> evaluated, decision |-> NoWorker,
                  before |-> now + PlannerTimeout, expires |-> now + MaxAge]
<1>0. /\ UNCHANGED <<current, handed, now>> /\ plans' = Live(plans) \cup {p0}
      /\ hook[w].stage = "begun" /\ hook' = [hook EXCEPT ![w].stage = "deciding"]
      /\ \A p \in Live(plans) : p.turn # t
  BY DEF Reserve
<1>1. [session |-> s, turn |-> t, owner |-> w] \in current
  BY DEF Reserve, IsCurrent
<1>2. s \in Session /\ [session |-> s, owner |-> w] \in Turns
  BY <1>1 DEF IInv, TypeOK, CurrentTurn, Turns, TurnOf
<1>3. \A p \in Live(plans) : p.session # s
  <2>1. SUFFICES ASSUME NEW p \in Live(plans), p.session = s PROVE FALSE
    OBVIOUS
  <2>2. [session |-> p.session, turn |-> p.turn, owner |-> p.owner] \in current
    BY DEF IInv, PlanIsCurrent, Live
  <2>3. p.turn = t
    BY <1>1, <2>1, <2>2 DEF IInv, TypeOK
  <2> QED
    BY <1>0, <2>3
<1>4. Handoff!Without(Offers, {s}) = Offers
  BY <1>3 DEF Handoff!Without, Offers, OfferOf
<1>5. Offers' = Offers \cup {[session |-> s, owner |-> w, query |-> q, decision |-> NoWorker]}
  <2>1. p0.expires > now
    BY MailboxAssumption DEF IInv, TypeOK
  <2>2. OfferOf(p0) = [session |-> s, owner |-> w, query |-> q, decision |-> NoWorker]
    BY DEF OfferOf
  <2> HIDE DEF p0
  <2>3. Live(plans)' = Live(plans) \cup {p0}
    BY <1>0, <2>1 DEF Live
  <2>4. Offers' = Offers \cup {OfferOf(p0)}
    BY <2>3 DEF Offers
  <2> QED
    BY <2>2, <2>4
<1>6. UNCHANGED <<Turns, HandedOut>>
  BY <1>0 DEF Turns, HandedOut
<1>7. HaveBegun' = HaveBegun
  <2>1. hook[w] # At("idle")
    BY <1>0 DEF At
  <2> QED
    BY <1>0, <2>1, StillBegun
<1>8. Handoff!Reserve(w, s, q)
  BY <1>2, <1>4, <1>5, <1>6, <1>7 DEF Handoff!Reserve
<1> QED
  BY <1>2, <1>8 DEF Handoff!Next

\* finalize decides the hook's own offer, if there is one left in time.
LEMMA FinalizesHandoff ==
  ASSUME IInv, NEW w \in Worker, Finalize(w)
  PROVE  Handoff!Next \/ UNCHANGED Handoff!vars
<1> DEFINE Mine(p) == p.turn = hook[w].turn /\ p.owner = w /\ p.decision = NoWorker /\ now < p.before
           Decided(p) == IF Mine(p) THEN [p EXCEPT !.decision = w] ELSE p
<1>0. /\ UNCHANGED <<current, handed, now>>
      /\ plans' = {Decided(p) : p \in Live(plans)}
      /\ hook[w].stage = "deciding" /\ hook' = [hook EXCEPT ![w] = At("done")]
  BY DEF Finalize, Done
<1>1. UNCHANGED <<Turns, HandedOut>>
  BY <1>0 DEF Turns, HandedOut
<1>2. HaveBegun' = HaveBegun
  <2>1. hook[w] # At("idle")
    BY <1>0 DEF At
  <2> QED
    BY <1>0, <2>1, StillBegun
<1>3. \A p \in Plan :
        /\ Decided(p).expires = p.expires
        /\ ~Mine(p) => Decided(p) = p
        /\ Mine(p) => OfferOf(Decided(p)) = [OfferOf(p) EXCEPT !.decision = OfferOf(p).owner]
  BY DEF Plan, OfferOf
<1>4. Live(plans) \subseteq Plan /\ \A p, r \in Live(plans) : p.turn = r.turn => p = r
  BY DEF IInv, TypeOK, Live
<1> HIDE DEF Decided
<1>5. Live(plans)' = {Decided(p) : p \in Live(plans)}
  BY <1>0, <1>3, <1>4 DEF Live
<1>6. Offers' = {OfferOf(Decided(p)) : p \in Live(plans)}
  BY <1>5 DEF Offers
<1>7. CASE \A p \in Live(plans) : ~Mine(p)
  <2>1. Offers' = Offers
    BY <1>3, <1>4, <1>6, <1>7 DEF Offers
  <2> QED
    BY <1>1, <1>2, <2>1 DEF Handoff!vars
<1>8. CASE \E p \in Live(plans) : Mine(p)
  <2>1. PICK p \in Live(plans) : Mine(p)
    BY <1>8
  <2>2. \A r \in Live(plans) : r # p => ~Mine(r) /\ OfferOf(r) # OfferOf(p)
    <3>1. SUFFICES ASSUME NEW r \in Live(plans), r # p
                   PROVE  ~Mine(r) /\ OfferOf(r) # OfferOf(p)
      OBVIOUS
    <3>2. r.session # p.session
      BY <3>1, OffersHaveTurns
    <3> QED
      BY <1>4, <2>1, <3>1, <3>2 DEF OfferOf
  <2>3. Offers' = {OfferOf(r) : r \in Live(plans) \ {p}} \cup {OfferOf(Decided(p))}
    BY <1>3, <1>4, <1>6, <2>1, <2>2
  <2>4. {OfferOf(r) : r \in Live(plans) \ {p}} = Offers \ {OfferOf(p)}
    BY <2>2 DEF Offers
  <2>5. OfferOf(p) \in Offers
    BY DEF Offers
  <2>6. Handoff!Decide(OfferOf(p))
    BY <1>1, <1>2, <1>3, <1>4, <2>1, <2>3, <2>4 DEF Handoff!Decide
  <2> QED
    BY <2>5, <2>6 DEF Handoff!Next
<1> QED
  BY <1>7, <1>8

\* cancel: the hook has not decided, so what it keeps is as undecided as before.
LEMMA CancelsHandoff ==
  ASSUME IInv, NEW w \in Worker, Cancel(w)
  PROVE  Handoff!Next
<1> DEFINE own == {p \in plans : p.turn = hook[w].turn /\ p.owner = w}
           Withdrawn(p) == [p EXCEPT !.decision = NoWorker, !.before = 0]
<1>0. /\ UNCHANGED <<current, handed, now>>
      /\ plans' = (plans \ own) \cup {Withdrawn(p) : p \in {x \in own : x.evaluated}}
  BY DEF Cancel, Done
<1>a. hook[w].stage = "deciding" /\ hook' = [hook EXCEPT ![w] = At("done")]
  BY DEF Cancel, Done
<1>1. UNCHANGED <<Turns, HandedOut>>
  BY <1>0 DEF Turns, HandedOut
<1>2. HaveBegun' = HaveBegun
  <2>1. hook[w] # At("idle")
    BY <1>a DEF At
  <2> QED
    BY <1>a, <2>1, StillBegun
<1>3. \A p \in own : Withdrawn(p).expires = p.expires /\ OfferOf(Withdrawn(p)) = OfferOf(p)
  <2>1. \A p \in own : p \in Plan /\ p.decision = NoWorker
    BY <1>a DEF IInv, TypeOK, DecisionsAreFinal
  <2>2. \A p \in Plan :
          /\ Withdrawn(p).expires = p.expires
          /\ p.decision = NoWorker => OfferOf(Withdrawn(p)) = OfferOf(p)
    BY DEF Plan, OfferOf
  <2> QED
    BY <2>1, <2>2
<1> HIDE DEF Withdrawn
<1>4. \A o \in Offers' : o \in Offers
  <2>1. \A p \in Live(plans)' :
          \/ p \in Live(plans)
          \/ \E r \in own : p = Withdrawn(r) /\ r \in Live(plans)
    BY <1>0, <1>3 DEF Live
  <2>2. \A p \in Live(plans)' : \E r \in Live(plans) : OfferOf(p) = OfferOf(r)
    BY <1>3, <2>1
  <2> QED
    BY <2>2 DEF Offers
<1>5. (Offers \ Offers') \in SUBSET Offers /\ Offers' = Offers \ (Offers \ Offers')
  BY <1>4
<1>6. Handoff!Lapse(Offers \ Offers')
  BY <1>1, <1>2, <1>5 DEF Handoff!Lapse
<1> QED
  BY <1>5, <1>6 DEF Handoff!Next

\* consume takes the offer of the turn it ends.
LEMMA ConsumesHandoff ==
  ASSUME IInv, NEW s \in Session, NEW q \in Query, NEW turns \in SUBSET Turn,
         NEW kept, ConsumeFrom(s, q, turns, kept)
  PROVE  Handoff!Next
<1>1. /\ current' = {c \in current : c.session # s}
      /\ plans' = {p \in Live(plans) : p.session # s}
  BY ConsumeEnds
<1>2. hook' = hook /\ now' = now
  BY DEF ConsumeFrom
<1>3. /\ Turns' = Handoff!Without(Turns, {s})
      /\ Offers' = Handoff!Without(Offers, {s})
      /\ HaveBegun' = HaveBegun
  BY <1>1, <1>2 DEF Turns, TurnOf, Offers, OfferOf, HaveBegun, Handoff!Without, Live
<1>4. \/ HandedOut' = HandedOut
      \/ \E o \in Offers :
           /\ o.session = s /\ o.query = q
           /\ [session |-> s, owner |-> o.decision] \in Turns
           /\ HandedOut' = HandedOut \cup {o.decision}
  <2>1. CASE handed' = handed
    BY <2>1 DEF HandedOut
  <2>2. CASE handed' # handed
    <3>1. PICK p \in Live(plans) :
            /\ p.session = s /\ p.query = q /\ p.decision = p.owner
            /\ handed' = handed \cup {[decision |-> p.owner, session |-> s,
                                       turn |-> p.turn, at |-> now]}
      BY <2>2, ConsumeHands
    <3>2. OfferOf(p) \in Offers
      BY DEF Offers
    <3>3. /\ OfferOf(p).session = s /\ OfferOf(p).query = q
          /\ OfferOf(p).decision = p.owner /\ OfferOf(p).owner = p.owner
      BY <3>1 DEF OfferOf
    <3>4. [session |-> s, owner |-> p.owner] \in Turns
      BY <3>2, <3>3, OffersHaveTurns
    <3>5. HandedOut' = HandedOut \cup {p.owner}
      <4> DEFINE h0 == [decision |-> p.owner, session |-> s, turn |-> p.turn, at |-> now]
      <4>1. h0.decision = p.owner /\ handed' = handed \cup {h0}
        BY <3>1
      <4> HIDE DEF h0
      <4> QED
        BY <4>1 DEF HandedOut
    <3> QED
      BY <3>2, <3>3, <3>4, <3>5
  <2> QED
    BY <2>1, <2>2
<1>5. Handoff!Take(s, q)
  BY <1>3, <1>4 DEF Handoff!Take
<1> QED
  BY <1>5 DEF Handoff!Next

\* Every step of the mailbox is one of the handoff, or none.
LEMMA StepsHandoff == IInv /\ [Next]_vars => [Handoff!Next]_Handoff!vars
<1> SUFFICES ASSUME IInv, [Next]_vars PROVE Handoff!Next \/ UNCHANGED Handoff!vars
  OBVIOUS
<1>0. ASSUME UNCHANGED <<current, hook, handed, now>>,
             plans' = Live(plans) \/ plans' = plans
      PROVE  UNCHANGED Handoff!vars
  BY <1>0, PurgeTwice DEF Handoff!vars, Turns, Offers, Live, HaveBegun, HandedOut
<1>1. ASSUME NEW p \in Provider, NEW s \in Session, Activate(p, s)
      PROVE  UNCHANGED Handoff!vars
  BY <1>0, <1>1 DEF Activate
<1>2. ASSUME NEW p \in Provider, NEW s \in Session, NEW parent, Rebind(p, s, parent)
      PROVE  Handoff!Next \/ UNCHANGED Handoff!vars
  <2>1. CASE PurgeOnly
    BY <1>0, <1>2, <2>1 DEF Rebind, PurgeOnly
  <2>2. CASE ~PurgeOnly
    <3>1. (Orphan(p) \cup {s}) \in SUBSET Session
      BY <1>2 DEF Rebind, Orphan, IInv, TypeOK
    <3>2. /\ UNCHANGED <<hook, handed, now>>
          /\ plans' = Without(Live(plans), Orphan(p) \cup {s})
          /\ current' = Without(current, Orphan(p) \cup {s})
      BY <1>2, <2>2 DEF Rebind
    <3> QED
      BY <3>1, <3>2, ClearsHandoff
  <2> QED
    BY <2>1, <2>2
<1>3. ASSUME NEW p \in Provider, Deactivate(p) PROVE Handoff!Next
  <2>1. Orphan(p) \in SUBSET Session
    BY <1>3 DEF Deactivate, Orphan, IInv, TypeOK
  <2> QED
    BY <1>3, <2>1, ClearsHandoff DEF Deactivate
<1>4. ASSUME NEW s \in Session, ClearSessionPlans(s) PROVE Handoff!Next
  <2>1. {s} \in SUBSET Session
    OBVIOUS
  <2> QED
    BY <1>4, <2>1, ClearsHandoff DEF ClearSessionPlans
<1>5. ASSUME NEW s \in Session, ConsumeInactive(s) PROVE UNCHANGED Handoff!vars
  BY <1>0, <1>5 DEF ConsumeInactive
<1>6. ASSUME NEW w \in Worker, NEW t \in Turn, HookBegins(w, t) PROVE Handoff!Next
  <2>1. SessionOf[t] \in Session
    BY MailboxAssumption
  <2>2. CASE BeginClosedTurn(w, SessionOf[t], t)
    BY <2>2, RefusesHandoff
  <2>3. ASSUME NEW parent \in {NoSession, Parent[SessionOf[t]]},
               BeginInactive(w, SessionOf[t], t, parent)
        PROVE  Handoff!Next
    BY <2>3, RefusesHandoff
  <2>4. ASSUME NEW parent \in {NoSession, Parent[SessionOf[t]]},
               BeginTurn(w, SessionOf[t], t, parent)
        PROVE  Handoff!Next
    <3>1. {} \in SUBSET Session /\ {SessionOf[t]} \cup {} = {SessionOf[t]}
      OBVIOUS
    <3> QED
      BY <2>1, <2>4, <3>1, BeginsHandoff DEF BeginTurn
  <2>5. ASSUME NEW parent \in {NoSession, Parent[SessionOf[t]]},
               BeginBridging(w, SessionOf[t], t, parent)
        PROVE  Handoff!Next
    <3>1. {parent} \in SUBSET Session
      BY <2>1, <2>5, MailboxAssumption DEF BeginBridging, Active
    <3>2. {parent, SessionOf[t]} = {SessionOf[t]} \cup {parent}
      OBVIOUS
    <3> QED
      BY <2>1, <2>5, <3>1, <3>2, BeginsHandoff DEF BeginBridging
  <2> QED
    BY <1>6, <2>2, <2>3, <2>4, <2>5 DEF HookBegins
<1>7. ASSUME NEW w \in Worker, NEW q \in Planned, NEW evaluated \in BOOLEAN,
             Reserve(w, q, evaluated)
      PROVE  Handoff!Next
  BY <1>7, ReservesHandoff, MailboxAssumption
<1>8. ASSUME NEW w \in Worker, ReserveRefused(w) \/ NotPlanned(w)
      PROVE  UNCHANGED Handoff!vars
  <2>1. /\ hook[w].stage = "begun" /\ hook' = [hook EXCEPT ![w] = At("done")]
        /\ UNCHANGED <<current, handed, now>> /\ (plans' = Live(plans) \/ plans' = plans)
    BY <1>8 DEF ReserveRefused, NotPlanned, PurgeOnly, mailbox
  <2>2. hook[w] # At("idle")
    BY <2>1 DEF At
  <2>3. HaveBegun' = HaveBegun
    BY <2>1, <2>2, StillBegun
  <2>4. UNCHANGED <<Turns, Offers, HandedOut>>
    BY <2>1, PurgeTwice DEF Turns, Offers, Live, HandedOut
  <2> QED
    BY <2>3, <2>4 DEF Handoff!vars
<1>9. ASSUME NEW w \in Worker, Finalize(w) \/ Cancel(w)
      PROVE  Handoff!Next \/ UNCHANGED Handoff!vars
  BY <1>9, FinalizesHandoff, CancelsHandoff
<1>10. ASSUME NEW s \in Session, NEW q \in Query, Consume(s, q) \/ ConsumeRedirected(s, q)
       PROVE  Handoff!Next
  <2>1. CASE Consume(s, q)
    <3>1. Turn \in SUBSET Turn
      OBVIOUS
    <3> QED
      BY <2>1, <3>1, ConsumesHandoff DEF Consume
  <2>2. CASE ConsumeRedirected(s, q)
    <3>1. PICK r \in redirects : ConsumeFrom(r.target, q, {r.turn}, redirects \ {r})
      BY <2>2 DEF ConsumeRedirected
    <3>2. r.target \in Session /\ {r.turn} \in SUBSET Turn
      BY DEF IInv, TypeOK, Redirect
    <3> QED
      BY <3>1, <3>2, ConsumesHandoff
  <2> QED
    BY <1>10, <2>1, <2>2
<1>11. CASE Tick
  <2>1. \A p \in plans : p.expires \in Nat
    BY DEF IInv, TypeOK, Plan
  <2>2. now \in Nat /\ now' = now + 1 /\ plans' = plans
    BY <1>11 DEF IInv, TypeOK, Tick, mailbox
  <2>3. Live(plans)' \subseteq Live(plans)
    BY <2>1, <2>2 DEF Live
  <2>4. (Offers \ Offers') \in SUBSET Offers /\ Offers' = Offers \ (Offers \ Offers')
    BY <2>3 DEF Offers
  <2>5. UNCHANGED <<Turns, HaveBegun, HandedOut>>
    BY <1>11 DEF Tick, mailbox, Turns, HaveBegun, HandedOut
  <2>6. Handoff!Lapse(Offers \ Offers')
    BY <2>4, <2>5 DEF Handoff!Lapse
  <2> QED
    BY <2>4, <2>6 DEF Handoff!Next
<1>12. CASE UNCHANGED vars
  BY <1>0, <1>12 DEF vars
<1> QED
  BY <1>1, <1>2, <1>3, <1>4, <1>5, <1>6, <1>7, <1>8, <1>9, <1>10, <1>11, <1>12 DEF Next

LEMMA StartsHandoff == Init => Handoff!Init
BY DEF Init, Handoff!Init, Turns, Offers, Live, HaveBegun, HandedOut

\* The mailbox (plan_mailbox.py) keeps the promise of the one-slot handoff.
THEOREM MailboxImplementsHandoff == Spec => ImplementsHandoff
<1> QED
  BY StartsHandoff, StepsHandoff, MailboxInvariant, PTL DEF Spec, ImplementsHandoff, Handoff!Spec
=============================================================================
