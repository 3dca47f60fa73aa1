---------------------------- MODULE PlanMailbox -----------------------------
(***************************************************************************)
(* The recall-plan mailbox of one Hermes home (plan_mailbox.py) with its   *)
(* users: planner hooks (planner.py) begin a turn, reserve, decide and     *)
(* publish; provider handles (provider.py) activate and rebind sessions    *)
(* and consume a plan in prefetch.  Each method holds the registry lock,   *)
(* so it is one action; hooks and prefetches interleave between them.      *)
(*                                                                         *)
(* A hook's own name is its owner token, and names the decision it makes.  *)
(* The planner mode, the same for a hook and its prefetch, is left out.    *)
(***************************************************************************)
EXTENDS Naturals, FiniteSets

CONSTANTS
  Provider,   \* provider handles; an activation token each
  Worker,     \* calls of on_pre_llm_call
  Session,
  Parent,     \* the session each one continues, or NoSession
  Turn,
  SessionOf,  \* the session of each turn: the host does not reuse a turn id
  Query,      \* queries of prefetches, up to length and digest
  Planned,    \* those a hook plans for
  NoSession, NoTurn, NoWorker,
  MaxAge,         \* _PLAN_MAX_AGE_SECONDS
  PlannerTimeout, \* planner.timeout_seconds
  MaxTime         \* bound on the clock, not in the code

ASSUME MailboxAssumption ==
  /\ NoSession \notin Session /\ NoTurn \notin Turn /\ NoWorker \notin Worker
  /\ Parent \in [Session -> Session \cup {NoSession}]
  /\ \A s \in Session : Parent[s] # s
  /\ SessionOf \in [Turn -> Session]
  /\ Planned \subseteq Query
  /\ MaxAge \in Nat \ {0} /\ PlannerTimeout \in Nat \ {0} /\ MaxTime \in Nat

VARIABLES
  active,    \* activations: the session of each provider handle, or NoSession
  current,   \* current_turns: records of session, turn and owner
  plans,     \* plans, keyed by turn
  closed,    \* closed_turns: records of session, turn and expiry
  redirects, \* redirects: records of source, target and turn
  hook,      \* what each planner hook is doing
  handed,    \* the decisions handed to prefetches, and when (ghost)
  now        \* time.monotonic()

mailbox == <<active, current, plans, closed, redirects>>
vars == <<active, current, plans, closed, redirects, hook, handed, now>>

CurrentTurn == [session : Session, turn : Turn, owner : Worker]
Plan ==
  [turn : Turn, session : Session, query : Query, owner : Worker, evaluated : BOOLEAN,
   decision : Worker \cup {NoWorker}, before : Nat, expires : Nat]
ClosedTurn == [session : Session, turn : Turn, expires : Nat]
Redirect == [source : Session, target : Session, turn : Turn]
Hook ==
  [stage : {"idle", "begun", "deciding", "done"}, session : Session \cup {NoSession},
   turn : Turn \cup {NoTurn}]

At(stage) == [stage |-> stage, session |-> NoSession, turn |-> NoTurn]

Init ==
  /\ active = [p \in Provider |-> NoSession]
  /\ current = {}
  /\ plans = {}
  /\ closed = {}
  /\ redirects = {}
  /\ hook = [w \in Worker |-> At("idle")]
  /\ handed = {}
  /\ now = 0

\* session_id in state.activations.values()
Active(s) == s # NoSession /\ \E p \in Provider : active[p] = s

\* _purge_expired, for plans and for closed turns.
Live(entries) == {x \in entries : x.expires > now}

\* _clear_session: what is kept of plans, current or closed turns.
Without(entries, sessions) == {x \in entries : x.session \notin sessions}

\* _drop_empty_home: an empty home is dropped with its redirects.
KeepRedirects(entries) ==
  LET empty == /\ \A p \in Provider : active'[p] = NoSession
               /\ closed' = {} /\ current' = {} /\ plans' = {}
  IN redirects' = IF empty THEN {} ELSE entries

\* A method that finds nothing to do but to purge.
PurgeOnly ==
  /\ plans' = Live(plans)
  /\ closed' = Live(closed)
  /\ UNCHANGED <<active, current, redirects>>

-----------------------------------------------------------------------------
(***************************************************************************)
(* Provider handles: initialize, shutdown and on_session_switch.           *)
(***************************************************************************)
Activate(p, s) ==
  /\ active[p] = NoSession
  /\ active' = [active EXCEPT ![p] = s]
  /\ plans' = Live(plans)
  /\ closed' = Live(closed)
  /\ UNCHANGED <<current, redirects, hook, handed, now>>

\* The session of p without its other handles.
Orphan(p) == IF \E q \in Provider \ {p} : active[q] = active[p] THEN {} ELSE {active[p]}

Deactivate(p) ==
  /\ active[p] # NoSession
  /\ active' = [active EXCEPT ![p] = NoSession]
  /\ plans' = Without(Live(plans), Orphan(p))
  /\ closed' = Without(Live(closed), Orphan(p))
  /\ current' = Without(current, Orphan(p))
  /\ KeepRedirects(redirects)
  /\ UNCHANGED <<hook, handed, now>>

Rebind(p, s, parent) ==
  /\ active[p] # NoSession
  /\ IF active[p] = s \/ (parent # NoSession /\ active[p] # parent)
       THEN PurgeOnly
       ELSE LET cleared == Orphan(p) \cup {s} IN
            /\ active' = [active EXCEPT ![p] = s]
            /\ plans' = Without(Live(plans), cleared)
            /\ closed' = Without(Live(closed), cleared)
            /\ current' = Without(current, cleared)
            /\ UNCHANGED redirects
  /\ UNCHANGED <<hook, handed, now>>

\* A reset or rewind of the provider's session.
ClearSessionPlans(s) ==
  /\ \E p \in Provider : active[p] # NoSession
  /\ plans' = Without(plans, {s})
  /\ closed' = Without(closed, {s})
  /\ current' = Without(current, {s})
  /\ UNCHANGED <<active, hook, handed, now>>
  /\ KeepRedirects(redirects)

-----------------------------------------------------------------------------
(***************************************************************************)
(* Planner hooks: on_pre_llm_call.                                         *)
(***************************************************************************)
\* Faulty variant: tombstones are not looked at.
NeverClosed(s, t) == FALSE

\* (session_id, turn_id) in state.closed_turns
IsClosed(s, t) == \E c \in Live(closed) : c.session = s /\ c.turn = t

\* begin_turn refuses a closed turn before it looks at anything else.
BeginClosedTurn(w, s, t) ==
  /\ hook[w] = At("idle")
  /\ IsClosed(s, t)
  /\ hook' = [hook EXCEPT ![w] = At("done")]
  /\ PurgeOnly
  /\ UNCHANGED <<handed, now>>

\* Faulty variant: earlier turns' redirects are kept.
AllRedirects(s, t) == redirects

\* Redirects to s that an earlier turn of s left are dropped.
RedirectsOf(s, t) == {r \in redirects : r.target # s \/ r.turn = t}

\* begin_turn in a session whose provider was not told of it, and which does
\* not continue an active one.
BeginInactive(w, s, t, parent) ==
  /\ hook[w] = At("idle")
  /\ ~IsClosed(s, t)
  /\ ~Active(s) /\ ~Active(parent)
  /\ redirects' = RedirectsOf(s, t)
  /\ plans' = Live(plans)
  /\ closed' = Live(closed)
  /\ hook' = [hook EXCEPT ![w] = At("done")]
  /\ UNCHANGED <<active, current, handed, now>>

Begun(w, s, t) ==
  /\ hook[w] = At("idle")
  /\ hook' = [hook EXCEPT ![w] = [stage |-> "begun", session |-> s, turn |-> t]]
  /\ UNCHANGED <<handed, now>>

\* Faulty variant: a turn that begins again keeps what the last hook left.
BeginKeepingPlans(w, s, t, parent) ==
  /\ Begun(w, s, t)
  /\ ~IsClosed(s, t)
  /\ Active(s) /\ ~Active(parent)
  /\ redirects' = RedirectsOf(s, t)
  /\ plans' = Live(plans)
  /\ closed' = Live(closed)
  /\ current' = Without(current, {s}) \cup {[session |-> s, turn |-> t, owner |-> w]}
  /\ UNCHANGED active

\* begin_turn in an active session: what it had in planning is dropped.
BeginTurn(w, s, t, parent) ==
  /\ Begun(w, s, t)
  /\ ~IsClosed(s, t)
  /\ Active(s) /\ ~Active(parent)
  /\ redirects' = RedirectsOf(s, t)
  /\ plans' = Without(Live(plans), {s})
  /\ closed' = Live(closed)
  /\ current' = Without(current, {s}) \cup {[session |-> s, turn |-> t, owner |-> w]}
  /\ UNCHANGED active

\* begin_turn ahead of the provider's switch from an active parent: its
\* handles move to s, and a prefetch that still names the parent is
\* redirected for this turn.
BeginBridging(w, s, t, parent) ==
  /\ Begun(w, s, t)
  /\ ~IsClosed(s, t)
  /\ Active(parent)
  /\ redirects' = {r \in RedirectsOf(s, t) : {r.source, r.target} \cap {parent, s} = {}}
                    \cup {[source |-> parent, target |-> s, turn |-> t]}
  /\ active' = [p \in Provider |-> IF active[p] = parent THEN s ELSE active[p]]
  /\ plans' = Without(Live(plans), {parent, s})
  /\ closed' = Without(Live(closed), {parent})
  /\ current' = Without(current, {parent, s}) \cup {[session |-> s, turn |-> t, owner |-> w]}

IsCurrent(w) == [session |-> hook[w].session, turn |-> hook[w].turn, owner |-> w] \in current

\* reserve: the hook is still the owner of its session's current turn.
Reserve(w, q, evaluated) ==
  /\ hook[w].stage = "begun"
  /\ Active(hook[w].session) /\ IsCurrent(w)
  /\ \A p \in Live(plans) : p.turn # hook[w].turn
  /\ plans' = Live(plans) \cup
       {[turn |-> hook[w].turn, session |-> hook[w].session, query |-> q, owner |-> w,
         evaluated |-> evaluated, decision |-> NoWorker, before |-> now + PlannerTimeout,
         expires |-> now + MaxAge]}
  /\ closed' = Live(closed)
  /\ hook' = [hook EXCEPT ![w].stage = "deciding"]
  /\ UNCHANGED <<active, current, redirects, handed, now>>

ReserveRefused(w) ==
  /\ hook[w].stage = "begun"
  /\ \/ ~Active(hook[w].session) \/ ~IsCurrent(w)
     \/ \E p \in Live(plans) : p.turn = hook[w].turn
  /\ hook' = [hook EXCEPT ![w] = At("done")]
  /\ PurgeOnly
  /\ UNCHANGED <<handed, now>>

\* The message is not one to plan for.
NotPlanned(w) ==
  /\ hook[w].stage = "begun"
  /\ hook' = [hook EXCEPT ![w] = At("done")]
  /\ UNCHANGED <<mailbox, handed, now>>

Done(w) ==
  /\ hook[w].stage = "deciding"
  /\ hook' = [hook EXCEPT ![w] = At("done")]
  /\ UNCHANGED <<active, current, handed, now>>

\* Faulty variant: any hook may finalize the turn's plan.
FinalizeUnowned(w) ==
  /\ Done(w)
  /\ plans' = {IF p.turn = hook[w].turn /\ p.decision = NoWorker /\ now < p.before
                 THEN [p EXCEPT !.decision = w] ELSE p : p \in Live(plans)}
  /\ closed' = Live(closed)
  /\ UNCHANGED redirects

\* finalize: publish the decision, unless it is late or the reservation is
\* gone or no longer the hook's own.
Finalize(w) ==
  /\ Done(w)
  /\ plans' = {IF p.turn = hook[w].turn /\ p.owner = w /\ p.decision = NoWorker /\ now < p.before
                 THEN [p EXCEPT !.decision = w] ELSE p : p \in Live(plans)}
  /\ closed' = Live(closed)
  /\ UNCHANGED redirects

\* cancel, after a failure or at the deadline: an evaluated reservation is
\* kept, but can no longer be finalized.
Cancel(w) ==
  /\ Done(w)
  /\ LET own == {p \in plans : p.turn = hook[w].turn /\ p.owner = w}
     IN plans' = (plans \ own) \cup
                   {[p EXCEPT !.decision = NoWorker, !.before = 0] : p \in {x \in own : x.evaluated}}
  /\ UNCHANGED closed
  /\ KeepRedirects(redirects)

-----------------------------------------------------------------------------
(***************************************************************************)
(* prefetch consumes a plan.                                               *)
(***************************************************************************)

\* The turn of s ends with its plan, and the plan is handed out if it was
\* decided for query q in a turn that the prefetch may take.  Without a
\* current turn, any matching plan may be the newest: PlanIsCurrent tells
\* that there is none.
ConsumeFrom(s, q, turns, kept) ==
  LET mine == {c \in current : c.session = s}
      popped == {p \in Live(plans) : \E c \in mine : p.turn = c.turn}
      matches == {p \in IF mine = {} THEN Live(plans) ELSE popped :
                    p.session = s /\ p.query = q /\ p.turn \in turns}
  IN
  /\ current' = current \ mine
  /\ plans' = Live(plans) \ (popped \cup matches)
  /\ closed' = {c \in Live(closed) : \A m \in mine : <<m.session, m.turn>> # <<c.session, c.turn>>}
                 \cup {[session |-> s, turn |-> m.turn, expires |-> now + MaxAge] : m \in mine}
  /\ redirects' = {r \in kept : \A m \in mine : <<r.target, r.turn>> # <<s, m.turn>>}
  /\ \/ matches = {} /\ UNCHANGED handed
     \/ \E newest \in matches :
          handed' = IF newest.decision # NoWorker
                      THEN handed \cup {[decision |-> newest.decision, session |-> s,
                                            turn |-> newest.turn, at |-> now]}
                      ELSE handed
  /\ UNCHANGED <<active, hook, now>>

\* The prefetching handle holds a mailbox.
Prefetches == \E p \in Provider : active[p] # NoSession

Consume(s, q) ==
  /\ Prefetches
  /\ Active(s)
  /\ ConsumeFrom(s, q, Turn, redirects)

\* A prefetch that names a session the turn has left.
ConsumeRedirected(s, q) ==
  /\ Prefetches
  /\ ~Active(s)
  /\ \E r \in redirects :
       /\ r.source = s /\ Active(r.target)
       /\ ConsumeFrom(r.target, q, {r.turn}, redirects \ {r})

\* Neither the session nor one it is redirected to is active.
ConsumeInactive(s) ==
  /\ Prefetches
  /\ ~Active(s)
  /\ \A r \in redirects : r.source = s => ~Active(r.target)
  /\ redirects' = {r \in redirects : r.source # s}
  /\ plans' = Live(plans)
  /\ closed' = Live(closed)
  /\ UNCHANGED <<active, current, hook, handed, now>>

Tick ==
  /\ now < MaxTime
  /\ now' = now + 1
  /\ UNCHANGED <<mailbox, hook, handed>>

-----------------------------------------------------------------------------
\* The parent a host names: the session's own or, for a subagent, none.
HookBegins(w, t) ==
  LET s == SessionOf[t] IN
  \/ BeginClosedTurn(w, s, t)
  \/ \E parent \in {NoSession, Parent[s]} :
       \/ BeginInactive(w, s, t, parent)
       \/ BeginTurn(w, s, t, parent)
       \/ BeginBridging(w, s, t, parent)

Next ==
  \/ \E p \in Provider, s \in Session :
       Activate(p, s) \/ \E parent \in {NoSession, Parent[s]} : Rebind(p, s, parent)
  \/ \E p \in Provider : Deactivate(p)
  \/ \E s \in Session : ClearSessionPlans(s) \/ ConsumeInactive(s)
  \/ \E w \in Worker, t \in Turn : HookBegins(w, t)
  \/ \E w \in Worker, q \in Planned, evaluated \in BOOLEAN : Reserve(w, q, evaluated)
  \/ \E w \in Worker : ReserveRefused(w) \/ NotPlanned(w) \/ Finalize(w) \/ Cancel(w)
  \/ \E s \in Session, q \in Query : Consume(s, q) \/ ConsumeRedirected(s, q)
  \/ Tick

Spec == Init /\ [][Next]_vars

-----------------------------------------------------------------------------
(***************************************************************************)
(* Properties.                                                             *)
(***************************************************************************)

\* Every variable holds a value of its kind, and the dictionaries have one
\* entry for a key: a current turn a session, a plan a turn, a tombstone a
\* session and turn, a redirect a source.
TypeOK ==
  /\ active \in [Provider -> Session \cup {NoSession}]
  /\ current \subseteq CurrentTurn
  /\ plans \subseteq Plan
  /\ closed \subseteq ClosedTurn
  /\ redirects \subseteq Redirect
  /\ hook \in [Worker -> Hook]
  /\ \A h \in handed : h.decision \in Worker /\ h.session \in Session /\ h.turn \in Turn /\ h.at \in Nat
  /\ now \in Nat
  /\ \A c, d \in current : c.session = d.session => c = d
  /\ \A p, q \in plans : p.turn = q.turn => p = q
  /\ \A c, d \in closed : c.session = d.session /\ c.turn = d.turn => c = d
  /\ \A r, x \in redirects : r.source = x.source => r = x

\* A plan belongs to the current turn of its session and to the last hook
\* that began it: neither a late hook nor a duplicate of one nor a plan left
\* behind by an earlier turn is ever in the way (owner tokens, begin_turn).
\* And turns are planned only in sessions an authorized provider handle owns:
\* the last handle that leaves a session takes its turn and plan along
\* (deactivate, rebind, the bridge in begin_turn).
PlanIsCurrent ==
  /\ \A p \in plans : [session |-> p.session, turn |-> p.turn, owner |-> p.owner] \in current
  /\ \A c \in current : Active(c.session)

\* A redirect leads to its own turn or to none: a prefetch under the old
\* identity of a session never ends or takes a later turn (begin_turn).
RedirectIsCurrent ==
  \A r \in redirects, c \in current : r.target = c.session => r.turn = c.turn

\* A tombstone keeps its turn from being planned while it lives, whichever
\* hooks began the turn before it was consumed (closed_turns).
ClosedIsNotPlanned ==
  \A c \in Live(closed), d \in current : c.session = d.session => c.turn # d.turn

\* No decision reaches two prefetches, however hooks and prefetches are
\* retried: consume ends the turn with its plan, and a hook owns one turn.
HandedOnce == \A g, h \in handed : g.decision = h.decision => g = h

\* What the handoff speaks of: turn ids, clocks and tombstones left out.
TurnOf(c) == [session |-> c.session, owner |-> c.owner]
OfferOf(p) ==
  [session |-> p.session, owner |-> p.owner, query |-> p.query, decision |-> p.decision]
Turns == {TurnOf(c) : c \in current}
Offers == {OfferOf(p) : p \in Live(plans)}
HaveBegun == {w \in Worker : hook[w] # At("idle")}
HandedOut == {h.decision : h \in handed}

Handoff == INSTANCE PlanHandoff WITH
  turns <- Turns, offers <- Offers, begun <- HaveBegun, handed <- HandedOut

\* The mailbox implements the one-slot handoff: a decision is handed out at
\* most once, to the session and query it was made for, while its hook is
\* the last one that began a turn of this session.
ImplementsHandoff == Handoff!Spec

\* docs/configuration.md:361: a consumed turn stays closed for the lifetime
\* of a plan, so a retried hook cannot have its decision consumed again.
ConsumedStaysClosed ==
  \A g, h \in handed :
    g.session = h.session /\ g.turn = h.turn /\ g.at <= h.at /\ g # h => h.at >= g.at + MaxAge
=============================================================================
