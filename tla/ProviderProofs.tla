--------------------------- MODULE ProviderProofs ----------------------------
(***************************************************************************)
(* Theorems about the provider handle: its calls (ProviderCalls), the      *)
(* decisions of its hooks (PlannerDecision), the sessions it follows       *)
(* (SessionSwitch) and the records it keeps (Records), for every number of *)
(* threads, hooks, sessions, processes, records and authorizations.        *)
(***************************************************************************)
EXTENDS MCProvider, FiniteSetTheorems, Induction, TLAPS

-----------------------------------------------------------------------------
(***************************************************************************)
(* The calls.  What one call keeps does not speak of any other, only of    *)
(* the authorizations: a step of a call is a matter of its own record, and *)
(* a step of initialize or shutdown of the authorizations alone.           *)
(***************************************************************************)
CallStep == {"returned", "entered", "sighted", "planning", "projecting", "rereading", "reading",
             "checking", "calling", "exchanging", "formatting", "shown"}

CallRecord ==
  [at : CallStep,
   op : {"none", "prefetch", "recall", "reflect", "mental_models", "retain", "sync_turn"},
   config : BOOLEAN, via : Nat, late : BOOLEAN, capture : BOOLEAN, staged : Nat,
   answer : {"none", "invalid", "inert", "nothing", "unavailable", "unconfirmed", "rejected",
             "memories", "ok", "queued_locally", "already_queued"},
   memories : Nat]

\* The steps only some operations get to.
KeepsToItsPath(c) ==
  /\ c.at \in {"entered", "sighted", "rereading", "formatting", "shown"} => Needs(c.op) = "recall"
  /\ c.at = "planning" => c.op = "prefetch"
  /\ c.at = "projecting" => Needs(c.op) = "recall" \/ c.op = "reflect"

\* The call has passed the check of its capability.
Checked(c) == c.at = "calling" \/ (c.at = "projecting" /\ c.op = "reflect")

\* What was checked holds of the authorization the call goes through for as
\* long as that is open, and once it went through, for good.
KeepsToItsGrant(c) ==
  /\ c.via <= Len(granted)
  /\ Checked(c) /\ c.via \in open => Needs(c.op) \in granted[c.via]
  /\ c.at \in {"exchanging", "formatting"} => c.via # Unset /\ Needs(c.op) \in granted[c.via]

\* A captured recall has staged once when its outcome is settled.
KeepsToItsStages(c) ==
  /\ c.capture => c.op = "prefetch" /\ c.at \notin {"entered", "sighted", "planning"}
  /\ c.at \notin {"returned", "shown"} => c.staged = 0
  /\ c.at = "shown" /\ c.capture => c.staged = 1
  /\ c.at = "returned" /\ c.capture => c.staged = (IF c.answer = "inert" THEN 0 ELSE 1)

Sound(c) ==
  c \in CallRecord /\ KeepsToItsPath(c) /\ KeepsToItsGrant(c) /\ KeepsToItsStages(c)

CallsAreSound == call \in [Thread -> CallRecord] /\ \A t \in Thread : Sound(call[t])

\* At most the latest authorization is open, and the flags that are set are
\* what it allowed.
LatestIsOpen ==
  /\ granted \in Seq(SUBSET Capability)
  /\ open \subseteq {Len(granted)} \ {Unset}
  /\ configured \in BOOLEAN
  /\ enabled \subseteq Capability
  /\ enabled # {} => Len(granted) # Unset /\ enabled = granted[Len(granted)]
  /\ runtime \in Nat /\ runtime <= Len(granted)
  /\ lifecycle = "inactive" => open = {}
  /\ lifecycle \in {"inactive", "enabling", "closing", "dropping"} => enabled = {}
  /\ lifecycle \in {"enabling", "publishing"} => Len(granted) # Unset

CallsInv == LatestIsOpen /\ CallsAreSound

LEMMA CallsInitially == ProviderCallsInit => CallsInv /\ StatusDescribesInjection
<1> SUFFICES ASSUME ProviderCallsInit PROVE CallsInv /\ StatusDescribesInjection
  OBVIOUS
<1>0. configured \in BOOLEAN
  BY Zenon DEF ProviderCallsInit
<1>1. LatestIsOpen
  BY <1>0 DEF ProviderCallsInit, LatestIsOpen, Unset
<1>2. Sound(NoCall)
  BY DEF ProviderCallsInit, Sound, CallRecord, CallStep, NoCall, KeepsToItsPath, KeepsToItsGrant,
         Checked, KeepsToItsStages, Unset
<1>3. NoCall \in CallRecord
  BY <1>2 DEF Sound
<1>4. CallsAreSound
  BY <1>2, <1>3 DEF CallsAreSound, ProviderCallsInit
<1>5. StatusDescribesInjection
  BY DEF StatusDescribesInjection, ProviderCallsInit
<1> QED
  BY <1>1, <1>4, <1>5 DEF CallsInv

\* A step of one call is a matter of its record.
LEMMA OneCall ==
  ASSUME CallsInv, NEW t \in Thread, NEW c, Sound(c),
         call' = [call EXCEPT ![t] = c], UNCHANGED handle
  PROVE  CallsInv'
<1>1. LatestIsOpen'
  BY DEF CallsInv, LatestIsOpen, handle
<1>2. c \in CallRecord
  BY DEF Sound
<1>3. call' \in [Thread -> CallRecord]
  BY <1>2 DEF CallsInv, CallsAreSound
<1>4. ASSUME NEW s \in Thread PROVE Sound(call'[s])
  <2>1. CASE s = t
    BY <2>1 DEF CallsInv, CallsAreSound
  <2>2. CASE s # t
    BY <2>2 DEF CallsInv, CallsAreSound
  <2> QED
    BY <2>1, <2>2
<1>5. CallsAreSound'
  <2> SUFFICES ASSUME NEW s \in Thread PROVE Sound(call[s])'
    BY <1>3 DEF CallsAreSound
  <2>1. Sound(call'[s])
    BY <1>4
  <2> QED
    BY <2>1 DEF Sound, KeepsToItsPath, KeepsToItsGrant, Checked, KeepsToItsStages, handle, Needs
<1> QED
  BY <1>1, <1>5 DEF CallsInv

-----------------------------------------------------------------------------
\* The fields of a call, as facts.
LEMMA SoundFields ==
  ASSUME CallsInv, NEW t \in Thread
  PROVE  /\ Sound(call[t]) /\ call[t] \in CallRecord
         /\ granted \in Seq(SUBSET Capability) /\ Len(granted) \in Nat
         /\ open \subseteq {Len(granted)} \ {Unset} /\ configured \in BOOLEAN
         /\ runtime \in Nat /\ runtime <= Len(granted)
         /\ enabled # {} => Len(granted) # Unset /\ enabled = granted[Len(granted)]
  BY DEF CallsInv, LatestIsOpen, CallsAreSound, Sound, CallRecord, CallStep

Answers ==
  {"none", "invalid", "inert", "nothing", "unavailable", "unconfirmed", "rejected", "memories",
   "ok", "queued_locally", "already_queued"}

\* A call that returns keeps nothing of the handle.
LEMMA ReturnedIsSound ==
  ASSUME CallsInv, NEW c \in CallRecord, c.at = "returned", c.via = Unset,
         c.capture => c.op = "prefetch" /\ c.staged = (IF c.answer = "inert" THEN 0 ELSE 1)
  PROVE  Sound(c)
  BY DEF Sound, CallsInv, LatestIsOpen, KeepsToItsPath, KeepsToItsGrant, Checked,
         KeepsToItsStages, Unset

LEMMA AnsweredFields ==
  ASSUME NEW r \in CallRecord, NEW answer \in Answers
  PROVE  /\ Answered(r, answer) \in CallRecord
         /\ Answered(r, answer).at = "returned" /\ Answered(r, answer).via = Unset
         /\ Answered(r, answer).capture = r.capture /\ Answered(r, answer).op = r.op
         /\ Answered(r, answer).staged = r.staged /\ Answered(r, answer).answer = answer
<1>1. Answered(r, answer) \in CallRecord
  BY DEF CallRecord, CallStep, Answered, Answers, Unset
<1> QED
  BY <1>1 DEF CallRecord, Answered

LEMMA StagedFields ==
  ASSUME NEW r \in CallRecord
  PROVE  /\ Staged(r) \in CallRecord
         /\ Staged(r).staged = IF r.capture THEN r.staged + 1 ELSE r.staged
         /\ Staged(r).at = r.at /\ Staged(r).op = r.op /\ Staged(r).config = r.config
         /\ Staged(r).via = r.via /\ Staged(r).late = r.late /\ Staged(r).capture = r.capture
         /\ Staged(r).answer = r.answer /\ Staged(r).memories = r.memories
  BY DEF CallRecord, Staged

\* It returns without a stage when nothing was captured or the handle is
\* gone, and with the one stage of a capture otherwise.
LEMMA EndsUnstaged ==
  ASSUME CallsInv, NEW r \in CallRecord, NEW answer \in Answers,
         r.capture => r.op = "prefetch" /\ r.staged = 0 /\ answer = "inert"
  PROVE  Sound(Answered(r, answer))
  BY AnsweredFields, ReturnedIsSound

LEMMA EndsStaged ==
  ASSUME CallsInv, NEW r \in CallRecord, NEW answer \in Answers \ {"inert"},
         r.capture => r.op = "prefetch" /\ r.staged = 0
  PROVE  Sound(Answered(Staged(r), answer))
<1>1. answer \in Answers /\ Staged(r) \in CallRecord
  BY StagedFields
<1>2. Staged(r).capture => Staged(r).op = "prefetch" /\ Staged(r).staged = 1
  BY StagedFields
<1> QED
  BY <1>1, <1>2, AnsweredFields, ReturnedIsSound

\* It goes on to a step its operation gets to, through an authorization that
\* allows it.
LEMMA GoesOn ==
  ASSUME CallsInv, NEW r, Sound(r), r.at \notin {"returned", "shown"},
         NEW to \in CallStep \ {"returned", "shown"},
         r.capture => to \notin {"entered", "sighted", "planning"},
         to \in {"entered", "sighted", "rereading", "formatting"} => Needs(r.op) = "recall",
         to = "planning" => r.op = "prefetch",
         to = "projecting" => Needs(r.op) = "recall" \/ r.op = "reflect",
         Checked([r EXCEPT !.at = to]) /\ r.via \in open => Needs(r.op) \in granted[r.via],
         to \in {"exchanging", "formatting"} => r.via # Unset /\ Needs(r.op) \in granted[r.via]
  PROVE  Sound([r EXCEPT !.at = to])
<1> DEFINE c == [r EXCEPT !.at = to]
<1>1. r \in CallRecord
  BY DEF Sound
<1>2. c \in CallRecord
  BY <1>1 DEF CallRecord, CallStep
<1>3. /\ c.at = to /\ c.op = r.op /\ c.via = r.via /\ c.capture = r.capture
      /\ c.staged = r.staged /\ c.answer = r.answer
  BY <1>1 DEF CallRecord
<1>4. Checked(c) /\ c.via \in open => Needs(c.op) \in granted[c.via]
  BY <1>3
<1> HIDE DEF c
<1>5. KeepsToItsPath(c)
  BY <1>3 DEF KeepsToItsPath
<1>6. KeepsToItsGrant(c)
  BY <1>3, <1>4 DEF KeepsToItsGrant, Sound
<1>7. KeepsToItsStages(c)
  BY <1>3 DEF KeepsToItsStages, Sound
<1> QED
  BY <1>2, <1>5, <1>6, <1>7 DEF Sound, c

-----------------------------------------------------------------------------
(***************************************************************************)
(* The ways a call's record changes, as steps of the call.                 *)
(***************************************************************************)
\* What a record that is under way says of its stages.
LEMMA UnderWay ==
  ASSUME NEW r, Sound(r), r.at \notin {"returned", "shown"}
  PROVE  r \in CallRecord /\ (r.capture => r.op = "prefetch" /\ r.staged = 0)
  BY DEF Sound, KeepsToItsStages

LEMMA AnswerUnstaged ==
  ASSUME CallsInv, NEW t \in Thread, NEW from \in CallStep, NEW answer \in Answers,
         from \notin {"returned", "shown"},
         call[t].capture => answer = "inert",
         Answer(t, from, call[t], answer)
  PROVE  CallsInv'
<1>1. Sound(call[t]) /\ call[t].at = from
  BY SoundFields DEF Answer, Becomes
<1>2. Sound(Answered(call[t], answer))
  BY <1>1, UnderWay, EndsUnstaged
<1>3. call' = [call EXCEPT ![t] = Answered(call[t], answer)] /\ UNCHANGED handle
  BY DEF Answer, Becomes
<1> QED
  BY <1>2, <1>3, OneCall

LEMMA AnswerStaged ==
  ASSUME CallsInv, NEW t \in Thread, NEW from \in CallStep, NEW answer \in Answers \ {"inert"},
         from \notin {"returned", "shown"},
         Answer(t, from, Staged(call[t]), answer)
  PROVE  CallsInv'
<1>1. Sound(call[t]) /\ call[t].at = from
  BY SoundFields DEF Answer, Becomes
<1>2. Sound(Answered(Staged(call[t]), answer))
  BY <1>1, UnderWay, EndsStaged
<1>3. call' = [call EXCEPT ![t] = Answered(Staged(call[t]), answer)] /\ UNCHANGED handle
  BY DEF Answer, Becomes
<1> QED
  BY <1>2, <1>3, OneCall

LEMMA AdvanceOn ==
  ASSUME CallsInv, NEW t \in Thread, NEW from \in CallStep, NEW to \in CallStep,
         Advance(t, from, to), from \notin {"returned", "shown"}, to \notin {"returned", "shown"},
         call[t].capture => to \notin {"entered", "sighted", "planning"},
         to \in {"entered", "sighted", "rereading", "formatting"} => Needs(call[t].op) = "recall",
         to = "planning" => call[t].op = "prefetch",
         to = "projecting" => Needs(call[t].op) = "recall" \/ call[t].op = "reflect",
         to = "calling" \/ (to = "projecting" /\ call[t].op = "reflect") =>
           (call[t].via \in open => Needs(call[t].op) \in granted[call[t].via]),
         to \in {"exchanging", "formatting"} =>
           call[t].via # Unset /\ Needs(call[t].op) \in granted[call[t].via]
  PROVE  CallsInv'
<1>1. Sound(call[t]) /\ call[t].at = from /\ call[t] \in CallRecord
  BY SoundFields DEF Advance, Becomes
<1>2. /\ [call[t] EXCEPT !.at = to].at = to
      /\ [call[t] EXCEPT !.at = to].op = call[t].op
  BY <1>1 DEF CallRecord
<1>3. Checked([call[t] EXCEPT !.at = to]) /\ call[t].via \in open =>
        Needs(call[t].op) \in granted[call[t].via]
  BY <1>2 DEF Checked
<1>4. Sound([call[t] EXCEPT !.at = to])
  BY <1>1, <1>3, GoesOn
<1>5. call' = [call EXCEPT ![t] = [call[t] EXCEPT !.at = to]] /\ UNCHANGED handle
  BY DEF Advance, Becomes
<1> QED
  BY <1>4, <1>5, OneCall

-----------------------------------------------------------------------------
(***************************************************************************)
(* The steps of a call, one by one.                                        *)
(***************************************************************************)
\* A call starts from nothing and holds nothing of the handle.
LEMMA EntersSound ==
  ASSUME CallsInv, NEW t \in Thread, NEW op \in Operation(t), Enter(t, op)
  PROVE  CallsInv'
<1> DEFINE r == call[t]
           c == [NoCall EXCEPT !.op = op, !.config = configured,
                              !.at = IF op = "recall" THEN "entered" ELSE "reading"]
<1>1. Sound(r) /\ r \in CallRecord
  BY SoundFields
<1>2. /\ call' = [call EXCEPT ![t] = c] /\ UNCHANGED handle
      /\ op \in {"recall", "reflect", "mental_models", "retain", "sync_turn"}
  BY DEF Enter, Becomes, Operation
<1>3. c \in CallRecord
  <2>1. (IF op = "recall" THEN "entered" ELSE "reading") \in CallStep
    BY DEF CallStep
  <2>2. configured \in BOOLEAN /\ NoCall \in CallRecord
    BY SoundFields DEF CallRecord, CallStep, NoCall, Unset
  <2> QED
    BY <1>2, <2>1, <2>2 DEF CallRecord
<1>4. /\ c.at = (IF op = "recall" THEN "entered" ELSE "reading") /\ c.op = op /\ c.via = Unset
      /\ ~c.capture /\ c.staged = 0
  BY <1>1, <1>2 DEF CallRecord, NoCall
<1> HIDE DEF c, r
<1>5. Sound(c)
  BY <1>1, <1>2, <1>3, <1>4, SoundFields
     DEF Sound, KeepsToItsPath, KeepsToItsGrant, Checked, KeepsToItsStages, Needs, Unset
<1> QED
  BY <1>2, <1>5, OneCall DEF c, r

\* So does an automatic recall.
LEMMA PrefetchSound ==
  ASSUME CallsInv, NEW t \in Thread, Prefetch(t)
  PROVE  CallsInv'
<1> DEFINE r == call[t]
           c == [NoCall EXCEPT !.op = "prefetch", !.config = configured, !.at = "entered"]
<1>1. Sound(r) /\ r \in CallRecord
  BY SoundFields
<1>2. /\ call' = [call EXCEPT ![t] = c] /\ UNCHANGED handle
  BY DEF Prefetch, Becomes
<1>3. c \in CallRecord
  <2>1. configured \in BOOLEAN
    BY SoundFields
  <2> QED
    BY <2>1 DEF CallRecord, CallStep, NoCall, Unset
<1>4. /\ c.at = "entered" /\ c.op = "prefetch" /\ c.via = Unset
      /\ ~c.capture /\ c.staged = 0
  BY <1>1, <1>2 DEF CallRecord, NoCall
<1> HIDE DEF c, r
<1>5. Sound(c)
  BY <1>1, <1>2, <1>3, <1>4, SoundFields
     DEF Sound, KeepsToItsPath, KeepsToItsGrant, Checked, KeepsToItsStages, Needs, Unset
<1> QED
  BY <1>2, <1>5, OneCall DEF c, r

\* A deadline changes nothing but the lateness.
LEMMA ExpireSound ==
  ASSUME CallsInv, NEW t \in Thread, Expire(t)
  PROVE  CallsInv'
<1> DEFINE r == call[t]
           c == [r EXCEPT !.late = TRUE]
<1>1. Sound(r) /\ r \in CallRecord
  BY SoundFields
<1>2. /\ call' = [call EXCEPT ![t] = c] /\ UNCHANGED handle
  BY DEF Expire, Becomes
<1>3. c \in CallRecord
  BY <1>1, <1>2, SoundFields DEF CallRecord, CallStep, Unset
<1>4. /\ c.at = r.at /\ c.via = r.via /\ c.capture = r.capture
      /\ c.op = r.op /\ c.staged = r.staged /\ c.answer = r.answer
  BY <1>1, <1>2 DEF CallRecord
<1> HIDE DEF c, r
<1>5. Sound(c)
  BY <1>1, <1>2, <1>3, <1>4, SoundFields
     DEF Sound, KeepsToItsPath, KeepsToItsGrant, Checked, KeepsToItsStages, Needs, Unset
<1> QED
  BY <1>2, <1>5, OneCall DEF c, r

\* A consumed plan may bring a capture.
LEMMA ConsumeSound ==
  ASSUME CallsInv, NEW t \in Thread, NEW capture \in BOOLEAN, NEW ends \in BOOLEAN, ~(call[t].late \/ ends),
         Consume(t, capture, ends)
  PROVE  CallsInv'
<1> DEFINE r == call[t]
           c == [r EXCEPT !.capture = capture, !.at = "projecting"]
<1>1. Sound(r) /\ r \in CallRecord
  BY SoundFields
<1>2. /\ call' = [call EXCEPT ![t] = c] /\ UNCHANGED handle
      /\ r.at = "planning"
  BY DEF Consume, Becomes
<1>3. c \in CallRecord
  BY <1>1, <1>2, SoundFields DEF CallRecord, CallStep, Unset
<1>4. /\ c.at = "projecting" /\ c.via = r.via /\ c.capture = capture
      /\ c.op = r.op /\ c.staged = r.staged /\ c.answer = r.answer
  BY <1>1, <1>2 DEF CallRecord
<1> HIDE DEF c, r
<1>5. Sound(c)
  BY <1>1, <1>2, <1>3, <1>4, SoundFields
     DEF Sound, KeepsToItsPath, KeepsToItsGrant, Checked, KeepsToItsStages, Needs, Unset
<1> QED
  BY <1>2, <1>5, OneCall DEF c, r

\* The fields of the handle are read one by one.
LEMMA RereadSound ==
  ASSUME CallsInv, NEW t \in Thread, Reread(t)
  PROVE  CallsInv'
<1> DEFINE r == call[t]
           c == [r EXCEPT !.at = "reading", !.config = configured]
<1>1. Sound(r) /\ r \in CallRecord
  BY SoundFields
<1>2. /\ call' = [call EXCEPT ![t] = c] /\ UNCHANGED handle
      /\ r.at = "rereading"
  BY DEF Reread, Becomes
<1>3. c \in CallRecord
  BY <1>1, <1>2, SoundFields DEF CallRecord, CallStep, Unset
<1>4. /\ c.at = "reading" /\ c.via = r.via /\ c.capture = r.capture
      /\ c.op = r.op /\ c.staged = r.staged /\ c.answer = r.answer
  BY <1>1, <1>2 DEF CallRecord
<1> HIDE DEF c, r
<1>5. Sound(c)
  BY <1>1, <1>2, <1>3, <1>4, SoundFields
     DEF Sound, KeepsToItsPath, KeepsToItsGrant, Checked, KeepsToItsStages, Needs, Unset
<1> QED
  BY <1>2, <1>5, OneCall DEF c, r

\* The authorization a call goes through is the one of this read.
LEMMA ReadRuntimeSound ==
  ASSUME CallsInv, NEW t \in Thread, ReadRuntime(t)
  PROVE  CallsInv'
<1> DEFINE r == call[t]
           c == [r EXCEPT !.at = "checking", !.via = runtime]
<1>1. Sound(r) /\ r \in CallRecord
  BY SoundFields
<1>2. /\ call' = [call EXCEPT ![t] = c] /\ UNCHANGED handle
      /\ r.at = "reading"
  BY DEF ReadRuntime, Becomes
<1>3. c \in CallRecord
  BY <1>1, <1>2, SoundFields DEF CallRecord, CallStep, Unset
<1>4. /\ c.at = "checking" /\ c.via = runtime /\ c.capture = r.capture
      /\ c.op = r.op /\ c.staged = r.staged /\ c.answer = r.answer
  BY <1>1, <1>2 DEF CallRecord
<1> HIDE DEF c, r
<1>5. Sound(c)
  BY <1>1, <1>2, <1>3, <1>4, SoundFields
     DEF Sound, KeepsToItsPath, KeepsToItsGrant, Checked, KeepsToItsStages, Needs, Unset
<1> QED
  BY <1>2, <1>5, OneCall DEF c, r

\* A recall that shows something has staged it.
LEMMA EmptySound ==
  ASSUME CallsInv, NEW t \in Thread, ~call[t].late, RecallEmpty(t)
  PROVE  CallsInv'
<1> DEFINE r == call[t]
           s == Staged(r)
           c == [s EXCEPT !.at = "shown"]
<1>1. Sound(r) /\ r \in CallRecord
  BY SoundFields
<1>2. /\ call' = [call EXCEPT ![t] = c] /\ UNCHANGED handle
      /\ r.at = "exchanging" /\ Needs(r.op) = "recall"
  BY DEF RecallEmpty, Becomes
<1>3. s \in CallRecord
  BY <1>1, StagedFields
<1>4. /\ s.staged = IF r.capture THEN r.staged + 1 ELSE r.staged
      /\ s.via = r.via /\ s.capture = r.capture /\ s.op = r.op
  BY <1>1, StagedFields
<1>5. r.capture => r.op = "prefetch" /\ r.staged = 0
  BY <1>1, <1>2, UnderWay
<1> HIDE DEF s
<1>6. c \in CallRecord
  BY <1>3 DEF CallRecord, CallStep
<1>7. /\ c.at = "shown" /\ c.via = s.via /\ c.capture = s.capture /\ c.op = s.op
      /\ c.staged = s.staged
  BY <1>3 DEF CallRecord
<1>8. c.op = r.op /\ c.via = r.via /\ (c.capture => c.op = "prefetch" /\ c.staged = 1)
  BY <1>4, <1>5, <1>7
<1> HIDE DEF c
<1>9. Needs(r.op) = "recall" /\ r.via <= Len(granted)
  BY <1>1, <1>2 DEF Sound, KeepsToItsPath, KeepsToItsGrant
<1>10. Sound(c)
  BY <1>6, <1>7, <1>8, <1>9
     DEF Sound, KeepsToItsPath, KeepsToItsGrant, Checked, KeepsToItsStages
<1> QED
  BY <1>2, <1>10, OneCall DEF c, s, r

\* So has one whose memories were formatted.
LEMMA FormatSound ==
  ASSUME CallsInv, NEW t \in Thread, NEW n \in 1..MaxMemories, Format(t, n)
  PROVE  CallsInv'
<1> DEFINE r == call[t]
           s == Staged(r)
           c == [s EXCEPT !.at = "shown", !.memories = n]
<1>1. Sound(r) /\ r \in CallRecord
  BY SoundFields
<1>2. /\ call' = [call EXCEPT ![t] = c] /\ UNCHANGED handle
      /\ r.at = "formatting"
  BY DEF Format, Becomes
<1>3. s \in CallRecord
  BY <1>1, StagedFields
<1>4. /\ s.staged = IF r.capture THEN r.staged + 1 ELSE r.staged
      /\ s.via = r.via /\ s.capture = r.capture /\ s.op = r.op
  BY <1>1, StagedFields
<1>5. r.capture => r.op = "prefetch" /\ r.staged = 0
  BY <1>1, <1>2, UnderWay
<1> HIDE DEF s
<1>6. c \in CallRecord
  <2>1. n \in Nat
    BY ProviderCallsAssumption
  <2> QED
    BY <1>3, <2>1 DEF CallRecord, CallStep
<1>7. /\ c.at = "shown" /\ c.via = s.via /\ c.capture = s.capture /\ c.op = s.op
      /\ c.staged = s.staged
  BY <1>3 DEF CallRecord
<1>8. c.op = r.op /\ c.via = r.via /\ (c.capture => c.op = "prefetch" /\ c.staged = 1)
  BY <1>4, <1>5, <1>7
<1> HIDE DEF c
<1>9. Needs(r.op) = "recall" /\ r.via <= Len(granted)
  BY <1>1, <1>2 DEF Sound, KeepsToItsPath, KeepsToItsGrant
<1>10. Sound(c)
  BY <1>6, <1>7, <1>8, <1>9
     DEF Sound, KeepsToItsPath, KeepsToItsGrant, Checked, KeepsToItsStages
<1> QED
  BY <1>2, <1>10, OneCall DEF c, s, r

\* Whatever a call does next, what the calls keep is kept.
LEMMA CallsStep ==
  ASSUME CallsInv, NEW t \in Thread, Call(t)
  PROVE  CallsInv'
<1>1. Sound(call[t]) /\ call[t] \in CallRecord
  BY SoundFields
<1>2. call[t].capture => call[t].op = "prefetch" /\ call[t].at \notin {"entered", "sighted", "planning"}
  BY <1>1 DEF Sound, KeepsToItsStages
<1>3. ASSUME NEW op \in Operation(t), RefuseArguments(t, op) PROVE CallsInv'
  <2> DEFINE r == [NoCall EXCEPT !.op = op]
  <2>1. op \in {"recall", "reflect", "mental_models", "retain", "sync_turn"}
    BY <1>3 DEF RefuseArguments, Operation
  <2>2. NoCall \in CallRecord
    BY DEF NoCall, CallRecord, CallStep, Unset
  <2>3. r \in CallRecord /\ ~r.capture
    BY <2>1, <2>2 DEF CallRecord, NoCall
  <2>4. Sound(Answered(r, "invalid"))
    BY <2>3, EndsUnstaged DEF Answers
  <2>5. call' = [call EXCEPT ![t] = Answered(r, "invalid")] /\ UNCHANGED handle
    BY <1>3 DEF RefuseArguments, Answer, Becomes
  <2> QED
    BY <2>4, <2>5, OneCall
<1>4. CASE SeeEnabled(t)
  <2>1. Advance(t, "entered", "sighted") \/ Answer(t, "entered", call[t], "inert")
    BY <1>4 DEF SeeEnabled
  <2>2. Needs(call[t].op) = "recall"
    BY <1>1, <2>1 DEF Advance, Answer, Becomes, Sound, KeepsToItsPath
  <2>3. CASE Advance(t, "entered", "sighted")
    <3>1. ~call[t].capture
      BY <1>2, <2>3 DEF Advance, Becomes
    <3> QED
      BY <2>2, <2>3, <3>1, AdvanceOn DEF CallStep
  <2>4. CASE Answer(t, "entered", call[t], "inert")
    BY <2>4, AnswerUnstaged DEF CallStep, Answers
  <2> QED
    BY <2>1, <2>3, <2>4
<1>5. CASE SeeRuntime(t)
  <2>1. \/ call[t].op = "prefetch" /\ Advance(t, "sighted", "planning")
        \/ call[t].op # "prefetch" /\ Advance(t, "sighted", "projecting")
        \/ Answer(t, "sighted", call[t], "inert")
    BY <1>5 DEF SeeRuntime
  <2>2. call[t].at = "sighted" /\ Needs(call[t].op) = "recall"
    BY <1>1, <2>1 DEF Advance, Answer, Becomes, Sound, KeepsToItsPath
  <2>3. ~call[t].capture /\ call[t].op # "reflect"
    BY <1>2, <2>2 DEF Needs
  <2>4. CASE call[t].op = "prefetch" /\ Advance(t, "sighted", "planning")
    BY <2>2, <2>3, <2>4, AdvanceOn DEF CallStep
  <2>5. CASE call[t].op # "prefetch" /\ Advance(t, "sighted", "projecting")
    BY <2>2, <2>3, <2>5, AdvanceOn DEF CallStep
  <2>6. CASE Answer(t, "sighted", call[t], "inert")
    BY <2>6, AnswerUnstaged DEF CallStep, Answers
  <2> QED
    BY <2>1, <2>4, <2>5, <2>6
<1>6. CASE NoQuery(t)
  <2>1. Answer(t, "planning", call[t], "nothing")
    BY <1>6 DEF NoQuery
  <2>2. ~call[t].capture
    BY <1>2, <2>1 DEF Answer, Becomes
  <2> QED
    BY <2>1, <2>2, AnswerUnstaged DEF CallStep, Answers
<1>7. ASSUME NEW capture \in BOOLEAN, NEW ends \in BOOLEAN, Consume(t, capture, ends)
      PROVE  CallsInv'
  <2>1. CASE call[t].late \/ ends
    <3> DEFINE r == [call[t] EXCEPT !.capture = capture]
    <3>1. Answer(t, "planning", Staged(r), "nothing")
      BY <1>1, <1>7, <2>1 DEF Consume, CallRecord
    <3>2. call[t].at = "planning"
      BY <3>1 DEF Answer, Becomes
    <3>3. call[t].op = "prefetch" /\ call[t].staged = 0
      BY <1>1, <3>2 DEF Sound, KeepsToItsPath, KeepsToItsStages
    <3>4. r \in CallRecord
      BY <1>1 DEF CallRecord
    <3>5. r.op = "prefetch" /\ r.staged = 0
      BY <1>1, <3>3 DEF CallRecord
    <3>6. call' = [call EXCEPT ![t] = Answered(Staged(r), "nothing")] /\ UNCHANGED handle
      BY <3>1 DEF Answer, Becomes
    <3> HIDE DEF r
    <3>7. Sound(Answered(Staged(r), "nothing"))
      BY <3>4, <3>5, EndsStaged DEF Answers
    <3> QED
      BY <3>6, <3>7, OneCall
  <2>2. CASE ~(call[t].late \/ ends)
    BY <1>7, <2>2, ConsumeSound
  <2> QED
    BY <2>1, <2>2
<1>8. CASE Project(t)
  <2>1. \/ call[t].op = "reflect" /\ Advance(t, "projecting", "calling")
        \/ call[t].op # "reflect" /\ Advance(t, "projecting", "rereading")
    BY <1>8 DEF Project
  <2>2. call[t].at = "projecting"
    BY <2>1 DEF Advance, Becomes
  <2>3. CASE call[t].op = "reflect" /\ Advance(t, "projecting", "calling")
    <3>1. call[t].via \in open => Needs(call[t].op) \in granted[call[t].via]
      BY <1>1, <2>2, <2>3 DEF Sound, KeepsToItsGrant, Checked
    <3> QED
      BY <2>3, <3>1, AdvanceOn DEF CallStep
  <2>4. CASE call[t].op # "reflect" /\ Advance(t, "projecting", "rereading")
    <3>1. Needs(call[t].op) = "recall"
      BY <1>1, <2>2, <2>4 DEF Sound, KeepsToItsPath
    <3> QED
      BY <2>4, <3>1, AdvanceOn DEF CallStep
  <2> QED
    BY <2>1, <2>3, <2>4
<1>9. CASE ProjectFails(t)
  BY <1>9, AnswerStaged DEF ProjectFails, CallStep, Answers
<1>10. CASE ProjectLate(t)
  BY <1>10, AnswerStaged DEF ProjectLate, CallStep, Answers
<1>11. CASE CheckEnabled(t)
  <2>1. \/ Usable(call[t]) /\ call[t].op = "reflect" /\ Advance(t, "checking", "projecting")
        \/ Usable(call[t]) /\ call[t].op # "reflect" /\ Advance(t, "checking", "calling")
        \/ Answer(t, "checking", call[t], "inert")
    BY <1>11 DEF CheckEnabled
  <2>2. Usable(call[t]) => (call[t].via \in open => Needs(call[t].op) \in granted[call[t].via])
    BY SoundFields DEF Usable
  <2>3. CASE Usable(call[t]) /\ call[t].op = "reflect" /\ Advance(t, "checking", "projecting")
    BY <2>2, <2>3, AdvanceOn DEF CallStep
  <2>4. CASE Usable(call[t]) /\ call[t].op # "reflect" /\ Advance(t, "checking", "calling")
    BY <2>2, <2>4, AdvanceOn DEF CallStep
  <2>5. CASE Answer(t, "checking", call[t], "inert")
    BY <2>5, AnswerUnstaged DEF CallStep, Answers
  <2> QED
    BY <2>1, <2>3, <2>4, <2>5
<1>12. CASE Decline(t)
  <2>1. ~call[t].capture
    BY <1>2, <1>12 DEF Decline
  <2> QED
    BY <1>12, <2>1, AnswerUnstaged DEF Decline, CallStep, Answers
<1>13. CASE Reach(t)
  <2>1. Advance(t, "calling", "exchanging") /\ call[t].via \in open
    BY <1>13 DEF Reach
  <2>2. Needs(call[t].op) \in granted[call[t].via]
    BY <1>1, <2>1 DEF Advance, Becomes, Sound, KeepsToItsGrant, Checked
  <2>3. call[t].via # Unset
    BY <2>1, SoundFields
  <2> QED
    BY <2>1, <2>2, <2>3, AdvanceOn DEF CallStep
<1>14. ASSUME NEW answer \in {"unavailable", "unconfirmed", "rejected"}, ReachFails(t, answer)
       PROVE  CallsInv'
  BY <1>14, AnswerStaged DEF ReachFails, CallStep, Answers
<1>15. CASE RecallFails(t)
  BY <1>15, AnswerStaged DEF RecallFails, CallStep, Answers
<1>16. CASE RecallEmpty(t)
  <2>1. CASE call[t].late
    BY <1>16, <2>1, AnswerStaged DEF RecallEmpty, CallStep, Answers
  <2>2. CASE ~call[t].late
    BY <1>16, <2>2, EmptySound
  <2> QED
    BY <2>1, <2>2
<1>17. CASE RecallAnswers(t)
  <2>1. Advance(t, "exchanging", "formatting") /\ Needs(call[t].op) = "recall"
    BY <1>17 DEF RecallAnswers
  <2>2. call[t].via # Unset /\ Needs(call[t].op) \in granted[call[t].via]
    BY <1>1, <2>1 DEF Advance, Becomes, Sound, KeepsToItsGrant
  <2> QED
    BY <2>1, <2>2, AdvanceOn DEF CallStep
<1>18. CASE FormatFails(t)
  BY <1>18, AnswerStaged DEF FormatFails, CallStep, Answers
<1>19. CASE Show(t)
  <2>1. call[t].at = "shown" /\ UNCHANGED handle
        /\ call' = [call EXCEPT ![t] = Answered(call[t], "memories")]
    BY <1>19 DEF Show, Becomes
  <2>2. call[t].capture => call[t].op = "prefetch" /\ call[t].staged = 1
    BY <1>1, <2>1 DEF Sound, KeepsToItsStages
  <2>3. Sound(Answered(call[t], "memories"))
    BY <1>1, <2>2, AnsweredFields, ReturnedIsSound DEF Answers
  <2> QED
    BY <2>1, <2>3, OneCall
<1>20. CASE VerifyVersion(t)
  BY <1>20 DEF VerifyVersion, CallsInv, LatestIsOpen, CallsAreSound, Sound, KeepsToItsPath,
     KeepsToItsGrant, Checked, KeepsToItsStages, handle
<1>21. CASE Reflect(t)
  BY <1>2, <1>21, AnswerUnstaged DEF Reflect, CallStep, Answers
<1>22. CASE ReflectFails(t)
  BY <1>2, <1>22, AnswerUnstaged DEF ReflectFails, CallStep, Answers
<1>23. ASSUME NEW answer \in {"ok", "unavailable", "unconfirmed"}, CallModels(t, answer)
       PROVE  CallsInv'
  BY <1>2, <1>23, AnswerUnstaged DEF CallModels, CallStep, Answers
<1>24. ASSUME NEW answer \in {"queued_locally", "already_queued", "rejected"}, Admit(t, answer)
       PROVE  CallsInv'
  <2>1. ~call[t].capture
    BY <1>2, <1>24 DEF Admit, Needs
  <2> QED
    BY <1>24, <2>1, AnswerUnstaged DEF Admit, CallStep, Answers
<1> QED
  BY <1>3, <1>4, <1>5, <1>6, <1>7, <1>8, <1>9, <1>10, <1>11, <1>12, <1>13, <1>14, <1>15, <1>16,
     <1>17, <1>18, <1>19, <1>20, <1>21, <1>22, <1>23, <1>24,
     EntersSound, PrefetchSound, ExpireSound, RereadSound, ReadRuntimeSound, FormatSound DEF Call

-----------------------------------------------------------------------------
(***************************************************************************)
(* initialize and shutdown.                                                *)
(***************************************************************************)
\* An authorization that is dropped takes no checked call with it, and none
\* goes through one that is yet to come.
LEMMA LifecycleKeepsCalls ==
  ASSUME CallsInv, call' = call,
         \/ granted' = granted /\ open' \subseteq open
         \/ \E grant \in SUBSET Capability :
              granted' = Append(granted, grant) /\ open' = open \cup {Len(granted) + 1}
  PROVE  CallsAreSound'
<1> SUFFICES ASSUME NEW t \in Thread PROVE Sound(call[t])'
  BY DEF CallsInv, CallsAreSound
<1>1. Sound(call[t]) /\ call[t] \in CallRecord
  BY SoundFields
<1>2. call[t].via \in Nat /\ call[t].via <= Len(granted)
  BY <1>1 DEF CallRecord, Sound, KeepsToItsGrant
<1>3. KeepsToItsGrant(call[t])'
  <2>1. CASE granted' = granted /\ open' \subseteq open
    BY <1>1, <2>1 DEF Sound, KeepsToItsGrant, Checked, Needs
  <2>2. ASSUME NEW grant \in SUBSET Capability, granted' = Append(granted, grant),
               open' = open \cup {Len(granted) + 1}
        PROVE  KeepsToItsGrant(call[t])'
    <3>1. Len(granted') = Len(granted) + 1 /\ Len(granted) \in Nat
      BY <2>2, SoundFields
    <3>2. call[t].via # Unset => granted'[call[t].via] = granted[call[t].via]
      BY <1>2, <2>2, SoundFields DEF Unset
    <3>3. call[t].via \in open' => call[t].via \in open /\ call[t].via # Unset
      BY <1>2, <2>2, SoundFields
    <3> QED
      BY <1>1, <1>2, <3>1, <3>2, <3>3 DEF Sound, KeepsToItsGrant, Checked, Needs
  <2> QED
    BY <2>1, <2>2
<1> QED
  BY <1>1, <1>3 DEF Sound, KeepsToItsPath, KeepsToItsStages, Needs

LEMMA LifecycleStep ==
  ASSUME CallsInv, Lifecycle
  PROVE  CallsInv'
<1>1. /\ granted \in Seq(SUBSET Capability) /\ Len(granted) \in Nat
      /\ open \subseteq {Len(granted)} \ {Unset} /\ LatestIsOpen
  BY DEF CallsInv, LatestIsOpen
<1>2. ASSUME NEW grant \in Grants, Authorize(grant) PROVE CallsInv'
  <2>1. /\ grant \in SUBSET Capability /\ call' = call
        /\ granted' = Append(granted, grant) /\ open' = open \cup {Len(granted) + 1}
    BY <1>2, ProviderCallsAssumption DEF Authorize
  <2>2. CallsAreSound'
    BY <2>1, LifecycleKeepsCalls
  <2>3. granted' \in Seq(SUBSET Capability) /\ Len(granted') = Len(granted) + 1
    BY <1>1, <2>1
  <2>4. open = {} /\ enabled = {} /\ runtime \in Nat /\ runtime <= Len(granted)
        /\ lifecycle = "inactive"
    BY <1>1, <1>2 DEF Authorize, LatestIsOpen
  <2>5. configured' \in BOOLEAN
    BY <1>2 DEF Authorize
  <2>6. LatestIsOpen'
    BY <1>1, <1>2, <2>1, <2>3, <2>4, <2>5 DEF Authorize, LatestIsOpen, Unset
  <2> QED
    BY <2>2, <2>6 DEF CallsInv
<1>3. CASE Deactivate \/ Disable \/ DropRuntime \/ CloseHandle \/ StayInactive \/ Enable \/ Publish
  <2>1. call' = call /\ granted' = granted /\ open' \subseteq open
    BY <1>3 DEF Deactivate, Disable, DropRuntime, CloseHandle, StayInactive, Enable, Publish
  <2>2. CallsAreSound'
    BY <2>1, LifecycleKeepsCalls
  <2>3. LatestIsOpen'
    <3>1. CASE Deactivate
      <4>1. configured' \in BOOLEAN
        BY <3>1 DEF Deactivate
      <4> QED
        BY <1>1, <3>1, <4>1 DEF Deactivate, LatestIsOpen
    <3>2. CASE Disable
      BY <1>1, <3>2 DEF Disable, LatestIsOpen
    <3>3. CASE DropRuntime
      BY <1>1, <3>3 DEF DropRuntime, LatestIsOpen, Unset
    <3>4. CASE CloseHandle
      BY <1>1, <3>4 DEF CloseHandle, LatestIsOpen
    <3>5. CASE StayInactive
      BY <1>1, <3>5 DEF StayInactive, LatestIsOpen
    <3>6. CASE Enable
      <4>1. Len(granted) \in 1..Len(granted) /\ enabled' = granted[Len(granted)]
        BY <1>1, <3>6 DEF Enable, LatestIsOpen, Unset
      <4>2. enabled' \subseteq Capability
        BY <1>1, <4>1
      <4> QED
        BY <1>1, <3>6, <4>1, <4>2 DEF Enable, LatestIsOpen
    <3>7. CASE Publish
      BY <1>1, <3>7 DEF Publish, LatestIsOpen
    <3> QED
      BY <1>3, <3>1, <3>2, <3>3, <3>4, <3>5, <3>6, <3>7
  <2> QED
    BY <2>2, <2>3 DEF CallsInv
<1> QED
  BY <1>2, <1>3 DEF Lifecycle

LEMMA CallsNextStep ==
  ASSUME CallsInv, [ProviderCallsNext]_providerCallsVars
  PROVE  CallsInv'
<1>1. CASE UNCHANGED providerCallsVars
  BY <1>1 DEF providerCallsVars, CallsInv, LatestIsOpen, CallsAreSound, Sound, KeepsToItsPath,
     KeepsToItsGrant, Checked, KeepsToItsStages, Needs
<1> QED
  BY <1>1, CallsStep, LifecycleStep DEF ProviderCallsNext

\* The count and the prompt change together but for a shutdown, which resets
\* the count alone.
LEMMA StatusStep ==
  ASSUME StatusDescribesInjection, [ProviderCallsNext]_providerCallsVars
  PROVE  StatusDescribesInjection'
<1>1. \/ UNCHANGED <<recallCount, injected>>
      \/ recallCount' = 0
      \/ recallCount' = injected'
  <2>1. CASE Lifecycle
    BY <2>1 DEF Lifecycle, Deactivate, Disable, DropRuntime, CloseHandle, StayInactive, Authorize,
       Enable, Publish
  <2>2. ASSUME NEW t \in Thread, Call(t)
        PROVE  UNCHANGED <<recallCount, injected>> \/ recallCount' = 0 \/ recallCount' = injected'
    <3>1. CASE Show(t)
      BY <3>1 DEF Show
    <3>2. CASE Prefetch(t)
      BY <3>2 DEF Prefetch
    <3>3. CASE VerifyVersion(t) \/ Expire(t) \/ Reread(t) \/ ReadRuntime(t)
      BY <3>3 DEF VerifyVersion, Expire, Reread, ReadRuntime, outcomes
    <3> QED
      BY <2>2, <3>1, <3>2, <3>3 DEF Call, Answer, Advance, RefuseArguments, Enter, SeeEnabled,
         SeeRuntime, NoQuery, Consume, Project, ProjectFails, ProjectLate, CheckEnabled, Decline,
         Reach, ReachFails, RecallFails, RecallEmpty, RecallAnswers, FormatFails, Format, Reflect,
         ReflectFails, CallModels, Admit, outcomes
  <2> QED
    BY <2>1, <2>2 DEF ProviderCallsNext, providerCallsVars
<1> QED
  BY <1>1 DEF StatusDescribesInjection

\* The records of the calls keep what they say of the handle, for every
\* interleaving of threads, shutdowns and initializations.
THEOREM CallsInvariant == ProviderCallsSpec => []CallsInv
<1> QED
  BY CallsInitially, CallsNextStep, PTL DEF ProviderCallsSpec

\* A call reaches the runtime only for what the authorization it goes through
\* allows (CapabilityBindsCall).
THEOREM CapabilityBinds == ProviderCallsSpec => []CapabilityBindsCall
<1>1. CallsInv => CapabilityBindsCall
  BY DEF CallsInv, CallsAreSound, Sound, KeepsToItsGrant, CapabilityBindsCall
<1> QED
  BY <1>1, CallsInvariant, PTL

\* recall_status never speaks of memories another recall found
\* (StatusDescribesInjection).
THEOREM StatusIsOfThePrompt == ProviderCallsSpec => []StatusDescribesInjection
<1> QED
  BY CallsInitially, StatusStep, PTL DEF ProviderCallsSpec

\* A captured recall is staged exactly once, whichever way it ends
\* (CapturesAreStaged).
THEOREM CapturesStagedOnce == ProviderCallsSpec => []CapturesAreStaged
<1>1. CallsInv => CapturesAreStaged
  BY DEF CallsInv, CallsAreSound, Sound, KeepsToItsStages, CapturesAreStaged, Thread
<1> QED
  BY <1>1, CallsInvariant, PTL

-----------------------------------------------------------------------------
(***************************************************************************)
(* The decisions of the hooks.  Hooks share the slot of the shadow rewrite *)
(* and nothing else: what is known of a hook speaks of its own entries and *)
(* of whether it holds the slot.                                           *)
(***************************************************************************)
Decisions == {None} \cup [action : PlanAction, query : {"none", "own", "rewritten"}]

HookRecord == [at : HookStep, internal : BOOLEAN, late : BOOLEAN, decision : Decisions]

Outcome ==
  {"built", "internal_message", "planned", "error", "timeout", "invalid", "failed", "none", "skip",
   "reuse", "recall", "published", "lost", "busy", "unavailable"}

StageRecord == [Stage -> Seq(Outcome)]

PlannerTypeOK ==
  /\ rewrite \in {"off", "on", "shadow"}
  /\ hook \in [Hook -> HookRecord]
  /\ worker \in [Hook -> {"none", "running", "releasing"}]
  /\ stages \in [Hook -> StageRecord]
  /\ plan \in [Hook -> Decisions]
  /\ heard \in [Hook -> SUBSET (PlanAction \cup {"rewritten"})]

\* Why a hook may decide what it does (FailuresRecall).
Justified(h, d) ==
  d # None =>
    \/ hook[h].internal /\ d.action = "skip"
    \/ /\ d.action \in heard[h]
       /\ d.action = "recall" =>
            IF rewrite = "on" THEN d.query = "rewritten" /\ "rewritten" \in heard[h]
                              ELSE d.query = "own"

DecidesWithReason(h) == Justified(h, plan[h]) /\ Justified(h, hook[h].decision)

Asked(h) == rewrite = "on" /\ "recall" \in heard[h]
Observed(h) == rewrite = "shadow" /\ plan[h].action = "recall"

Unasked == {"off", "begun", "reserved", "asking"}
Decided == {"concluding", "cancelling", "publishing", "submitting", "starting"}

\* The rewriter is asked after Jev chose recall, and staged once.
AsksInOrder(h) ==
  /\ hook[h].at \in Unasked =>
       heard[h] = {} /\ hook[h].decision = None /\ stages[h].rewrite = <<>>
  /\ hook[h].at = "rewriting" =>
       Asked(h) /\ hook[h].decision = None /\ stages[h].rewrite = <<>>
  /\ hook[h].at \in Decided => Len(stages[h].rewrite) = IF Asked(h) THEN 1 ELSE 0

\* What TurnIsStaged says of a turn but for the slot.
TurnIsTold(h) ==
  /\ Len(stages[h].plan) = 1
  /\ stages[h].handoff = (IF stages[h].plan = <<"none">> THEN <<>>
                          ELSE IF plan[h] # None THEN <<"published">> ELSE <<"lost">>)
  /\ plan[h] # None => stages[h].plan = <<plan[h].action>>
  /\ Len(stages[h].rewrite) =
       (IF Asked(h) \/ (Observed(h) /\ worker[h] # "running") THEN 1 ELSE 0)

\* The mailbox is given the decision that was staged, once.
HandsOffInOrder(h) ==
  /\ hook[h].at \in Unasked \cup {"rewriting", "concluding"} =>
       stages[h].plan = <<>> /\ stages[h].handoff = <<>> /\ plan[h] = None
  /\ hook[h].at = "cancelling" =>
       stages[h].plan = <<"none">> /\ stages[h].handoff = <<>> /\ plan[h] = None
  /\ hook[h].at = "publishing" =>
       /\ hook[h].decision # None /\ stages[h].plan = <<hook[h].decision.action>>
       /\ stages[h].handoff = <<>> /\ plan[h] = None
  /\ hook[h].at \in {"submitting", "starting"} =>
       /\ plan[h] # None /\ stages[h].plan = <<plan[h].action>>
       /\ stages[h].handoff = <<"published">> /\ Observed(h)
  /\ hook[h].at = "done" => stages[h].plan = <<>> \/ TurnIsTold(h)

\* A shadow thread belongs to a turn that was observed, and holds the slot.
ShadowHoldsSlot(h) ==
  /\ worker[h] # "none" =>
       hook[h].at = "done" /\ stages[h].plan # <<>> /\ plan[h] # None /\ Observed(h)
  /\ slot = h <=> worker[h] # "none" \/ hook[h].at = "starting"

HookSound(h) ==
  DecidesWithReason(h) /\ AsksInOrder(h) /\ HandsOffInOrder(h) /\ ShadowHoldsSlot(h)

PlannerInv == PlannerTypeOK /\ \A h \in Hook : HookSound(h)

-----------------------------------------------------------------------------
\* What a step of a hook leaves alone.
OnlyHook(h) ==
  /\ rewrite' = rewrite
  /\ \A g \in Hook \ {h} :
       /\ hook'[g] = hook[g] /\ worker'[g] = worker[g] /\ stages'[g] = stages[g]
       /\ plan'[g] = plan[g] /\ heard'[g] = heard[g]
       /\ slot' = g <=> slot = g

LEMMA OneHook ==
  ASSUME PlannerInv, NEW h \in Hook, PlannerTypeOK', OnlyHook(h), HookSound(h)'
  PROVE  PlannerInv'
<1> SUFFICES ASSUME NEW g \in Hook \ {h} PROVE HookSound(g)'
  BY DEF PlannerInv
<1>1. /\ hook'[g] = hook[g] /\ worker'[g] = worker[g] /\ stages'[g] = stages[g]
      /\ plan'[g] = plan[g] /\ heard'[g] = heard[g]
      /\ slot' = g <=> slot = g
      /\ rewrite' = rewrite
  BY DEF OnlyHook
<1>2. DecidesWithReason(g) /\ AsksInOrder(g) /\ HandsOffInOrder(g) /\ ShadowHoldsSlot(g)
  BY DEF PlannerInv, HookSound
<1>3. DecidesWithReason(g)'
  BY <1>1, <1>2 DEF DecidesWithReason, Justified
<1>4. AsksInOrder(g)'
  BY <1>1, <1>2 DEF AsksInOrder, Asked
<1>5. HandsOffInOrder(g)'
  BY <1>1, <1>2 DEF HandsOffInOrder, TurnIsTold, Asked, Observed
<1>6. ShadowHoldsSlot(g)'
  BY <1>1, <1>2 DEF ShadowHoldsSlot, Observed
<1> QED
  BY <1>3, <1>4, <1>5, <1>6 DEF HookSound

\* The fields of a hook after it moved, and after it decided.
Becoming(h, at, decision) ==
  /\ hook' \in [Hook -> HookRecord]
  /\ hook'[h].at = at /\ hook'[h].decision = decision
  /\ hook'[h].internal = hook[h].internal /\ hook'[h].late = hook[h].late
  /\ \A g \in Hook \ {h} : hook'[g] = hook[g]

LEMMA MovesFields ==
  ASSUME PlannerTypeOK, NEW h \in Hook, NEW from, NEW to \in HookStep, HookMoves(h, from, to)
  PROVE  Becoming(h, to, hook[h].decision) /\ hook[h].at = from
<1> DEFINE r == [hook[h] EXCEPT !.at = to]
<1>1. hook[h] \in HookRecord
  BY DEF PlannerTypeOK
<1>2. /\ r \in HookRecord
      /\ r.at = to /\ r.decision = hook[h].decision
      /\ r.internal = hook[h].internal /\ r.late = hook[h].late
  BY <1>1 DEF HookRecord
<1>3. hook' = [hook EXCEPT ![h] = r] /\ hook[h].at = from
  BY DEF HookMoves
<1> HIDE DEF r
<1> QED
  BY <1>2, <1>3 DEF Becoming, PlannerTypeOK

LEMMA DecidesFields ==
  ASSUME PlannerTypeOK, NEW h \in Hook, NEW from, NEW d \in Decisions, Decides(h, from, d)
  PROVE  Becoming(h, "concluding", d) /\ hook[h].at = from
<1> DEFINE r == [hook[h] EXCEPT !.at = "concluding", !.decision = d]
<1>1. hook[h] \in HookRecord
  BY DEF PlannerTypeOK
<1>2. /\ r \in HookRecord
      /\ r.at = "concluding" /\ r.decision = d
      /\ r.internal = hook[h].internal /\ r.late = hook[h].late
  BY <1>1 DEF HookRecord, HookStep
<1>3. hook' = [hook EXCEPT ![h] = r] /\ hook[h].at = from
  BY DEF Decides
<1> HIDE DEF r
<1> QED
  BY <1>2, <1>3 DEF Becoming, PlannerTypeOK

\* The five stages of a turn after one of them was staged.
StagedAs(h, stage, o) ==
  /\ stages' \in [Hook -> StageRecord]
  /\ stages'[h].rewrite = IF stage = "rewrite" THEN Append(stages[h].rewrite, o) ELSE stages[h].rewrite
  /\ stages'[h].plan = IF stage = "plan" THEN Append(stages[h].plan, o) ELSE stages[h].plan
  /\ stages'[h].handoff = IF stage = "handoff" THEN Append(stages[h].handoff, o) ELSE stages[h].handoff
  /\ \A g \in Hook \ {h} : stages'[g] = stages[g]

LEMMA StagingFields ==
  ASSUME PlannerTypeOK, NEW h \in Hook, NEW stage \in Stage, NEW o \in Outcome,
         Staging(h, stage, o)
  PROVE  StagedAs(h, stage, o)
<1> DEFINE s == [stages[h] EXCEPT ![stage] = Append(@, o)]
<1>1. stages \in [Hook -> StageRecord] /\ stages[h] \in [Stage -> Seq(Outcome)]
  BY DEF PlannerTypeOK, StageRecord
<1>2. Append(stages[h][stage], o) \in Seq(Outcome)
  BY <1>1
<1>3. s \in [Stage -> Seq(Outcome)]
  BY <1>1, <1>2
<1>4. s[stage] = Append(stages[h][stage], o) /\ \A k \in Stage : k # stage => s[k] = stages[h][k]
  BY <1>1
<1>5. stages' = [stages EXCEPT ![h] = s]
  BY DEF Staging
<1> HIDE DEF s
<1>6. stages' \in [Hook -> StageRecord] /\ stages'[h] = s /\ \A g \in Hook \ {h} : stages'[g] = stages[g]
  BY <1>1, <1>3, <1>5 DEF StageRecord
<1>7. "rewrite" \in Stage /\ "plan" \in Stage /\ "handoff" \in Stage
  BY DEF Stage
<1> QED
  BY <1>4, <1>6, <1>7 DEF StagedAs

\* A step that stages none of the last three.
StagesKept(h) ==
  /\ stages' \in [Hook -> StageRecord]
  /\ stages'[h].rewrite = stages[h].rewrite /\ stages'[h].plan = stages[h].plan
  /\ stages'[h].handoff = stages[h].handoff
  /\ \A g \in Hook \ {h} : stages'[g] = stages[g]

LEMMA KeepsStages ==
  ASSUME PlannerTypeOK, NEW h \in Hook,
         \/ UNCHANGED stages
         \/ \E o \in Outcome : Staging(h, "input", o) \/ Staging(h, "decision", o)
  PROVE  StagesKept(h)
<1>1. CASE UNCHANGED stages
  BY <1>1 DEF StagesKept, PlannerTypeOK
<1>2. ASSUME NEW o \in Outcome, Staging(h, "input", o) \/ Staging(h, "decision", o)
      PROVE  StagesKept(h)
  <2>1. StagedAs(h, "input", o) \/ StagedAs(h, "decision", o)
    BY <1>2, StagingFields DEF Stage
  <2> QED
    BY <2>1 DEF StagedAs, StagesKept
<1> QED
  BY <1>1, <1>2

\* None is not an action, and is the only decision without one.
LEMMA DecisionFields ==
  /\ None \in Decisions /\ None.action = "none"
  /\ \A d \in Decisions : d.action \in Outcome /\ (d # None <=> d.action \in PlanAction)
  /\ \A a \in PlanAction : a # "none" /\ <<a>> # <<"none">>
<1>1. None \in Decisions /\ None.action = "none"
  BY DEF Decisions, None
<1>2. \A a \in PlanAction : a # "none" /\ <<a>> # <<"none">>
  BY DEF PlanAction
<1>3. ASSUME NEW d \in Decisions
      PROVE  d.action \in Outcome /\ (d # None <=> d.action \in PlanAction)
  BY <1>1, <1>2, <1>3 DEF Decisions, PlanAction, Outcome
<1> QED
  BY <1>1, <1>2, <1>3

LEMMA AppendFirst ==
  ASSUME NEW o
  PROVE  Append(<<>>, o) = <<o>> /\ Len(<<o>>) = 1 /\ <<o>> # <<>> /\ Len(<<>>) = 0
  OBVIOUS

-----------------------------------------------------------------------------
\* A hook keeps its order up to its decision.
LEMMA HookDecides ==
  ASSUME PlannerInv, NEW h \in Hook,
         \/ HookStarts(h) \/ HookReserves(h) \/ PassesBy(h) \/ PlannerDeadline(h)
         \/ BuildCapsule(h) \/ BuildCapsuleLate(h) \/ SkipInternal(h) \/ CapsuleFails(h)
         \/ \E action \in PlanAction : JevDecides(h, action)
         \/ \E outcome \in {"error", "timeout"} : JevFails(h, outcome)
         \/ \E outcome \in {"planned", "invalid", "failed", "timeout"} : RewriteInPlan(h, outcome)
  PROVE  PlannerInv'
<1> USE DEF Becoming, StagesKept, StagedAs, Asked, Observed, Unasked, Decided
<1>1. /\ PlannerInv /\ PlannerTypeOK /\ DecidesWithReason(h) /\ AsksInOrder(h)
      /\ HandsOffInOrder(h) /\ ShadowHoldsSlot(h)
  BY DEF PlannerInv, HookSound
<1>2. CASE HookStarts(h)
  <2> PICK internal \in BOOLEAN :
             hook' = [hook EXCEPT ![h].at = "begun", ![h].internal = internal]
    BY <1>2 DEF HookStarts
  <2> DEFINE r == [hook[h] EXCEPT !.at = "begun", !.internal = internal]
  <2>1. hook[h] \in HookRecord /\ hook[h].at = "off"
    BY <1>1, <1>2 DEF HookStarts, PlannerTypeOK
  <2>2. r \in HookRecord /\ r.at = "begun" /\ r.decision = hook[h].decision
    BY <2>1 DEF HookRecord, HookStep
  <2>3. hook' = [hook EXCEPT ![h] = r]
    OBVIOUS
  <2> HIDE DEF r
  <2>4. /\ hook' \in [Hook -> HookRecord] /\ hook'[h].at = "begun"
        /\ hook'[h].decision = hook[h].decision
        /\ \A g \in Hook \ {h} : hook'[g] = hook[g]
    <3>1. hook \in [Hook -> HookRecord] /\ r \in HookRecord
      BY <1>1, <2>2 DEF PlannerTypeOK
    <3>2. hook' \in [Hook -> HookRecord] /\ hook'[h] = r /\ \A g \in Hook \ {h} : hook'[g] = hook[g]
      BY <2>3, <3>1
    <3> QED
      BY <2>2, <3>2
  <2>5. UNCHANGED <<rewrite, worker, slot, stages, plan, heard>>
    BY <1>2 DEF HookStarts
  <2>6. PlannerTypeOK' /\ OnlyHook(h)
    BY <1>1, <2>4, <2>5 DEF PlannerTypeOK, OnlyHook
  <2>7. HookSound(h)'
    BY <1>1, <2>1, <2>4, <2>5
       DEF HookSound, DecidesWithReason, Justified, AsksInOrder, HandsOffInOrder, ShadowHoldsSlot
  <2> QED
    BY <1>1, <2>6, <2>7, OneHook
<1>3. CASE HookReserves(h) \/ BuildCapsule(h)
  <2>1. /\ Becoming(h, "reserved", hook[h].decision) \/ Becoming(h, "asking", hook[h].decision)
        /\ hook[h].at \in Unasked
    BY <1>1, <1>3, MovesFields DEF HookReserves, BuildCapsule, HookStep
  <2>2. StagesKept(h)
    BY <1>1, <1>3, KeepsStages DEF HookReserves, BuildCapsule, Outcome
  <2>3. UNCHANGED <<rewrite, worker, slot, plan, heard>>
    BY <1>3 DEF HookReserves, BuildCapsule
  <2>4. PlannerTypeOK' /\ OnlyHook(h)
    BY <1>1, <2>1, <2>2, <2>3 DEF PlannerTypeOK, OnlyHook
  <2>5. DecidesWithReason(h)'
    BY <1>1, <2>1, <2>2, <2>3 DEF DecidesWithReason, Justified
  <2>6. AsksInOrder(h)'
    BY <1>1, <2>1, <2>2, <2>3 DEF AsksInOrder
  <2>7. HandsOffInOrder(h)'
    BY <1>1, <2>1, <2>2, <2>3 DEF HandsOffInOrder
  <2>8. ShadowHoldsSlot(h)'
    BY <1>1, <2>1, <2>2, <2>3 DEF ShadowHoldsSlot, HandsOffInOrder
  <2> QED
    BY <1>1, <2>4, <2>5, <2>6, <2>7, <2>8, OneHook DEF HookSound
<1>4. CASE PassesBy(h)
  <2>1. Becoming(h, "done", hook[h].decision) /\ hook[h].at = "begun"
    BY <1>1, <1>4, MovesFields DEF PassesBy, HookStep
  <2>2. StagesKept(h)
    BY <1>1, <1>4, KeepsStages DEF PassesBy
  <2>3. UNCHANGED <<rewrite, worker, slot, plan, heard>>
    BY <1>4 DEF PassesBy
  <2>4. PlannerTypeOK' /\ OnlyHook(h)
    BY <1>1, <2>1, <2>2, <2>3 DEF PlannerTypeOK, OnlyHook
  <2>5. DecidesWithReason(h)'
    BY <1>1, <2>1, <2>2, <2>3 DEF DecidesWithReason, Justified
  <2>6. AsksInOrder(h)'
    BY <1>1, <2>1, <2>2, <2>3 DEF AsksInOrder
  <2>7. HandsOffInOrder(h)'
    BY <1>1, <2>1, <2>2, <2>3 DEF HandsOffInOrder
  <2>8. ShadowHoldsSlot(h)'
    BY <1>1, <2>1, <2>2, <2>3 DEF ShadowHoldsSlot, HandsOffInOrder
  <2> QED
    BY <1>1, <2>4, <2>5, <2>6, <2>7, <2>8, OneHook DEF HookSound
<1>5. CASE PlannerDeadline(h)
  <2> DEFINE r == [hook[h] EXCEPT !.late = TRUE]
  <2>1. hook[h] \in HookRecord
    BY <1>1 DEF PlannerTypeOK
  <2>2. r \in HookRecord /\ r.at = hook[h].at /\ r.decision = hook[h].decision
        /\ r.internal = hook[h].internal
    BY <2>1 DEF HookRecord
  <2>3. hook' = [hook EXCEPT ![h] = r]
    BY <1>5 DEF PlannerDeadline
  <2> HIDE DEF r
  <2>4. /\ hook' \in [Hook -> HookRecord] /\ hook'[h].at = hook[h].at
        /\ hook'[h].decision = hook[h].decision /\ hook'[h].internal = hook[h].internal
        /\ \A g \in Hook \ {h} : hook'[g] = hook[g]
    BY <1>1, <2>2, <2>3 DEF PlannerTypeOK
  <2>5. UNCHANGED <<rewrite, worker, slot, stages, plan, heard>>
    BY <1>5 DEF PlannerDeadline
  <2>6. PlannerTypeOK' /\ OnlyHook(h)
    BY <1>1, <2>4, <2>5 DEF PlannerTypeOK, OnlyHook
  <2>7. HookSound(h)'
    BY <1>1, <2>4, <2>5
       DEF HookSound, DecidesWithReason, Justified, AsksInOrder, HandsOffInOrder, TurnIsTold,
           ShadowHoldsSlot
  <2> QED
    BY <1>1, <2>6, <2>7, OneHook
<1>6. CASE BuildCapsuleLate(h) \/ CapsuleFails(h) \/ \E o \in {"error", "timeout"} : JevFails(h, o)
  <2>1. Becoming(h, "concluding", None) /\ hook[h].at \in Unasked
    BY <1>1, <1>6, DecidesFields, DecisionFields
       DEF BuildCapsuleLate, CapsuleFails, JevFails, Unasked
  <2>2. StagesKept(h)
    BY <1>1, <1>6, KeepsStages DEF BuildCapsuleLate, CapsuleFails, JevFails, Outcome
  <2>3. UNCHANGED <<rewrite, worker, slot, plan, heard>>
    BY <1>6 DEF BuildCapsuleLate, CapsuleFails, JevFails
  <2>4. PlannerTypeOK' /\ OnlyHook(h)
    BY <1>1, <2>1, <2>2, <2>3 DEF PlannerTypeOK, OnlyHook
  <2>5. DecidesWithReason(h)'
    BY <1>1, <2>1, <2>2, <2>3 DEF DecidesWithReason, Justified
  <2>6. AsksInOrder(h)'
    BY <1>1, <2>1, <2>2, <2>3, AppendFirst DEF AsksInOrder, HandsOffInOrder
  <2>7. HandsOffInOrder(h)'
    BY <1>1, <2>1, <2>2, <2>3 DEF HandsOffInOrder
  <2>8. ShadowHoldsSlot(h)'
    BY <1>1, <2>1, <2>2, <2>3 DEF ShadowHoldsSlot, HandsOffInOrder
  <2> QED
    BY <1>1, <2>4, <2>5, <2>6, <2>7, <2>8, OneHook DEF HookSound
<1>7. CASE SkipInternal(h)
  <2> DEFINE d == Decision("skip", "none")
             s == [[stages[h] EXCEPT !["input"] = Append(@, "built")]
                     EXCEPT !["decision"] = Append(@, "internal_message")]
  <2>1. d \in Decisions /\ d.action = "skip" /\ d # None
    BY DEF Decision, Decisions, PlanAction, None
  <2>2. Becoming(h, "concluding", d) /\ hook[h].at = "reserved" /\ hook[h].internal
    BY <1>1, <1>7, <2>1, DecidesFields DEF SkipInternal
  <2>3. StagesKept(h)
    <3>1. stages[h] \in [Stage -> Seq(Outcome)]
      BY <1>1 DEF PlannerTypeOK, StageRecord
    <3>2. /\ Append(stages[h]["input"], "built") \in Seq(Outcome)
          /\ Append(stages[h]["decision"], "internal_message") \in Seq(Outcome)
      BY <3>1 DEF Stage, Outcome
    <3>3. /\ s \in [Stage -> Seq(Outcome)]
          /\ s["rewrite"] = stages[h]["rewrite"] /\ s["plan"] = stages[h]["plan"]
          /\ s["handoff"] = stages[h]["handoff"]
      BY <3>1, <3>2 DEF Stage
    <3>4. stages' = [stages EXCEPT ![h] = s]
      BY <1>7 DEF SkipInternal
    <3> HIDE DEF s
    <3> QED
      BY <1>1, <3>3, <3>4 DEF PlannerTypeOK, StageRecord
  <2>4. UNCHANGED <<rewrite, worker, slot, plan, heard>>
    BY <1>7 DEF SkipInternal
  <2> HIDE DEF d
  <2>5. PlannerTypeOK' /\ OnlyHook(h)
    BY <1>1, <2>2, <2>3, <2>4 DEF PlannerTypeOK, OnlyHook
  <2>6. DecidesWithReason(h)'
    BY <1>1, <2>1, <2>2, <2>4 DEF DecidesWithReason, Justified
  <2>7. AsksInOrder(h)'
    BY <1>1, <2>2, <2>3, <2>4, AppendFirst DEF AsksInOrder
  <2>8. HandsOffInOrder(h)'
    BY <1>1, <2>2, <2>3, <2>4 DEF HandsOffInOrder
  <2>9. ShadowHoldsSlot(h)'
    BY <1>1, <2>2, <2>3, <2>4 DEF ShadowHoldsSlot
  <2> QED
    BY <1>1, <2>5, <2>6, <2>7, <2>8, <2>9, OneHook DEF HookSound
<1>8. ASSUME NEW action \in PlanAction, JevDecides(h, action) PROVE PlannerInv'
  <2> DEFINE d == Decision(action, IF action = "recall" THEN "own" ELSE "none")
  <2>1. d \in Decisions /\ d.action = action /\ (action = "recall" => d.query = "own")
    BY DEF Decision, Decisions
  <2>2. /\ hook[h].at = "asking"
        /\ IF action = "recall" /\ rewrite = "on" THEN Becoming(h, "rewriting", hook[h].decision)
                                                 ELSE Becoming(h, "concluding", d)
    <3>1. CASE action = "recall" /\ rewrite = "on"
      BY <1>1, <1>8, <3>1, MovesFields DEF JevDecides, HookStep
    <3>2. CASE ~(action = "recall" /\ rewrite = "on")
      BY <1>1, <1>8, <2>1, <3>2, DecidesFields DEF JevDecides
    <3> QED
      BY <3>1, <3>2
  <2>3. StagesKept(h)
    BY <1>1, <1>8, KeepsStages DEF JevDecides, Outcome
  <2>4. UNCHANGED <<rewrite, worker, slot, plan>>
    BY <1>8 DEF JevDecides
  <2>5. /\ heard[h] = {} /\ heard'[h] = {action}
        /\ heard' \in [Hook -> SUBSET (PlanAction \cup {"rewritten"})]
        /\ \A g \in Hook \ {h} : heard'[g] = heard[g]
    BY <1>1, <1>8, <2>2 DEF JevDecides, PlannerTypeOK, AsksInOrder
  <2> HIDE DEF d
  <2>6. PlannerTypeOK' /\ OnlyHook(h)
    BY <1>1, <2>2, <2>3, <2>4, <2>5 DEF PlannerTypeOK, OnlyHook
  <2>7. DecidesWithReason(h)'
    BY <1>1, <2>1, <2>2, <2>4, <2>5 DEF DecidesWithReason, Justified, HandsOffInOrder, AsksInOrder
  <2>8. AsksInOrder(h)'
    BY <1>1, <2>2, <2>3, <2>4, <2>5, AppendFirst DEF AsksInOrder
  <2>9. HandsOffInOrder(h)'
    BY <1>1, <2>2, <2>3, <2>4 DEF HandsOffInOrder
  <2>10. ShadowHoldsSlot(h)'
    BY <1>1, <2>2, <2>3, <2>4 DEF ShadowHoldsSlot
  <2> QED
    BY <1>1, <2>6, <2>7, <2>8, <2>9, <2>10, OneHook DEF HookSound
<1>9. ASSUME NEW outcome \in {"planned", "invalid", "failed", "timeout"}, RewriteInPlan(h, outcome)
      PROVE  PlannerInv'
  <2> DEFINE d == IF outcome = "planned" THEN Decision("recall", "rewritten") ELSE None
  <2>1. /\ d \in Decisions
        /\ d # None => outcome = "planned"
        /\ outcome = "planned" => d.action = "recall" /\ d.query = "rewritten"
    BY DEF Decision, Decisions, PlanAction
  <2>2. Becoming(h, "concluding", d) /\ hook[h].at = "rewriting"
    <3>1. Decides(h, "rewriting", d)
      BY <1>9 DEF RewriteInPlan
    <3> HIDE DEF d
    <3> QED
      BY <1>1, <2>1, <3>1, DecidesFields
  <2>3. StagedAs(h, "rewrite", outcome)
    <3>1. Staging(h, "rewrite", outcome)
      BY <1>9 DEF RewriteInPlan
    <3>2. "rewrite" \in Stage /\ outcome \in Outcome
      BY DEF Stage, Outcome
    <3> QED
      BY <1>1, <3>1, <3>2, StagingFields
  <2>4. UNCHANGED <<rewrite, worker, slot, plan>>
    BY <1>9 DEF RewriteInPlan
  <2>5. /\ heard'[h] = IF outcome = "planned" THEN heard[h] \cup {"rewritten"} ELSE heard[h]
        /\ heard' \in [Hook -> SUBSET (PlanAction \cup {"rewritten"})]
        /\ \A g \in Hook \ {h} : heard'[g] = heard[g]
    BY <1>1, <1>9 DEF RewriteInPlan, PlannerTypeOK
  <2>6. Asked(h) /\ plan[h] = None /\ stages[h].rewrite = <<>>
    BY <1>1, <2>2 DEF AsksInOrder, HandsOffInOrder
  <2> HIDE DEF d
  <2>7. PlannerTypeOK' /\ OnlyHook(h)
    BY <1>1, <2>2, <2>3, <2>4, <2>5 DEF PlannerTypeOK, OnlyHook
  <2>8. DecidesWithReason(h)'
    <3>1. outcome = "planned" => "recall" \in heard'[h] /\ "rewritten" \in heard'[h]
      BY <2>5, <2>6
    <3>2. rewrite' = "on" /\ plan'[h] = None /\ hook'[h].decision = d
      BY <2>2, <2>4, <2>6
    <3> QED
      BY <2>1, <3>1, <3>2 DEF DecidesWithReason, Justified
  <2>9. AsksInOrder(h)'
    BY <2>2, <2>3, <2>4, <2>5, <2>6, AppendFirst DEF AsksInOrder
  <2>10. HandsOffInOrder(h)'
    BY <1>1, <2>2, <2>3, <2>4 DEF HandsOffInOrder
  <2>11. ShadowHoldsSlot(h)'
    BY <1>1, <2>2, <2>3, <2>4 DEF ShadowHoldsSlot
  <2> QED
    BY <1>1, <2>7, <2>8, <2>9, <2>10, <2>11, OneHook DEF HookSound
<1> QED
  BY <1>2, <1>3, <1>4, <1>5, <1>6, <1>7, <1>8, <1>9

\* A hook keeps its order in the handoff and the shadow rewrite.
LEMMA HookHandsOff ==
  ASSUME PlannerInv, NEW h \in Hook,
         \/ Conclude(h) \/ CancelPlan(h) \/ PublishPlan(h) \/ PublishRefused(h)
         \/ TakeSlot(h) \/ SlotIsBusy(h) \/ StartShadow(h) \/ ShadowUnavailable(h)
         \/ \E outcome \in {"planned", "invalid", "failed", "timeout"} : ShadowReturns(h, outcome)
         \/ ReleaseSlot(h)
  PROVE  PlannerInv'
<1> USE DEF Becoming, StagesKept, StagedAs, Asked, Observed, Unasked, Decided
<1>1. /\ PlannerInv /\ PlannerTypeOK /\ DecidesWithReason(h) /\ AsksInOrder(h)
      /\ HandsOffInOrder(h) /\ ShadowHoldsSlot(h)
  BY DEF PlannerInv, HookSound
<1>2. CASE Conclude(h)
  <2> DEFINE d == IF hook[h].late THEN None ELSE hook[h].decision
             to == IF d = None THEN "cancelling" ELSE "publishing"
             r == [hook[h] EXCEPT !.at = to, !.decision = d]
  <2>1. hook[h] \in HookRecord /\ hook[h].at = "concluding"
    BY <1>1, <1>2 DEF Conclude, PlannerTypeOK
  <2>2. d \in Decisions /\ to \in HookStep /\ (d # None => d = hook[h].decision)
    BY <2>1, DecisionFields DEF HookRecord, HookStep
  <2>3. hook' = [hook EXCEPT ![h] = r] /\ Staging(h, "plan", d.action)
    BY <1>2 DEF Conclude
  <2>4. IF d = None THEN to = "cancelling" ELSE to = "publishing"
    OBVIOUS
  <2> HIDE DEF d, to
  <2>5. r \in HookRecord /\ r.at = to /\ r.decision = d /\ r.internal = hook[h].internal
    BY <2>1, <2>2 DEF HookRecord
  <2> HIDE DEF r
  <2>6. /\ hook' \in [Hook -> HookRecord] /\ hook'[h].at = to /\ hook'[h].decision = d
        /\ hook'[h].internal = hook[h].internal
        /\ \A g \in Hook \ {h} : hook'[g] = hook[g]
    BY <1>1, <2>3, <2>5 DEF PlannerTypeOK
  <2>7. d.action \in Outcome /\ (d = None => d.action = "none") /\ "plan" \in Stage
    BY <2>2, DecisionFields DEF Stage
  <2>8. StagedAs(h, "plan", d.action)
    BY <1>1, <2>3, <2>7, StagingFields
  <2>9. UNCHANGED <<rewrite, worker, slot, plan, heard>>
    BY <1>2 DEF Conclude
  <2>10. PlannerTypeOK' /\ OnlyHook(h)
    BY <1>1, <2>6, <2>8, <2>9 DEF PlannerTypeOK, OnlyHook
  <2>11. DecidesWithReason(h)'
    BY <1>1, <2>2, <2>6, <2>9 DEF DecidesWithReason, Justified
  <2>12. AsksInOrder(h)'
    BY <1>1, <2>1, <2>4, <2>6, <2>8, <2>9 DEF AsksInOrder
  <2>13. HandsOffInOrder(h)'
    <3>1. stages[h].plan = <<>> /\ stages[h].handoff = <<>> /\ plan[h] = None
      BY <1>1, <2>1 DEF HandsOffInOrder
    <3>2. stages'[h].plan = <<d.action>> /\ stages'[h].handoff = <<>> /\ plan'[h] = None
      BY <2>8, <2>9, <3>1, AppendFirst
    <3> QED
      BY <2>4, <2>6, <2>7, <3>2 DEF HandsOffInOrder
  <2>14. ShadowHoldsSlot(h)'
    BY <1>1, <2>1, <2>4, <2>6, <2>9 DEF ShadowHoldsSlot
  <2> QED
    BY <1>1, <2>10, <2>11, <2>12, <2>13, <2>14, OneHook DEF HookSound
<1>3. CASE CancelPlan(h)
  <2>1. Becoming(h, "done", hook[h].decision) /\ hook[h].at = "cancelling"
    BY <1>1, <1>3, MovesFields DEF CancelPlan, HookStep
  <2>2. StagesKept(h)
    BY <1>1, <1>3, KeepsStages DEF CancelPlan
  <2>3. UNCHANGED <<rewrite, worker, slot, plan, heard>>
    BY <1>3 DEF CancelPlan
  <2>4. PlannerTypeOK' /\ OnlyHook(h)
    BY <1>1, <2>1, <2>2, <2>3 DEF PlannerTypeOK, OnlyHook
  <2>5. DecidesWithReason(h)'
    BY <1>1, <2>1, <2>2, <2>3 DEF DecidesWithReason, Justified
  <2>6. AsksInOrder(h)'
    BY <1>1, <2>1, <2>2, <2>3 DEF AsksInOrder
  <2>7. HandsOffInOrder(h)'
    BY <1>1, <2>1, <2>2, <2>3, AppendFirst, DecisionFields DEF AsksInOrder, HandsOffInOrder, ShadowHoldsSlot, TurnIsTold
  <2>8. ShadowHoldsSlot(h)'
    BY <1>1, <2>1, <2>2, <2>3 DEF ShadowHoldsSlot, HandsOffInOrder
  <2> QED
    BY <1>1, <2>4, <2>5, <2>6, <2>7, <2>8, OneHook DEF HookSound
<1>4. CASE PublishPlan(h)
  <2> DEFINE d == hook[h].decision
  <2>1. d # None /\ d \in Decisions /\ d.action \in PlanAction /\ <<d.action>> # <<"none">>
        /\ hook[h].at = "publishing" /\ stages[h].plan = <<d.action>>
        /\ stages[h].handoff = <<>> /\ worker[h] = "none"
    <3>1. hook[h].at = "publishing" /\ hook[h] \in HookRecord
      BY <1>1, <1>4 DEF PublishPlan, HookMoves, PlannerTypeOK
    <3>2. d # None /\ stages[h].plan = <<d.action>> /\ stages[h].handoff = <<>>
      BY <1>1, <3>1 DEF HandsOffInOrder
    <3>3. d \in Decisions
      BY <3>1 DEF HookRecord
    <3>4. worker[h] = "none"
      BY <1>1, <3>1 DEF ShadowHoldsSlot
    <3> QED
      BY <3>1, <3>2, <3>3, <3>4, DecisionFields
  <2>2. IF rewrite = "shadow" /\ d.action = "recall" THEN Becoming(h, "submitting", d)
                                                     ELSE Becoming(h, "done", d)
    BY <1>1, <1>4, MovesFields DEF PublishPlan, HookStep
  <2>3. StagedAs(h, "handoff", "published")
    BY <1>1, <1>4, StagingFields DEF PublishPlan, Stage, Outcome
  <2>4. UNCHANGED <<rewrite, worker, slot, heard>>
    BY <1>4 DEF PublishPlan
  <2>5. /\ plan' \in [Hook -> Decisions] /\ plan'[h] = d
        /\ \A g \in Hook \ {h} : plan'[g] = plan[g]
    BY <1>1, <1>4, <2>1 DEF PublishPlan, PlannerTypeOK
  <2>6. hook'[h].decision = d /\ hook'[h].internal = hook[h].internal
        /\ IF rewrite = "shadow" /\ d.action = "recall" THEN hook'[h].at = "submitting"
                                                        ELSE hook'[h].at = "done"
    BY <2>2
  <2>7. Justified(h, d)
    BY <1>1 DEF DecidesWithReason
  <2>8. PlannerTypeOK' /\ OnlyHook(h)
    BY <1>1, <2>2, <2>3, <2>4, <2>5 DEF PlannerTypeOK, OnlyHook
  <2> HIDE DEF d
  <2>9. DecidesWithReason(h)'
    BY <2>4, <2>5, <2>6, <2>7 DEF DecidesWithReason, Justified
  <2>10. AsksInOrder(h)'
    BY <1>1, <2>1, <2>3, <2>4, <2>6 DEF AsksInOrder
  <2>11. HandsOffInOrder(h)'
    <3>1. /\ stages'[h].plan = <<d.action>> /\ stages'[h].handoff = <<"published">>
          /\ stages'[h].rewrite = stages[h].rewrite
      BY <2>1, <2>3, AppendFirst
    <3>2. Len(stages'[h].rewrite) = IF Asked(h)' THEN 1 ELSE 0
      BY <1>1, <2>1, <2>4, <3>1 DEF AsksInOrder
    <3>3. hook'[h].at = "done" => TurnIsTold(h)'
      BY <2>1, <2>4, <2>5, <2>6, <3>1, <3>2, AppendFirst DEF TurnIsTold
    <3> QED
      BY <2>1, <2>4, <2>5, <2>6, <3>1, <3>3 DEF HandsOffInOrder
  <2>12. ShadowHoldsSlot(h)'
    BY <1>1, <2>1, <2>4, <2>6 DEF ShadowHoldsSlot
  <2> QED
    BY <1>1, <2>8, <2>9, <2>10, <2>11, <2>12, OneHook DEF HookSound
<1>5. CASE PublishRefused(h)
  <2> DEFINE d == hook[h].decision
  <2>1. Becoming(h, "done", d) /\ hook[h].at = "publishing"
    BY <1>1, <1>5, MovesFields DEF PublishRefused, HookStep
  <2>2. StagedAs(h, "handoff", "lost")
    BY <1>1, <1>5, StagingFields DEF PublishRefused, Stage, Outcome
  <2>3. UNCHANGED <<rewrite, worker, slot, plan, heard>>
    BY <1>5 DEF PublishRefused
  <2>4. d # None /\ d \in Decisions /\ plan[h] = None /\ stages[h].plan = <<d.action>>
        /\ stages[h].handoff = <<>> /\ worker[h] = "none"
    <3>1. hook[h] \in HookRecord
      BY <1>1 DEF PlannerTypeOK
    <3> QED
      BY <1>1, <2>1, <3>1 DEF HandsOffInOrder, ShadowHoldsSlot, HookRecord
  <2>5. PlannerTypeOK' /\ OnlyHook(h)
    BY <1>1, <2>1, <2>2, <2>3 DEF PlannerTypeOK, OnlyHook
  <2>6. DecidesWithReason(h)'
    BY <1>1, <2>1, <2>3 DEF DecidesWithReason, Justified
  <2> HIDE DEF d
  <2>7. AsksInOrder(h)'
    BY <1>1, <2>1, <2>2, <2>3 DEF AsksInOrder
  <2>8. HandsOffInOrder(h)'
    <3>1. /\ stages'[h].plan = <<d.action>> /\ stages'[h].handoff = <<"lost">>
          /\ stages'[h].rewrite = stages[h].rewrite
      BY <2>2, <2>4, AppendFirst
    <3>2. Len(stages'[h].rewrite) = IF Asked(h)' THEN 1 ELSE 0
      BY <1>1, <2>1, <2>3, <3>1 DEF AsksInOrder
    <3>3. ~Observed(h)' /\ <<d.action>> # <<"none">>
      BY <2>3, <2>4, DecisionFields
    <3>4. TurnIsTold(h)'
      BY <2>3, <2>4, <3>1, <3>2, <3>3, AppendFirst DEF TurnIsTold
    <3> QED
      BY <2>1, <3>4 DEF HandsOffInOrder
  <2>9. ShadowHoldsSlot(h)'
    BY <1>1, <2>1, <2>3, <2>4 DEF ShadowHoldsSlot
  <2> QED
    BY <1>1, <2>5, <2>6, <2>7, <2>8, <2>9, OneHook DEF HookSound
<1>6. CASE TakeSlot(h)
  <2>1. Becoming(h, "starting", hook[h].decision) /\ hook[h].at = "submitting"
    BY <1>1, <1>6, MovesFields DEF TakeSlot, HookStep
  <2>2. StagesKept(h)
    BY <1>1, <1>6, KeepsStages DEF TakeSlot
  <2>3. UNCHANGED <<rewrite, worker, plan, heard>>
    BY <1>6 DEF TakeSlot
  <2>4. slot' = h /\ \A g \in Hook : slot # g
    BY <1>6, PlannerAssumption DEF TakeSlot
  <2>5. PlannerTypeOK' /\ OnlyHook(h)
    BY <1>1, <2>1, <2>2, <2>3, <2>4 DEF PlannerTypeOK, OnlyHook
  <2>6. DecidesWithReason(h)'
    BY <1>1, <2>1, <2>2, <2>3, <2>4 DEF DecidesWithReason, Justified
  <2>7. AsksInOrder(h)'
    BY <1>1, <2>1, <2>2, <2>3, <2>4 DEF AsksInOrder
  <2>8. HandsOffInOrder(h)'
    BY <1>1, <2>1, <2>2, <2>3, <2>4 DEF HandsOffInOrder
  <2>9. ShadowHoldsSlot(h)'
    BY <1>1, <2>1, <2>2, <2>3, <2>4, PlannerAssumption DEF ShadowHoldsSlot, HandsOffInOrder
  <2> QED
    BY <1>1, <2>5, <2>6, <2>7, <2>8, <2>9, OneHook DEF HookSound
<1>7. CASE SlotIsBusy(h)
  <2>1. Becoming(h, "done", hook[h].decision) /\ hook[h].at = "submitting"
    BY <1>1, <1>7, MovesFields DEF SlotIsBusy, HookStep
  <2>2. StagedAs(h, "rewrite", "busy")
    BY <1>1, <1>7, StagingFields DEF SlotIsBusy, Stage, Outcome
  <2>3. UNCHANGED <<rewrite, worker, slot, plan, heard>>
    BY <1>7 DEF SlotIsBusy
  <2>4. /\ stages[h].rewrite = <<>> /\ ~Asked(h) /\ worker[h] = "none" /\ Observed(h)
        /\ plan[h] # None /\ plan[h] \in Decisions
    BY <1>1, <2>1 DEF AsksInOrder, HandsOffInOrder, ShadowHoldsSlot, TurnIsTold, PlannerTypeOK
  <2>5. PlannerTypeOK' /\ OnlyHook(h)
    BY <1>1, <2>1, <2>2, <2>3, <2>4 DEF PlannerTypeOK, OnlyHook
  <2>6. DecidesWithReason(h)'
    BY <1>1, <2>1, <2>2, <2>3, <2>4 DEF DecidesWithReason, Justified
  <2>7. AsksInOrder(h)'
    BY <1>1, <2>1, <2>2, <2>3, <2>4 DEF AsksInOrder
  <2>8. HandsOffInOrder(h)'
    BY <1>1, <2>1, <2>2, <2>3, <2>4, AppendFirst, DecisionFields DEF AsksInOrder, HandsOffInOrder, ShadowHoldsSlot, TurnIsTold
  <2>9. ShadowHoldsSlot(h)'
    BY <1>1, <2>1, <2>2, <2>3, <2>4, PlannerAssumption DEF ShadowHoldsSlot, HandsOffInOrder
  <2> QED
    BY <1>1, <2>5, <2>6, <2>7, <2>8, <2>9, OneHook DEF HookSound
<1>8. CASE StartShadow(h)
  <2>1. Becoming(h, "done", hook[h].decision) /\ hook[h].at = "starting"
    BY <1>1, <1>8, MovesFields DEF StartShadow, HookStep
  <2>2. StagesKept(h)
    BY <1>1, <1>8, KeepsStages DEF StartShadow
  <2>3. UNCHANGED <<rewrite, slot, plan, heard>>
    BY <1>8 DEF StartShadow
  <2>4. /\ worker' \in [Hook -> {"none", "running", "releasing"}] /\ worker'[h] = "running"
        /\ \A g \in Hook \ {h} : worker'[g] = worker[g]
    BY <1>1, <1>8 DEF StartShadow, PlannerTypeOK
  <2>5. /\ stages[h].rewrite = <<>> /\ ~Asked(h) /\ Observed(h)
        /\ plan[h] # None /\ plan[h] \in Decisions
    BY <1>1, <2>1 DEF AsksInOrder, HandsOffInOrder, ShadowHoldsSlot, TurnIsTold, PlannerTypeOK
  <2>6. PlannerTypeOK' /\ OnlyHook(h)
    BY <1>1, <2>1, <2>2, <2>3, <2>4, <2>5 DEF PlannerTypeOK, OnlyHook
  <2>7. DecidesWithReason(h)'
    BY <1>1, <2>1, <2>2, <2>3, <2>4, <2>5 DEF DecidesWithReason, Justified
  <2>8. AsksInOrder(h)'
    BY <1>1, <2>1, <2>2, <2>3, <2>4, <2>5 DEF AsksInOrder
  <2>9. HandsOffInOrder(h)'
    BY <1>1, <2>1, <2>2, <2>3, <2>4, <2>5, AppendFirst, DecisionFields DEF AsksInOrder, HandsOffInOrder, ShadowHoldsSlot, TurnIsTold
  <2>10. ShadowHoldsSlot(h)'
    BY <1>1, <2>1, <2>2, <2>3, <2>4, <2>5, AppendFirst DEF ShadowHoldsSlot, HandsOffInOrder
  <2> QED
    BY <1>1, <2>6, <2>7, <2>8, <2>9, <2>10, OneHook DEF HookSound
<1>9. CASE ShadowUnavailable(h)
  <2>1. Becoming(h, "done", hook[h].decision) /\ hook[h].at = "starting"
    BY <1>1, <1>9, MovesFields DEF ShadowUnavailable, HookStep
  <2>2. StagedAs(h, "rewrite", "unavailable")
    BY <1>1, <1>9, StagingFields DEF ShadowUnavailable, Stage, Outcome
  <2>3. UNCHANGED <<rewrite, worker, plan, heard>>
    BY <1>9 DEF ShadowUnavailable
  <2>4. /\ stages[h].rewrite = <<>> /\ ~Asked(h) /\ worker[h] = "none" /\ Observed(h)
        /\ plan[h] # None /\ plan[h] \in Decisions
    BY <1>1, <2>1 DEF AsksInOrder, HandsOffInOrder, ShadowHoldsSlot, TurnIsTold, PlannerTypeOK
  <2>5. slot' = NoHook /\ slot = h
    BY <1>1, <1>9, <2>1 DEF ShadowUnavailable, ShadowHoldsSlot
  <2>6. \A g \in Hook : slot' # g
    BY <2>5, PlannerAssumption
  <2>7. PlannerTypeOK' /\ OnlyHook(h)
    BY <1>1, <2>1, <2>2, <2>3, <2>4, <2>5, <2>6 DEF PlannerTypeOK, OnlyHook
  <2>8. DecidesWithReason(h)'
    BY <1>1, <2>1, <2>2, <2>3, <2>4, <2>5, <2>6 DEF DecidesWithReason, Justified
  <2>9. AsksInOrder(h)'
    BY <1>1, <2>1, <2>2, <2>3, <2>4, <2>5, <2>6 DEF AsksInOrder
  <2>10. HandsOffInOrder(h)'
    BY <1>1, <2>1, <2>2, <2>3, <2>4, <2>5, <2>6, AppendFirst, DecisionFields DEF AsksInOrder, HandsOffInOrder, ShadowHoldsSlot, TurnIsTold
  <2>11. ShadowHoldsSlot(h)'
    BY <1>1, <2>1, <2>2, <2>3, <2>4, <2>5, <2>6, PlannerAssumption DEF ShadowHoldsSlot, HandsOffInOrder
  <2> QED
    BY <1>1, <2>7, <2>8, <2>9, <2>10, <2>11, OneHook DEF HookSound
<1>10. ASSUME NEW outcome \in {"planned", "invalid", "failed", "timeout"}, ShadowReturns(h, outcome)
       PROVE  PlannerInv'
  <2>1. worker[h] = "running" /\ hook[h].at = "done"
    BY <1>1, <1>10 DEF ShadowReturns, ShadowHoldsSlot
  <2>2. StagedAs(h, "rewrite", outcome)
    <3>1. "rewrite" \in Stage /\ outcome \in Outcome
      BY DEF Stage, Outcome
    <3>2. Staging(h, "rewrite", outcome)
      BY <1>10 DEF ShadowReturns
    <3> QED
      BY <1>1, <3>1, <3>2, StagingFields
  <2>3. UNCHANGED <<rewrite, hook, slot, plan, heard>>
    BY <1>10 DEF ShadowReturns
  <2>4. /\ worker' \in [Hook -> {"none", "running", "releasing"}] /\ worker'[h] = "releasing"
        /\ \A g \in Hook \ {h} : worker'[g] = worker[g]
    BY <1>1, <1>10 DEF ShadowReturns, PlannerTypeOK
  <2>5. TurnIsTold(h) /\ Observed(h) /\ stages[h].plan # <<>> /\ plan[h] # None
    BY <1>1, <2>1 DEF ShadowHoldsSlot, HandsOffInOrder
  <2>6. stages[h].rewrite \in Seq(Outcome) /\ Len(stages[h].rewrite) = 0
    BY <1>1, <2>1, <2>5 DEF TurnIsTold, PlannerTypeOK, StageRecord, Stage
  <2>7. Len(stages'[h].rewrite) = 1
    BY <2>2, <2>6
  <2>8. PlannerTypeOK' /\ OnlyHook(h)
    BY <1>1, <2>1, <2>2, <2>3, <2>4, <2>5, <2>6, <2>7 DEF PlannerTypeOK, OnlyHook
  <2>9. DecidesWithReason(h)'
    BY <1>1, <2>1, <2>2, <2>3, <2>4, <2>5, <2>6, <2>7 DEF DecidesWithReason, Justified
  <2>10. AsksInOrder(h)'
    BY <1>1, <2>1, <2>2, <2>3, <2>4, <2>5, <2>6, <2>7 DEF AsksInOrder
  <2>11. HandsOffInOrder(h)'
    BY <1>1, <2>1, <2>2, <2>3, <2>4, <2>5, <2>6, <2>7 DEF AsksInOrder, HandsOffInOrder, ShadowHoldsSlot, TurnIsTold
  <2>12. ShadowHoldsSlot(h)'
    BY <1>1, <2>1, <2>2, <2>3, <2>4, <2>5, <2>6, <2>7, PlannerAssumption DEF ShadowHoldsSlot, HandsOffInOrder
  <2> QED
    BY <1>1, <2>8, <2>9, <2>10, <2>11, <2>12, OneHook DEF HookSound
<1>11. CASE ReleaseSlot(h)
  <2>1. worker[h] = "releasing" /\ hook[h].at = "done"
    BY <1>1, <1>11 DEF ReleaseSlot, ShadowHoldsSlot
  <2>2. UNCHANGED <<rewrite, hook, stages, plan, heard>>
    BY <1>11 DEF ReleaseSlot
  <2>3. /\ worker' \in [Hook -> {"none", "running", "releasing"}] /\ worker'[h] = "none"
        /\ \A g \in Hook \ {h} : worker'[g] = worker[g]
    BY <1>1, <1>11 DEF ReleaseSlot, PlannerTypeOK
  <2>4. slot' = NoHook /\ slot = h
    BY <1>1, <1>11, <2>1 DEF ReleaseSlot, ShadowHoldsSlot
  <2>5. \A g \in Hook : slot' # g
    BY <2>4, PlannerAssumption
  <2>6. PlannerTypeOK' /\ OnlyHook(h)
    BY <1>1, <2>1, <2>2, <2>3, <2>4, <2>5 DEF PlannerTypeOK, OnlyHook
  <2>7. DecidesWithReason(h)'
    BY <1>1, <2>1, <2>2, <2>3, <2>4, <2>5 DEF DecidesWithReason, Justified
  <2>8. AsksInOrder(h)'
    BY <1>1, <2>1, <2>2, <2>3, <2>4, <2>5 DEF AsksInOrder
  <2>9. HandsOffInOrder(h)'
    BY <1>1, <2>1, <2>2, <2>3, <2>4, <2>5 DEF AsksInOrder, HandsOffInOrder, ShadowHoldsSlot, TurnIsTold
  <2>10. ShadowHoldsSlot(h)'
    BY <1>1, <2>1, <2>2, <2>3, <2>4, <2>5, PlannerAssumption DEF ShadowHoldsSlot, HandsOffInOrder
  <2> QED
    BY <1>1, <2>6, <2>7, <2>8, <2>9, <2>10, OneHook DEF HookSound
<1> QED
  BY <1>2, <1>3, <1>4, <1>5, <1>6, <1>7, <1>8, <1>9, <1>10, <1>11

LEMMA PlannerInitially == PlannerInit => PlannerInv
<1> SUFFICES ASSUME PlannerInit PROVE PlannerInv
  OBVIOUS
<1> DEFINE start == [at |-> "off", internal |-> FALSE, late |-> FALSE, decision |-> None]
           blank == [s \in Stage |-> <<>>]
<1>1. /\ start \in HookRecord /\ start.at = "off" /\ start.decision = None
      /\ blank \in StageRecord /\ blank["rewrite"] = <<>> /\ blank["plan"] = <<>>
      /\ blank["handoff"] = <<>>
  BY DecisionFields DEF HookRecord, HookStep, StageRecord, Stage
<1>2. \A h \in Hook :
        /\ hook[h] = start /\ stages[h] = blank /\ plan[h] = None /\ heard[h] = {}
        /\ worker[h] = "none" /\ slot # h
  BY PlannerAssumption DEF PlannerInit
<1>3. PlannerTypeOK
  <2>1. hook = [h \in Hook |-> start] /\ stages = [h \in Hook |-> blank]
    BY DEF PlannerInit
  <2> HIDE DEF start, blank
  <2>2. hook \in [Hook -> HookRecord] /\ stages \in [Hook -> StageRecord]
    BY <1>1, <2>1
  <2>3. /\ rewrite \in {"off", "on", "shadow"}
        /\ worker \in [Hook -> {"none", "running", "releasing"}]
    BY DEF PlannerInit
  <2>4. plan \in [Hook -> Decisions] /\ heard \in [Hook -> SUBSET (PlanAction \cup {"rewritten"})]
    BY DecisionFields DEF PlannerInit
  <2> QED
    BY <2>2, <2>3, <2>4 DEF PlannerTypeOK
<1> HIDE DEF start, blank
<1>4. ASSUME NEW h \in Hook PROVE HookSound(h)
  BY <1>1, <1>2 DEF HookSound, DecidesWithReason, Justified, AsksInOrder, HandsOffInOrder,
     ShadowHoldsSlot, Unasked, Decided
<1> QED
  BY <1>3, <1>4 DEF PlannerInv

LEMMA PlannerNextStep ==
  ASSUME PlannerInv, [PlannerNext]_plannerVars
  PROVE  PlannerInv'
<1>1. CASE PlannerNext
  BY <1>1, HookDecides, HookHandsOff DEF PlannerNext
<1>2. CASE UNCHANGED plannerVars
  BY <1>2 DEF plannerVars, PlannerInv, PlannerTypeOK, HookSound, DecidesWithReason, Justified,
     AsksInOrder, HandsOffInOrder, ShadowHoldsSlot, TurnIsTold, Asked, Observed
<1> QED
  BY <1>1, <1>2

\* What is known of a hook holds through every interleaving of hooks, late
\* answers and shadow threads.
THEOREM PlannerInvariant == PlannerSpec => []PlannerInv
<1> QED
  BY PlannerInitially, PlannerNextStep, PTL DEF PlannerSpec

\* Neither an error nor a late answer nor the observed rewrite of any turn
\* suppresses a recall or changes its query (FailuresRecall).
THEOREM OnlyAnswersDecide == PlannerSpec => []FailuresRecall
<1>1. PlannerInv => FailuresRecall
  BY DEF PlannerInv, HookSound, DecidesWithReason, Justified, FailuresRecall
<1> QED
  BY <1>1, PlannerInvariant, PTL

\* The stages of a turn tell what became of it (TurnIsStaged).
LEMMA HooksTellTheirTurn == PlannerInv => TurnIsStaged
<1> SUFFICES ASSUME PlannerInv, NEW h \in Hook, hook[h].at = "done", stages[h].plan # <<>>
             PROVE  TurnIsTold(h) /\ (slot = h <=> worker[h] # "none")
  BY DEF TurnIsStaged, TurnIsTold, Asked, Observed
<1> QED
  BY DEF PlannerInv, HookSound, HandsOffInOrder, ShadowHoldsSlot

-----------------------------------------------------------------------------
(***************************************************************************)
(* The sessions.  The handle is ahead of its session by the bridges of its *)
(* hooks; whatever was delivered and lies further ahead is waiting, and    *)
(* nothing waits for the session the handle is in once the lock is free.   *)
(***************************************************************************)
Entry == [parent : Session, new : Session]

SwitchKinds ==
  /\ tip \in Session /\ roots \subseteq 0..tip /\ 0 \in roots /\ delivered \subseteq 0..tip
  /\ sessionId \in 0..tip /\ activation \in (0..tip) \cup {Nowhere}
  /\ pending \in Seq(Entry) /\ Len(pending) <= MaxPending
  /\ seen \in Seq(Session) /\ Len(seen) <= MaxSeen
  /\ draining \in BOOLEAN /\ evicted \in BOOLEAN

\* How far the handle has got.
Ahead == IF activation = Nowhere THEN sessionId ELSE activation

Waits(s) == \E e \in Members(pending) : e.new = s

ActivationLeads == sessionId <= Ahead

EntriesAreChildren ==
  \A e \in Members(pending) : e.new = e.parent + 1 /\ e.new \notin roots /\ e.new <= tip

RootsInOrder == \A s \in roots : IF s \in delivered THEN s <= sessionId ELSE s > Ahead

OneRootOnItsWay == \A s, t \in roots \ delivered : s = t

SeenArePassed == sessionId \in Members(seen) /\ \A s \in Members(seen) : s <= sessionId

DeliveredWait == ~evicted => \A s \in delivered \ roots : s > Ahead => Waits(s)

NobodyWaitsHere == ~draining => \A e \in Members(pending) : e.parent # sessionId

\* A bridge is ahead of the callbacks, but for the one being drained.
BridgeIsFirst == Ahead # sessionId => Ahead + 1 \notin delivered

BridgedIsDrained ==
  ~evicted /\ Ahead # sessionId /\ Ahead \in delivered =>
    draining /\ Ahead = sessionId + 1 /\ Waits(Ahead)

SwitchInv ==
  /\ SwitchKinds
  /\ ActivationLeads /\ EntriesAreChildren /\ RootsInOrder /\ OneRootOnItsWay
  /\ SeenArePassed /\ DeliveredWait /\ NobodyWaitsHere /\ BridgeIsFirst /\ BridgedIsDrained

-----------------------------------------------------------------------------
(***************************************************************************)
(* What the operators of SessionSwitch make of a queue.                    *)
(***************************************************************************)
\* kept is the function that Without builds up to position n of q.
Keeps(q, gone, kept, n) ==
  kept = [i \in 0..n |->
            IF i = 0 THEN <<>>
            ELSE IF q[i] \in gone THEN kept[i - 1] ELSE Append(kept[i - 1], q[i])]

\* It exists, by induction on n.
LEMMA SomethingIsKept ==
  ASSUME NEW U, NEW q \in Seq(U), NEW gone
  PROVE  \E kept : Keeps(q, gone, kept, Len(q))
<1> DEFINE T == {n \in Nat : n <= Len(q) => \E f : Keeps(q, gone, f, n)}
<1>1. 0 \in T
  <2>1. Keeps(q, gone, [i \in 0..0 |-> <<>>], 0)
    BY DEF Keeps
  <2> QED
    BY <2>1
<1>2. ASSUME NEW n \in Nat, n \in T PROVE n + 1 \in T
  <2> SUFFICES ASSUME n + 1 <= Len(q) PROVE \E f : Keeps(q, gone, f, n + 1)
    OBVIOUS
  <2>1. PICK f : Keeps(q, gone, f, n)
    BY <1>2
  <2>2. \A i \in 0..n : f[i] = IF i = 0 THEN <<>>
                               ELSE IF q[i] \in gone THEN f[i - 1] ELSE Append(f[i - 1], q[i])
    BY <2>1 DEF Keeps
  <2> DEFINE last == IF q[n + 1] \in gone THEN f[n] ELSE Append(f[n], q[n + 1])
             g == [i \in 0..(n + 1) |-> IF i = n + 1 THEN last ELSE f[i]]
  <2>3. g[n + 1] = last /\ \A i \in 0..n : g[i] = f[i]
    OBVIOUS
  <2>4. last = IF q[n + 1] \in gone THEN f[n] ELSE Append(f[n], q[n + 1])
    OBVIOUS
  <2> HIDE DEF last, g
  <2>5. ASSUME NEW i \in 0..(n + 1)
        PROVE  g[i] = IF i = 0 THEN <<>>
                      ELSE IF q[i] \in gone THEN g[i - 1] ELSE Append(g[i - 1], q[i])
    <3>1. CASE i = n + 1
      BY <2>3, <2>4, <3>1
    <3>2. CASE i \in 0..n
      BY <2>2, <2>3, <3>2
    <3> QED
      BY <3>1, <3>2
  <2>6. g = [i \in 0..(n + 1) |-> g[i]]
    BY DEF g
  <2>7. [i \in 0..(n + 1) |-> g[i]] =
          [i \in 0..(n + 1) |->
             IF i = 0 THEN <<>>
             ELSE IF q[i] \in gone THEN g[i - 1] ELSE Append(g[i - 1], q[i])]
    BY <2>5
  <2>8. Keeps(q, gone, g, n + 1)
    BY <2>6, <2>7 DEF Keeps
  <2> QED
    BY <2>8
<1> HIDE DEF T
<1>3. Nat \subseteq T
  BY <1>1, <1>2, SetInduction
<1> QED
  BY <1>3 DEF T

\* Without keeps exactly the entries that are not gone, and no more of them.
LEMMA WithoutMembers ==
  ASSUME NEW U, NEW q \in Seq(U), NEW gone
  PROVE  /\ Without(q, gone) \in Seq(U) /\ Len(Without(q, gone)) <= Len(q)
         /\ Members(Without(q, gone)) = Members(q) \ gone
<1>1. \E f : Keeps(q, gone, f, Len(q)) /\ Without(q, gone) = f[Len(q)]
  <2> DEFINE kept == CHOOSE f : Keeps(q, gone, f, Len(q))
  <2>1. Keeps(q, gone, kept, Len(q))
    BY SomethingIsKept
  <2>2. Without(q, gone) = kept[Len(q)]
    BY DEF Without, Keeps
  <2> QED
    BY <2>1, <2>2
<1> PICK f : Keeps(q, gone, f, Len(q)) /\ Without(q, gone) = f[Len(q)]
  BY <1>1
<1>2. \A i \in 0..Len(q) : f[i] = IF i = 0 THEN <<>>
                                  ELSE IF q[i] \in gone THEN f[i - 1] ELSE Append(f[i - 1], q[i])
  BY DEF Keeps
<1> DEFINE Holds(s, x) == \E i \in 1..Len(s) : s[i] = x
           Earlier(n, x) == x \notin gone /\ \E i \in 1..n : q[i] = x
           Good(n) == /\ f[n] \in Seq(U) /\ Len(f[n]) <= n
                      /\ \A x : Holds(f[n], x) <=> Earlier(n, x)
           T == {n \in Nat : n <= Len(q) => Good(n)}
<1>3. Good(0)
  <2>1. f[0] = <<>>
    BY <1>2
  <2> QED
    BY <2>1
<1>4. ASSUME NEW n \in Nat, n + 1 <= Len(q), Good(n) PROVE Good(n + 1)
  <2> DEFINE g == f[n]
             h == f[n + 1]
             next == q[n + 1]
  <2>1. h = IF next \in gone THEN g ELSE Append(g, next)
    BY <1>2, <1>4
  <2>2. next \in U
    BY <1>4
  <2>3. g \in Seq(U) /\ Len(g) <= n /\ Len(g) \in Nat /\ \A x : Holds(g, x) <=> Earlier(n, x)
    BY <1>4
  <2>4. \A x : Earlier(n + 1, x) <=> Earlier(n, x) \/ (x = next /\ x \notin gone)
    OBVIOUS
  <2> HIDE DEF g, h, next
  <2>5. h \in Seq(U) /\ Len(h) <= n + 1
    BY <2>1, <2>2, <2>3
  <2>6. \A x : Holds(h, x) <=> Holds(g, x) \/ (x = next /\ x \notin gone)
    <3>1. CASE next \in gone
      BY <2>1, <3>1
    <3>2. CASE next \notin gone
      <4>1. /\ Len(h) = Len(g) + 1 /\ h[Len(g) + 1] = next
            /\ \A i \in 1..Len(g) : h[i] = g[i]
        BY <2>1, <2>2, <2>3, <3>2
      <4>2. 1..Len(h) = 1..Len(g) \cup {Len(h)} /\ Len(h) \notin 1..Len(g)
        BY <2>3, <4>1
      <4> QED
        BY <3>2, <4>1, <4>2
    <3> QED
      BY <3>1, <3>2
  <2> HIDE DEF Holds, Earlier
  <2>7. \A x : Holds(h, x) <=> Earlier(n + 1, x)
    BY <2>3, <2>4, <2>6
  <2> QED
    BY <2>5, <2>7 DEF h
<1> HIDE DEF Good
<1>5. Nat \subseteq T
  <2>1. 0 \in T
    BY <1>3
  <2>2. \A n \in Nat : n \in T => n + 1 \in T
    BY <1>4
  <2> HIDE DEF T
  <2> QED
    BY <2>1, <2>2, SetInduction
<1>6. Good(Len(q))
  BY <1>5
<1> QED
  BY <1>6 DEF Good, Members

LEMMA AppendMembers ==
  ASSUME NEW U, NEW q \in Seq(U), NEW x \in U
  PROVE  /\ Append(q, x) \in Seq(U) /\ Len(Append(q, x)) = Len(q) + 1
         /\ Members(Append(q, x)) = Members(q) \cup {x}
<1>1. /\ Append(q, x) \in Seq(U) /\ Len(Append(q, x)) = Len(q) + 1 /\ Len(q) \in Nat
      /\ \A i \in 1..Len(q) : Append(q, x)[i] = q[i]
      /\ Append(q, x)[Len(q) + 1] = x
  OBVIOUS
<1>2. 1..(Len(q) + 1) = 1..Len(q) \cup {Len(q) + 1}
  BY <1>1
<1> QED
  BY <1>1, <1>2 DEF Members

\* A queue without its oldest entry.
LEMMA TailMembers ==
  ASSUME NEW U, NEW q \in Seq(U), NEW n \in Nat \ {0}, Len(q) > n
  PROVE  /\ Tail(q) \in Seq(U) /\ Len(Tail(q)) = Len(q) - 1 /\ Members(Tail(q)) \subseteq Members(q)
         /\ q[Len(q)] \in Members(Tail(q))
<1>1. /\ Tail(q) \in Seq(U) /\ Len(Tail(q)) = Len(q) - 1 /\ Len(q) \in Nat /\ Len(q) >= 2
      /\ \A i \in 1..(Len(q) - 1) : Tail(q)[i] = q[i + 1]
  OBVIOUS
<1>2. Tail(q)[Len(q) - 1] = q[Len(q)]
  BY <1>1
<1> QED
  BY <1>1, <1>2 DEF Members

-----------------------------------------------------------------------------
(***************************************************************************)
(* Each step of the host and of the handle keeps SwitchInv.                *)
(***************************************************************************)
LEMMA SwitchArithmetic ==
  SwitchKinds =>
    /\ Session = 0..LastSession /\ LastSession \in Nat /\ Nowhere = -1
    /\ tip \in Nat /\ tip <= LastSession /\ sessionId \in Nat /\ sessionId <= tip
    /\ activation \in Int /\ activation <= tip /\ (activation = Nowhere \/ activation \in Nat)
    /\ Ahead \in Nat /\ Ahead <= tip
    /\ Members(pending) \subseteq Entry /\ Members(seen) \subseteq Session
    /\ \A e \in Members(pending) : e.parent \in Nat /\ e.new \in Nat
<1> SUFFICES ASSUME SwitchKinds
             PROVE  /\ Session = 0..LastSession /\ LastSession \in Nat /\ Nowhere = -1
                    /\ tip \in Nat /\ tip <= LastSession /\ sessionId \in Nat /\ sessionId <= tip
                    /\ activation \in Int /\ activation <= tip
                    /\ activation = Nowhere \/ activation \in Nat
                    /\ Ahead \in Nat /\ Ahead <= tip
                    /\ Members(pending) \subseteq Entry /\ Members(seen) \subseteq Session
                    /\ \A e \in Members(pending) : e.parent \in Nat /\ e.new \in Nat
  OBVIOUS
<1>1. Members(pending) \subseteq Entry /\ Members(seen) \subseteq Session
  BY DEF SwitchKinds, Members
<1>2. \A e \in Entry : e.parent \in Session /\ e.new \in Session
  BY DEF Entry
<1> QED
  BY <1>1, <1>2, SwitchAssumption DEF SwitchKinds, Session, Nowhere, Ahead

LEMMA SwitchStarts == SwitchInit => SwitchInv
<1> SUFFICES ASSUME SwitchInit PROVE SwitchInv
  OBVIOUS
<1>1. /\ Members(<<>>) = {} /\ <<>> \in Seq(Entry) /\ Len(<<>>) <= MaxPending
      /\ Members(<<0>>) = {0} /\ <<0>> \in Seq(Session) /\ Len(<<0>>) <= MaxSeen
  BY SwitchAssumption DEF Members, Session
<1>2. /\ tip = 0 /\ roots = {0} /\ delivered = {0} /\ sessionId = 0 /\ activation \in {0, Nowhere}
      /\ pending = <<>> /\ seen = <<0>> /\ draining = FALSE /\ evicted = FALSE
  BY DEF SwitchInit
<1>3. SwitchKinds
  <2>1. /\ tip \in Session /\ roots \subseteq 0..tip /\ 0 \in roots /\ delivered \subseteq 0..tip
        /\ sessionId \in 0..tip /\ activation \in (0..tip) \cup {Nowhere}
    BY <1>2, SwitchAssumption DEF Session
  <2> QED
    BY <1>1, <1>2, <2>1 DEF SwitchKinds
<1>4. Ahead = 0
  BY <1>2 DEF Ahead
<1> QED
  BY <1>1, <1>2, <1>3, <1>4
  DEF SwitchInv, ActivationLeads, EntriesAreChildren, RootsInOrder, OneRootOnItsWay,
      SeenArePassed, DeliveredWait, NobodyWaitsHere, BridgeIsFirst, BridgedIsDrained

LEMMA RotateKeeps == SwitchInv /\ Rotate => SwitchInv'
<1> SUFFICES ASSUME SwitchInv, Rotate PROVE SwitchInv'
  OBVIOUS
<1>1. SwitchKinds
  BY DEF SwitchInv
<1>2. /\ tip' = tip + 1 /\ tip < LastSession
      /\ UNCHANGED <<roots, delivered, sessionId, activation, pending, seen, draining, evicted>>
  BY DEF Rotate
<1>3. SwitchKinds'
  BY <1>1, <1>2, SwitchArithmetic DEF SwitchKinds
<1>4. Ahead' = Ahead /\ \A s : Waits(s)' <=> Waits(s)
  BY <1>2 DEF Ahead, Waits
<1>5. EntriesAreChildren'
  <2>1. Members(pending)' = Members(pending) /\ EntriesAreChildren
    BY <1>2 DEF SwitchInv
  <2> QED
    BY <1>1, <1>2, <2>1, SwitchArithmetic DEF EntriesAreChildren
<1> QED
  BY <1>2, <1>3, <1>4, <1>5
  DEF SwitchInv, ActivationLeads, RootsInOrder, OneRootOnItsWay,
      SeenArePassed, DeliveredWait, NobodyWaitsHere, BridgeIsFirst, BridgedIsDrained

LEMMA RestartKeeps == SwitchInv /\ Restart => SwitchInv'
<1> SUFFICES ASSUME SwitchInv, Restart PROVE SwitchInv'
  OBVIOUS
<1>1. SwitchKinds
  BY DEF SwitchInv
<1>2. /\ tip' = tip + 1 /\ tip < LastSession /\ roots \subseteq delivered
      /\ roots' = roots \cup {tip + 1}
      /\ UNCHANGED <<delivered, sessionId, activation, pending, seen, draining, evicted>>
  BY DEF Restart
<1>3. SwitchKinds'
  <2>1. tip' \in Session /\ 0..tip \subseteq 0..tip' /\ tip + 1 \in 0..tip'
    BY <1>1, <1>2, SwitchArithmetic
  <2> QED
    BY <1>1, <1>2, <2>1 DEF SwitchKinds
<1>4. Ahead' = Ahead /\ \A s : Waits(s)' <=> Waits(s)
  BY <1>2 DEF Ahead, Waits
<1>5. EntriesAreChildren'
  <2>1. Members(pending)' = Members(pending) /\ EntriesAreChildren
    BY <1>2 DEF SwitchInv
  <2> QED
    BY <1>1, <1>2, <2>1, SwitchArithmetic DEF EntriesAreChildren
<1>6. tip + 1 \notin delivered /\ tip + 1 > Ahead
  BY <1>1, SwitchArithmetic DEF SwitchKinds
<1>7. RootsInOrder' /\ OneRootOnItsWay'
  BY <1>2, <1>4, <1>6 DEF SwitchInv, RootsInOrder, OneRootOnItsWay
<1> QED
  BY <1>2, <1>3, <1>4, <1>5, <1>7
  DEF SwitchInv, ActivationLeads, SeenArePassed, DeliveredWait, NobodyWaitsHere,
      BridgeIsFirst, BridgedIsDrained

LEMMA BridgeKeeps == SwitchInv /\ Bridge => SwitchInv'
<1> SUFFICES ASSUME SwitchInv, Bridge PROVE SwitchInv'
  OBVIOUS
<1>1. SwitchKinds
  BY DEF SwitchInv
<1>2. /\ tip \notin roots /\ activation = tip - 1 /\ activation' = tip
      /\ UNCHANGED <<tip, roots, delivered, sessionId, pending, seen, draining, evicted>>
  BY DEF Bridge, host
<1>3. tip # 0
  BY <1>1, <1>2 DEF SwitchKinds
<1>4. SwitchKinds'
  <2>1. tip \in 0..tip
    BY <1>1, SwitchArithmetic
  <2> QED
    BY <1>1, <1>2, <2>1 DEF SwitchKinds
<1>5. Ahead = tip - 1 /\ Ahead' = tip /\ \A s : Waits(s)' <=> Waits(s)
  BY <1>1, <1>2, <1>3, SwitchArithmetic DEF Ahead, Waits
<1>6. RootsInOrder'
  <2>1. ASSUME NEW s \in roots, s \notin delivered PROVE FALSE
    <3>1. s > tip - 1 /\ s \in 0..tip /\ s # tip
      BY <1>1, <1>2, <1>5, <2>1 DEF SwitchInv, RootsInOrder, SwitchKinds
    <3> QED
      BY <1>1, <3>1, SwitchArithmetic
  <2> QED
    BY <1>2, <2>1 DEF SwitchInv, RootsInOrder
<1>7. DeliveredWait' /\ BridgeIsFirst'
  <2>1. \A s \in delivered : s \in Nat /\ s <= tip
    BY <1>1, SwitchArithmetic DEF SwitchKinds
  <2> QED
    BY <1>1, <1>2, <1>5, <2>1, SwitchArithmetic DEF DeliveredWait, BridgeIsFirst
<1>8. BridgedIsDrained'
  <2> SUFFICES ASSUME ~evicted, tip \in delivered
               PROVE  draining /\ tip = sessionId + 1 /\ Waits(tip)
    BY <1>2, <1>5 DEF BridgedIsDrained
  <2>1. Waits(tip)
    BY <1>1, <1>2, <1>5, SwitchArithmetic DEF SwitchInv, DeliveredWait
  <2>2. sessionId = tip - 1
    BY <1>1, <1>5, SwitchArithmetic DEF SwitchInv, BridgeIsFirst
  <2>3. PICK e \in Members(pending) : e.new = tip
    BY <2>1 DEF Waits
  <2>4. e.parent = sessionId
    BY <1>1, <2>2, <2>3, SwitchArithmetic DEF SwitchInv, EntriesAreChildren
  <2>5. draining
    BY <2>3, <2>4 DEF SwitchInv, NobodyWaitsHere
  <2> QED
    BY <1>1, <2>1, <2>2, <2>5, SwitchArithmetic
<1>9. ActivationLeads'
  BY <1>1, <1>2, <1>5, SwitchArithmetic DEF ActivationLeads
<1> QED
  BY <1>2, <1>4, <1>6, <1>7, <1>8, <1>9
  DEF SwitchInv, EntriesAreChildren, OneRootOnItsWay, SeenArePassed, NobodyWaitsHere

LEMMA InitializeKeeps == SwitchInv /\ Initialize => SwitchInv'
<1> SUFFICES ASSUME SwitchInv, Initialize PROVE SwitchInv'
  OBVIOUS
<1>1. SwitchKinds
  BY DEF SwitchInv
<1>2. /\ ~draining /\ roots \subseteq delivered /\ activation' \in {tip, Nowhere}
      /\ sessionId' = tip /\ pending' = <<>> /\ seen' = <<tip>>
      /\ UNCHANGED <<tip, roots, delivered, draining, evicted>>
  BY DEF Initialize, host
<1>3. /\ Members(<<>>) = {} /\ <<>> \in Seq(Entry) /\ Len(<<>>) <= MaxPending
      /\ Members(<<tip>>) = {tip} /\ <<tip>> \in Seq(Session) /\ Len(<<tip>>) <= MaxSeen
  BY <1>1, SwitchAssumption DEF Members, SwitchKinds
<1>4. SwitchKinds'
  <2>1. tip \in 0..tip
    BY <1>1, SwitchArithmetic
  <2> QED
    BY <1>1, <1>2, <1>3, <2>1 DEF SwitchKinds
<1>5. Ahead' = tip /\ Members(pending)' = {} /\ Members(seen)' = {tip}
  BY <1>1, <1>2, <1>3, SwitchArithmetic DEF Ahead
<1>6. RootsInOrder' /\ DeliveredWait' /\ SeenArePassed'
  <2>1. \A s \in delivered : s \in Nat /\ s <= tip
    BY <1>1, SwitchArithmetic DEF SwitchKinds
  <2> QED
    BY <1>1, <1>2, <1>5, <2>1, SwitchArithmetic DEF RootsInOrder, DeliveredWait, SeenArePassed
<1> QED
  BY <1>1, <1>2, <1>4, <1>5, <1>6, SwitchArithmetic
  DEF SwitchInv, ActivationLeads, EntriesAreChildren, OneRootOnItsWay, NobodyWaitsHere,
      BridgeIsFirst, BridgedIsDrained

\* A switch that is followed is the handle's session or lies ahead of it.
LEMMA FollowSeen ==
  ASSUME SwitchKinds, SeenArePassed, NEW s \in Session, s >= sessionId, Follow(s)
  PROVE  /\ seen' \in Seq(Session) /\ Len(seen') <= MaxSeen
         /\ SeenArePassed' /\ sessionId' = s
<1> DEFINE rest == Without(seen, {s})
           q == Append(rest, s)
<1>1. /\ rest \in Seq(Session) /\ Len(rest) <= Len(seen)
      /\ Members(rest) = Members(seen) \ {s}
  BY WithoutMembers DEF SwitchKinds
<1>2. sessionId' = s /\ seen' = IF Len(q) > MaxSeen THEN Tail(q) ELSE q
  BY DEF Follow
<1>3. Len(rest) \in Nat /\ Len(rest) <= MaxSeen
  <2>1. Len(rest) \in Nat /\ Len(seen) \in Nat
    BY <1>1 DEF SwitchKinds
  <2> QED
    BY <1>1, <2>1, SwitchAssumption DEF SwitchKinds
<1> HIDE DEF rest
<1>4. q \in Seq(Session) /\ Len(q) = Len(rest) + 1 /\ Members(q) = Members(rest) \cup {s}
  BY <1>1, AppendMembers
<1>5. q[Len(q)] = s
  BY <1>1, <1>4
<1> HIDE DEF q
<1>6. \A t \in Members(q) : t <= s
  BY <1>1, <1>4, SwitchArithmetic DEF SeenArePassed
<1>7. /\ seen' \in Seq(Session) /\ Len(seen') <= MaxSeen
      /\ s \in Members(seen') /\ Members(seen') \subseteq Members(q)
  <2>1. CASE Len(q) > MaxSeen
    BY <1>2, <1>3, <1>4, <1>5, <2>1, TailMembers, SwitchAssumption
  <2>2. CASE ~(Len(q) > MaxSeen)
    BY <1>2, <1>3, <1>4, <2>2, SwitchAssumption
  <2> QED
    BY <2>1, <2>2
<1> QED
  BY <1>2, <1>6, <1>7 DEF SeenArePassed

\* A child that is accepted is where the handle is, or the next one.
LEMMA AcceptedIsAhead ==
  ASSUME SwitchKinds, ActivationLeads, NEW s \in 1..tip, s \notin roots
  PROVE  /\ ParentOf(s) = s - 1 /\ ParentOf(s) # Nowhere
         /\ Accepts(s, s - 1) => s = sessionId \/ s = Ahead \/ s = Ahead + 1
         /\ Accepts(s, s - 1) <=>
              \/ s = sessionId \/ (s - 1 = sessionId /\ activation = Nowhere)
              \/ activation = s \/ activation = s - 1
<1>1. s \in Nat /\ s >= 1
  BY SwitchArithmetic
<1>2. ParentOf(s) = s - 1 /\ ParentOf(s) # Nowhere /\ s # Nowhere /\ s - 1 # Nowhere
  BY <1>1 DEF ParentOf, Nowhere
<1>3. Accepts(s, s - 1) <=>
        \/ s = sessionId \/ (s - 1 = sessionId /\ activation = Nowhere)
        \/ activation = s \/ activation = s - 1
  BY <1>2 DEF Accepts
<1> QED
  BY <1>1, <1>2, <1>3, SwitchArithmetic DEF Ahead

\* It never leads back.
LEMMA AcceptedIsForward ==
  ASSUME SwitchInv, NEW s \in 1..tip, s \notin delivered \/ s \notin roots,
         Accepts(s, ParentOf(s)), s # sessionId
  PROVE  s > sessionId /\ s >= Ahead /\ (s \in roots => s \notin delivered /\ s > Ahead)
<1>1. SwitchKinds /\ ActivationLeads
  BY DEF SwitchInv
<1>2. CASE s \in roots
  <2>1. s \notin delivered /\ s > Ahead
    BY <1>2 DEF SwitchInv, RootsInOrder
  <2> QED
    BY <1>1, <2>1, SwitchArithmetic DEF ActivationLeads
<1>3. CASE s \notin roots
  <2>1. s = Ahead \/ s = Ahead + 1
    BY <1>1, <1>3, AcceptedIsAhead
  <2> QED
    BY <1>1, <1>3, <2>1, SwitchArithmetic DEF ActivationLeads
<1> QED
  BY <1>2, <1>3

\* A switch that is accepted on arrival.
LEMMA AcceptedKeeps ==
  ASSUME SwitchInv, NEW s \in 1..tip, s \notin delivered \/ s \notin roots,
         Accepts(s, ParentOf(s)), Follow(s), draining' = TRUE,
         delivered' = delivered \cup {s}, UNCHANGED <<tip, roots, pending, evicted>>, ~draining
  PROVE  SwitchInv'
<1>1. SwitchKinds /\ ActivationLeads /\ SeenArePassed
  BY DEF SwitchInv
<1>2. s \in Session /\ s \in Nat /\ s \in 0..tip
  BY <1>1, SwitchArithmetic
<1>3. CASE s = sessionId
  <2>1. /\ seen' \in Seq(Session) /\ Len(seen') <= MaxSeen /\ SeenArePassed'
        /\ sessionId' = sessionId
    BY <1>1, <1>2, <1>3, FollowSeen
  <2>8. activation' = activation
    BY <1>3 DEF Follow
  <2>2. Ahead' = Ahead /\ \A t : Waits(t)' <=> Waits(t)
    BY <2>1, <2>8 DEF Ahead, Waits
  <2>3. SwitchKinds'
    BY <1>1, <1>2, <2>1, <2>8 DEF SwitchKinds
  <2>4. s <= Ahead
    BY <1>1, <1>3 DEF ActivationLeads
  <2>5. RootsInOrder'
    BY <1>1, <1>2, <1>3, <2>1, <2>2, SwitchArithmetic DEF SwitchInv, RootsInOrder
  <2>6. DeliveredWait'
    BY <1>1, <1>2, <2>2, <2>4, SwitchArithmetic DEF SwitchInv, DeliveredWait
  <2>7. BridgeIsFirst' /\ BridgedIsDrained'
    BY <1>1, <1>2, <1>3, <2>1, <2>2, <2>4, SwitchArithmetic
    DEF SwitchInv, BridgeIsFirst, BridgedIsDrained
  <2> QED
    BY <2>1, <2>2, <2>3, <2>5, <2>6, <2>7
    DEF SwitchInv, ActivationLeads, EntriesAreChildren, OneRootOnItsWay, NobodyWaitsHere
<1>4. CASE s # sessionId
  <2>1. s > sessionId /\ s >= Ahead /\ (s \in roots => s \notin delivered /\ s > Ahead)
    <3>1. CASE s \in roots
      <4>1. s \notin delivered /\ s > Ahead
        BY <3>1 DEF SwitchInv, RootsInOrder
      <4> QED
        BY <1>1, <1>2, <4>1, SwitchArithmetic DEF ActivationLeads
    <3>2. CASE s \notin roots
      <4>1. s = Ahead \/ s = Ahead + 1
        BY <1>1, <1>4, <3>2, AcceptedIsAhead
      <4> QED
        BY <1>1, <1>4, <3>2, <4>1, SwitchArithmetic DEF ActivationLeads
    <3> QED
      BY <3>1, <3>2
  <2>2. /\ seen' \in Seq(Session) /\ Len(seen') <= MaxSeen /\ SeenArePassed' /\ sessionId' = s
    <3>1. s >= sessionId
      BY <1>1, <1>2, <2>1, SwitchArithmetic
    <3> QED
      BY <1>1, <1>2, <3>1, FollowSeen
  <2>8. activation' = IF activation = Nowhere THEN activation ELSE s
    BY <1>4 DEF Follow
  <2>3. Ahead' = s /\ \A t : Waits(t)' <=> Waits(t)
    BY <1>2, <2>2, <2>8 DEF Ahead, Waits, Nowhere
  <2>4. SwitchKinds'
    BY <1>1, <1>2, <2>2, <2>8 DEF SwitchKinds
  <2>5. \A t \in roots : t \in Nat
    BY <1>1, SwitchArithmetic DEF SwitchKinds
  <2>6. RootsInOrder'
    <3> SUFFICES ASSUME NEW t \in roots
                 PROVE  IF t \in delivered \/ t = s THEN t <= s ELSE t > s
      BY <2>2, <2>3 DEF RootsInOrder
    <3>1. CASE t \in delivered
      BY <1>1, <1>2, <2>1, <2>5, <3>1, SwitchArithmetic DEF SwitchInv, RootsInOrder
    <3>2. CASE t \notin delivered /\ t # s
      <4>1. s \notin roots
        BY <2>1, <3>2 DEF SwitchInv, OneRootOnItsWay
      <4>2. s = Ahead \/ s = Ahead + 1
        BY <1>1, <1>4, <4>1, AcceptedIsAhead
      <4>3. t > Ahead
        BY <3>2 DEF SwitchInv, RootsInOrder
      <4> QED
        BY <1>1, <1>2, <2>5, <3>2, <4>2, <4>3, SwitchArithmetic
    <3> QED
      BY <1>2, <3>1, <3>2
  <2>7. DeliveredWait'
    <3>1. \A t \in delivered : t \in Nat
      BY <1>1, SwitchArithmetic DEF SwitchKinds
    <3> QED
      BY <1>1, <1>2, <2>1, <2>3, <3>1, SwitchArithmetic DEF SwitchInv, DeliveredWait
  <2> QED
    BY <1>2, <2>2, <2>3, <2>4, <2>6, <2>7
    DEF SwitchInv, ActivationLeads, EntriesAreChildren, OneRootOnItsWay, NobodyWaitsHere,
        BridgeIsFirst, BridgedIsDrained
<1> QED
  BY <1>3, <1>4

\* A switch that waits for its parent.
LEMMA RetainedKeeps ==
  ASSUME SwitchInv, NEW s \in 1..tip, s \notin delivered \/ s \notin roots,
         ~Accepts(s, ParentOf(s)), Retain(s, ParentOf(s)), ~draining,
         delivered' = delivered \cup {s},
         UNCHANGED <<tip, roots, sessionId, activation, seen, draining>>
  PROVE  SwitchInv'
<1>1. SwitchKinds /\ ActivationLeads /\ SeenArePassed
  BY DEF SwitchInv
<1>2. s \in Session /\ s \in Nat /\ s >= 1 /\ s \in 0..tip
  BY <1>1, SwitchArithmetic
<1>3. s \notin roots
  BY DEF Retain, ParentOf
<1>4. /\ ParentOf(s) = s - 1 /\ s - 1 \notin Members(seen)
      /\ s # sessionId /\ activation # s /\ activation # s - 1
      /\ (activation = Nowhere => s - 1 # sessionId)
  BY <1>1, <1>3, AcceptedIsAhead DEF Retain
<1> DEFINE entry == [parent |-> s - 1, new |-> s]
           q == IF entry \in Members(pending) THEN pending ELSE Append(pending, entry)
<1>5. entry \in Entry /\ entry.parent = s - 1 /\ entry.new = s
  BY <1>1, <1>2, SwitchArithmetic DEF Entry
<1>6. /\ pending' = IF Len(q) > MaxPending THEN Tail(q) ELSE q
      /\ evicted' = (evicted \/ Len(q) > MaxPending)
  BY <1>4 DEF Retain
<1> HIDE DEF entry
<1>7. /\ q \in Seq(Entry) /\ Len(q) \in Nat /\ Len(q) <= Len(pending) + 1
      /\ Members(q) = Members(pending) \cup {entry}
  <2>1. pending \in Seq(Entry) /\ Len(pending) \in Nat
    BY <1>1 DEF SwitchKinds
  <2>2. CASE entry \in Members(pending)
    BY <2>1, <2>2
  <2>3. CASE entry \notin Members(pending)
    BY <1>5, <2>1, <2>3, AppendMembers
  <2> QED
    BY <2>2, <2>3
<1>8. Len(pending) \in Nat /\ Len(pending) <= MaxPending /\ MaxPending \in Nat \ {0}
  BY <1>1, SwitchAssumption DEF SwitchKinds
<1> HIDE DEF q
<1>9. /\ pending' \in Seq(Entry) /\ Len(pending') <= MaxPending
      /\ Members(pending') \subseteq Members(pending) \cup {entry}
      /\ evicted' \in BOOLEAN
      /\ (~evicted' => ~evicted /\ Members(pending') = Members(pending) \cup {entry})
  <2>1. CASE Len(q) > MaxPending
    <3>1. /\ Tail(q) \in Seq(Entry) /\ Len(Tail(q)) = Len(q) - 1
          /\ Members(Tail(q)) \subseteq Members(q)
      BY <1>7, <1>8, <2>1, TailMembers
    <3>2. evicted' = TRUE /\ pending' = Tail(q)
      BY <1>6, <2>1
    <3> QED
      BY <1>7, <1>8, <3>1, <3>2
  <2>2. CASE ~(Len(q) > MaxPending)
    <3>1. evicted' = evicted
      BY <1>1, <1>6, <2>2 DEF SwitchKinds
    <3> QED
      BY <1>1, <1>6, <1>7, <1>8, <2>2, <3>1 DEF SwitchKinds
  <2> QED
    BY <2>1, <2>2
<1>10. SwitchKinds'
  BY <1>1, <1>2, <1>9 DEF SwitchKinds
<1>11. Ahead' = Ahead
  BY DEF Ahead
<1>12. EntriesAreChildren'
  <2> SUFFICES ASSUME NEW e \in Members(pending')
               PROVE  e.new = e.parent + 1 /\ e.new \notin roots /\ e.new <= tip
    BY DEF EntriesAreChildren
  <2>1. CASE e \in Members(pending)
    BY <2>1 DEF SwitchInv, EntriesAreChildren
  <2>2. CASE e = entry
    BY <1>1, <1>2, <1>3, <1>5, <2>2, SwitchArithmetic
  <2> QED
    BY <1>9, <2>1, <2>2
<1>13. DeliveredWait'
  <2> SUFFICES ASSUME ~evicted', NEW t \in delivered', t \notin roots, t > Ahead
               PROVE  \E e \in Members(pending') : e.new = t
    BY <1>11 DEF DeliveredWait, Waits
  <2>1. CASE t = s
    BY <1>5, <1>9, <2>1
  <2>2. CASE t \in delivered
    BY <1>9, <2>2 DEF SwitchInv, DeliveredWait, Waits
  <2> QED
    BY <2>1, <2>2
<1>14. NobodyWaitsHere'
  <2> SUFFICES ASSUME NEW e \in Members(pending') PROVE e.parent # sessionId
    BY DEF NobodyWaitsHere
  <2>1. CASE e \in Members(pending)
    BY <2>1 DEF SwitchInv, NobodyWaitsHere
  <2>2. CASE e = entry
    BY <1>1, <1>4, <1>5, <2>2 DEF SeenArePassed
  <2> QED
    BY <1>9, <2>1, <2>2
<1>15. Ahead # sessionId => Ahead # s - 1 /\ Ahead # s
  BY <1>4 DEF Ahead
<1>16. BridgeIsFirst' /\ BridgedIsDrained'
  <2>1. BridgeIsFirst'
    BY <1>1, <1>2, <1>11, <1>15, SwitchArithmetic DEF SwitchInv, BridgeIsFirst
  <2>2. ~(~evicted' /\ Ahead # sessionId /\ Ahead \in delivered')
    BY <1>9, <1>15 DEF SwitchInv, BridgedIsDrained
  <2> QED
    BY <1>11, <2>1, <2>2 DEF BridgedIsDrained
<1>17. RootsInOrder' /\ OneRootOnItsWay'
  BY <1>3, <1>11 DEF SwitchInv, RootsInOrder, OneRootOnItsWay
<1> QED
  BY <1>10, <1>11, <1>12, <1>13, <1>14, <1>16, <1>17 DEF SwitchInv, ActivationLeads, SeenArePassed

\* A switch of a parent already passed: the handle is that far itself.
LEMMA DroppedKeeps ==
  ASSUME SwitchInv, NEW s \in 1..tip, s \notin delivered \/ s \notin roots,
         ~Accepts(s, ParentOf(s)), ParentOf(s) = Nowhere \/ ParentOf(s) \in Members(seen),
         ~draining, delivered' = delivered \cup {s},
         UNCHANGED <<tip, roots, sessionId, activation, pending, seen, draining, evicted>>
  PROVE  SwitchInv'
<1>1. SwitchKinds /\ ActivationLeads /\ SeenArePassed
  BY DEF SwitchInv
<1>2. s \in Session /\ s \in Nat /\ s >= 1 /\ s \in 0..tip
  BY <1>1, SwitchArithmetic
<1>3. s \notin roots
  BY DEF Accepts, ParentOf
<1>4. /\ s - 1 \in Members(seen)
      /\ s # sessionId /\ activation # s /\ activation # s - 1
      /\ (activation = Nowhere => s - 1 # sessionId)
  BY <1>1, <1>3, AcceptedIsAhead
<1>5. s - 1 <= sessionId
  BY <1>1, <1>4 DEF SeenArePassed
<1>6. s <= Ahead /\ (Ahead # sessionId => Ahead # s /\ Ahead # s - 1)
  BY <1>1, <1>2, <1>4, <1>5, SwitchArithmetic DEF Ahead, ActivationLeads
<1>7. SwitchKinds'
  BY <1>1, <1>2 DEF SwitchKinds
<1>8. Ahead' = Ahead /\ \A t : Waits(t)' <=> Waits(t)
  BY DEF Ahead, Waits
<1>9. DeliveredWait'
  BY <1>1, <1>2, <1>6, <1>8, SwitchArithmetic DEF SwitchInv, DeliveredWait
<1>10. BridgeIsFirst' /\ BridgedIsDrained'
  <2>1. BridgeIsFirst'
    BY <1>1, <1>2, <1>6, <1>8, SwitchArithmetic DEF SwitchInv, BridgeIsFirst
  <2>2. ~(~evicted /\ Ahead # sessionId /\ Ahead \in delivered')
    BY <1>6 DEF SwitchInv, BridgedIsDrained
  <2> QED
    BY <1>8, <2>1, <2>2 DEF BridgedIsDrained
<1>11. RootsInOrder' /\ OneRootOnItsWay'
  BY <1>3, <1>8 DEF SwitchInv, RootsInOrder, OneRootOnItsWay
<1> QED
  BY <1>7, <1>8, <1>9, <1>10, <1>11
  DEF SwitchInv, ActivationLeads, EntriesAreChildren, SeenArePassed, NobodyWaitsHere

LEMMA DeliverKeeps ==
  ASSUME SwitchInv, NEW s \in Session, Deliver(s)
  PROVE  SwitchInv'
<1>1. /\ ~draining /\ s \in 1..tip /\ (s \notin delivered \/ s \notin roots)
      /\ delivered' = delivered \cup {s} /\ UNCHANGED <<tip, roots>>
  BY DEF Deliver
<1>2. CASE /\ Accepts(s, ParentOf(s)) /\ Follow(s) /\ draining' = TRUE
           /\ UNCHANGED <<pending, evicted>>
  BY <1>1, <1>2, AcceptedKeeps
<1>3. CASE /\ ~Accepts(s, ParentOf(s)) /\ Retain(s, ParentOf(s))
           /\ UNCHANGED <<sessionId, activation, seen, draining>>
  BY <1>1, <1>3, RetainedKeeps
<1>4. CASE /\ ~Accepts(s, ParentOf(s))
           /\ ParentOf(s) = Nowhere \/ ParentOf(s) \in Members(seen)
           /\ UNCHANGED <<sessionId, activation, pending, seen, draining, evicted>>
  BY <1>1, <1>4, DroppedKeeps
<1> QED
  BY <1>2, <1>3, <1>4 DEF Deliver

\* The switch that waited for the handle's session is the next one.
LEMMA DrainedIsForward ==
  ASSUME SwitchInv, NEW e \in Members(pending), Drain(e)
  PROVE  /\ e.new = sessionId + 1 /\ e.new \in 1..tip /\ e.new \notin roots
         /\ e.new \in Session /\ e.new >= Ahead
<1>1. SwitchKinds /\ ActivationLeads
  BY DEF SwitchInv
<1>2. e.new = sessionId + 1 /\ e.new <= tip /\ e.new \notin roots
  BY DEF SwitchInv, EntriesAreChildren, Drain
<1>3. e.new \in 1..tip /\ e.new \in Session
  BY <1>1, <1>2, SwitchArithmetic
<1>4. Accepts(e.new, e.new - 1)
  <2>1. e.new - 1 = sessionId
    BY <1>1, <1>2, SwitchArithmetic
  <2> QED
    BY <2>1 DEF Drain
<1>5. e.new = sessionId \/ e.new = Ahead \/ e.new = Ahead + 1
  BY <1>1, <1>2, <1>3, <1>4, AcceptedIsAhead
<1> QED
  BY <1>1, <1>2, <1>3, <1>5, SwitchArithmetic DEF ActivationLeads

LEMMA DrainKeeps ==
  ASSUME SwitchInv, NEW e \in Members(pending), Drain(e)
  PROVE  SwitchInv'
<1>1. SwitchKinds /\ ActivationLeads /\ SeenArePassed
  BY DEF SwitchInv
<1>2. /\ e.new = sessionId + 1 /\ e.new \in 1..tip /\ e.new \notin roots
      /\ e.new \in Session /\ e.new >= Ahead /\ e.new # sessionId /\ e.new \in 0..tip
      /\ e.new \in Nat
  BY <1>1, DrainedIsForward, SwitchArithmetic
<1>3. /\ draining /\ Follow(e.new) /\ pending' = Without(pending, {e})
      /\ UNCHANGED <<tip, roots, delivered, draining, evicted>>
  BY DEF Drain, host
<1>4. /\ seen' \in Seq(Session) /\ Len(seen') <= MaxSeen /\ SeenArePassed' /\ sessionId' = e.new
  <2>1. e.new >= sessionId
    BY <1>1, <1>2, SwitchArithmetic
  <2> QED
    BY <1>1, <1>2, <1>3, <2>1, FollowSeen
<1>5. activation' = IF activation = Nowhere THEN activation ELSE e.new
  BY <1>2, <1>3 DEF Follow
<1>6. /\ pending' \in Seq(Entry) /\ Len(pending') <= MaxPending
      /\ Members(pending') = Members(pending) \ {e}
  <2>1. /\ pending' \in Seq(Entry) /\ Len(pending') <= Len(pending)
        /\ Members(pending') = Members(pending) \ {e}
    BY <1>1, <1>3, WithoutMembers DEF SwitchKinds
  <2>2. Len(pending') \in Nat /\ Len(pending) \in Nat /\ Len(pending) <= MaxPending
    BY <1>1, <2>1 DEF SwitchKinds
  <2> QED
    BY <2>1, <2>2, SwitchAssumption
<1>7. SwitchKinds'
  BY <1>1, <1>2, <1>3, <1>4, <1>5, <1>6 DEF SwitchKinds
<1>8. Ahead' = e.new
  BY <1>2, <1>4, <1>5 DEF Ahead, Nowhere
<1>9. \A s \in roots \cup delivered : s \in Nat
  BY <1>1, SwitchArithmetic DEF SwitchKinds
<1>10. RootsInOrder' /\ OneRootOnItsWay'
  <2>1. OneRootOnItsWay'
    BY <1>3 DEF SwitchInv, OneRootOnItsWay
  <2> SUFFICES ASSUME NEW s \in roots
               PROVE  IF s \in delivered THEN s <= e.new ELSE s > e.new
    BY <1>3, <1>4, <1>8, <2>1 DEF RootsInOrder
  <2>2. IF s \in delivered THEN s <= sessionId ELSE s > Ahead
    BY DEF SwitchInv, RootsInOrder
  <2>3. s \in Nat /\ s # e.new
    BY <1>2, <1>9
  <2> QED
    BY <1>1, <1>2, <2>2, <2>3, SwitchArithmetic DEF ActivationLeads
<1>11. DeliveredWait'
  <2> SUFFICES ASSUME ~evicted, NEW s \in delivered, s \notin roots, s > e.new
               PROVE  \E w \in Members(pending') : w.new = s
    BY <1>3, <1>8 DEF DeliveredWait, Waits
  <2>1. s \in Nat /\ s > Ahead /\ s # e.new
    BY <1>1, <1>2, <1>9, SwitchArithmetic
  <2>2. PICK w \in Members(pending) : w.new = s
    BY <2>1 DEF SwitchInv, DeliveredWait, Waits
  <2> QED
    BY <1>6, <2>1, <2>2
<1>12. EntriesAreChildren'
  BY <1>3, <1>6 DEF SwitchInv, EntriesAreChildren
<1> QED
  BY <1>1, <1>2, <1>3, <1>4, <1>7, <1>8, <1>10, <1>11, <1>12, SwitchArithmetic
  DEF SwitchInv, ActivationLeads, NobodyWaitsHere, BridgeIsFirst, BridgedIsDrained

\* What is forgotten at the end of a drain is behind the handle.
LEMMA DrainEndsKeeps == SwitchInv /\ DrainEnds => SwitchInv'
<1> SUFFICES ASSUME SwitchInv, DrainEnds PROVE SwitchInv'
  OBVIOUS
<1>1. SwitchKinds /\ ActivationLeads /\ SeenArePassed
  BY DEF SwitchInv
<1> DEFINE waiting == {e \in Members(pending) : e.parent = sessionId}
<1>2. /\ draining /\ (\A e \in waiting : ~Accepts(e.new, sessionId))
      /\ pending' = Without(pending, waiting \cup Stale) /\ draining' = FALSE
      /\ UNCHANGED <<tip, roots, delivered, sessionId, activation, seen, evicted>>
  BY DEF DrainEnds, host
<1>3. /\ pending' \in Seq(Entry) /\ Len(pending') <= MaxPending
      /\ Members(pending') = Members(pending) \ (waiting \cup Stale)
  <2>1. /\ pending' \in Seq(Entry) /\ Len(pending') <= Len(pending)
        /\ Members(pending') = Members(pending) \ (waiting \cup Stale)
    BY <1>1, <1>2, WithoutMembers DEF SwitchKinds
  <2>2. Len(pending') \in Nat /\ Len(pending) \in Nat /\ Len(pending) <= MaxPending
    BY <1>1, <2>1 DEF SwitchKinds
  <2> QED
    BY <2>1, <2>2, SwitchAssumption
<1>4. SwitchKinds'
  BY <1>1, <1>2, <1>3 DEF SwitchKinds
<1>5. Ahead' = Ahead
  BY <1>2 DEF Ahead
<1>6. ASSUME NEW e \in waiting
      PROVE  e.new = sessionId + 1 /\ e.new < Ahead
  <2>1. e.new = sessionId + 1 /\ e.new \notin roots /\ e.new <= tip /\ e.new - 1 = sessionId
    BY <1>1, SwitchArithmetic DEF SwitchInv, EntriesAreChildren
  <2>2. e.new \in 1..tip
    BY <1>1, <2>1, SwitchArithmetic
  <2>3. ~Accepts(e.new, e.new - 1)
    BY <1>2, <2>1
  <2>4. activation # Nowhere /\ activation # e.new /\ activation # e.new - 1
    BY <1>1, <2>1, <2>2, <2>3, AcceptedIsAhead
  <2> QED
    BY <1>1, <2>1, <2>4, SwitchArithmetic DEF ActivationLeads, Ahead
<1>7. ASSUME NEW e \in Stale
      PROVE  e.new <= Ahead
  <2>1. /\ e \in Members(pending) /\ e.parent \in Members(seen) /\ e.parent # sessionId
        /\ e.new = e.parent + 1
    BY DEF Stale, SwitchInv, EntriesAreChildren
  <2>2. e.parent <= sessionId /\ e.parent \in Nat
    BY <1>1, <2>1, SwitchArithmetic DEF SeenArePassed
  <2> QED
    BY <1>1, <2>1, <2>2, SwitchArithmetic DEF ActivationLeads
<1>8. DeliveredWait'
  <2> SUFFICES ASSUME ~evicted, NEW s \in delivered, s \notin roots, s > Ahead
               PROVE  \E e \in Members(pending') : e.new = s
    BY <1>2, <1>5 DEF DeliveredWait, Waits
  <2>1. PICK e \in Members(pending) : e.new = s
    BY DEF SwitchInv, DeliveredWait, Waits
  <2>2. e.new \in Nat
    BY <1>1, SwitchArithmetic
  <2>3. e \notin waiting /\ e \notin Stale
    BY <1>1, <1>6, <1>7, <2>1, <2>2, SwitchArithmetic
  <2> QED
    BY <1>3, <2>1, <2>3
<1>9. NobodyWaitsHere'
  BY <1>2, <1>3 DEF NobodyWaitsHere
<1>10. BridgedIsDrained'
  <2> SUFFICES ASSUME ~evicted, Ahead # sessionId, Ahead \in delivered PROVE FALSE
    BY <1>2, <1>5 DEF BridgedIsDrained
  <2>1. Ahead = sessionId + 1 /\ \E e \in Members(pending) : e.new = Ahead
    BY DEF SwitchInv, BridgedIsDrained, Waits
  <2>2. PICK e \in Members(pending) : e.new = Ahead
    BY <2>1
  <2>3. e \in waiting
    BY <1>1, <2>1, <2>2, SwitchArithmetic DEF SwitchInv, EntriesAreChildren
  <2> QED
    BY <1>1, <1>6, <2>2, <2>3, SwitchArithmetic
<1>11. EntriesAreChildren' /\ RootsInOrder' /\ OneRootOnItsWay' /\ BridgeIsFirst'
  BY <1>2, <1>3, <1>5
  DEF SwitchInv, EntriesAreChildren, RootsInOrder, OneRootOnItsWay, BridgeIsFirst
<1> QED
  BY <1>1, <1>2, <1>4, <1>5, <1>8, <1>9, <1>10, <1>11 DEF SwitchInv, ActivationLeads, SeenArePassed

LEMMA SwitchSteps == SwitchInv /\ [SwitchNext]_switchVars => SwitchInv'
<1> SUFFICES ASSUME SwitchInv, [SwitchNext]_switchVars PROVE SwitchInv'
  OBVIOUS
<1>1. CASE Rotate \/ Restart \/ Bridge \/ Initialize
  BY <1>1, RotateKeeps, RestartKeeps, BridgeKeeps, InitializeKeeps
<1>2. ASSUME NEW s \in Session, Deliver(s) PROVE SwitchInv'
  BY <1>2, DeliverKeeps
<1>3. ASSUME NEW e \in Members(pending), Drain(e) PROVE SwitchInv'
  BY <1>3, DrainKeeps
<1>4. CASE DrainEnds
  BY <1>4, DrainEndsKeeps
<1>5. CASE UNCHANGED switchVars
  BY <1>5
  DEF switchVars, SwitchInv, SwitchKinds, ActivationLeads, EntriesAreChildren, RootsInOrder,
      OneRootOnItsWay, SeenArePassed, DeliveredWait, NobodyWaitsHere, BridgeIsFirst,
      BridgedIsDrained, Ahead, Waits
<1> QED
  BY <1>1, <1>2, <1>3, <1>4, <1>5 DEF SwitchNext

\* What keeps the handle on its way through the conversation is invariant.
THEOREM SwitchInvariant == SwitchSpec => []SwitchInv
BY SwitchStarts, SwitchSteps, PTL DEF SwitchSpec

\* Both tables keep their limits (the bounded _pending_session_switches and
\* _seen_session_ids of provider.py), and a session is one of the host's.
THEOREM SwitchTypes == SwitchSpec => []SwitchTypeOK
<1>1. SwitchInv => SwitchTypeOK
  <2> SUFFICES ASSUME SwitchInv PROVE SwitchTypeOK
    OBVIOUS
  <2>1. SwitchKinds
    BY DEF SwitchInv
  <2>2. 0..tip \subseteq Session /\ Members(pending) \subseteq Entry /\ Members(seen) \subseteq Session
    BY <2>1, SwitchArithmetic
  <2>3. \A e \in Members(pending) : e.new \in Session /\ e.parent \in Session
    BY <2>2 DEF Entry
  <2> QED
    BY <2>1, <2>2, <2>3 DEF SwitchTypeOK, SwitchKinds
<1> QED
  BY <1>1, SwitchInvariant, PTL

\* No callback of on_session_switch, however late, and no bridge of a hook
\* takes the handle or its activation back to an earlier session.
THEOREM SwitchesGoForward == SwitchSpec => NeverBackward
<1> DEFINE Forward == /\ sessionId' >= sessionId
                      /\ activation' >= activation \/ activation' = Nowhere
<1>1. SwitchInv /\ [SwitchNext]_switchVars => [Forward]_switchVars
  <2> SUFFICES ASSUME SwitchInv, SwitchNext PROVE Forward
    BY DEF switchVars
  <2>1. SwitchKinds /\ ActivationLeads
    BY DEF SwitchInv
  <2>2. sessionId \in Int /\ activation \in Int
    BY <2>1, SwitchArithmetic
  <2>3. CASE Rotate \/ Restart \/ DrainEnds
    BY <2>2, <2>3 DEF Rotate, Restart, DrainEnds
  <2>4. CASE Bridge
    BY <2>1, <2>2, <2>4, SwitchArithmetic DEF Bridge
  <2>5. CASE Initialize
    BY <2>1, <2>2, <2>5, SwitchArithmetic DEF Initialize
  <2>6. ASSUME NEW s, Follow(s), s \in Int,
               s = sessionId \/ s > sessionId, s = sessionId \/ s >= Ahead
        PROVE  Forward
    <3>1. sessionId' >= sessionId
      BY <2>2, <2>6 DEF Follow
    <3>2. activation' >= activation \/ activation' = Nowhere
      BY <2>2, <2>6 DEF Follow, Ahead
    <3> QED
      BY <3>1, <3>2
  <2>7. ASSUME NEW s \in Session, Deliver(s) PROVE Forward
    <3>1. s \in 1..tip /\ (s \notin delivered \/ s \notin roots) /\ s \in Int
      BY <2>1, <2>7, SwitchArithmetic DEF Deliver
    <3>2. CASE Accepts(s, ParentOf(s)) /\ Follow(s)
      BY <2>6, <3>1, <3>2, AcceptedIsForward
    <3>3. CASE UNCHANGED <<sessionId, activation>>
      BY <2>2, <3>3
    <3> QED
      BY <2>7, <3>2, <3>3 DEF Deliver
  <2>8. ASSUME NEW e \in Members(pending), Drain(e) PROVE Forward
    <3>1. e.new = sessionId + 1 /\ e.new >= Ahead /\ e.new \in Int /\ Follow(e.new)
      BY <2>2, <2>8, DrainedIsForward DEF Drain
    <3>2. e.new > sessionId
      BY <2>2, <3>1
    <3> QED
      BY <2>6, <3>1, <3>2
  <2> QED
    BY <2>3, <2>4, <2>5, <2>7, <2>8 DEF SwitchNext
<1> QED
  BY <1>1, SwitchInvariant, PTL DEF SwitchSpec, NeverBackward

\* When every callback has arrived, in whatever order and with whatever
\* bridges in between, the handle and its activation are in the host's
\* session, unless a waiting switch was dropped at the limit.
THEOREM SwitchesConverge == SwitchSpec => []Converges
<1>1. SwitchInv => Converges
  <2> SUFFICES ASSUME SwitchInv, delivered = 0..tip, ~draining, ~evicted
               PROVE  sessionId = tip /\ activation \in {tip, Nowhere}
    BY DEF Converges
  <2>1. SwitchKinds
    BY DEF SwitchInv
  <2>2. Ahead = tip
    <3> SUFFICES ASSUME Ahead # tip PROVE FALSE
      OBVIOUS
    <3>1. Ahead + 1 \in delivered /\ Ahead + 1 > Ahead /\ Ahead \in delivered
      BY <2>1, SwitchArithmetic
    <3>2. Ahead + 1 \notin roots
      BY <2>1, <3>1, SwitchArithmetic DEF SwitchInv, RootsInOrder, ActivationLeads
    <3>3. PICK e \in Members(pending) : e.new = Ahead + 1
      BY <3>1, <3>2 DEF SwitchInv, DeliveredWait, Waits
    <3>4. e.parent = Ahead
      BY <2>1, <3>3, SwitchArithmetic DEF SwitchInv, EntriesAreChildren
    <3>5. Ahead # sessionId
      BY <3>4 DEF SwitchInv, NobodyWaitsHere
    <3> QED
      BY <3>1, <3>5 DEF SwitchInv, BridgeIsFirst
  <2>3. sessionId = tip
    BY <2>1, <2>2, SwitchArithmetic DEF SwitchInv, BridgedIsDrained
  <2> QED
    BY <2>2, <2>3 DEF Ahead
<1> QED
  BY <1>1, SwitchInvariant, PTL

-----------------------------------------------------------------------------
(***************************************************************************)
(* The records.  Whatever is unlinked has expired or has MaxRecords newer  *)
(* records beside it, and stays so: of the records greater than q, the     *)
(* next to go has as many greater than itself.                             *)
(***************************************************************************)
Newer(q) == {r \in records : r > q}

Behind(q) == q <= expired \/ Cardinality(Newer(q)) >= MaxRecords

Tidy(s) == Cardinality(s) <= MaxRecords /\ \A r \in s : r > expired

RecordsKinds ==
  /\ kind \in {"diagnostics", "evaluation"} /\ issued \in 0..MaxIssued /\ expired \in 0..issued
  /\ kind = "diagnostics" => expired = 0
  /\ records \subseteq Id /\ pruned \subseteq Id
  /\ noted \in [Gateway -> SUBSET Id] /\ jobs \in [Gateway -> Seq(Id \cup {NoId})]
  /\ job \in [Gateway -> Id \cup {NoId}] /\ surplus \in [Gateway -> SUBSET Id]
  /\ alive \in [Gateway -> BOOLEAN] /\ writer \in [Gateway -> WriterStep]
  /\ lock \in Gateway \cup {Operator, Nobody}
  /\ replay \in ReplayStep /\ target \in Id \cup {NoId}
  /\ torn \in BOOLEAN /\ kills \in 0..MaxKills

\* Only the holder of the file lock is at work in the store.
LockIsHeld ==
  /\ \A g \in Gateway : lock = g <=> writer[g] \in {"locked", "written", "pruning"}
  /\ lock = Operator <=> replay \in {"saving", "reloaded"}
  /\ replay = "reloaded" => target \in records

\* The jobs of the diagnostics have their ids, and so has what is written.
JobsHaveIds ==
  \A g \in Gateway :
    /\ kind = "diagnostics" => \A i \in 1..Len(jobs[g]) : jobs[g][i] \in Id
    /\ kind = "diagnostics" /\ writer[g] = "job" => job[g] \in Id
    /\ writer[g] = "locked" => job[g] \in Id

SurplusIsBehind ==
  \A g \in Gateway :
    /\ surplus[g] \subseteq records /\ \A r \in surplus[g] : Behind(r)
    /\ surplus[g] # {} => writer[g] = "pruning"
    /\ writer[g] = "pruning" => Tidy(records \ surplus[g])

PrunedAreBehind == \A q \in pruned : Behind(q)

LeftTidy == ~torn /\ (\A g \in Gateway : writer[g] \notin {"written", "pruning"}) => Tidy(records)

RecordsInv ==
  RecordsKinds /\ LockIsHeld /\ JobsHaveIds /\ SurplusIsBehind /\ PrunedAreBehind /\ LeftTidy

\* A set of records is finite, and has a last one.
LEMMA FewIds ==
  ASSUME NEW S \in SUBSET Id
  PROVE  /\ IsFiniteSet(S) /\ Cardinality(S) \in Nat
         /\ \A T \in SUBSET S : Cardinality(T) \in Nat /\ Cardinality(T) <= Cardinality(S)
<1>1. IsFiniteSet(Id)
  BY RecordsAssumption, FS_Interval DEF Id
<1>2. IsFiniteSet(S)
  BY <1>1, FS_Subset
<1>3. \A T \in SUBSET S : IsFiniteSet(T) /\ Cardinality(T) <= Cardinality(S)
  BY <1>2, FS_Subset
<1> QED
  BY <1>2, <1>3, FS_CardinalityType

LEMMA LastExists ==
  ASSUME NEW S \in SUBSET Id, S # {}
  PROVE  \E m \in S : \A x \in S : x <= m
<1> DEFINE T == {n \in Nat : \A U \in SUBSET (1..n) : U # {} => \E m \in U : \A x \in U : x <= m}
<1>1. 0 \in T
  <2>1. \A U \in SUBSET (1..0) : U = {}
    OBVIOUS
  <2> QED
    BY <2>1
<1>2. ASSUME NEW n \in Nat, n \in T PROVE n + 1 \in T
  <2> SUFFICES ASSUME NEW U \in SUBSET (1..(n + 1)), U # {}
               PROVE  \E m \in U : \A x \in U : x <= m
    OBVIOUS
  <2>1. CASE n + 1 \in U
    BY <2>1
  <2>2. CASE n + 1 \notin U
    <3>1. U \in SUBSET (1..n)
      BY <2>2
    <3> QED
      BY <1>2, <3>1
  <2> QED
    BY <2>1, <2>2
<1> HIDE DEF T
<1>3. MaxIssued \in T
  BY <1>1, <1>2, SetInduction, RecordsAssumption
<1> QED
  BY <1>3 DEF T, Id

LEMMA MaxIsLast ==
  ASSUME NEW S \in SUBSET Id, S # {}
  PROVE  Max(S) \in S
<1>1. PICK m \in S : \A x \in S : x <= m
  BY LastExists
<1>2. \A x \in S : m >= x
  BY <1>1, RecordsAssumption DEF Id
<1> QED
  BY <1>2 DEF Max

\* No more than n are newest: n - 1 at most are newer than the first of them.
LEMMA NewestAreFew ==
  ASSUME NEW S \in SUBSET Id, NEW n \in Nat
  PROVE  Cardinality(Newest(n, S)) <= n
<1> DEFINE N == Newest(n, S)
<1>1. N \in SUBSET S /\ \A r \in N : Cardinality({q \in S : q > r}) < n
  BY DEF Newest
<1> HIDE DEF N
<1>2. CASE N = {}
  BY <1>2, FS_EmptySet DEF N
<1>3. CASE N # {}
  <2>1. N \in SUBSET Id /\ \A x \in S : x \in Nat
    BY <1>1 DEF Id
  <2>2. PICK m \in N : \A x \in N : m <= x
    <3>1. N \in SUBSET Nat
      BY <2>1 DEF Id
    <3> QED
      BY <1>3, <3>1, LeastExists
  <2> DEFINE above == {q \in S : q > m}
  <2>3. N \ {m} \in SUBSET above /\ above \in SUBSET Id
    BY <1>1, <2>1, <2>2
  <2>4. Cardinality(above) < n
    BY <1>1
  <2> HIDE DEF above
  <2>5. IsFiniteSet(N) /\ Cardinality(N) \in Nat
    BY <2>1, FewIds
  <2>6. Cardinality(N \ {m}) = Cardinality(N) - 1
    BY <2>5, FS_RemoveElement
  <2>7. Cardinality(N \ {m}) <= Cardinality(above) /\ Cardinality(above) \in Nat
    BY <2>3, FewIds
  <2> QED
    BY <2>4, <2>5, <2>6, <2>7 DEF N
<1> QED
  BY <1>2, <1>3

\* Steps that neither write nor unlink a record.
LEMMA StoreUnchanged ==
  ASSUME RecordsInv, UNCHANGED <<records, pruned, expired, surplus, torn>>,
         \A g \in Gateway :
           writer'[g] = writer[g] \/ {writer[g], writer'[g]} \subseteq {"waiting", "job", "locked"}
  PROVE  SurplusIsBehind' /\ PrunedAreBehind' /\ LeftTidy'
<1>1. (\A q : Behind(q)' <=> Behind(q)) /\ (\A s : Tidy(s)' <=> Tidy(s))
  BY DEF Behind, Newer, Tidy
<1>2. \A g \in Gateway :
        /\ writer'[g] = "pruning" <=> writer[g] = "pruning"
        /\ writer'[g] = "written" <=> writer[g] = "written"
  OBVIOUS
<1>3. SurplusIsBehind'
  BY <1>1, <1>2 DEF RecordsInv, SurplusIsBehind
<1>4. PrunedAreBehind'
  BY <1>1 DEF RecordsInv, PrunedAreBehind
<1>5. LeftTidy'
  BY <1>1, <1>2 DEF RecordsInv, LeftTidy
<1> QED
  BY <1>3, <1>4, <1>5

LEMMA RecordsStart == RecordsInit => RecordsInv
<1> SUFFICES ASSUME RecordsInit PROVE RecordsInv
  OBVIOUS
<1>1. RecordsKinds
  <2>1. 0 \in 0..MaxIssued /\ 0 \in 0..0 /\ 0 \in 0..MaxKills
    BY RecordsAssumption
  <2>2. /\ noted \in [Gateway -> SUBSET Id] /\ jobs \in [Gateway -> Seq(Id \cup {NoId})]
        /\ job \in [Gateway -> Id \cup {NoId}] /\ surplus \in [Gateway -> SUBSET Id]
        /\ alive \in [Gateway -> BOOLEAN] /\ writer \in [Gateway -> WriterStep]
    BY DEF RecordsInit, WriterStep
  <2> QED
    BY <2>1, <2>2 DEF RecordsInit, RecordsKinds, ReplayStep
<1>2. LockIsHeld /\ JobsHaveIds /\ PrunedAreBehind
  BY RecordsAssumption DEF RecordsInit, LockIsHeld, JobsHaveIds, PrunedAreBehind
<1>3. Tidy({})
  BY FS_EmptySet, RecordsAssumption DEF Tidy
<1>4. SurplusIsBehind /\ LeftTidy
  BY <1>3 DEF RecordsInit, SurplusIsBehind, LeftTidy
<1> QED
  BY <1>1, <1>2, <1>4 DEF RecordsInv

\* The threads that have something to record.
LEMMA NotingKeeps ==
  ASSUME RecordsInv, NEW g \in Gateway,
         StartWriter(g) \/ Note(g) \/ Enqueue(g) \/ EnqueueStage(g)
  PROVE  RecordsInv'
<1>1. RecordsKinds /\ LockIsHeld /\ JobsHaveIds
  BY DEF RecordsInv
<1>2. UNCHANGED <<kind, writer, job, surplus, expired, lock, records, replay, target, pruned, torn, kills>>
  BY DEF StartWriter, Note, Enqueue, EnqueueStage
<1>3. SurplusIsBehind' /\ PrunedAreBehind' /\ LeftTidy' /\ LockIsHeld'
  BY <1>1, <1>2, StoreUnchanged DEF LockIsHeld
<1>4. UNCHANGED jobs \/ \E id \in Id \cup {NoId} :
        /\ kind = "diagnostics" => id \in Id
        /\ jobs' = [jobs EXCEPT ![g] = Append(@, id)]
  <2>1. CASE StartWriter(g) \/ Note(g)
    BY <2>1 DEF StartWriter, Note
  <2>2. CASE Enqueue(g)
    BY <1>1, <2>2 DEF Enqueue, RecordsKinds
  <2>3. CASE EnqueueStage(g)
    BY <2>3 DEF EnqueueStage
  <2> QED
    BY <2>1, <2>2, <2>3
<1>5. jobs' \in [Gateway -> Seq(Id \cup {NoId})]
  <2>1. jobs \in [Gateway -> Seq(Id \cup {NoId})]
    BY <1>1 DEF RecordsKinds
  <2>2. \A id \in Id \cup {NoId} : Append(jobs[g], id) \in Seq(Id \cup {NoId})
    BY <2>1
  <2> QED
    BY <1>4, <2>1, <2>2
<1>6. JobsHaveIds'
  <2>1. CASE UNCHANGED jobs
    BY <1>1, <1>2, <2>1 DEF JobsHaveIds
  <2>2. ASSUME NEW id \in Id \cup {NoId}, kind = "diagnostics" => id \in Id,
               jobs' = [jobs EXCEPT ![g] = Append(@, id)]
        PROVE  JobsHaveIds'
    <3>1. jobs[g] \in Seq(Id \cup {NoId}) /\ jobs'[g] = Append(jobs[g], id)
      BY <1>1, <2>2 DEF RecordsKinds
    <3>2. kind = "diagnostics" => \A i \in 1..Len(jobs'[g]) : jobs'[g][i] \in Id
      BY <1>1, <2>2, <3>1 DEF JobsHaveIds
    <3>3. \A h \in Gateway \ {g} : jobs'[h] = jobs[h]
      BY <1>1, <2>2 DEF RecordsKinds
    <3> QED
      BY <1>1, <1>2, <3>2, <3>3 DEF JobsHaveIds
  <2> QED
    BY <1>4, <2>1, <2>2
<1>7. issued' \in issued..MaxIssued /\ alive' \in [Gateway -> BOOLEAN] /\ noted' \in [Gateway -> SUBSET Id]
  <2> issued \in issued..MaxIssued
    BY <1>1, RecordsAssumption DEF RecordsKinds
  <2>1. CASE StartWriter(g) \/ EnqueueStage(g)
    BY <1>1, <2>1 DEF StartWriter, EnqueueStage, RecordsKinds
  <2>2. CASE Note(g)
    <3>1. issued + 1 \in Id /\ issued + 1 \in issued..MaxIssued
      BY <1>1, <2>2, RecordsAssumption DEF Note, RecordsKinds, Id
    <3> QED
      BY <1>1, <2>2, <3>1 DEF Note, RecordsKinds
  <2>3. CASE Enqueue(g)
    BY <1>1, <2>3, RecordsAssumption DEF Enqueue, RecordsKinds
  <2> QED
    BY <2>1, <2>2, <2>3
<1>8. expired \in 0..issued' /\ issued' \in 0..MaxIssued
  BY <1>1, <1>7, RecordsAssumption DEF RecordsKinds
<1>9. RecordsKinds'
  BY <1>1, <1>2, <1>5, <1>7, <1>8 DEF RecordsKinds
<1> QED
  BY <1>3, <1>6, <1>9 DEF RecordsInv

\* The writer takes a job, and the lock for it.
LEMMA JobKeeps ==
  ASSUME RecordsInv, NEW g \in Gateway,
         TakeJob(g) \/ LockStore(g) \/ StageDropped(g) \/ WriteFails(g)
  PROVE  RecordsInv'
<1>1. RecordsKinds /\ LockIsHeld /\ JobsHaveIds
  BY DEF RecordsInv
<1>2. UNCHANGED <<kind, noted, alive, surplus, expired, records, replay, target, pruned, torn, kills>>
  BY DEF TakeJob, LockStore, StageDropped, WriteFails, Rest
<1>3. \A h \in Gateway \ {g} : writer'[h] = writer[h] /\ job'[h] = job[h] /\ jobs'[h] = jobs[h]
  BY <1>1 DEF TakeJob, LockStore, StageDropped, WriteFails, Rest, RecordsKinds
<1>4. CASE TakeJob(g)
  <2>1. /\ writer[g] = "waiting" /\ writer' = [writer EXCEPT ![g] = "job"] /\ writer'[g] = "job"
        /\ jobs[g] \in Seq(Id \cup {NoId}) /\ jobs[g] # <<>>
        /\ job' = [job EXCEPT ![g] = Head(jobs[g])] /\ job'[g] = Head(jobs[g])
        /\ jobs' = [jobs EXCEPT ![g] = Tail(@)] /\ jobs'[g] = Tail(jobs[g])
        /\ UNCHANGED <<issued, lock>>
    BY <1>1, <1>4 DEF TakeJob, RecordsKinds
  <2>2. Head(jobs[g]) \in Id \cup {NoId} /\ Tail(jobs[g]) \in Seq(Id \cup {NoId})
    BY <2>1
  <2>3. Head(jobs[g]) = jobs[g][1] /\ \A i \in 1..Len(Tail(jobs[g])) :
          Tail(jobs[g])[i] = jobs[g][i + 1] /\ i + 1 \in 1..Len(jobs[g])
    BY <2>1
  <2>4. 1 \in 1..Len(jobs[g])
    BY <2>1
  <2>5. RecordsKinds'
    BY <1>1, <1>2, <2>1, <2>2 DEF RecordsKinds, WriterStep
  <2>6. JobsHaveIds'
    BY <1>1, <1>2, <1>3, <2>1, <2>3, <2>4 DEF JobsHaveIds
  <2>7. LockIsHeld'
    BY <1>1, <1>2, <1>3, <2>1 DEF LockIsHeld
  <2>8. SurplusIsBehind' /\ PrunedAreBehind' /\ LeftTidy'
    BY <1>2, <1>3, <2>1, StoreUnchanged
  <2> QED
    BY <2>5, <2>6, <2>7, <2>8 DEF RecordsInv
<1>5. CASE LockStore(g)
  <2>1. /\ writer[g] = "job" /\ lock = Nobody /\ lock' = g
        /\ writer' = [writer EXCEPT ![g] = "locked"] /\ writer'[g] = "locked"
        /\ UNCHANGED jobs
    BY <1>1, <1>5 DEF LockStore, RecordsKinds
  <2>2. /\ job' \in [Gateway -> Id \cup {NoId}] /\ job'[g] \in Id
        /\ issued' \in 0..MaxIssued /\ expired \in 0..issued'
    <3>1. CASE kind = "evaluation"
      <4>1. issued < MaxIssued /\ issued' = issued + 1 /\ job' = [job EXCEPT ![g] = issued + 1]
        BY <1>5, <3>1 DEF LockStore
      <4>2. issued + 1 \in Id /\ issued + 1 \in 0..MaxIssued /\ expired \in 0..(issued + 1)
        BY <1>1, <4>1, RecordsAssumption DEF RecordsKinds, Id
      <4> QED
        BY <1>1, <4>1, <4>2 DEF RecordsKinds
    <3>2. CASE kind = "diagnostics"
      BY <1>1, <1>5, <2>1, <3>2 DEF LockStore, RecordsKinds, JobsHaveIds
    <3> QED
      BY <1>1, <3>1, <3>2 DEF RecordsKinds
  <2>3. writer' \in [Gateway -> WriterStep]
    BY <1>1, <2>1 DEF RecordsKinds, WriterStep
  <2>4. RecordsKinds'
    BY <1>1, <1>2, <2>1, <2>2, <2>3 DEF RecordsKinds
  <2>5. JobsHaveIds'
    BY <1>1, <1>2, <1>3, <2>1, <2>2 DEF JobsHaveIds
  <2>6. LockIsHeld'
    BY <1>1, <1>2, <1>3, <2>1, RecordsAssumption DEF LockIsHeld
  <2>7. SurplusIsBehind' /\ PrunedAreBehind' /\ LeftTidy'
    BY <1>2, <1>3, <2>1, StoreUnchanged
  <2> QED
    BY <2>4, <2>5, <2>6, <2>7 DEF RecordsInv
<1>6. CASE StageDropped(g) \/ WriteFails(g)
  <2>1. /\ writer[g] \in {"job", "locked"}
        /\ writer' = [writer EXCEPT ![g] = "waiting"] /\ writer'[g] = "waiting"
        /\ job' = [job EXCEPT ![g] = NoId] /\ UNCHANGED <<issued, jobs>>
        /\ lock' = IF writer[g] = "locked" THEN Nobody ELSE lock
    BY <1>1, <1>6 DEF StageDropped, WriteFails, Rest, RecordsKinds
  <2>2. writer' \in [Gateway -> WriterStep] /\ job' \in [Gateway -> Id \cup {NoId}]
    BY <1>1, <2>1 DEF RecordsKinds, WriterStep
  <2>3. RecordsKinds'
    BY <1>1, <1>2, <2>1, <2>2 DEF RecordsKinds
  <2>4. JobsHaveIds'
    BY <1>1, <1>2, <1>3, <2>1 DEF JobsHaveIds
  <2>5. LockIsHeld'
    BY <1>1, <1>2, <1>3, <2>1, RecordsAssumption DEF LockIsHeld
  <2>6. SurplusIsBehind' /\ PrunedAreBehind' /\ LeftTidy'
    BY <1>2, <1>3, <2>1, StoreUnchanged
  <2> QED
    BY <2>3, <2>4, <2>5, <2>6 DEF RecordsInv
<1> QED
  BY <1>4, <1>5, <1>6

\* The replay command: what it saves is the record it found under the lock.
LEMMA ReplayKeeps ==
  ASSUME RecordsInv, LoadRecord \/ LockForReplay \/ Reload \/ SaveFails \/ SaveReplay
  PROVE  RecordsInv'
<1>1. RecordsKinds /\ LockIsHeld /\ JobsHaveIds
  BY DEF RecordsInv
<1>2. UNCHANGED <<kind, issued, noted, jobs, alive, writer, job, surplus, expired, pruned, torn, kills>>
  BY DEF LoadRecord, LockForReplay, Reload, SaveFails, SaveReplay
<1>3. UNCHANGED records
  <2>1. CASE SaveReplay
    BY <1>1, <2>1 DEF SaveReplay, LockIsHeld
  <2> QED
    BY <2>1 DEF LoadRecord, LockForReplay, Reload, SaveFails
<1>4. SurplusIsBehind' /\ PrunedAreBehind' /\ LeftTidy'
  BY <1>2, <1>3, StoreUnchanged
<1>5. JobsHaveIds'
  BY <1>1, <1>2 DEF JobsHaveIds
<1>6. LockIsHeld' /\ lock' \in Gateway \cup {Operator, Nobody} /\ replay' \in ReplayStep /\ target' \in Id \cup {NoId}
  <2>1. CASE LoadRecord
    BY <1>1, <1>2, <1>3, <2>1, RecordsAssumption DEF LoadRecord, LockIsHeld, RecordsKinds, ReplayStep
  <2>2. CASE LockForReplay
    BY <1>1, <1>2, <1>3, <2>2, RecordsAssumption DEF LockForReplay, LockIsHeld, RecordsKinds, ReplayStep
  <2>3. CASE Reload
    BY <1>1, <1>2, <1>3, <2>3, RecordsAssumption DEF Reload, LockIsHeld, RecordsKinds, ReplayStep
  <2>4. CASE SaveFails \/ SaveReplay
    BY <1>1, <1>2, <1>3, <2>4, RecordsAssumption
    DEF SaveFails, SaveReplay, LockIsHeld, RecordsKinds, ReplayStep
  <2> QED
    BY <2>1, <2>2, <2>3, <2>4
<1>7. RecordsKinds'
  BY <1>1, <1>2, <1>3, <1>6 DEF RecordsKinds
<1> QED
  BY <1>4, <1>5, <1>6, <1>7 DEF RecordsInv

\* The holder of the lock is alone.
LEMMA OneWriter ==
  ASSUME RecordsInv, NEW g \in Gateway, writer[g] \in {"locked", "written", "pruning"}
  PROVE  /\ lock = g /\ g # Operator /\ g # Nobody
         /\ replay \notin {"saving", "reloaded"}
         /\ \A h \in Gateway \ {g} :
              writer[h] \notin {"locked", "written", "pruning"} /\ surplus[h] = {}
<1>1. lock = g
  BY DEF RecordsInv, LockIsHeld
<1>2. g # Operator /\ g # Nobody
  BY RecordsAssumption
<1>3. \A h \in Gateway \ {g} : writer[h] \notin {"locked", "written", "pruning"}
  BY <1>1 DEF RecordsInv, LockIsHeld
<1>4. \A h \in Gateway \ {g} : surplus[h] = {}
  BY <1>3 DEF RecordsInv, SurplusIsBehind
<1>5. replay \notin {"saving", "reloaded"}
  BY <1>1, <1>2 DEF RecordsInv, LockIsHeld
<1> QED
  BY <1>1, <1>2, <1>3, <1>4, <1>5

LEMMA WriteKeeps ==
  ASSUME RecordsInv, NEW g \in Gateway, WriteRecord(g)
  PROVE  RecordsInv'
<1>1. RecordsKinds /\ LockIsHeld /\ JobsHaveIds
  BY DEF RecordsInv
<1>2. /\ UNCHANGED <<kind, issued, noted, jobs, alive, job, surplus, expired, lock, replay,
                     target, pruned, torn, kills>>
      /\ writer[g] = "locked" /\ writer' = [writer EXCEPT ![g] = "written"] /\ writer'[g] = "written"
      /\ records' = records \cup {job[g]} /\ job[g] \in Id
      /\ \A h \in Gateway \ {g} : writer'[h] = writer[h]
  BY <1>1 DEF WriteRecord, RecordsKinds, JobsHaveIds
<1>3. writer' \in [Gateway -> WriterStep] /\ records' \subseteq Id
  BY <1>1, <1>2 DEF RecordsKinds, WriterStep
<1>4. RecordsKinds'
  BY <1>1, <1>2, <1>3 DEF RecordsKinds
<1>5. LockIsHeld' /\ JobsHaveIds'
  BY <1>1, <1>2, OneWriter DEF LockIsHeld, JobsHaveIds
<1>6. ASSUME NEW q \in Id, Behind(q) PROVE Behind(q)'
  <2>1. Newer(q) \in SUBSET Newer(q)' /\ Newer(q)' \in SUBSET Id
    BY <1>2, <1>3 DEF Newer
  <2>2. /\ Cardinality(Newer(q)) <= Cardinality(Newer(q)')
        /\ Cardinality(Newer(q)) \in Nat /\ Cardinality(Newer(q)') \in Nat
    BY <2>1, FewIds
  <2>3. Cardinality(Newer(q))' = Cardinality(Newer(q)')
    OBVIOUS
  <2> QED
    BY <1>2, <1>6, <2>2, <2>3, RecordsAssumption DEF Behind
<1>7. PrunedAreBehind'
  BY <1>1, <1>2, <1>6 DEF RecordsInv, PrunedAreBehind, RecordsKinds
<1>8. \A h \in Gateway : surplus[h] = {}
  BY <1>2, OneWriter DEF RecordsInv, SurplusIsBehind
<1>9. SurplusIsBehind'
  <2>1. \A h \in Gateway : writer'[h] # "pruning"
    BY <1>2, OneWriter
  <2> QED
    BY <1>2, <1>8, <2>1 DEF SurplusIsBehind
<1>10. LeftTidy'
  BY <1>2 DEF LeftTidy
<1> QED
  BY <1>4, <1>5, <1>7, <1>9, <1>10 DEF RecordsInv

LEMMA ListKeeps ==
  ASSUME RecordsInv, NEW g \in Gateway, ListSurplus(g)
  PROVE  RecordsInv'
<1>1. RecordsKinds /\ LockIsHeld /\ JobsHaveIds
  BY DEF RecordsInv
<1> DEFINE gone == Surplus \cup {r \in records : r <= expired'}
<1>2. /\ UNCHANGED <<kind, issued, noted, jobs, alive, job, lock, records, replay, target,
                     pruned, torn, kills>>
      /\ writer[g] = "written" /\ writer' = [writer EXCEPT ![g] = "pruning"] /\ writer'[g] = "pruning"
      /\ surplus' = [surplus EXCEPT ![g] = gone] /\ surplus'[g] = gone
      /\ \A h \in Gateway \ {g} : writer'[h] = writer[h] /\ surplus'[h] = surplus[h]
  BY <1>1 DEF ListSurplus, RecordsKinds
<1>3. /\ expired' \in 0..issued /\ expired' >= expired /\ expired' \in Nat /\ expired \in Nat
      /\ kind = "diagnostics" => expired' = 0
  <2>1. CASE kind = "evaluation"
    BY <1>1, <2>1, RecordsAssumption DEF ListSurplus, RecordsKinds
  <2>2. CASE kind = "diagnostics"
    BY <1>1, <2>2, RecordsAssumption DEF ListSurplus, RecordsKinds
  <2> QED
    BY <1>1, <2>1, <2>2 DEF RecordsKinds
<1>4. gone \subseteq records /\ records \in SUBSET Id
  BY <1>1 DEF Surplus, RecordsKinds
<1>5. RecordsKinds'
  <2>1. writer' \in [Gateway -> WriterStep] /\ surplus' \in [Gateway -> SUBSET Id]
    BY <1>1, <1>2, <1>4 DEF RecordsKinds, WriterStep
  <2> QED
    BY <1>1, <1>2, <1>3, <2>1 DEF RecordsKinds
<1>6. LockIsHeld' /\ JobsHaveIds'
  BY <1>1, <1>2 DEF LockIsHeld, JobsHaveIds
<1>7. \A q : (Newer(q)' = Newer(q)) /\ (Behind(q)' <=> q <= expired' \/ Cardinality(Newer(q)) >= MaxRecords)
  BY <1>2 DEF Newer, Behind
<1>8. PrunedAreBehind'
  BY <1>1, <1>2, <1>3, <1>7, RecordsAssumption
  DEF RecordsInv, PrunedAreBehind, Behind, RecordsKinds, Id
<1>9. \A r \in gone : Behind(r)'
  <2> SUFFICES ASSUME NEW r \in gone, ~(r <= expired')
               PROVE  Cardinality(Newer(r)) >= MaxRecords
    BY <1>7
  <2>1. r \in records /\ ~(Cardinality({q \in records : q > r}) < MaxRecords)
    BY DEF Surplus, Newest
  <2>2. Cardinality(Newer(r)) \in Nat
    BY <1>4, FewIds DEF Newer
  <2> QED
    BY <2>1, <2>2, RecordsAssumption DEF Newer
<1>10. Cardinality(records \ gone) <= MaxRecords /\ \A r \in records \ gone : r > expired'
  <2>1. records \ gone \in SUBSET Newest(MaxRecords, records) /\ Newest(MaxRecords, records) \in SUBSET Id
    BY <1>4 DEF Surplus, Newest
  <2>2. /\ Cardinality(records \ gone) <= Cardinality(Newest(MaxRecords, records))
        /\ Cardinality(records \ gone) \in Nat /\ Cardinality(Newest(MaxRecords, records)) \in Nat
    BY <2>1, FewIds
  <2>3. Cardinality(records \ gone) <= MaxRecords
    BY <1>4, <2>2, NewestAreFew, RecordsAssumption
  <2>4. \A r \in records \ gone : r > expired'
    BY <1>3, <1>4, RecordsAssumption DEF Id
  <2> QED
    BY <2>3, <2>4
<1> HIDE DEF gone
<1>11. SurplusIsBehind'
  <2>1. \A h \in Gateway \ {g} : surplus'[h] = {} /\ writer'[h] # "pruning"
    BY <1>2, OneWriter
  <2>2. surplus'[g] \subseteq records' /\ (\A r \in surplus'[g] : Behind(r)') /\ Tidy(records \ surplus[g])'
    BY <1>2, <1>4, <1>9, <1>10 DEF Tidy
  <2> QED
    BY <1>2, <2>1, <2>2 DEF SurplusIsBehind
<1>12. LeftTidy'
  BY <1>2 DEF LeftTidy
<1> QED
  BY <1>5, <1>6, <1>8, <1>11, <1>12 DEF RecordsInv

\* Whoever is behind stays so when a record is unlinked that is behind itself.
LEMMA StaysBehind ==
  ASSUME RecordsKinds, NEW r \in records, Behind(r), NEW q \in Id, Behind(q),
         records' = records \ {r}, UNCHANGED expired
  PROVE  Behind(q)'
<1>1. /\ records \in SUBSET Id /\ q \in Nat /\ expired \in Nat /\ MaxRecords \in Nat
      /\ \A x \in records : x \in Nat
  BY RecordsAssumption DEF RecordsKinds, Id
<1>2. /\ Newer(q)' \in SUBSET Id /\ Newer(r) \in SUBSET Id
      /\ Cardinality(Newer(q)') \in Nat /\ Cardinality(Newer(r)) \in Nat
  <2>1. Newer(q)' \in SUBSET Id /\ Newer(r) \in SUBSET Id
    BY <1>1 DEF Newer
  <2> QED
    BY <2>1, FewIds
<1>3. Cardinality(Newer(q))' = Cardinality(Newer(q)')
  OBVIOUS
<1>4. CASE q <= expired
  BY <1>4 DEF Behind
<1>5. CASE r <= q
  <2>1. Newer(q)' = Newer(q)
    BY <1>1, <1>5 DEF Newer
  <2> QED
    BY <2>1 DEF Behind
<1>6. CASE ~(r <= q) /\ ~(q <= expired)
  <2>1. Cardinality(Newer(r)) >= MaxRecords
    BY <1>1, <1>6 DEF Behind
  <2>2. Newer(r) \in SUBSET Newer(q)'
    <3>1. r \in Nat /\ r > q
      BY <1>1, <1>6
    <3>2. \A x \in records : x > r => x > q /\ x # r
      BY <1>1, <3>1
    <3> QED
      BY <3>2 DEF Newer
  <2>3. Cardinality(Newer(r)) <= Cardinality(Newer(q)')
    BY <1>2, <2>2, FewIds
  <2> QED
    BY <1>1, <1>2, <1>3, <2>1, <2>3 DEF Behind
<1> QED
  BY <1>4, <1>5, <1>6

LEMMA PruneKeeps ==
  ASSUME RecordsInv, NEW g \in Gateway, Prune(g)
  PROVE  RecordsInv'
<1>1. RecordsKinds /\ LockIsHeld /\ JobsHaveIds
  BY DEF RecordsInv
<1> DEFINE r == Max(surplus[g])
<1>2. /\ UNCHANGED <<kind, issued, noted, jobs, alive, writer, job, expired, lock, replay,
                     target, torn, kills>>
      /\ writer[g] = "pruning" /\ surplus[g] # {}
      /\ records' = records \ {r} /\ pruned' = pruned \cup {r}
      /\ surplus' = [surplus EXCEPT ![g] = @ \ {r}] /\ surplus'[g] = surplus[g] \ {r}
      /\ \A h \in Gateway \ {g} : surplus'[h] = surplus[h]
  BY <1>1 DEF Prune, RecordsKinds
<1>3. /\ surplus[g] \subseteq records /\ \A x \in surplus[g] : Behind(x)
      /\ Tidy(records \ surplus[g]) /\ surplus[g] \in SUBSET Id
  BY <1>1, <1>2 DEF RecordsInv, SurplusIsBehind, RecordsKinds
<1>4. r \in surplus[g]
  BY <1>2, <1>3, MaxIsLast
<1> HIDE DEF r
<1>5. r \in records /\ Behind(r) /\ r \in Id
  BY <1>3, <1>4
<1>6. RecordsKinds'
  <2>1. records' \subseteq Id /\ pruned' \subseteq Id /\ surplus' \in [Gateway -> SUBSET Id]
    BY <1>1, <1>2, <1>5 DEF RecordsKinds
  <2> QED
    BY <1>1, <1>2, <2>1 DEF RecordsKinds
<1>7. LockIsHeld' /\ JobsHaveIds'
  BY <1>1, <1>2, OneWriter DEF LockIsHeld, JobsHaveIds
<1>8. \A q \in Id : Behind(q) => Behind(q)'
  BY <1>1, <1>2, <1>5, StaysBehind
<1>9. PrunedAreBehind'
  BY <1>1, <1>2, <1>5, <1>8 DEF RecordsInv, PrunedAreBehind, RecordsKinds
<1>10. SurplusIsBehind'
  <2>1. \A h \in Gateway \ {g} : surplus'[h] = {} /\ writer'[h] # "pruning"
    BY <1>2, OneWriter
  <2>2. records' \ surplus'[g] = records \ surplus[g]
    BY <1>2, <1>4
  <2>3. Tidy(records \ surplus[g])'
    BY <1>2, <1>3, <2>2 DEF Tidy
  <2>4. surplus'[g] \subseteq records' /\ \A x \in surplus'[g] : Behind(x)'
    BY <1>2, <1>3, <1>8
  <2> QED
    BY <1>2, <2>1, <2>3, <2>4 DEF SurplusIsBehind
<1>11. LeftTidy'
  BY <1>2 DEF LeftTidy
<1> QED
  BY <1>6, <1>7, <1>9, <1>10, <1>11 DEF RecordsInv

LEMMA PruneEndsKeeps ==
  ASSUME RecordsInv, NEW g \in Gateway, PruneEnds(g)
  PROVE  RecordsInv'
<1>1. RecordsKinds /\ LockIsHeld /\ JobsHaveIds
  BY DEF RecordsInv
<1>2. /\ UNCHANGED <<kind, issued, noted, jobs, alive, surplus, expired, records, replay,
                     target, pruned, kills>>
      /\ writer[g] = "pruning" /\ surplus[g] = {} /\ lock' = Nobody /\ torn' = FALSE
      /\ writer' = [writer EXCEPT ![g] = "waiting"] /\ writer'[g] = "waiting"
      /\ job' = [job EXCEPT ![g] = NoId] /\ job'[g] = NoId
      /\ \A h \in Gateway \ {g} : writer'[h] = writer[h] /\ job'[h] = job[h]
  BY <1>1 DEF PruneEnds, Rest, RecordsKinds
<1>3. RecordsKinds'
  <2>1. writer' \in [Gateway -> WriterStep] /\ job' \in [Gateway -> Id \cup {NoId}]
    BY <1>1, <1>2 DEF RecordsKinds, WriterStep
  <2> QED
    BY <1>1, <1>2, <2>1 DEF RecordsKinds
<1>4. LockIsHeld' /\ JobsHaveIds'
  BY <1>1, <1>2, OneWriter, RecordsAssumption DEF LockIsHeld, JobsHaveIds
<1>5. (\A q : Behind(q)' <=> Behind(q)) /\ (\A s : Tidy(s)' <=> Tidy(s))
  BY <1>2 DEF Behind, Newer, Tidy
<1>6. PrunedAreBehind'
  BY <1>2, <1>5 DEF RecordsInv, PrunedAreBehind
<1>7. SurplusIsBehind'
  BY <1>2, <1>5, OneWriter DEF RecordsInv, SurplusIsBehind
<1>8. LeftTidy'
  <2>1. Tidy(records \ surplus[g]) /\ records \ surplus[g] = records
    BY <1>2 DEF RecordsInv, SurplusIsBehind
  <2>2. Tidy(records)
    BY <2>1
  <2> QED
    BY <1>2, <1>5, <2>2 DEF LeftTidy
<1> QED
  BY <1>3, <1>4, <1>6, <1>7, <1>8 DEF RecordsInv

\* A process that dies over the store leaves it torn.
LEMMA KillKeeps ==
  ASSUME RecordsInv, NEW g \in Gateway, KillGateway(g)
  PROVE  RecordsInv'
<1>1. RecordsKinds /\ LockIsHeld /\ JobsHaveIds
  BY DEF RecordsInv
<1>2. /\ UNCHANGED <<kind, issued, expired, records, replay, target, pruned>>
      /\ kills < MaxKills /\ kills' = kills + 1
      /\ noted' = [noted EXCEPT ![g] = {}] /\ jobs' = [jobs EXCEPT ![g] = <<>>] /\ jobs'[g] = <<>>
      /\ alive' = [alive EXCEPT ![g] = FALSE]
      /\ writer' = [writer EXCEPT ![g] = "waiting"] /\ writer'[g] = "waiting"
      /\ job' = [job EXCEPT ![g] = NoId]
      /\ surplus' = [surplus EXCEPT ![g] = {}] /\ surplus'[g] = {}
      /\ lock' = IF lock = g THEN Nobody ELSE lock
      /\ \A h \in Gateway \ {g} : /\ writer'[h] = writer[h] /\ job'[h] = job[h]
                                  /\ surplus'[h] = surplus[h] /\ jobs'[h] = jobs[h]
  BY <1>1 DEF KillGateway, Rest, RecordsKinds
<1>3. torn' \in BOOLEAN /\ torn' = (torn \/ writer[g] \in {"written", "pruning"})
  BY <1>1 DEF KillGateway, RecordsKinds
<1>4. RecordsKinds'
  <2>1. /\ writer' \in [Gateway -> WriterStep] /\ job' \in [Gateway -> Id \cup {NoId}]
        /\ surplus' \in [Gateway -> SUBSET Id] /\ noted' \in [Gateway -> SUBSET Id]
        /\ alive' \in [Gateway -> BOOLEAN] /\ jobs' \in [Gateway -> Seq(Id \cup {NoId})]
    BY <1>1, <1>2 DEF RecordsKinds, WriterStep
  <2>2. kills' \in 0..MaxKills /\ lock' \in Gateway \cup {Operator, Nobody}
    BY <1>1, <1>2, RecordsAssumption DEF RecordsKinds
  <2> QED
    BY <1>1, <1>2, <1>3, <2>1, <2>2 DEF RecordsKinds
<1>5. JobsHaveIds'
  BY <1>1, <1>2 DEF JobsHaveIds
<1>6. LockIsHeld'
  BY <1>1, <1>2, RecordsAssumption DEF LockIsHeld
<1>7. (\A q : Behind(q)' <=> Behind(q)) /\ (\A s : Tidy(s)' <=> Tidy(s))
  BY <1>2 DEF Behind, Newer, Tidy
<1>8. PrunedAreBehind'
  BY <1>2, <1>7 DEF RecordsInv, PrunedAreBehind
<1>9. SurplusIsBehind'
  BY <1>2, <1>7 DEF RecordsInv, SurplusIsBehind
<1>10. LeftTidy'
  <2> SUFFICES ASSUME ~torn', \A h \in Gateway : writer'[h] \notin {"written", "pruning"}
               PROVE  Tidy(records)
    BY <1>2, <1>7 DEF LeftTidy
  <2>1. ~torn /\ writer[g] \notin {"written", "pruning"}
    BY <1>3
  <2> QED
    BY <1>2, <2>1 DEF RecordsInv, LeftTidy
<1> QED
  BY <1>4, <1>5, <1>6, <1>8, <1>9, <1>10 DEF RecordsInv

LEMMA RecordsSteps == RecordsInv /\ [RecordsNext]_recordsVars => RecordsInv'
<1> SUFFICES ASSUME RecordsInv, [RecordsNext]_recordsVars PROVE RecordsInv'
  OBVIOUS
<1>1. ASSUME NEW g \in Gateway,
             \/ StartWriter(g) \/ Note(g) \/ Enqueue(g) \/ EnqueueStage(g) \/ TakeJob(g)
             \/ LockStore(g) \/ StageDropped(g) \/ WriteRecord(g) \/ WriteFails(g)
             \/ ListSurplus(g) \/ Prune(g) \/ PruneEnds(g) \/ KillGateway(g)
      PROVE  RecordsInv'
  BY <1>1, NotingKeeps, JobKeeps, WriteKeeps, ListKeeps, PruneKeeps, PruneEndsKeeps, KillKeeps
<1>2. CASE LoadRecord \/ LockForReplay \/ Reload \/ SaveFails \/ SaveReplay
  BY <1>2, ReplayKeeps
<1>3. CASE UNCHANGED recordsVars
  BY <1>3
  DEF recordsVars, RecordsInv, RecordsKinds, LockIsHeld, JobsHaveIds, SurplusIsBehind,
      PrunedAreBehind, LeftTidy, Behind, Newer, Tidy
<1> QED
  BY <1>1, <1>2, <1>3 DEF RecordsNext

\* What is known of the store and its writers is invariant.
THEOREM RecordsInvariant == RecordsSpec => []RecordsInv
BY RecordsStart, RecordsSteps, PTL DEF RecordsSpec

\* Every variable of the stores holds a value of its kind.
THEOREM RecordsTypes == RecordsSpec => []RecordsTypeOK
<1>1. RecordsInv => RecordsTypeOK
  BY RecordsAssumption DEF RecordsInv, RecordsKinds, RecordsTypeOK
<1> QED
  BY <1>1, RecordsInvariant, PTL

\* While nobody holds the lock and no process died over it, a store
\* (diagnostics.py and evaluation.py, _prune_locked) is within its maximum
\* and every record of it is newer than any that was unlinked.
THEOREM NewestRecordsAreKept == RecordsSpec => []NewestAreKept
<1>1. RecordsInv => NewestAreKept
  <2> SUFFICES ASSUME RecordsInv, lock = Nobody, ~torn
               PROVE  /\ Cardinality(records) <= MaxRecords
                      /\ \A r \in records, q \in pruned : q < r
    BY DEF NewestAreKept
  <2>1. RecordsKinds /\ LockIsHeld
    BY DEF RecordsInv
  <2>2. \A g \in Gateway : writer[g] \notin {"written", "pruning"}
    BY <2>1, RecordsAssumption DEF LockIsHeld
  <2>3. Cardinality(records) <= MaxRecords /\ \A r \in records : r > expired
    BY <2>2 DEF RecordsInv, LeftTidy, Tidy
  <2>4. ASSUME NEW r \in records, NEW q \in pruned
        PROVE  q < r
    <3>1. records \in SUBSET Id /\ r \in Nat /\ q \in Nat /\ expired \in Nat /\ MaxRecords \in Nat
      BY <2>1, RecordsAssumption DEF RecordsKinds, Id
    <3>2. q <= expired \/ Cardinality(Newer(q)) >= MaxRecords
      BY DEF RecordsInv, PrunedAreBehind, Behind
    <3>3. CASE q <= expired
      BY <2>3, <3>1, <3>3
    <3>4. CASE Cardinality(Newer(q)) >= MaxRecords
      <4>1. Newer(q) \in SUBSET records /\ IsFiniteSet(records)
        BY <3>1, FewIds DEF Newer
      <4>2. /\ Cardinality(Newer(q)) \in Nat /\ Cardinality(records) \in Nat
            /\ Cardinality(Newer(q)) <= Cardinality(records)
        BY <3>1, <4>1, FewIds
      <4>3. Cardinality(Newer(q)) = Cardinality(records)
        BY <2>3, <3>1, <3>4, <4>2
      <4>4. Newer(q) = records
        BY <4>1, <4>3, FS_Subset
      <4> QED
        BY <3>1, <4>4 DEF Newer
    <3> QED
      BY <3>2, <3>3, <3>4
  <2> QED
    BY <2>3, <2>4
<1> QED
  BY <1>1, RecordsInvariant, PTL

-----------------------------------------------------------------------------
(***************************************************************************)
(* A record that was pruned does not come back: an id is on its way in one *)
(* place at a time, and what is on its way was never written.              *)
(***************************************************************************)
Elements(s) == {s[i] : i \in 1..Len(s)}
Queued(g) == Elements(jobs[g])
InHand(g) == IF writer[g] \in {"job", "locked"} THEN {job[g]} ELSE {}
Unwritten(g) == (noted[g] \cup Queued(g) \cup InHand(g)) \ {NoId}

\* Within a process no id is on its way twice.
Apart(g) ==
  /\ noted[g] \cap Queued(g) = {}
  /\ (InHand(g) \ {NoId}) \cap (noted[g] \cup Queued(g)) = {}
  /\ \A i, j \in 1..Len(jobs[g]) : jobs[g][i] = jobs[g][j] /\ jobs[g][i] # NoId => i = j

WrittenOnce ==
  /\ records \cup pruned \subseteq 1..issued
  /\ records \cap pruned = {}
  /\ \A g \in Gateway : Apart(g) /\ Unwritten(g) \subseteq (1..issued) \ (records \cup pruned)
  /\ \A g, h \in Gateway : g # h => Unwritten(g) \cap Unwritten(h) = {}

\* Steps that put nothing new on its way.
LEMMA NothingNew ==
  ASSUME WrittenOnce, UNCHANGED <<issued, records, pruned>>,
         \A g \in Gateway : Apart(g)' /\ Unwritten(g)' \subseteq Unwritten(g)
  PROVE  WrittenOnce'
BY DEF WrittenOnce

\* A new id is none of those there were.
LEMMA OneNew ==
  ASSUME WrittenOnce, issued \in Nat, issued' = issued + 1, UNCHANGED <<records, pruned>>,
         NEW g \in Gateway, Unwritten(g)' \subseteq Unwritten(g) \cup {issued'},
         \A h \in Gateway : Apart(h)' /\ (h # g => Unwritten(h)' \subseteq Unwritten(h))
  PROVE  WrittenOnce'
<1>1. (1..issued') = (1..issued) \cup {issued'} /\ issued' \notin 1..issued
  OBVIOUS
<1>2. \A h \in Gateway : issued' \notin Unwritten(h)
  BY <1>1 DEF WrittenOnce
<1>3. issued' \notin records \cup pruned
  BY <1>1 DEF WrittenOnce
<1> HIDE DEF Unwritten, Apart
<1>4. \A h \in Gateway : Unwritten(h)' \subseteq (1..issued') \ (records \cup pruned)
  BY <1>1, <1>3 DEF WrittenOnce
<1>5. \A h, k \in Gateway : h # k => Unwritten(h)' \cap Unwritten(k)' = {}
  BY <1>2 DEF WrittenOnce
<1> QED
  BY <1>1, <1>4, <1>5 DEF WrittenOnce

\* A process of which nothing changed.
LEMMA SameApart ==
  ASSUME NEW g \in Gateway, noted'[g] = noted[g], jobs'[g] = jobs[g], writer'[g] = writer[g],
         job'[g] = job[g]
  PROVE  (Apart(g)' <=> Apart(g)) /\ Unwritten(g)' = Unwritten(g)
BY DEF Apart, Unwritten, Queued, Elements, InHand

\* One whose writer let go of its job.
LEMMA RestApart ==
  ASSUME NEW g \in Gateway, Apart(g), noted'[g] = noted[g], jobs'[g] = jobs[g],
         writer'[g] \notin {"job", "locked"}
  PROVE  /\ Apart(g)' /\ Unwritten(g)' \subseteq Unwritten(g)
         /\ Apart(g)' /\ Unwritten(g)' = (noted[g] \cup Queued(g)) \ {NoId}
BY DEF Apart, Unwritten, Queued, Elements, InHand

\* A queue that grew at its end.
Grows(s, t, x) ==
  /\ Len(s) \in Nat /\ Len(t) = Len(s) + 1 /\ t[Len(s) + 1] = x
  /\ \A i \in 1..Len(s) : t[i] = s[i]

LEMMA Grown ==
  ASSUME NEW s, NEW t, NEW x, Grows(s, t, x)
  PROVE  Elements(t) = Elements(s) \cup {x}
<1> DEFINE n == Len(s)
<1>1. 1..Len(t) = (1..n) \cup {n + 1}
  BY DEF Grows
<1> HIDE DEF n
<1>2. \A i \in 1..n : t[i] = s[i]
  BY DEF n, Grows
<1>3. t[n + 1] = x
  BY DEF n, Grows
<1>4. {t[i] : i \in (1..n) \cup {n + 1}} = {s[i] : i \in 1..n} \cup {x}
  BY <1>2, <1>3
<1> QED
  BY <1>1, <1>4 DEF n, Elements

LEMMA WrittenOnceStart == RecordsInit => WrittenOnce
BY DEF RecordsInit, WrittenOnce, Apart, Unwritten, Queued, Elements, InHand

\* Noting and queueing.
LEMMA NotingOnce ==
  ASSUME RecordsInv, WrittenOnce, NEW g \in Gateway,
         StartWriter(g) \/ Note(g) \/ Enqueue(g) \/ EnqueueStage(g)
  PROVE  WrittenOnce'
<1>1. RecordsKinds
  BY DEF RecordsInv
<1>2. UNCHANGED <<writer, job, records, pruned>>
  BY DEF StartWriter, Note, Enqueue, EnqueueStage
<1>3. CASE StartWriter(g)
  BY <1>2, <1>3, SameApart, NothingNew DEF StartWriter, WrittenOnce
<1>4. CASE Note(g)
  <2>1. /\ issued' = issued + 1 /\ issued \in Nat /\ jobs' = jobs
        /\ noted' = [noted EXCEPT ![g] = @ \cup {issued'}]
        /\ noted'[g] = noted[g] \cup {issued'} /\ \A h \in Gateway \ {g} : noted'[h] = noted[h]
    BY <1>1, <1>4 DEF Note, RecordsKinds
  <2>2. Queued(g)' = Queued(g) /\ InHand(g)' = InHand(g)
    BY <1>2, <2>1 DEF Queued, InHand
  <2>3. issued' \notin Unwritten(g) /\ issued' # NoId
    BY <2>1 DEF WrittenOnce, NoId
  <2>4. Apart(g)'
    BY <2>1, <2>2, <2>3 DEF WrittenOnce, Apart, Unwritten
  <2>5. Unwritten(g)' \subseteq Unwritten(g) \cup {issued'}
    BY <2>1, <2>2 DEF Unwritten
  <2>6. \A h \in Gateway \ {g} : Apart(h)' /\ Unwritten(h)' = Unwritten(h)
    BY <1>2, <2>1, SameApart DEF WrittenOnce
  <2> QED
    BY <1>2, <2>1, <2>4, <2>5, <2>6, OneNew
<1>5. CASE Enqueue(g)
  <2>1. PICK id \in noted[g] :
          /\ noted' = [noted EXCEPT ![g] = @ \ {id}]
          /\ jobs' = IF alive[g] /\ Len(jobs[g]) < QueueMax
                     THEN [jobs EXCEPT ![g] = Append(@, id)] ELSE jobs
    BY <1>5 DEF Enqueue
  <2>2. /\ noted'[g] = noted[g] \ {id} /\ jobs[g] \in Seq(Id \cup {NoId}) /\ id \in Id
        /\ jobs'[g] \in {jobs[g], Append(jobs[g], id)}
        /\ \A h \in Gateway \ {g} : noted'[h] = noted[h] /\ jobs'[h] = jobs[h]
    BY <1>1, <2>1 DEF RecordsKinds
  <2>3. Apart(g)' /\ Unwritten(g)' \subseteq Unwritten(g)
    <3>1. CASE jobs'[g] = jobs[g]
      BY <1>2, <2>2, <3>1 DEF WrittenOnce, Apart, Unwritten, Queued, Elements, InHand
    <3>2. CASE jobs'[g] = Append(jobs[g], id)
      <4>1. Grows(jobs[g], jobs'[g], id)
        BY <2>2, <3>2 DEF Grows
      <4>2. Queued(g)' = Queued(g) \cup {id}
        BY <4>1, Grown DEF Queued
      <4>3. InHand(g)' = InHand(g) /\ id \notin Queued(g)
        BY <1>2, <2>2 DEF InHand, WrittenOnce, Apart
      <4>4. \A i, j \in 1..Len(jobs'[g]) : jobs'[g][i] = jobs'[g][j] /\ jobs'[g][i] # NoId => i = j
        <5>1. \A i \in 1..Len(jobs[g]) : jobs[g][i] # id
          BY <4>3 DEF Queued, Elements
        <5>2. \A i, j \in 1..Len(jobs[g]) : jobs[g][i] = jobs[g][j] /\ jobs[g][i] # NoId => i = j
          BY DEF WrittenOnce, Apart
        <5>3. \A i \in 1..Len(jobs'[g]) : i \in 1..Len(jobs[g]) \/ i = Len(jobs[g]) + 1
          BY <4>1 DEF Grows
        <5> QED
          BY <4>1, <5>1, <5>2, <5>3 DEF Grows
      <4> QED
        BY <2>2, <4>2, <4>3, <4>4 DEF WrittenOnce, Apart, Unwritten
    <3> QED
      BY <2>2, <3>1, <3>2
  <2>4. \A h \in Gateway \ {g} : Apart(h)' /\ Unwritten(h)' = Unwritten(h)
    BY <1>2, <2>2, SameApart DEF WrittenOnce
  <2> QED
    BY <1>2, <1>5, <2>3, <2>4, NothingNew DEF Enqueue
<1>6. CASE EnqueueStage(g)
  <2>1. /\ jobs'[g] = Append(jobs[g], NoId) /\ jobs[g] \in Seq(Id \cup {NoId}) /\ noted' = noted
        /\ \A h \in Gateway \ {g} : jobs'[h] = jobs[h]
    BY <1>1, <1>6 DEF EnqueueStage, RecordsKinds
  <2>2. Grows(jobs[g], jobs'[g], NoId)
    BY <2>1 DEF Grows
  <2>3. Queued(g)' = Queued(g) \cup {NoId} /\ InHand(g)' = InHand(g)
    BY <1>2, <2>2, Grown DEF Queued, InHand
  <2>4. NoId \notin noted[g]
    BY <1>1 DEF RecordsKinds, Id, NoId
  <2>5. Apart(g)' /\ Unwritten(g)' \subseteq Unwritten(g)
    BY <2>1, <2>2, <2>3, <2>4 DEF WrittenOnce, Apart, Unwritten, Grows
  <2>6. \A h \in Gateway \ {g} : Apart(h)' /\ Unwritten(h)' = Unwritten(h)
    BY <1>2, <2>1, SameApart DEF WrittenOnce
  <2> QED
    BY <1>2, <1>6, <2>5, <2>6, NothingNew DEF EnqueueStage
<1> QED
  BY <1>3, <1>4, <1>5, <1>6

\* A writer takes a job, gives it an id if it has none yet, or drops it.
LEMMA JobOnce ==
  ASSUME RecordsInv, WrittenOnce, NEW g \in Gateway,
         TakeJob(g) \/ LockStore(g) \/ StageDropped(g) \/ WriteFails(g) \/ ListSurplus(g)
           \/ PruneEnds(g)
  PROVE  WrittenOnce'
<1>1. RecordsKinds
  BY DEF RecordsInv
<1>2. UNCHANGED <<noted, records, pruned>>
  BY DEF TakeJob, LockStore, StageDropped, WriteFails, ListSurplus, PruneEnds
<1>3. CASE TakeJob(g)
  <2>1. /\ jobs[g] \in Seq(Id \cup {NoId}) /\ jobs[g] # <<>> /\ jobs'[g] = Tail(jobs[g])
        /\ writer[g] = "waiting" /\ writer'[g] = "job" /\ job'[g] = Head(jobs[g])
        /\ issued' = issued
        /\ \A h \in Gateway \ {g} : /\ writer'[h] = writer[h] /\ job'[h] = job[h]
                                    /\ jobs'[h] = jobs[h]
    BY <1>1, <1>3 DEF TakeJob, RecordsKinds
  <2>2. /\ Len(jobs[g]) \in Nat /\ Len(jobs[g]) >= 1 /\ Len(jobs'[g]) = Len(jobs[g]) - 1
        /\ job'[g] = jobs[g][1] /\ \A i \in 1..Len(jobs'[g]) : jobs'[g][i] = jobs[g][i + 1]
    BY <2>1
  <2>3. Elements(jobs'[g]) \subseteq Elements(jobs[g]) /\ job'[g] \in Elements(jobs[g])
    BY <2>2 DEF Elements
  <2>4. job'[g] # NoId => job'[g] \notin Elements(jobs'[g])
    BY <2>2 DEF WrittenOnce, Apart, Elements
  <2>5. \A i, j \in 1..Len(jobs'[g]) : jobs'[g][i] = jobs'[g][j] /\ jobs'[g][i] # NoId => i = j
    <3> SUFFICES ASSUME NEW i \in 1..Len(jobs'[g]), NEW j \in 1..Len(jobs'[g]),
                        jobs'[g][i] = jobs'[g][j], jobs'[g][i] # NoId
                 PROVE  i = j
      OBVIOUS
    <3>1. i + 1 \in 1..Len(jobs[g]) /\ j + 1 \in 1..Len(jobs[g])
      BY <2>2
    <3>2. jobs[g][i + 1] = jobs[g][j + 1] /\ jobs[g][i + 1] # NoId
      BY <2>2
    <3>3. i + 1 = j + 1
      BY <3>1, <3>2 DEF WrittenOnce, Apart
    <3> QED
      BY <3>3
  <2>6. InHand(g) = {} /\ InHand(g)' = {job'[g]}
    BY <2>1 DEF InHand
  <2>7. noted[g] \cap Elements(jobs[g]) = {}
    BY DEF WrittenOnce, Apart, Queued
  <2>8. Apart(g)' /\ Unwritten(g)' \subseteq Unwritten(g)
    <3> HIDE DEF Elements
    <3> QED
      BY <1>2, <2>3, <2>4, <2>5, <2>6, <2>7 DEF Apart, Unwritten, Queued
  <2>9. \A h \in Gateway \ {g} : Apart(h)' /\ Unwritten(h)' = Unwritten(h)
    BY <1>2, <2>1, SameApart DEF WrittenOnce
  <2> QED
    BY <1>2, <2>1, <2>8, <2>9, NothingNew
<1>4. CASE LockStore(g) /\ kind = "evaluation"
  <2>1. /\ issued \in Nat /\ issued' = issued + 1 /\ jobs' = jobs
        /\ writer'[g] = "locked" /\ job'[g] = issued'
        /\ \A h \in Gateway \ {g} : writer'[h] = writer[h] /\ job'[h] = job[h]
    BY <1>1, <1>4 DEF LockStore, RecordsKinds
  <2>2. Queued(g)' = Queued(g) /\ InHand(g)' = {issued'}
    BY <2>1 DEF Queued, InHand
  <2>3. issued' \notin Unwritten(g) /\ issued' # NoId
    BY <2>1 DEF WrittenOnce, NoId
  <2>4. Apart(g)'
    BY <1>2, <2>1, <2>2, <2>3 DEF WrittenOnce, Apart, Unwritten
  <2>5. Unwritten(g)' \subseteq Unwritten(g) \cup {issued'}
    BY <1>2, <2>2 DEF Unwritten
  <2>6. \A h \in Gateway \ {g} : Apart(h)' /\ Unwritten(h)' = Unwritten(h)
    BY <1>2, <2>1, SameApart DEF WrittenOnce
  <2> QED
    BY <1>2, <2>1, <2>4, <2>5, <2>6, OneNew
<1>5. CASE LockStore(g) /\ kind # "evaluation"
  <2>1. /\ issued' = issued /\ jobs' = jobs /\ job' = job
        /\ writer[g] = "job" /\ writer'[g] = "locked"
        /\ \A h \in Gateway \ {g} : writer'[h] = writer[h]
    BY <1>1, <1>5 DEF LockStore, RecordsKinds
  <2>2. Queued(g)' = Queued(g) /\ InHand(g)' = InHand(g)
    BY <2>1 DEF Queued, InHand
  <2>3. Apart(g)' /\ Unwritten(g)' = Unwritten(g)
    BY <1>2, <2>1, <2>2 DEF WrittenOnce, Apart, Unwritten
  <2>4. \A h \in Gateway \ {g} : Apart(h)' /\ Unwritten(h)' = Unwritten(h)
    BY <1>2, <2>1, SameApart DEF WrittenOnce
  <2> QED
    BY <1>2, <2>1, <2>3, <2>4, NothingNew
<1>6. CASE StageDropped(g) \/ WriteFails(g) \/ ListSurplus(g) \/ PruneEnds(g)
  <2>1. /\ issued' = issued /\ jobs' = jobs /\ writer'[g] \notin {"job", "locked"}
        /\ \A h \in Gateway \ {g} : writer'[h] = writer[h] /\ job'[h] = job[h]
    BY <1>1, <1>6 DEF StageDropped, WriteFails, ListSurplus, PruneEnds, Rest, RecordsKinds
  <2>2. Apart(g)' /\ Unwritten(g)' \subseteq Unwritten(g)
    BY <1>2, <2>1, RestApart DEF WrittenOnce
  <2>3. \A h \in Gateway \ {g} : Apart(h)' /\ Unwritten(h)' = Unwritten(h)
    BY <1>2, <2>1, SameApart DEF WrittenOnce
  <2> QED
    BY <1>2, <2>1, <2>2, <2>3, NothingNew
<1> QED
  BY <1>3, <1>4, <1>5, <1>6

\* The writer writes what was on its way, and unlinks what was written.
LEMMA WriteOnce ==
  ASSUME RecordsInv, WrittenOnce, NEW g \in Gateway, WriteRecord(g)
  PROVE  WrittenOnce'
<1>1. RecordsKinds /\ job[g] \in Id
  BY DEF RecordsInv, JobsHaveIds, WriteRecord
<1>2. /\ UNCHANGED <<issued, noted, jobs, job, pruned>> /\ records' = records \cup {job[g]}
      /\ writer[g] = "locked" /\ writer'[g] = "written"
      /\ \A h \in Gateway \ {g} : writer'[h] = writer[h]
  BY <1>1 DEF WriteRecord, RecordsKinds
<1>3. job[g] \in Unwritten(g) /\ job[g] \notin noted[g] \cup Queued(g) /\ job[g] # NoId
  BY <1>1, <1>2 DEF WrittenOnce, Apart, Unwritten, InHand, Id, NoId
<1>4. Apart(g)' /\ Unwritten(g)' \subseteq Unwritten(g) \ {job[g]}
  BY <1>2, <1>3, RestApart DEF WrittenOnce, Unwritten
<1>5. \A h \in Gateway \ {g} : Apart(h)' /\ Unwritten(h)' = Unwritten(h)
  BY <1>2, SameApart DEF WrittenOnce
<1>6. \A h \in Gateway \ {g} : job[g] \notin Unwritten(h)
  BY <1>3 DEF WrittenOnce
<1> HIDE DEF Apart, Unwritten
<1>7. \A h \in Gateway : Unwritten(h)' \subseteq Unwritten(h) \ {job[g]}
  BY <1>4, <1>5, <1>6
<1>8. job[g] \in (1..issued) \ (records \cup pruned)
  BY <1>3 DEF WrittenOnce
<1> QED
  BY <1>2, <1>4, <1>5, <1>7, <1>8 DEF WrittenOnce

LEMMA PruneOnce ==
  ASSUME RecordsInv, WrittenOnce, NEW g \in Gateway, Prune(g)
  PROVE  WrittenOnce'
<1>1. RecordsKinds /\ surplus[g] \subseteq records
  BY DEF RecordsInv, SurplusIsBehind
<1>2. PICK r \in surplus[g] : records' = records \ {r} /\ pruned' = pruned \cup {r}
  <2>1. surplus[g] \in SUBSET Id /\ surplus[g] # {}
    BY <1>1 DEF Prune, RecordsKinds
  <2>2. Max(surplus[g]) \in surplus[g]
    BY <2>1, MaxIsLast
  <2> QED
    BY <2>2 DEF Prune
<1>3. UNCHANGED <<issued, noted, jobs, writer, job>>
  BY DEF Prune
<1>4. \A h \in Gateway : (Apart(h)' <=> Apart(h)) /\ Unwritten(h)' = Unwritten(h)
  BY <1>3, SameApart
<1>5. r \in records
  BY <1>1
<1> HIDE DEF Apart, Unwritten
<1> QED
  BY <1>2, <1>3, <1>4, <1>5 DEF WrittenOnce

\* A replay that kept its record writes it over itself, under the lock.
LEMMA ReplayOnce ==
  ASSUME RecordsInv, WrittenOnce, LoadRecord \/ LockForReplay \/ Reload \/ SaveFails \/ SaveReplay
  PROVE  WrittenOnce'
<1>1. UNCHANGED <<issued, noted, jobs, writer, job, pruned>>
  BY DEF LoadRecord, LockForReplay, Reload, SaveFails, SaveReplay
<1>2. records' = records
  BY DEF LoadRecord, LockForReplay, Reload, SaveFails, SaveReplay, RecordsInv, LockIsHeld
<1>3. \A h \in Gateway : (Apart(h)' <=> Apart(h)) /\ Unwritten(h)' = Unwritten(h)
  BY <1>1, SameApart
<1> QED
  BY <1>1, <1>2, <1>3, NothingNew DEF WrittenOnce

\* What a process that dies had on its way is lost.
LEMMA KillOnce ==
  ASSUME RecordsInv, WrittenOnce, NEW g \in Gateway, KillGateway(g)
  PROVE  WrittenOnce'
<1>1. RecordsKinds
  BY DEF RecordsInv
<1>2. /\ UNCHANGED <<issued, records, pruned>>
      /\ noted'[g] = {} /\ jobs'[g] = <<>> /\ writer'[g] = "waiting"
      /\ \A h \in Gateway \ {g} : /\ noted'[h] = noted[h] /\ jobs'[h] = jobs[h]
                                  /\ writer'[h] = writer[h] /\ job'[h] = job[h]
  BY <1>1 DEF KillGateway, Rest, RecordsKinds
<1>3. Apart(g)' /\ Unwritten(g)' = {}
  BY <1>2 DEF Apart, Unwritten, Queued, Elements, InHand
<1>4. \A h \in Gateway \ {g} : Apart(h)' /\ Unwritten(h)' = Unwritten(h)
  BY <1>2, SameApart DEF WrittenOnce
<1> QED
  BY <1>2, <1>3, <1>4, NothingNew

LEMMA WrittenOnceSteps == RecordsInv /\ WrittenOnce /\ [RecordsNext]_recordsVars => WrittenOnce'
<1> SUFFICES ASSUME RecordsInv, WrittenOnce, [RecordsNext]_recordsVars PROVE WrittenOnce'
  OBVIOUS
<1>1. ASSUME NEW g \in Gateway,
             \/ StartWriter(g) \/ Note(g) \/ Enqueue(g) \/ EnqueueStage(g) \/ TakeJob(g)
             \/ LockStore(g) \/ StageDropped(g) \/ WriteRecord(g) \/ WriteFails(g)
             \/ ListSurplus(g) \/ Prune(g) \/ PruneEnds(g) \/ KillGateway(g)
      PROVE  WrittenOnce'
  BY <1>1, NotingOnce, JobOnce, WriteOnce, PruneOnce, KillOnce
<1>2. CASE LoadRecord \/ LockForReplay \/ Reload \/ SaveFails \/ SaveReplay
  BY <1>2, ReplayOnce
<1>3. CASE UNCHANGED recordsVars
  <2>1. \A h \in Gateway : (Apart(h)' <=> Apart(h)) /\ Unwritten(h)' = Unwritten(h)
    BY <1>3, SameApart DEF recordsVars
  <2> QED
    BY <1>3, <2>1, NothingNew DEF recordsVars, WrittenOnce
<1> QED
  BY <1>1, <1>2, <1>3 DEF RecordsNext

\* A replay that took longer than its record was kept brings nothing back:
\* save_replay_result loads the record again under the lock.
THEOREM PrunedIsGone == RecordsSpec => []PrunedStaysPruned
<1>1. WrittenOnce => PrunedStaysPruned
  BY DEF WrittenOnce, PrunedStaysPruned
<1> QED
  BY <1>1, WrittenOnceStart, WrittenOnceSteps, RecordsInvariant, PTL DEF RecordsSpec

-----------------------------------------------------------------------------
(***************************************************************************)
(* The provider as a whole: each part keeps its own specification.         *)
(***************************************************************************)
\* A behaviour of the provider is one of each of its parts.
THEOREM PartsBehave == Spec => SwitchSpec /\ ProviderCallsSpec /\ PlannerSpec /\ RecordsSpec
<1>1. Init => SwitchInit /\ ProviderCallsInit /\ PlannerInit /\ RecordsInit
  BY DEF Init
<1>2. [Next]_vars => /\ [SwitchNext]_switchVars /\ [ProviderCallsNext]_providerCallsVars
                     /\ [PlannerNext]_plannerVars /\ [RecordsNext]_recordsVars
  BY DEF Next, vars
<1> QED
  BY <1>1, <1>2, PTL DEF Spec, SwitchSpec, ProviderCallsSpec, PlannerSpec, RecordsSpec

\* What is reported of a turn is what happened to it (TurnIsReported).
THEOREM TurnsAreReported == Spec => []TurnIsReported
<1>1. PlannerInv /\ CallsInv /\ StatusDescribesInjection => TurnIsReported
  BY HooksTellTheirTurn
     DEF TurnIsReported, CallsInv, CallsAreSound, Sound, KeepsToItsStages, CapturesAreStaged, Thread
<1> QED
  BY <1>1, PartsBehave, PlannerInvariant, CallsInvariant, StatusIsOfThePrompt, PTL

\* Every invariant the run of the provider checks, for a provider of any size.
THEOREM ProviderIsSafe ==
  Spec => [](Converges /\ CapabilityBindsCall /\ FailuresRecall /\ TurnIsReported /\ NewestAreKept)
BY PartsBehave, SwitchesConverge, CapabilityBinds, OnlyAnswersDecide, TurnsAreReported,
   NewestRecordsAreKept, PTL
=============================================================================
