---------------------------- MODULE RecallContext ----------------------------
(***************************************************************************)
(* How recalled memories are fitted into the prompt (formatting.py): in    *)
(* rank order, each piece of evidence once, within a budget of bytes.      *)
(* Handles of attachments are given up before text is, and only the last   *)
(* memory is cut short.  A pure function: the variable response is its     *)
(* input, one initial state for each.                                      *)
(*                                                                         *)
(* A memory stands for its normalized text and its dates.  What raises, a  *)
(* malformed result or the deadline, empties the whole context.            *)
(***************************************************************************)
EXTENDS Integers, FiniteSets, Sequences, FiniteSetsExt, Sums

CONSTANTS
  Chars,      \* the bytes of each character of each memory, serialized
  Handle,     \* the bytes of the attachments a result may have, 0 for none
  Received,   \* the results a response may have
  MaxResults, \* results of one recall; a bound
  Budgets,    \* context_max_bytes without the fixed lines
  Lateness,   \* the checks that may be the first to find the deadline reached
  Record,     \* bytes of a record around its text
  Marker      \* bytes of TEXT_TRUNCATION_MARKER

Memory == DOMAIN Chars

\* An oversized result is above _RECALL_RECORD_INPUT_MAX_BYTES; of a malformed
\* one, the projection, the redaction or the serialization raises.
Result == [memory : Memory, attachments : Handle, form : {"sound", "oversized", "malformed"}]

ASSUME RecallContextAssumption ==
  /\ \A m \in Memory : Chars[m] \in Seq(Nat \ {0})
  /\ 0 \in Handle /\ Handle \subseteq Nat /\ Received \subseteq Result
  /\ MaxResults \in Nat /\ Budgets \subseteq Int /\ Lateness \subseteq Nat
  /\ Record \in Nat /\ Marker \in Nat

VARIABLE response

\* A response without a sequence of results shows what one without results
\* shows, and a max_bytes that is not positive what a budget below 0 does:
\* nothing.  Without a deadline, no check is late.
RecallContextInit ==
  \E n \in 0..MaxResults :
    response \in [results : [1..n -> Received], budget : Budgets, late : Lateness]

Prefixed(m, n) == PartialSums(Chars[m])[n]
LineBytes(r) == Record + Prefixed(r.memory, Len(Chars[r.memory])) + r.attachments
TruncatedBytes(r, n) == Record + Prefixed(r.memory, n) + Marker

\* _memory_fingerprint
Fingerprint(r) == <<r.memory, r.attachments>>

-----------------------------------------------------------------------------
\* _fit_truncated_record: a binary search for the longest prefix that fits,
\* when no character at all does.  One round narrows the range, so that it is
\* empty after one round for each prefix; each round checks the deadline.
Narrow(search, r, available) ==
  LET middle == (search.low + search.high) \div 2
      next == [search EXCEPT !.rounds = @ + 1]
  IN
  IF search.low > search.high THEN search
  ELSE IF TruncatedBytes(r, middle) <= available
    THEN [next EXCEPT !.low = middle + 1, !.best = middle]
  ELSE [next EXCEPT !.high = middle - 1]

LongestPrefix(r, available) ==
  LET size == Len(Chars[r.memory])
      Search[n \in 0..size + 1] ==
        IF n = 0 THEN [low |-> 0, high |-> size, best |-> 0, rounds |-> 0]
        ELSE Narrow(Search[n - 1], r, available)
  IN Search[size + 1]

CharsThatFit(r, available) == LongestPrefix(r, available).best

\* _serialize_without_crowding_text
WithoutCrowding(r, available) ==
  IF r.attachments # 0 /\ LineBytes(r) > available THEN [r EXCEPT !.attachments = 0] ELSE r

\* Faulty variant: evidence is compared before the handles are given up.
PrintOfResult(r, available) == Fingerprint(r)

PrintOfEvidence(r, available) == Fingerprint(WithoutCrowding(r, available))

Line(i, r, chars, bytes) == [index |-> i, record |-> r, chars |-> chars, bytes |-> bytes]

\* The room left for the line of a result, and what of the result it shows.
Separator(context) == IF context.lines = <<>> THEN 0 ELSE 1
Left(context) == response.budget - context.bytes - Separator(context)
RecordOf(context, i) == WithoutCrowding(response.results[i], Left(context))

\* A result is passed over when it is too large or its evidence was seen.
Passes(context, i) ==
  \/ response.results[i].form = "oversized"
  \/ PrintOfEvidence(response.results[i], Left(context)) \in context.seen

\* The context with one result more, shown whole or cut; full once the loop
\* has been left.
Fitted(context, i) ==
  LET available == Left(context)
      record == RecordOf(context, i)
      whole == Len(Chars[record.memory])
      chars == CharsThatFit(record, available)
  IN
  IF Passes(context, i) THEN context
  ELSE IF LineBytes(record) <= available
    THEN [context EXCEPT !.lines = Append(@, Line(i, record, whole, LineBytes(record))),
                         !.bytes = @ + Separator(context) + LineBytes(record),
                         !.seen = @ \cup {Fingerprint(record)}]
  ELSE IF TruncatedBytes(record, 0) <= available
    THEN [context EXCEPT !.lines = Append(@, Line(i, record, chars, TruncatedBytes(record, chars))),
                         !.bytes = @ + Separator(context) + TruncatedBytes(record, chars),
                         !.full = TRUE]
  ELSE [context EXCEPT !.full = TRUE]

\* How often _raise_if_deadline_reached is called for one result.
Checks(context, i) ==
  LET record == RecordOf(context, i)  available == Left(context) IN
  IF response.results[i].form = "oversized" THEN 1
  ELSE IF \/ Passes(context, i)
          \/ LineBytes(record) <= available
          \/ TruncatedBytes(record, 0) > available
    THEN 4
  ELSE 4 + LongestPrefix(record, available).rounds

\* One result of the loop; failed once it has raised.
Consider(context, i) ==
  LET checks == context.checks + Checks(context, i) IN
  IF context.full \/ context.failed THEN context
  ELSE IF response.results[i].form = "malformed" \/ checks >= response.late
    THEN [context EXCEPT !.failed = TRUE]
  ELSE [Fitted(context, i) EXCEPT !.checks = checks]

Empty ==
  [lines |-> <<>>, bytes |-> 0, seen |-> {}, full |-> FALSE, checks |-> 0, failed |-> FALSE]

\* The context after each of the results.
Contexts ==
  LET Context[i \in 0..Len(response.results)] ==
        IF i = 0 THEN Empty ELSE Consider(Context[i - 1], i)
  IN Context

\* Faulty variant: the lines made before the failure are kept.
FailsWithoutLines(context) ==
  context.lines = <<>> /\ (context.failed \/ context.checks + 1 >= response.late)

\* The deadline is checked once more behind the loop.
Fails(context) == context.failed \/ context.checks + 1 >= response.late

\* format_recall_context_with_selected_results_and_provenance: the lines of
\* the context, none of them when anything raised.
RecallContext ==
  LET context == Contexts[Len(response.results)] IN
  IF Fails(context) THEN <<>> ELSE context.lines

-----------------------------------------------------------------------------
(***************************************************************************)
(* Properties.                                                             *)
(***************************************************************************)
Whole(line) == line.bytes = LineBytes(line.record)

\* What the lines before a result take, with what separates them from it.
SpentBefore(lines, i) ==
  SumOf([k \in DOMAIN lines |-> IF lines[k].index < i THEN lines[k].bytes + 1 ELSE 0])

Available(lines, i) == response.budget - SpentBefore(lines, i)

\* What of a result there was room for, with or without its handles.
Evidence(lines, i) == WithoutCrowding(response.results[i], Available(lines, i))

Shown(lines, i) == \E k \in DOMAIN lines : lines[k].index = i

\* A result is passed over when it is too large or its evidence is shown.
Dropped(lines, i) ==
  \/ response.results[i].form = "oversized"
  \/ /\ response.results[i].form = "sound"
     /\ \E k \in DOMAIN lines :
          /\ lines[k].index < i /\ Whole(lines[k])
          /\ Fingerprint(lines[k].record) = Fingerprint(Evidence(lines, i))

NoRoom(lines, i) ==
  /\ response.results[i].form = "sound"
  /\ TruncatedBytes([response.results[i] EXCEPT !.attachments = 0], 0) > Available(lines, i)

\* The lines shown, with what separates them, stay within the budget; they
\* are in rank order, each of a sound result, without its handles only when
\* there was no room for them.  No two of them show the same evidence, which
\* is the text, the dates and the handles that are shown with them: the same
\* result may come a second time, but only when its handles, shown with the
\* first, had to be given up (_serialize_without_crowding_text).  DESIGN.md
\* has the formatter remove every later exact duplicate.
NothingTwice ==
  LET lines == RecallContext IN
  /\ lines # <<>> => SpentBefore(lines, MaxResults + 1) - 1 <= response.budget
  /\ \A k \in DOMAIN lines :
       /\ response.results[lines[k].index].form = "sound"
       /\ lines[k].record = Evidence(lines, lines[k].index)
  /\ \A k, l \in DOMAIN lines :
       k < l => /\ lines[k].index < lines[l].index
                /\ Fingerprint(lines[k].record) # Fingerprint(lines[l].record)
                /\ response.results[lines[k].index] = response.results[lines[l].index]
                     => lines[k].record.attachments # 0 /\ lines[l].record.attachments = 0

\* Nothing that could be shown is left out: a result passed over is too large
\* or shown already, with its handles or, when there was no room for them,
\* without; the first one there is no room for ends the context, with the
\* longest beginning of its text that fits (_fit_truncated_record).  A
\* malformed result can only lie behind that end.
RoomIsUsed ==
  LET lines == RecallContext
      cut == {lines[k].index : k \in {j \in DOMAIN lines : ~Whole(lines[j])}}
      unseen == {i \in DOMAIN response.results : ~Shown(lines, i) /\ ~Dropped(lines, i)}
      ended == cut \cup (IF cut = {} /\ unseen # {} THEN {Min(unseen)} ELSE {})
  IN
  /\ \A i \in unseen : \E e \in ended : e <= i
  /\ \A i \in ended \ cut : NoRoom(lines, i)
  /\ \A e \in ended, k \in DOMAIN lines : lines[k].index <= e
  /\ \A k \in DOMAIN lines : ~Whole(lines[k]) =>
       LET r == lines[k].record  n == lines[k].chars IN
       n < Len(Chars[r.memory]) => TruncatedBytes(r, n + 1) > Available(lines, lines[k].index)

\* No context is shown after the deadline: a line shown takes four checks, a
\* result before it at least one, the return another.
NothingLate ==
  LET lines == RecallContext IN
  \A k \in DOMAIN lines : lines[k].index + 3 * k + 1 < response.late

\* What may empty a context there is room for: a malformed result, or a
\* deadline before the checks of the results and of one search are over.
Excused ==
  \E i \in DOMAIN response.results :
    \/ response.results[i].form = "malformed"
    \/ response.late <= 4 * i + Len(Chars[response.results[i].memory]) + 2

\* The prompt's room is spent once on each piece of evidence, and all of it is
\* spent while there is something to show, or nothing is shown at all: when a
\* result up to the end of the context is malformed or a check of the deadline
\* comes too late.
ContextIsBest ==
  /\ NothingTwice /\ NothingLate
  /\ RoomIsUsed \/ (RecallContext = <<>> /\ Excused)
=============================================================================
