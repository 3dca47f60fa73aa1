---------------------------- MODULE RetainedTurn -----------------------------
(***************************************************************************)
(* How a turn becomes the contents of outbox rows (retention.py), and the  *)
(* limits config.py demands so that some turn always can.  Both are pure:  *)
(* the variable turn is the input, one initial state for each.             *)
(*                                                                         *)
(* A text is a sequence of paragraphs; only bytes matter here, those of a  *)
(* paragraph and of the blank lines before it, both JSON-escaped.          *)
(***************************************************************************)
EXTENDS Integers, FiniteSets, Sequences, FiniteSetsExt, Sums

CONSTANTS
  Text,      \* texts a role may have
  Prefix,    \* bytes of the assistant's context, 0 when there is none
  Limits,    \* retain.segment_max_bytes and the row and byte limits of the outbox
  Common,    \* bytes of the fields every content repeats
  Frame,     \* bytes of a role with an empty content
  Allowance  \* OUTBOX_ROW_ACCOUNTING_ALLOWANCE_BYTES

VARIABLE turn

Paragraph == [separator : Nat, bytes : Nat, blank : BOOLEAN]

ASSUME RetainedTurnAssumption ==
  /\ \A text \in Text : /\ text \in Seq(Paragraph)
                        /\ \E i \in DOMAIN text : ~text[i].blank
  /\ Prefix \subseteq Nat
  /\ Limits \subseteq [segment_max_bytes : Nat, max_pending_rows : Nat \ {0}, max_pending_bytes : Nat]
  /\ Common \in Nat /\ Frame \in Nat /\ Allowance \in Nat

RetainedTurnInit ==
  turn \in [user : Text, assistant : Text, prefix : Prefix, limits : Limits]

MaxBytes == turn.limits.segment_max_bytes
CountLimit == turn.limits.max_pending_rows

TextBytes(text) == SumOf([i \in DOMAIN text |-> text[i].separator + text[i].bytes])

\* The two roles of a turn; the context precedes each content of the assistant.
User == [name |-> "user", text |-> turn.user, prefix |-> 0]
Assistant == [name |-> "assistant", text |-> turn.assistant, prefix |-> turn.prefix]

\* _semantic_paragraphs leaves blank ones out.
Semantic(role) ==
  LET Found[k \in 0..Len(role.text)] ==
        IF k = 0 THEN <<>>
        ELSE IF role.text[k].blank THEN Found[k - 1] ELSE Append(Found[k - 1], k)
  IN Found[Len(role.text)]

Overhead(role) == Common + Frame + role.prefix
WholeRole(role) == Overhead(role) + TextBytes(role.text)
WholeTurn == WholeRole(User) + WholeRole(Assistant) - Common

Content(role, paragraphs, bytes) ==
  [role |-> role.name, paragraphs |-> paragraphs, bytes |-> bytes]

Rejected == [contents |-> <<>>, rejected |-> TRUE]

-----------------------------------------------------------------------------
(***************************************************************************)
(* _semantic_contents.                                                     *)
(***************************************************************************)

\* One paragraph more: it joins the content being packed, or closes it and
\* begins the next, unless the limit says there is none.
Pack(packing, role, i, joined) ==
  LET first == packing.packed = <<>>
      alone == Overhead(role) + role.text[i].bytes
  IN
  IF packing.rejected \/ alone > MaxBytes
    THEN [packing EXCEPT !.rejected = TRUE]
  ELSE IF ~first /\ joined > MaxBytes
    THEN [contents |-> Append(packing.contents, Content(role, packing.packed, packing.bytes)),
          rejected |-> Len(packing.contents) + 1 >= CountLimit,
          packed   |-> <<i>>, bytes |-> alone]
  ELSE [packing EXCEPT !.packed = Append(@, i), !.bytes = IF first THEN alone ELSE joined]

\* Faulty variant: the blank lines between two paragraphs are not counted.
AddUncounted(packing, role, i) == Pack(packing, role, i, packing.bytes + role.text[i].bytes)

AddParagraph(packing, role, i) ==
  Pack(packing, role, i, packing.bytes + role.text[i].separator + role.text[i].bytes)

\* The packing of the paragraphs of a role after each of them.
Packing(role, contents) ==
  LET order == Semantic(role)
      Packed[k \in 0..Len(order)] ==
        IF k = 0
          THEN [contents |-> contents, rejected |-> FALSE, packed |-> <<>>, bytes |-> Overhead(role)]
          ELSE AddParagraph(Packed[k - 1], role, order[k])
  IN Packed

\* The contents of a role after those of the roles before it.
AddRole(sofar, role) ==
  LET packing == Packing(role, sofar.contents)[Len(Semantic(role))]
      whole == WholeRole(role) <= MaxBytes
      last == IF whole THEN Content(role, Semantic(role), WholeRole(role))
                       ELSE Content(role, packing.packed, packing.bytes)
      contents == Append(IF whole THEN sofar.contents ELSE packing.contents, last)
  IN
  IF sofar.rejected \/ (~whole /\ packing.rejected) \/ Len(contents) > CountLimit
    THEN Rejected
    ELSE [contents |-> contents, rejected |-> FALSE]

Retained ==
  IF WholeTurn <= MaxBytes
    THEN [contents |-> <<[role |-> "both", paragraphs |-> <<>>, bytes |-> WholeTurn]>>,
          rejected |-> FALSE]
    ELSE AddRole(AddRole([contents |-> <<>>, rejected |-> FALSE], User), Assistant)

-----------------------------------------------------------------------------
(***************************************************************************)
(* load_config: the limits must leave room for the smallest turn.          *)
(***************************************************************************)
Smallest == 1       \* bytes of the shortest text, "x"
MinimumContent(roles) == Common + roles * (Frame + Smallest)

MinimumSegment(limits) == MinimumContent(IF limits.max_pending_rows = 1 THEN 2 ELSE 1)

MinimumAdmission(limits) ==
  IF limits.max_pending_rows = 1 \/ MinimumContent(2) <= limits.segment_max_bytes
    THEN MinimumContent(2) + Allowance
    ELSE 2 * MinimumContent(1) + 2 * Allowance

Accepted(limits) ==
  /\ limits.segment_max_bytes >= MinimumSegment(limits)
  /\ limits.segment_max_bytes + Allowance <= limits.max_pending_bytes
  /\ MinimumAdmission(limits) <= limits.max_pending_bytes

-----------------------------------------------------------------------------
(***************************************************************************)
(* What the packing should give, without packing anything.                 *)
(***************************************************************************)

\* The bytes of one content with the paragraphs from i to j, counted in the
\* order of Semantic; the blank lines before the first are not kept.
Chunk(role, i, j) ==
  LET order == Semantic(role)
      sums == PartialSums([k \in 1..Len(order) |->
                             role.text[order[k]].separator + role.text[order[k]].bytes])
  IN Overhead(role) + role.text[order[i]].bytes + (sums[j] - sums[i])

\* Every way to cut the paragraphs: the places where a content begins, such
\* that what follows up to the next of them is within the limit.
Cuts(role) ==
  LET n == Len(Semantic(role)) IN
  {s \in SUBSET (1..n) :
     /\ 1 \in s
     /\ \A i \in s, j \in 1..n :
          i <= j /\ s \cap (i + 1)..j = {} => Chunk(role, i, j) <= MaxBytes}

Fewest(role) ==
  IF WholeRole(role) <= MaxBytes THEN 1 ELSE Min({Cardinality(s) : s \in Cuts(role)})

Possible(role) == WholeRole(role) <= MaxBytes \/ Cuts(role) # {}

\* The paragraphs of a role in the contents, in their order.
KeptIn(contents, name) ==
  LET Read[i \in 0..Len(contents)] ==
        IF i = 0 THEN <<>>
        ELSE IF contents[i].role = name THEN Read[i - 1] \o contents[i].paragraphs
        ELSE Read[i - 1]
  IN Read[Len(contents)]

Kept(role) == KeptIn(Retained.contents, role.name)

-----------------------------------------------------------------------------
(***************************************************************************)
(* Properties.                                                             *)
(***************************************************************************)

\* A turn is rejected exactly when no way to cut it keeps each content within
\* the segment limit and their number within the row limit; otherwise it is
\* cut into as few contents as possible, each of them within the limit, that
\* hold every paragraph once and in order (_semantic_contents).
CutsAreBest ==
  IF WholeTurn <= MaxBytes THEN Len(Retained.contents) = 1
  ELSE IF Possible(User) /\ Possible(Assistant) /\ Fewest(User) + Fewest(Assistant) <= CountLimit
    THEN /\ ~Retained.rejected
         /\ Len(Retained.contents) = Fewest(User) + Fewest(Assistant)
         /\ \A i \in DOMAIN Retained.contents : Retained.contents[i].bytes <= MaxBytes
         /\ Kept(User) = Semantic(User) /\ Kept(Assistant) = Semantic(Assistant)
    ELSE Retained.rejected

\* A configuration that loads can admit the smallest turn into an empty
\* outbox: it is cut into no more contents than there may be rows, and they
\* fit the bytes with the allowance of each row (load_config, admit).
SmallestTurnFits ==
  (/\ Accepted(turn.limits) /\ turn.prefix = 0
   /\ TextBytes(turn.user) = Smallest /\ TextBytes(turn.assistant) = Smallest) =>
     /\ ~Retained.rejected
     /\ SumOf([i \in DOMAIN Retained.contents |-> Retained.contents[i].bytes + Allowance])
          <= turn.limits.max_pending_bytes

\* Both: no turn is refused or cut up without need.
PackingIsBest == CutsAreBest /\ SmallestTurnFits
=============================================================================
