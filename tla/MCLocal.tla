------------------------------- MODULE MCLocal -------------------------------
(***************************************************************************)
(* What happens on the local machine beside the outbox's rows: the file of *)
(* the outbox and its lock, the attachments that are read, and the pure    *)
(* functions that cut a turn into rows, fit memories into a prompt and     *)
(* space retries.  They share no state, so each behaviour runs one of      *)
(* them; an input varies only where its function is the part.              *)
(***************************************************************************)
EXTENDS OutboxFile, BinaryRow, RetainedTurn, RecallContext, Backoff

VARIABLE part

\* The processes differ in their names only.
ProcSymmetry == Permutations(Proc)

vars ==
  <<part, outboxFileVars, binaryRowVars, turn, response, delay>>

Piece(separator, bytes) ==
  [separator |-> separator, bytes |-> bytes, blank |-> bytes = 0]

MCText ==
  {<<Piece(0, 1)>>, <<Piece(0, 2)>>,
   <<Piece(0, 1), Piece(1, 1)>>, <<Piece(0, 1), Piece(2, 1)>>,
   <<Piece(0, 1), Piece(1, 0), Piece(2, 1)>>,
   <<Piece(0, 1), Piece(1, 2), Piece(1, 1)>>,
   <<Piece(0, 1), Piece(1, 1), Piece(1, 1)>>,
   <<Piece(1, 0), Piece(2, 1), Piece(2, 1), Piece(1, 1)>>,
   <<Piece(0, 2), Piece(1, 1), Piece(2, 1), Piece(1, 1)>>}

MCLimits ==
  [segment_max_bytes : 3..8, max_pending_rows : 1..4, max_pending_bytes : {7, 8, 9}]

MCChars == [a |-> <<1, 1, 2>>, b |-> <<1, 2>>]
MCBudgets == 0..18

\* Of a result that is not sound nothing else is read.
MCReceived == {r \in Result : r.form = "sound" \/ (r.memory = "a" /\ r.attachments = 0)}

MCPolicies ==
  {[max_attachments |-> 2, max_decoded |-> 3, max_encoded |-> 6],
   [max_attachments |-> 2, max_decoded |-> 3, max_encoded |-> 4]}

\* The least input of each function, for the parts that do not vary it.
LeastTurn == [user |-> <<Piece(0, 1)>>, assistant |-> <<Piece(0, 1)>>, prefix |-> 0,
              limits |-> [segment_max_bytes |-> 8, max_pending_rows |-> 1, max_pending_bytes |-> 9]]
LeastResponse == [results |-> <<>>, budget |-> 0, late |-> 1]
LeastDelay == [attempt |-> 1, initial |-> 1, maximum |-> 1]

Init ==
  /\ part \in {"file", "attachments", "turns", "context", "delays"}
  /\ OutboxFileInit /\ BinaryRowInit
  /\ part # "attachments" => policy.max_encoded = 6
  /\ IF part = "turns" THEN RetainedTurnInit ELSE turn = LeastTurn
  /\ IF part = "context" THEN RecallContextInit ELSE response = LeastResponse
  /\ IF part = "delays" THEN BackoffInit ELSE delay = LeastDelay

functions == <<turn, response, delay>>

Next ==
  /\ UNCHANGED <<part, functions>>
  /\ \/ part = "file" /\ OutboxFileNext /\ UNCHANGED binaryRowVars
     \/ part = "attachments" /\ BinaryRowNext /\ UNCHANGED outboxFileVars

Spec == Init /\ [][Next]_vars
=============================================================================
