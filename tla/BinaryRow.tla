------------------------------ MODULE BinaryRow ------------------------------
(***************************************************************************)
(* A turn with attachments (multimodal.py): build_multimodal_segment reads *)
(* local files that others may be writing or replacing, within the budgets *)
(* of the operator's policy, and makes one row of them.  The row is        *)
(* decoded again before it is sent, under the policy of that time; the     *)
(* fingerprint decides whether it is claimed at all.                       *)
(*                                                                         *)
(* A file is a sequence of blocks, a block a version number; a read        *)
(* returns them one at a time.                                             *)
(***************************************************************************)
EXTENDS Naturals, Sequences, SequencesExt

CONSTANTS
  Inodes,     \* files a path may name, one after the other; a number each
  MaxBlocks,  \* blocks of a file; a bound
  MaxWrites,  \* what other processes do to the files; a bound
  Policies,   \* multimodal configurations the gateway is started with
  Envelope    \* encoded size of a row without its attachments

ASSUME BinaryRowAssumption ==
  /\ Inodes \subseteq Nat \ {0} /\ 1 \in Inodes
  /\ MaxBlocks \in Nat \ {0} /\ MaxWrites \in Nat /\ Envelope \in Nat
  /\ Policies \subseteq [max_attachments : Nat \ {0}, max_decoded : Nat, max_encoded : Nat]

VARIABLES
  named,     \* the file the path names
  blocks,    \* the content of each file
  stamp,     \* st_mtime_ns and st_ctime_ns of each file
  writes,    \* what other processes did so far
  policy,    \* the multimodal configuration
  reading,   \* where build_multimodal_segment is
  asked,     \* the attachments it has still to read
  status,    \* what the first fstat returned
  data,      \* what was read of the file
  parts,     \* the attachments read
  row,       \* the row of the outbox
  held       \* contents of the open file since its fstat (ghost)

binaryRowVars == <<named, blocks, stamp, writes, policy, reading, asked, status, data, parts,
                   row, held>>
disk == <<named, blocks, stamp, writes>>

NoStatus == [inode |-> 0, size |-> 0, stamp |-> 0]
NoRow == [parts |-> <<>>, fingerprint |-> 0]

BinaryRowInit ==
  /\ named = 1
  /\ blocks = [f \in Inodes |-> <<0>>]
  /\ stamp = [f \in Inodes |-> 0]
  /\ writes = 0
  /\ policy \in Policies
  /\ reading = "idle" /\ asked = 0
  /\ status = NoStatus /\ data = <<>> /\ parts = <<>> /\ held = {}
  /\ row = NoRow

Size(contents) == FoldLeft(LAMBDA n, content : n + Len(content), 0, contents)
Remaining == policy.max_decoded - Size(parts)

\* Base64 makes an attachment larger; here twice as large.
Encoded(contents) == Envelope + 2 * Size(contents)

\* Faulty variant: the fingerprint leaves out the encoded limit.
FingerprintOfReads(p) == <<p.max_attachments, p.max_decoded>>

\* multimodal_destination_fingerprint binds a row to the whole policy.
FingerprintOf(p) == <<p.max_attachments, p.max_decoded, p.max_encoded>>

\* decode_envelope
Decodes(contents, p) ==
  /\ Encoded(contents) <= p.max_encoded
  /\ Len(contents) \in 1..p.max_attachments
  /\ Size(contents) <= p.max_decoded
  /\ \A i \in DOMAIN contents : contents[i] # <<>>

-----------------------------------------------------------------------------
(***************************************************************************)
(* build_multimodal_segment and _read_local.                               *)
(***************************************************************************)
BeginSegment ==
  /\ reading = "idle" /\ row = NoRow
  /\ asked' \in 1..policy.max_attachments
  /\ reading' = "open" /\ parts' = <<>>
  /\ UNCHANGED <<disk, policy, status, data, row, held>>

\* The descriptor is opened and its status taken.
OpenAttachment ==
  /\ reading = "open" /\ asked > 0
  /\ Remaining > 0
  /\ Len(blocks[named]) \in 1..Remaining
  /\ status' = [inode |-> named, size |-> Len(blocks[named]), stamp |-> stamp[named]]
  /\ held' = {blocks[named]}
  /\ reading' = "compare"
  /\ UNCHANGED <<disk, policy, asked, data, parts, row>>

\* The path must still name the open file.
ComparePath ==
  /\ reading = "compare"
  /\ named = status.inode
  /\ reading' = "read" /\ data' = <<>>
  /\ UNCHANGED <<disk, policy, asked, status, parts, row, held>>

\* One block more, up to one beyond what is left of the budget.
ReadBlock ==
  /\ reading = "read"
  /\ Len(data) < Len(blocks[status.inode]) /\ Len(data) <= Remaining
  /\ data' = Append(data, blocks[status.inode][Len(data) + 1])
  /\ UNCHANGED <<disk, policy, reading, asked, status, parts, row, held>>

\* Faulty variant: a file that kept its size is taken for unchanged.
SameSize == Len(blocks[status.inode]) = status.size

Unchanged ==
  Len(blocks[status.inode]) = status.size /\ stamp[status.inode] = status.stamp

\* At the end of the file: what was read must be the file as it was opened.
TakeAttachment ==
  /\ reading = "read"
  /\ Len(data) >= Len(blocks[status.inode])
  /\ Len(data) = status.size /\ Len(data) <= Remaining
  /\ Unchanged
  /\ parts' = Append(parts, data)
  /\ asked' = asked - 1
  /\ reading' = "open" /\ status' = NoStatus /\ data' = <<>> /\ held' = {}
  /\ UNCHANGED <<disk, policy, row>>

\* Any failed check rejects the whole turn.
RejectSegment ==
  /\ reading # "idle"
  /\ reading' = "idle" /\ asked' = 0
  /\ status' = NoStatus /\ data' = <<>> /\ parts' = <<>> /\ held' = {}
  /\ UNCHANGED <<disk, policy, row>>

\* The envelope is decoded once before it is admitted.
AdmitSegment ==
  /\ reading = "open" /\ asked = 0
  /\ Decodes(parts, policy)
  /\ row' = [parts |-> parts, fingerprint |-> FingerprintOf(policy)]
  /\ reading' = "idle" /\ parts' = <<>>
  /\ UNCHANGED <<disk, policy, asked, status, data, held>>

\* The row was sent: it decoded under the policy of the claim.
SendRow ==
  /\ row # NoRow
  /\ row.fingerprint = FingerprintOf(policy)
  /\ Decodes(row.parts, policy)
  /\ row' = NoRow
  /\ UNCHANGED <<disk, policy, reading, asked, status, data, parts, held>>

-----------------------------------------------------------------------------
(***************************************************************************)
(* The environment.                                                        *)
(***************************************************************************)

\* Another process overwrites a block, extends the file or truncates it.
WriteFile ==
  /\ writes < MaxWrites
  /\ writes' = writes + 1
  /\ \E f \in Inodes :
       /\ \/ \E i \in DOMAIN blocks[f] : blocks' = [blocks EXCEPT ![f][i] = writes']
          \/ /\ Len(blocks[f]) < MaxBlocks
             /\ blocks' = [blocks EXCEPT ![f] = Append(@, writes')]
          \/ /\ blocks[f] # <<>>
             /\ blocks' = [blocks EXCEPT ![f] = Front(@)]
       /\ stamp' = [stamp EXCEPT ![f] = writes']
       /\ held' = IF status.inode = f THEN held \cup {blocks'[f]} ELSE held
  /\ UNCHANGED <<named, policy, reading, asked, status, data, parts, row>>

\* Another file is moved to the path.
ReplaceFile ==
  /\ writes < MaxWrites
  /\ writes' = writes + 1
  /\ named' \in Inodes \ {named}
  /\ UNCHANGED <<blocks, stamp, policy, reading, asked, status, data, parts, row, held>>

\* The gateway is restarted with another policy.
RestartWithPolicy ==
  /\ policy' \in Policies \ {policy}
  /\ reading' = "idle" /\ asked' = 0
  /\ status' = NoStatus /\ data' = <<>> /\ parts' = <<>> /\ held' = {}
  /\ UNCHANGED <<disk, row>>

BinaryRowNext ==
  \/ BeginSegment \/ OpenAttachment \/ ComparePath \/ ReadBlock \/ TakeAttachment
  \/ RejectSegment \/ AdmitSegment \/ SendRow
  \/ WriteFile \/ ReplaceFile \/ RestartWithPolicy

BinaryRowSpec == BinaryRowInit /\ [][BinaryRowNext]_binaryRowVars

-----------------------------------------------------------------------------
(***************************************************************************)
(* Properties.                                                             *)
(***************************************************************************)

\* An attachment is the content of one file at one moment, however many
\* blocks were written while it was read (_read_local).
SnapshotIsWhole ==
  [][Len(parts') > Len(parts) => data \in held]_binaryRowVars

\* A row that is claimed can be decoded: whatever the policy is changed to,
\* the fingerprint lets through no row that decode_envelope then refuses, and
\* that would be tried for ever.
ClaimedRowsDecode ==
  row # NoRow /\ row.fingerprint = FingerprintOf(policy) => Decodes(row.parts, policy)
=============================================================================
