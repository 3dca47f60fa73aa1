------------------------------ MODULE LocalProofs -----------------------------
(***************************************************************************)
(* Theorems about the local machine beside the outbox's rows: who may move *)
(* a row when lock files come and go, what an attachment that is read      *)
(* while it changes can be, which rows can be decoded, how long a retry    *)
(* waits, how a turn is cut into contents, and which memories a prompt     *)
(* shows.                                                                  *)
(***************************************************************************)
EXTENDS MCLocal, Induction, FiniteSetTheorems, SequenceTheorems, TLAPS

-----------------------------------------------------------------------------
(***************************************************************************)
(* The retry delay.  Both the loop and the doubling it stands for are      *)
(* iterations of a step, so that induction relates them round by round.    *)
(***************************************************************************)
\* A function that starts with base and takes a step at a time is the one its
\* recursive definition chooses.
LEMMA DoublingIs ==
  ASSUME NEW base \in Nat
  PROVE  LET Doubled[n \in Nat] == IF n = 0 THEN base ELSE 2 * Doubled[n - 1]
         IN  /\ Doubled \in [Nat -> Nat] /\ Doubled[0] = base
             /\ \A n \in Nat : Doubled[n + 1] = 2 * Doubled[n]
<1> DEFINE D == CHOOSE f : f = [n \in Nat |-> IF n = 0 THEN base ELSE 2 * f[n - 1]]
           twice == [x \in Nat |-> 2 * x]
<1>1. PICK f : Iterates(f, Nat, base, twice)
  <2>1. twice \in [Nat -> Nat]
    OBVIOUS
  <2> HIDE DEF twice
  <2> QED
    BY <2>1, Recursion
<1>2. f \in [Nat -> Nat] /\ f[0] = base /\ \A n \in Nat : f[n + 1] = 2 * f[n]
  BY <1>1 DEF Iterates
<1>3. \A n \in Nat : n # 0 => n - 1 \in Nat /\ f[n] = 2 * f[n - 1]
  BY <1>2
<1>4. f = [n \in Nat |-> IF n = 0 THEN base ELSE 2 * f[n - 1]]
  BY <1>2, <1>3
<1>5. D = [n \in Nat |-> IF n = 0 THEN base ELSE 2 * D[n - 1]]
  BY <1>4, Zenon
<1> HIDE DEF D
<1>6. D[0] = base /\ \A n \in Nat : D[n + 1] = 2 * D[n]
  BY <1>5
<1>7. D \in [Nat -> Nat]
  <2> DEFINE typed == {n \in Nat : D[n] \in Nat}
  <2>1. 0 \in typed /\ \A n \in Nat : n \in typed => n + 1 \in typed
    BY <1>6
  <2>2. Nat \subseteq typed
    <3> HIDE DEF typed
    <3> QED
      BY <2>1, SetInduction
  <2> QED
    BY <1>5, <2>2
<1> QED
  BY <1>6, <1>7 DEF D

\* The same of the loop, which stops doubling at the maximum.
LEMMA DelayIs ==
  ASSUME NEW initial \in Nat, NEW maximum \in Nat
  PROVE  LET Delay[rounds \in Nat] ==
               IF rounds = 0 THEN initial
               ELSE LET seconds == Delay[rounds - 1]
                    IN IF seconds < maximum THEN DoubledOnce(seconds, maximum) ELSE seconds
         IN  /\ Delay[0] = initial
             /\ \A n \in Nat : Delay[n + 1] = IF Delay[n] < maximum
                                              THEN DoubledOnce(Delay[n], maximum) ELSE Delay[n]
<1> DEFINE Round(x) == IF x < maximum THEN DoubledOnce(x, maximum) ELSE x
           D == CHOOSE f : f = [rounds \in Nat |->
                  IF rounds = 0 THEN initial
                  ELSE LET seconds == f[rounds - 1]
                       IN IF seconds < maximum THEN DoubledOnce(seconds, maximum) ELSE seconds]
           round == [x \in Nat |-> Round(x)]
<1>1. PICK f : Iterates(f, Nat, initial, round)
  <2>1. round \in [Nat -> Nat]
    BY DEF DoubledOnce
  <2> HIDE DEF round
  <2> QED
    BY <2>1, Recursion
<1>2. f \in [Nat -> Nat] /\ f[0] = initial /\ \A n \in Nat : f[n + 1] = Round(f[n])
  <2> HIDE DEF Round
  <2> QED
    BY <1>1 DEF Iterates
<1>3. \A n \in Nat : n # 0 => n - 1 \in Nat /\ f[n] = Round(f[n - 1])
  <2> HIDE DEF Round
  <2> QED
    BY <1>2
<1>4. f = [rounds \in Nat |-> IF rounds = 0 THEN initial
                              ELSE LET seconds == f[rounds - 1]
                                   IN IF seconds < maximum THEN DoubledOnce(seconds, maximum)
                                      ELSE seconds]
  BY <1>2, <1>3
<1>5. D = [rounds \in Nat |-> IF rounds = 0 THEN initial
                              ELSE LET seconds == D[rounds - 1]
                                   IN IF seconds < maximum THEN DoubledOnce(seconds, maximum)
                                      ELSE seconds]
  BY <1>4, Zenon
<1> HIDE DEF D
<1>6. /\ D[0] = initial
      /\ \A n \in Nat : D[n + 1] = IF D[n] < maximum THEN DoubledOnce(D[n], maximum) ELSE D[n]
  BY <1>5
<1> QED
  BY <1>6 DEF D

\* What the two recursive functions do.
Doubles(f, initial) ==
  f \in [Nat -> Nat] /\ f[0] = initial /\ \A n \in Nat : f[n + 1] = 2 * f[n]

DoublesUpTo(f, initial, maximum) ==
  /\ f[0] = initial
  /\ \A n \in Nat : f[n + 1] = IF f[n] < maximum THEN DoubledOnce(f[n], maximum) ELSE f[n]

\* After so many rounds the delay is the doubled one, or the maximum.
LEMMA DelayDoubles ==
  ASSUME NEW initial \in Nat, NEW maximum \in Nat, 0 < initial, initial <= maximum,
         NEW delayed, NEW doubled, Doubles(doubled, initial),
         DoublesUpTo(delayed, initial, maximum)
  PROVE  \A n \in Nat :
           /\ initial <= doubled[n]
           /\ delayed[n] = IF doubled[n] < maximum THEN doubled[n] ELSE maximum
<1> DEFINE capped == {n \in Nat : /\ initial <= doubled[n]
                                  /\ delayed[n] = IF doubled[n] < maximum
                                                  THEN doubled[n] ELSE maximum}
<1> USE DEF Doubles, DoublesUpTo
<1>1. 0 \in capped
  OBVIOUS
<1>2. ASSUME NEW n \in Nat, n \in capped PROVE n + 1 \in capped
  <2> DEFINE x == doubled[n]
  <2>1. x \in Nat /\ initial <= x /\ doubled[n + 1] = 2 * x
    BY <1>2
  <2>2. delayed[n] = IF x < maximum THEN x ELSE maximum
    BY <1>2
  <2>3. delayed[n + 1] = IF delayed[n] < maximum THEN DoubledOnce(delayed[n], maximum)
                         ELSE delayed[n]
    OBVIOUS
  <2> HIDE DEF x
  <2>4. delayed[n + 1] = IF 2 * x < maximum THEN 2 * x ELSE maximum
    BY <2>1, <2>2, <2>3 DEF DoubledOnce
  <2> QED
    BY <2>1, <2>4
<1> HIDE DEF capped
<1>3. Nat \subseteq capped
  BY <1>1, <1>2, SetInduction
<1> QED
  BY <1>3 DEF capped

\* What an input of the function is.
DelayKinds ==
  /\ delay.attempt \in Nat \ {0} /\ delay.initial \in Nat \ {0} /\ delay.maximum \in Nat \ {0}
  /\ delay.initial <= delay.maximum

\* For every attempt and every pair of settings load_config accepts, the delay
\* is the initial one doubled once for each attempt before, up to the maximum
\* (outbox._retry_delay_seconds).
THEOREM DelayIsDoubled == DelayKinds => DelayIsCapped
<1> SUFFICES ASSUME DelayKinds PROVE DelayIsCapped
  OBVIOUS
<1> DEFINE initial == delay.initial
           maximum == delay.maximum
           rounds == delay.attempt - 1
           Doubled[n \in Nat] == IF n = 0 THEN initial ELSE 2 * Doubled[n - 1]
           Delay[n \in Nat] ==
             IF n = 0 THEN initial
             ELSE LET seconds == Delay[n - 1]
                  IN IF seconds < maximum THEN DoubledOnce(seconds, maximum) ELSE seconds
<1>1. /\ initial \in Nat /\ maximum \in Nat /\ 0 < initial /\ initial <= maximum
      /\ rounds \in Nat
  BY DEF DelayKinds
<1>2. RetryDelaySeconds(delay.attempt, initial, maximum)
        = IF initial >= maximum THEN initial ELSE Delay[rounds]
  BY DEF RetryDelaySeconds
<1>3. Doubles(Doubled, initial)
  <2> HIDE DEF initial
  <2> QED
    BY <1>1, DoublingIs DEF Doubles
<1>4. DoublesUpTo(Delay, initial, maximum)
  <2> HIDE DEF initial, maximum
  <2> QED
    BY <1>1, DelayIs DEF DoublesUpTo
<1>5. DelayIsCapped <=>
        RetryDelaySeconds(delay.attempt, initial, maximum)
          = IF Doubled[rounds] < maximum THEN Doubled[rounds] ELSE maximum
  BY DEF DelayIsCapped
<1> HIDE DEF initial, maximum, rounds, Doubled, Delay
<1>6. /\ initial <= Doubled[rounds] /\ Doubled[rounds] \in Nat
      /\ Delay[rounds] = IF Doubled[rounds] < maximum THEN Doubled[rounds] ELSE maximum
  <2>1. \A n \in Nat :
          /\ initial <= Doubled[n]
          /\ Delay[n] = IF Doubled[n] < maximum THEN Doubled[n] ELSE maximum
    BY <1>1, <1>3, <1>4, DelayDoubles
  <2>2. Doubled[rounds] \in Nat
    BY <1>1, <1>3 DEF Doubles
  <2> QED
    BY <1>1, <2>1, <2>2
<1>7. CASE initial < maximum
  BY <1>1, <1>2, <1>5, <1>6, <1>7
<1>8. CASE initial = maximum
  BY <1>1, <1>2, <1>5, <1>6, <1>8
<1> QED
  BY <1>1, <1>7, <1>8

-----------------------------------------------------------------------------
(***************************************************************************)
(* Attachments.  The outbox holds a row that decoded under the policy its  *)
(* fingerprint names.  A file is read without a lock, so what ties the     *)
(* blocks read to one content is its stamp: while that is the one of the   *)
(* open file's status, the blocks read so far are where they were read.    *)
(***************************************************************************)
RowInv == row = NoRow \/ \E p : row.fingerprint = FingerprintOf(p) /\ Decodes(row.parts, p)

\* What an open file was between its status and now.
Watched ==
  reading \in {"compare", "read"} => status.inode \in Inodes /\ blocks[status.inode] \in held

\* The blocks read are still those of the file.
ReadInPlace ==
  reading = "read" /\ stamp[status.inode] = status.stamp
    => /\ Len(data) <= Len(blocks[status.inode])
       /\ \A i \in 1..Len(data) : data[i] = blocks[status.inode][i]

AttachmentInv ==
  /\ RowInv
  /\ named \in Inodes /\ writes \in Nat
  /\ blocks \in [Inodes -> Seq(Nat)]
  /\ stamp \in [Inodes -> Nat] /\ (\A f \in Inodes : stamp[f] <= writes)
  /\ status.stamp \in Nat /\ status.stamp <= writes
  /\ reading \in {"idle", "open", "compare", "read"}
  /\ data \in Seq(Nat) /\ parts \in Seq(Seq(Nat))
  /\ Watched /\ ReadInPlace

\* Whether contents decode depends on what the fingerprint binds, and nothing
\* else.
LEMMA FingerprintBinds ==
  ASSUME NEW contents, NEW p, NEW q, FingerprintOf(p) = FingerprintOf(q), Decodes(contents, p)
  PROVE  Decodes(contents, q)
BY DEF FingerprintOf, Decodes

\* A row whose fingerprint is that of the policy decodes
\* (multimodal_destination_fingerprint).
LEMMA RowsDecode == RowInv => ClaimedRowsDecode
BY FingerprintBinds DEF RowInv, ClaimedRowsDecode

\* Nothing is read yet.
LEMMA AttachmentsBegin == BinaryRowInit => AttachmentInv
<1> SUFFICES ASSUME BinaryRowInit PROVE AttachmentInv
  OBVIOUS
<1>1. <<0>> \in Seq(Nat) /\ <<>> \in Seq(Nat) /\ <<>> \in Seq(Seq(Nat))
  OBVIOUS
<1> QED
  BY <1>1, BinaryRowAssumption
     DEF BinaryRowInit, AttachmentInv, RowInv, Watched, ReadInPlace, NoStatus

\* A write keeps the content of a file a sequence of blocks.
LEMMA WritesKeepKinds ==
  ASSUME AttachmentInv, WriteFile
  PROVE  blocks' \in [Inodes -> Seq(Nat)]
<1>1. writes' \in Nat
  BY DEF AttachmentInv, WriteFile
<1>2. PICK f \in Inodes :
        \/ \E i \in DOMAIN blocks[f] : blocks' = [blocks EXCEPT ![f][i] = writes']
        \/ blocks' = [blocks EXCEPT ![f] = Append(@, writes')]
        \/ blocks[f] # <<>> /\ blocks' = [blocks EXCEPT ![f] = Front(@)]
  BY DEF WriteFile
<1>3. blocks[f] \in Seq(Nat)
  BY DEF AttachmentInv
<1>4. ASSUME NEW i \in DOMAIN blocks[f], blocks' = [blocks EXCEPT ![f][i] = writes']
      PROVE  blocks' \in [Inodes -> Seq(Nat)]
  <2>1. [blocks[f] EXCEPT ![i] = writes'] \in Seq(Nat)
    BY <1>1, <1>3
  <2>2. blocks' = [blocks EXCEPT ![f] = [blocks[f] EXCEPT ![i] = writes']]
    BY <1>4 DEF AttachmentInv
  <2> QED
    BY <2>1, <2>2 DEF AttachmentInv
<1>5. Append(blocks[f], writes') \in Seq(Nat)
  BY <1>1, <1>3
<1>6. blocks[f] # <<>> => Front(blocks[f]) \in Seq(Nat)
  BY <1>3 DEF Front
<1> QED
  BY <1>2, <1>4, <1>5, <1>6 DEF AttachmentInv

\* Every step keeps the invariant.
LEMMA AttachmentsStep == AttachmentInv /\ [BinaryRowNext]_binaryRowVars => AttachmentInv'
<1> SUFFICES ASSUME AttachmentInv, [BinaryRowNext]_binaryRowVars PROVE AttachmentInv'
  OBVIOUS
<1> USE DEF disk
<1>1. CASE UNCHANGED binaryRowVars
  BY <1>1 DEF binaryRowVars, AttachmentInv, RowInv, Watched, ReadInPlace
<1>2. CASE BeginSegment
  BY <1>2 DEF BeginSegment, AttachmentInv, RowInv, Watched, ReadInPlace
<1>3. CASE OpenAttachment
  BY <1>3 DEF OpenAttachment, AttachmentInv, RowInv, Watched, ReadInPlace
<1>4. CASE ComparePath
  <2>1. data' = <<>> /\ Len(data') = 0 /\ data' \in Seq(Nat)
    BY <1>4 DEF ComparePath
  <2>2. blocks[status.inode] \in Seq(Nat)
    BY <1>4 DEF ComparePath, AttachmentInv
  <2> QED
    BY <1>4, <2>1, <2>2 DEF ComparePath, AttachmentInv, RowInv, Watched, ReadInPlace
<1>5. CASE ReadBlock
  <2> DEFINE content == blocks[status.inode]
             next == content[Len(data) + 1]
  <2>1. content \in Seq(Nat) /\ data \in Seq(Nat) /\ Len(data) < Len(content)
    BY <1>5 DEF ReadBlock, AttachmentInv, Watched
  <2>2. next \in Nat
    BY <2>1
  <2>3. data' = Append(data, next) /\ content' = content
    BY <1>5 DEF ReadBlock
  <2>4. data' \in Seq(Nat) /\ Len(data') = Len(data) + 1
    BY <2>1, <2>2, <2>3
  <2>5. stamp[status.inode] = status.stamp => ReadInPlace'
    <3> SUFFICES ASSUME stamp[status.inode] = status.stamp,
                        NEW i \in 1..Len(data') PROVE data'[i] = content'[i]
      BY <2>1, <2>3, <2>4 DEF ReadInPlace
    <3>1. i <= Len(data) => data[i] = content[i]
      <4>1. \A j \in 1..Len(data) : data[j] = content[j]
        BY <1>5 DEF ReadBlock, AttachmentInv, ReadInPlace
      <4>2. Len(data) \in Nat /\ Len(data') = Len(data) + 1
        BY <2>1, <2>4
      <4> HIDE DEF content
      <4> QED
        BY <4>1, <4>2
    <3> QED
      BY <2>1, <2>2, <2>3, <2>4, <3>1
  <2>6. ReadInPlace'
    BY <1>5, <2>5 DEF ReadBlock, ReadInPlace
  <2> QED
    BY <1>5, <2>4, <2>6 DEF ReadBlock, AttachmentInv, RowInv, Watched
<1>6. CASE TakeAttachment
  BY <1>6 DEF TakeAttachment, AttachmentInv, RowInv, Watched, ReadInPlace, NoStatus
<1>7. CASE RejectSegment
  BY <1>7 DEF RejectSegment, AttachmentInv, RowInv, Watched, ReadInPlace, NoStatus
<1>8. CASE AdmitSegment
  BY <1>8 DEF AdmitSegment, AttachmentInv, RowInv, Watched, ReadInPlace
<1>9. CASE SendRow
  BY <1>9 DEF SendRow, AttachmentInv, RowInv, Watched, ReadInPlace
<1>10. CASE WriteFile
  <2>1. writes' = writes + 1 /\ writes \in Nat
    BY <1>10 DEF WriteFile, AttachmentInv
  <2>2. PICK f \in Inodes :
          /\ stamp' = [stamp EXCEPT ![f] = writes']
          /\ held' = IF status.inode = f THEN held \cup {blocks'[f]} ELSE held
          /\ \A g \in Inodes \ {f} : blocks'[g] = blocks[g]
    BY <1>10 DEF WriteFile, AttachmentInv
  <2>3. blocks' \in [Inodes -> Seq(Nat)]
    BY <1>10, WritesKeepKinds
  <2>4. UNCHANGED <<named, reading, status, data, parts, row>>
    BY <1>10 DEF WriteFile
  <2>5. stamp' \in [Inodes -> Nat] /\ (\A g \in Inodes : stamp'[g] <= writes')
    BY <2>1, <2>2 DEF AttachmentInv
  <2>6. Watched'
    BY <2>2, <2>4 DEF AttachmentInv, Watched
  <2>7. ReadInPlace'
    <3>1. reading = "read" /\ stamp'[status.inode] = status.stamp
            => status.inode # f /\ status.inode \in Inodes
      BY <2>1, <2>2, <2>4 DEF AttachmentInv, Watched
    <3> QED
      BY <2>2, <2>4, <3>1 DEF AttachmentInv, ReadInPlace
  <2> QED
    BY <2>1, <2>3, <2>4, <2>5, <2>6, <2>7, SMTT(20) DEF AttachmentInv, RowInv
<1>11. CASE ReplaceFile
  BY <1>11 DEF ReplaceFile, AttachmentInv, RowInv, Watched, ReadInPlace
<1>12. CASE RestartWithPolicy
  BY <1>12 DEF RestartWithPolicy, AttachmentInv, RowInv, Watched, ReadInPlace, NoStatus
<1> QED
  BY <1>1, <1>2, <1>3, <1>4, <1>5, <1>6, <1>7, <1>8, <1>9, <1>10, <1>11, <1>12 DEF BinaryRowNext

\* Two sequences of the same numbers are the same.
LEMMA SequencesAgree ==
  ASSUME NEW s \in Seq(Nat), NEW t \in Seq(Nat), Len(s) = Len(t),
         \A i \in 1..Len(s) : s[i] = t[i]
  PROVE  s = t
OBVIOUS

\* Only an attachment that is a content of its file is added to the parts.
LEMMA AddsWhole ==
  AttachmentInv /\ [BinaryRowNext]_binaryRowVars => (Len(parts') > Len(parts) => data \in held)
<1> SUFFICES ASSUME AttachmentInv, [BinaryRowNext]_binaryRowVars, Len(parts') > Len(parts)
             PROVE  data \in held
  OBVIOUS
<1>1. Len(parts) \in Nat
  BY DEF AttachmentInv
<1>2. TakeAttachment
  <2>1. parts' # parts /\ parts' # <<>>
    BY <1>1
  <2> QED
    BY <2>1 DEF binaryRowVars, BinaryRowNext, BeginSegment, OpenAttachment, ComparePath, ReadBlock,
                RejectSegment, AdmitSegment, SendRow, WriteFile, ReplaceFile, RestartWithPolicy
<1>3. blocks[status.inode] \in held /\ blocks[status.inode] \in Seq(Nat) /\ data \in Seq(Nat)
  BY <1>2 DEF TakeAttachment, AttachmentInv, Watched
<1>4. /\ Len(data) = Len(blocks[status.inode])
      /\ \A i \in 1..Len(data) : data[i] = blocks[status.inode][i]
  BY <1>2 DEF TakeAttachment, Unchanged, AttachmentInv, ReadInPlace
<1>5. data = blocks[status.inode]
  BY <1>3, <1>4, SequencesAgree
<1> QED
  BY <1>3, <1>5

-----------------------------------------------------------------------------
(***************************************************************************)
(* The lock file.  It may be deleted or replaced under its owner, so locks *)
(* prove nothing: what does is that an inode number is not given again     *)
(* while a name or a descriptor refers to its file.  The owner's           *)
(* descriptor, compared inside the transaction, is then the newest file.   *)
(***************************************************************************)
\* The files a name or a descriptor refers to.
InUse == ({lockFile, probed} \cup {descriptor[p] : p \in Proc}) \ {NoFile}

\* No two of them share an inode number.
InodesDiffer == \A f, g \in InUse : inode[f] = inode[g] => f = g

\* A process inside its transaction holds the database, and one that has
\* compared its descriptor there is at no older file than the last that
\* committed.
Fenced ==
  /\ committed \in 0..created
  /\ \A p \in Proc : at[p] \in {"created", "updating", "confirmed"} => dbLock = p
  /\ \A p \in Proc : at[p] = "confirmed" => descriptor[p] \in Nat /\ committed <= descriptor[p]

\* The schema is created where there is none or the same.
SchemaIsOurs ==
  /\ version \in {0, OUTBOX_SCHEMA_VERSION, Newer}
  /\ \A p \in Proc : at[p] = "created" => version # Newer

FileInv ==
  /\ created \in 0..MaxFiles /\ lockFile \in {NoFile, created}
  /\ at \in [Proc -> ProcStep]
  /\ descriptor \in [Proc -> 0..created] /\ probed \in 0..created
  /\ inode \in [File -> Inode \cup {0}] /\ InodesDiffer
  /\ Fenced /\ SchemaIsOurs

\* There is no file yet.
LEMMA FilesBegin == OutboxFileInit => FileInv
BY OutboxFileAssumption
   DEF OutboxFileInit, FileInv, InodesDiffer, InUse, Fenced, SchemaIsOurs, ProcStep, NoFile, File,
       OUTBOX_SCHEMA_VERSION, Newer

\* What is in use was created.
LEMMA UsedAreCreated == FileInv => InUse \subseteq 1..created
BY OutboxFileAssumption DEF FileInv, InUse, NoFile

\* Steps that refer to no other file keep the inodes apart.
LEMMA InodesStayApart ==
  ASSUME FileInv, UNCHANGED inode, InUse' \subseteq InUse
  PROVE  InodesDiffer'
BY DEF FileInv, InodesDiffer

\* A new file has an inode number of its own.
LEMMA NewFilesDiffer ==
  ASSUME FileInv, NewLockFile, UNCHANGED <<descriptor, probed>>
  PROVE  /\ created' \in 0..MaxFiles /\ lockFile' = created' /\ created < created'
         /\ descriptor \in [Proc -> 0..created'] /\ probed \in 0..created'
         /\ inode' \in [File -> Inode \cup {0}] /\ InodesDiffer'
<1>1. /\ created' = created + 1 /\ lockFile' = created' /\ created < MaxFiles
      /\ created \in Nat /\ MaxFiles \in Nat
  BY OutboxFileAssumption DEF FileInv, NewLockFile
<1>2. PICK i \in FreeInodes : inode' = [inode EXCEPT ![created'] = i]
  BY DEF NewLockFile
<1>3. i \in Inode /\ \A f \in InUse : inode[f] # i
  BY DEF FreeInodes, InUse
<1>4. InUse' \subseteq InUse \cup {created'}
  BY <1>1 DEF InUse
<1>5. InUse \subseteq File \ {created'}
  BY <1>1, UsedAreCreated DEF File
<1>6. created' \in File /\ inode'[created'] = i /\ \A f \in InUse : inode'[f] = inode[f]
  BY <1>1, <1>2, <1>5 DEF FileInv, File
<1>7. InodesDiffer'
  BY <1>3, <1>4, <1>6 DEF FileInv, InodesDiffer
<1>8. inode' \in [File -> Inode \cup {0}]
  BY <1>2, <1>3 DEF FileInv
<1>9. descriptor \in [Proc -> 0..created'] /\ probed \in 0..created' /\ created' \in 0..MaxFiles
  BY <1>1 DEF FileInv
<1> QED
  BY <1>1, <1>7, <1>8, <1>9

\* A process whose open file passes the comparison has the newest one open
\* (_revalidate_profile_lock_identity).
LEMMA SameFileIsNewest ==
  ASSUME FileInv, NEW p \in Proc, SameFile(p)
  PROVE  descriptor[p] = created
<1>1. lockFile \in InUse /\ descriptor[p] \in InUse
  BY DEF SameFile, PathIs, InUse
<1>2. inode[lockFile] = inode[descriptor[p]]
  BY DEF SameFile, PathIs
<1>3. descriptor[p] = lockFile
  BY <1>1, <1>2 DEF FileInv, InodesDiffer
<1> QED
  BY <1>3 DEF FileInv, SameFile, PathIs

\* Every step keeps the invariant.
LEMMA FilesStep == FileInv /\ [OutboxFileNext]_outboxFileVars => FileInv'
<1> SUFFICES ASSUME FileInv, [OutboxFileNext]_outboxFileVars PROVE FileInv'
  OBVIOUS
<1> USE OutboxFileAssumption DEF files, Step
<1>1. CASE UNCHANGED outboxFileVars
  <2>1. InUse' = InUse
    BY <1>1 DEF outboxFileVars, InUse
  <2>2. InodesDiffer'
    BY <1>1, <2>1, InodesStayApart DEF outboxFileVars
  <2> QED
    BY <1>1, <2>2 DEF outboxFileVars, FileInv, Fenced, SchemaIsOurs
<1>2. ASSUME NEW p \in Proc, PrepareFiles(p) PROVE FileInv'
  <2>1. at' = [at EXCEPT ![p] = "files"] /\ UNCHANGED <<version, dbLock, descriptor, probed, committed>>
    BY <1>2 DEF PrepareFiles
  <2>2. at' \in [Proc -> ProcStep] /\ SchemaIsOurs'
    BY <2>1 DEF FileInv, SchemaIsOurs, ProcStep
  <2>3. CASE NewLockFile
    BY <2>1, <2>2, <2>3, NewFilesDiffer DEF FileInv, Fenced
  <2>4. CASE UNCHANGED <<lockFile, created, inode>>
    <3>1. InUse' = InUse
      BY <2>1, <2>4 DEF InUse
    <3>2. InodesDiffer'
      BY <2>4, <3>1, InodesStayApart
    <3> QED
      BY <2>1, <2>2, <2>4, <3>2 DEF FileInv, Fenced
  <2> QED
    BY <1>2, <2>3, <2>4 DEF PrepareFiles
<1>3. ASSUME NEW p \in Proc,
             \/ ReadVersion(p) \/ CreateSchema(p) \/ CommitSchema(p) \/ Opened(p) \/ OpenFails(p)
             \/ CloseOutbox(p) \/ TryFlock(p) \/ Acquired(p) \/ CheckOwner(p)
             \/ BeginImmediate(p) \/ RecheckOwner(p) \/ CommitTransition(p) \/ TransitionFails(p)
      PROVE  FileInv'
  <2>1. UNCHANGED <<lockFile, created, inode, descriptor, probed>>
    BY <1>3 DEF ReadVersion, CreateSchema, CommitSchema, Opened, OpenFails, CloseOutbox, TryFlock,
                Acquired, CheckOwner, BeginImmediate, RecheckOwner, CommitTransition,
                TransitionFails
  <2>2. InUse' = InUse
    BY <2>1 DEF InUse
  <2>3. InodesDiffer'
    BY <2>1, <2>2, InodesStayApart
  <2>4. \E to \in ProcStep : at' = [at EXCEPT ![p] = to]
    BY <1>3 DEF ReadVersion, CreateSchema, CommitSchema, Opened, OpenFails, CloseOutbox, TryFlock,
                Acquired, CheckOwner, BeginImmediate, RecheckOwner, CommitTransition,
                TransitionFails, ProcStep
  <2>5. at' \in [Proc -> ProcStep]
    BY <2>4 DEF FileInv
  <2>6. Fenced'
    <3>1. CASE ReadVersion(p) \/ Opened(p) \/ OpenFails(p) \/ CloseOutbox(p)
               \/ TryFlock(p) \/ Acquired(p) \/ CheckOwner(p) \/ TransitionFails(p)
      BY <2>1, <3>1 DEF ReadVersion, Opened, OpenFails, CloseOutbox, TryFlock, Acquired, CheckOwner,
                        TransitionFails, FileInv, Fenced
    <3>2. CASE CreateSchema(p) \/ BeginImmediate(p)
      BY <2>1, <3>2 DEF CreateSchema, BeginImmediate, FileInv, Fenced
    <3>3. CASE CommitSchema(p)
      BY <2>1, <3>3 DEF CommitSchema, FileInv, Fenced
    <3>4. CASE RecheckOwner(p)
      <4>1. descriptor[p] = created
        BY <3>4, SameFileIsNewest DEF RecheckOwner
      <4> QED
        BY <2>1, <3>4, <4>1 DEF RecheckOwner, FileInv, Fenced
    <3>5. CASE CommitTransition(p)
      BY <2>1, <3>5 DEF CommitTransition, FileInv, Fenced
    <3> QED
      BY <1>3, <3>1, <3>2, <3>3, <3>4, <3>5
  <2>7. SchemaIsOurs'
    BY <1>3 DEF ReadVersion, CreateSchema, CommitSchema, Opened, OpenFails, CloseOutbox, TryFlock,
                Acquired, CheckOwner, BeginImmediate, RecheckOwner, CommitTransition,
                TransitionFails, FileInv, SchemaIsOurs, OUTBOX_SCHEMA_VERSION, Newer
  <2> QED
    BY <2>1, <2>3, <2>5, <2>6, <2>7 DEF FileInv
<1>4. ASSUME NEW p \in Proc, OpenLockFile(p) PROVE FileInv'
  <2>1. UNCHANGED inode /\ InUse' \subseteq InUse
    BY <1>4 DEF OpenLockFile, FileInv, InUse
  <2>2. InodesDiffer'
    BY <2>1, InodesStayApart
  <2> QED
    BY <1>4, <2>2 DEF OpenLockFile, FileInv, Fenced, SchemaIsOurs, ProcStep
<1>5. ASSUME NEW p \in Proc, ReleaseLock(p) \/ CrashProcess(p) PROVE FileInv'
  <2>1. /\ UNCHANGED <<lockFile, created, inode, probed, version, committed>>
        /\ descriptor' = [descriptor EXCEPT ![p] = NoFile]
        /\ \E to \in {"open", "closed"} : at' = [at EXCEPT ![p] = to]
        /\ dbLock' \in {dbLock, IF dbLock = p THEN NoProc ELSE dbLock}
    BY <1>5 DEF ReleaseLock, CrashProcess
  <2>2. InUse' \subseteq InUse
    BY <2>1 DEF FileInv, InUse
  <2>3. InodesDiffer'
    BY <2>1, <2>2, InodesStayApart
  <2> QED
    BY <2>1, <2>3 DEF FileInv, Fenced, SchemaIsOurs, ProcStep, NoFile
<1>6. CASE ProbeLocks \/ ProbeEnds \/ DeleteLockFile
  <2>1. /\ UNCHANGED <<created, inode, version, dbLock, at, descriptor, committed>>
        /\ lockFile' \in {lockFile, NoFile} /\ probed' \in {probed, lockFile, NoFile}
    BY <1>6 DEF ProbeLocks, ProbeEnds, DeleteLockFile
  <2>2. InUse' \subseteq InUse
    BY <2>1 DEF InUse
  <2>3. InodesDiffer'
    BY <2>1, <2>2, InodesStayApart
  <2> QED
    BY <2>1, <2>3 DEF FileInv, Fenced, SchemaIsOurs, NoFile
<1>7. CASE ReplaceLockFile
  <2>1. NewLockFile /\ UNCHANGED <<version, dbLock, at, descriptor, probed, committed>>
    BY <1>7 DEF ReplaceLockFile
  <2> QED
    BY <2>1, NewFilesDiffer DEF FileInv, Fenced, SchemaIsOurs
<1>8. CASE NewerRelease
  <2>1. InUse' = InUse
    BY <1>8 DEF NewerRelease, InUse
  <2>2. InodesDiffer'
    BY <1>8, <2>1, InodesStayApart DEF NewerRelease
  <2> QED
    BY <1>8, <2>2 DEF NewerRelease, FileInv, Fenced, SchemaIsOurs
<1> QED
  BY <1>1, <1>2, <1>3, <1>4, <1>5, <1>6, <1>7, <1>8 DEF OutboxFileNext

\* What FileInv leaves open of the types.
HolderKinds ==
  /\ flock \in [File -> Proc \cup {Probe, NoProc}] /\ dbLock \in Proc \cup {NoProc}
  /\ identity \in [Proc -> Inode \cup {0}] /\ crashes \in 0..MaxCrashes

LEMMA HoldersBegin == OutboxFileInit => HolderKinds
BY OutboxFileAssumption DEF OutboxFileInit, HolderKinds

\* A captured identity is that of a file, and a lock goes to its taker or back.
LEMMA HoldersStep ==
  FileInv /\ FileInv' /\ HolderKinds /\ [OutboxFileNext]_outboxFileVars => HolderKinds'
<1> SUFFICES ASSUME FileInv, FileInv', HolderKinds, [OutboxFileNext]_outboxFileVars
             PROVE  HolderKinds'
  OBVIOUS
<1> USE DEF files
<1>1. dbLock' \in Proc \cup {NoProc}
  BY DEF HolderKinds, outboxFileVars, OutboxFileNext, PrepareFiles, ReadVersion, CreateSchema,
         CommitSchema, Opened, OpenFails, CloseOutbox, OpenLockFile, TryFlock, Acquired, ReleaseLock,
         CheckOwner, BeginImmediate, RecheckOwner, CommitTransition, TransitionFails, CrashProcess,
         ProbeLocks, ProbeEnds, DeleteLockFile, ReplaceLockFile, NewerRelease
<1>2. crashes' \in 0..MaxCrashes
  BY OutboxFileAssumption
     DEF HolderKinds, outboxFileVars, OutboxFileNext, PrepareFiles, ReadVersion, CreateSchema,
         CommitSchema, Opened, OpenFails, CloseOutbox, OpenLockFile, TryFlock, Acquired, ReleaseLock,
         CheckOwner, BeginImmediate, RecheckOwner, CommitTransition, TransitionFails, CrashProcess,
         ProbeLocks, ProbeEnds, DeleteLockFile, ReplaceLockFile, NewerRelease
<1>3. \/ UNCHANGED flock
      \/ \E q \in Proc \cup {Probe} : flock' = Unlocked(q)
      \/ \E q \in Proc \cup {Probe}, f \in File \cup {NoFile} : flock' = [flock EXCEPT ![f] = q]
  <2>1. lockFile \in File \cup {NoFile} /\ descriptor \in [Proc -> File \cup {NoFile}]
    BY OutboxFileAssumption DEF FileInv, File, NoFile
  <2> QED
    BY <2>1
       DEF outboxFileVars, OutboxFileNext, PrepareFiles, ReadVersion, CreateSchema,
           CommitSchema, Opened, OpenFails, CloseOutbox, OpenLockFile, TryFlock, Acquired,
           ReleaseLock, CheckOwner, BeginImmediate, RecheckOwner, CommitTransition, TransitionFails,
           CrashProcess, ProbeLocks, ProbeEnds, DeleteLockFile, ReplaceLockFile, NewerRelease
<1>4. flock' \in [File -> Proc \cup {Probe, NoProc}]
  BY <1>3 DEF HolderKinds, Unlocked
<1>5. UNCHANGED identity \/ \E p \in Proc : PrepareFiles(p)
  BY DEF outboxFileVars, OutboxFileNext, ReadVersion, CreateSchema,
         CommitSchema, Opened, OpenFails, CloseOutbox, OpenLockFile, TryFlock, Acquired, ReleaseLock,
         CheckOwner, BeginImmediate, RecheckOwner, CommitTransition, TransitionFails, CrashProcess,
         ProbeLocks, ProbeEnds, DeleteLockFile, ReplaceLockFile, NewerRelease
<1>6. ASSUME NEW p \in Proc, PrepareFiles(p) PROVE identity' \in [Proc -> Inode \cup {0}]
  <2>1. lockFile' \in File
    BY <1>6, OutboxFileAssumption DEF PrepareFiles, NewLockFile, FileInv, File, NoFile
  <2>2. inode'[lockFile'] \in Inode \cup {0}
    BY <2>1 DEF FileInv
  <2> QED
    BY <1>6, <2>2 DEF PrepareFiles, HolderKinds
<1> QED
  BY <1>1, <1>2, <1>4, <1>5, <1>6 DEF HolderKinds

\* An owner commits at a file no older than the last that committed, and the
\* schema is put where there was none or the same.
LEMMA CommitsInOrder ==
  FileInv /\ [OutboxFileNext]_outboxFileVars => committed' >= committed /\ version' >= version
<1> SUFFICES ASSUME FileInv, [OutboxFileNext]_outboxFileVars
             PROVE  committed' >= committed /\ version' >= version
  OBVIOUS
<1> USE DEF files, Step
<1>1. committed \in Nat /\ version \in {0, 1, 2}
  BY DEF FileInv, Fenced, SchemaIsOurs, OUTBOX_SCHEMA_VERSION, Newer
<1>2. committed' = committed \/ \E p \in Proc : CommitTransition(p)
  BY DEF outboxFileVars, OutboxFileNext, PrepareFiles, ReadVersion, CreateSchema, CommitSchema,
         Opened, OpenFails, CloseOutbox, OpenLockFile, TryFlock, Acquired, ReleaseLock, CheckOwner,
         BeginImmediate, RecheckOwner, TransitionFails, CrashProcess, ProbeLocks, ProbeEnds,
         DeleteLockFile, ReplaceLockFile, NewerRelease
<1>3. version' = version \/ NewerRelease \/ \E p \in Proc : CommitSchema(p)
  BY DEF outboxFileVars, OutboxFileNext, PrepareFiles, ReadVersion, CreateSchema,
         Opened, OpenFails, CloseOutbox, OpenLockFile, TryFlock, Acquired, ReleaseLock, CheckOwner,
         BeginImmediate, RecheckOwner, CommitTransition, TransitionFails, CrashProcess, ProbeLocks,
         ProbeEnds, DeleteLockFile, ReplaceLockFile
<1>4. committed' >= committed
  BY <1>1, <1>2 DEF CommitTransition, FileInv, Fenced
<1>5. version' >= version
  BY <1>1, <1>3 DEF CommitSchema, NewerRelease, FileInv, SchemaIsOurs, OUTBOX_SCHEMA_VERSION, Newer
<1> QED
  BY <1>4, <1>5

-----------------------------------------------------------------------------
(***************************************************************************)
(* Retained turns.  The packing is greedy: it begins a content only where  *)
(* one more paragraph would not fit.  Its cuts stay ahead of every other   *)
(* way to cut the same paragraphs, so there are never more of them, and    *)
(* when the packing is rejected no other way fits either.                  *)
(***************************************************************************)
\* What a role is.
RoleKinds(role) ==
  /\ role.text \in Seq(Paragraph) /\ \E i \in DOMAIN role.text : ~role.text[i].blank
  /\ role.prefix \in Nat /\ role.name \in {"user", "assistant"}

\* A role has paragraphs that are kept.
LEMMA SemanticIs ==
  ASSUME NEW role, RoleKinds(role)
  PROVE  Semantic(role) \in Seq(1..Len(role.text)) /\ Semantic(role) # <<>>
<1> DEFINE N == Len(role.text)
           S == Seq(1..N)
           Find(s, k) == IF role.text[k].blank THEN s ELSE Append(s, k)
           step == [x \in (1..N) \X S |-> Find(x[2], x[1])]
           F == CHOOSE f : f = [k \in 0..N |-> IF k = 0 THEN <<>>
                                               ELSE IF role.text[k].blank THEN f[k - 1]
                                               ELSE Append(f[k - 1], k)]
<1>1. N \in Nat
  BY DEF RoleKinds
<1>2. Semantic(role) = F[N]
  BY DEF Semantic
<1>3. \A k \in 1..N, s \in S : Find(s, k) \in S
  <2> SUFFICES ASSUME NEW k \in 1..N, NEW s \in S PROVE Find(s, k) \in S
    OBVIOUS
  <2> HIDE DEF N
  <2>1. Append(s, k) \in S
    BY <1>1
  <2> HIDE DEF S
  <2> QED
    BY <2>1
<1>4. PICK f : Steps(f, N, S, <<>>, step)
  <2>1. step \in [(1..N) \X S -> S]
    <3> HIDE DEF Find, N, S
    <3> QED
      BY <1>3
  <2>2. <<>> \in S
    OBVIOUS
  <2> HIDE DEF step, S, N
  <2> QED
    BY <1>1, <2>1, <2>2, StepsExist
<1>5. f = [k \in 0..N |-> IF k = 0 THEN <<>> ELSE Find(f[k - 1], k)]
  <2> HIDE DEF Find, N, S
  <2>1. f \in [0..N -> S] /\ f[0] = <<>> /\ \A k \in 1..N : f[k] = step[<<k, f[k - 1]>>]
    BY <1>4 DEF Steps
  <2>2. ASSUME NEW k \in 1..N PROVE f[k] = Find(f[k - 1], k)
    <3>1. k - 1 \in 0..N
      BY <1>1
    <3> QED
      BY <2>1, <3>1
  <2>3. ASSUME NEW k \in 0..N PROVE f[k] = IF k = 0 THEN <<>> ELSE Find(f[k - 1], k)
    BY <1>1, <2>1, <2>2
  <2> QED
    BY <2>1, <2>3
<1>6. F = [k \in 0..N |-> IF k = 0 THEN <<>> ELSE Find(F[k - 1], k)]
  <2> HIDE DEF N
  <2> QED
    BY <1>5, Zenon
<1> HIDE DEF F
<1>7. F[0] = <<>> /\ \A k \in 1..N : F[k] = Find(F[k - 1], k)
  <2> HIDE DEF Find, N
  <2> QED
    BY <1>1, <1>6
<1> DEFINE Nonblank(k) == \E i \in 1..k : ~role.text[i].blank
           Found(k) == F[k] \in S /\ (Nonblank(k) => F[k] # <<>>)
           found == {k \in 0..N : Found(k)}
<1>8. Found(0)
  <2>1. F[0] \in S /\ ~Nonblank(0)
    BY <1>7
  <2> QED
    BY <2>1
<1>9. ASSUME NEW k \in 1..N, Found(k - 1) PROVE Found(k)
  <2>1. F[k - 1] \in S /\ (Nonblank(k - 1) => F[k - 1] # <<>>)
    BY <1>9
  <2>2. F[k] = Find(F[k - 1], k)
    BY <1>7
  <2>3. F[k] \in S
    <3> HIDE DEF Find, S, N
    <3> QED
      BY <1>3, <2>1, <2>2
  <2>4. CASE role.text[k].blank
    <3>1. F[k] = F[k - 1]
      BY <2>2, <2>4
    <3>2. ASSUME NEW i \in 1..k, ~role.text[i].blank PROVE i \in 1..(k - 1)
      BY <2>4, <3>2
    <3> QED
      BY <2>1, <2>3, <3>1, <3>2
  <2>5. CASE ~role.text[k].blank
    <3>1. F[k] = Append(F[k - 1], k)
      BY <2>2, <2>5
    <3>2. F[k] # <<>>
      <4> HIDE DEF N
      <4> QED
        BY <2>1, <3>1
    <3> QED
      BY <2>3, <3>2
  <2> QED
    BY <2>4, <2>5
<1>10. Found(N)
  <2> HIDE DEF Found, N
  <2>1. 0 \in found /\ \A k \in 1..N : k - 1 \in found => k \in found
    BY <1>1, <1>8, <1>9
  <2>2. N \in 0..N
    BY <1>1
  <2> HIDE DEF found
  <2>3. 0..N \subseteq found
    BY <1>1, <2>1, RangeInduction
  <2> QED
    BY <2>2, <2>3 DEF found
<1>11. Nonblank(N)
  BY DEF RoleKinds
<1> HIDE DEF S, N, Nonblank
<1>12. F[N] \in S /\ F[N] # <<>>
  BY <1>10, <1>11
<1> QED
  BY <1>2, <1>12 DEF S, N

\* What a content of a row and a packing are.
ContentKind == [role : {"user", "assistant"}, paragraphs : Seq(Nat), bytes : Nat]
PackingKind ==
  [contents : Seq(ContentKind), rejected : BOOLEAN, packed : Seq(Nat), bytes : Nat]

\* What the limits are.
LimitKinds == MaxBytes \in Nat /\ CountLimit \in Nat

\* Its bytes are numbers.
LEMMA OverheadIs ==
  ASSUME NEW role, RoleKinds(role)
  PROVE  /\ Overhead(role) \in Nat
         /\ \A i \in 1..Len(role.text) : role.text[i].separator \in Nat /\ role.text[i].bytes \in Nat
<1>1. Common \in Nat /\ Frame \in Nat
  BY RetainedTurnAssumption
<1>2. role.prefix \in Nat /\ role.text \in Seq(Paragraph)
  BY DEF RoleKinds
<1>3. \A i \in 1..Len(role.text) : role.text[i] \in Paragraph
  BY <1>2
<1>4. \A x \in Paragraph : x.separator \in Nat /\ x.bytes \in Nat
  BY DEF Paragraph
<1> QED
  BY <1>1, <1>2, <1>3, <1>4 DEF Overhead

\* A paragraph more makes a packing of a packing.
LEMMA PackingKept ==
  ASSUME LimitKinds, NEW role, RoleKinds(role), NEW p \in PackingKind,
         NEW i \in 1..Len(role.text)
  PROVE  AddParagraph(p, role, i) \in PackingKind
<1> DEFINE joined == p.bytes + role.text[i].separator + role.text[i].bytes
           alone == Overhead(role) + role.text[i].bytes
           closed == Content(role, p.packed, p.bytes)
<1>1. joined \in Nat /\ alone \in Nat
  <2>1. /\ Overhead(role) \in Nat
        /\ role.text[i].separator \in Nat /\ role.text[i].bytes \in Nat
    BY OverheadIs
  <2>2. p.bytes \in Nat
    BY DEF PackingKind
  <2>3. \A a, b, c \in Nat : a + b + c \in Nat /\ a + b \in Nat
    OBVIOUS
  <2> QED
    BY <2>1, <2>2, <2>3, Zenon
<1>2. /\ p.contents \in Seq(ContentKind) /\ p.packed \in Seq(Nat) /\ p.bytes \in Nat
      /\ i \in Nat
  BY DEF PackingKind, RoleKinds
<1>3. closed \in ContentKind
  BY <1>2 DEF ContentKind, RoleKinds, Content
<1>4. /\ Append(p.contents, closed) \in Seq(ContentKind)
      /\ <<i>> \in Seq(Nat) /\ Append(p.packed, i) \in Seq(Nat)
      /\ (Len(p.contents) + 1 >= CountLimit) \in BOOLEAN
  BY <1>2, <1>3
<1> HIDE DEF joined, alone, closed
<1>5. /\ [p EXCEPT !.rejected = TRUE] \in PackingKind
      /\ [contents |-> Append(p.contents, closed),
          rejected |-> Len(p.contents) + 1 >= CountLimit,
          packed |-> <<i>>, bytes |-> alone] \in PackingKind
      /\ [p EXCEPT !.packed = Append(@, i), !.bytes = alone] \in PackingKind
      /\ [p EXCEPT !.packed = Append(@, i), !.bytes = joined] \in PackingKind
  BY <1>1, <1>2, <1>4 DEF PackingKind
<1> QED
  BY <1>5 DEF AddParagraph, Pack, joined, alone, closed

\* The recursive function packs the paragraphs one by one.
LEMMA PackingIs ==
  ASSUME LimitKinds, NEW role, RoleKinds(role), NEW contents \in Seq(ContentKind)
  PROVE  LET order == Semantic(role)
             p == Packing(role, contents)
         IN  /\ p \in [0..Len(order) -> PackingKind]
             /\ p[0] = [contents |-> contents, rejected |-> FALSE, packed |-> <<>>,
                        bytes |-> Overhead(role)]
             /\ \A k \in 1..Len(order) : p[k] = AddParagraph(p[k - 1], role, order[k])
<1> DEFINE order == Semantic(role)
           N == Len(order)
           start == [contents |-> contents, rejected |-> FALSE, packed |-> <<>>,
                     bytes |-> Overhead(role)]
           step == [x \in (1..N) \X PackingKind |-> AddParagraph(x[2], role, order[x[1]])]
           F == CHOOSE f : f = [k \in 0..N |-> IF k = 0 THEN start
                                               ELSE AddParagraph(f[k - 1], role, order[k])]
<1>1. order \in Seq(1..Len(role.text)) /\ N \in Nat /\ \A k \in 1..N : order[k] \in 1..Len(role.text)
  <2>1. order \in Seq(1..Len(role.text))
    BY SemanticIs
  <2> HIDE DEF order
  <2> QED
    BY <2>1
<1>2. Packing(role, contents) = F
  BY DEF Packing
<1>3. start \in PackingKind
  <2>1. <<>> \in Seq(Nat) /\ Overhead(role) \in Nat
    BY OverheadIs
  <2> QED
    BY <2>1 DEF PackingKind
<1> HIDE DEF order, N, start
<1>4. PICK f : Steps(f, N, PackingKind, start, step)
  <2>1. \A x \in (1..N) \X PackingKind : AddParagraph(x[2], role, order[x[1]]) \in PackingKind
    BY <1>1, PackingKept
  <2>2. step \in [(1..N) \X PackingKind -> PackingKind]
    BY <2>1
  <2> HIDE DEF step
  <2> QED
    BY <1>1, <1>3, <2>2, StepsExist
<1>5. /\ f \in [0..N -> PackingKind] /\ f[0] = start
      /\ \A k \in 1..N : f[k] = AddParagraph(f[k - 1], role, order[k])
  <2>1. f \in [0..N -> PackingKind] /\ f[0] = start /\ \A k \in 1..N : f[k] = step[<<k, f[k - 1]>>]
    BY <1>4 DEF Steps
  <2>2. ASSUME NEW k \in 1..N PROVE f[k] = AddParagraph(f[k - 1], role, order[k])
    <3>1. k - 1 \in 0..N
      BY <1>1
    <3> QED
      BY <2>1, <3>1
  <2> QED
    BY <2>1, <2>2
<1>6. f = [k \in 0..N |-> IF k = 0 THEN start ELSE AddParagraph(f[k - 1], role, order[k])]
  BY <1>1, <1>5
<1>7. F = [k \in 0..N |-> IF k = 0 THEN start ELSE AddParagraph(F[k - 1], role, order[k])]
  BY <1>6, Zenon
<1> HIDE DEF F
<1>8. F[0] = start /\ \A k \in 1..N : F[k] = AddParagraph(F[k - 1], role, order[k])
  BY <1>1, <1>7
<1>9. \A k \in 0..N : F[k] = f[k]
  <2> DEFINE same == {k \in 0..N : F[k] = f[k]}
  <2>1. 0 \in same
    BY <1>1, <1>5, <1>8
  <2>2. ASSUME NEW k \in 1..N, k - 1 \in same PROVE k \in same
    BY <1>5, <1>8, <2>2
  <2> HIDE DEF same
  <2>3. 0..N \subseteq same
    BY <1>1, <2>1, <2>2, RangeInduction
  <2> QED
    BY <2>3 DEF same
<1>10. F \in [0..N -> PackingKind]
  BY <1>5, <1>7, <1>9
<1> QED
  BY <1>2, <1>8, <1>10 DEF order, N, start

\* What the recursive function reads of the contents of a role.
Reads(R, contents, name) ==
  /\ R \in [0..Len(contents) -> Seq(Nat)] /\ R[0] = <<>>
  /\ \A i \in 1..Len(contents) :
       R[i] = IF contents[i].role = name THEN R[i - 1] \o contents[i].paragraphs ELSE R[i - 1]

\* The recursive function reads the contents one by one.
LEMMA KeptIsRead ==
  ASSUME NEW contents \in Seq(ContentKind), NEW name
  PROVE  \E R : Reads(R, contents, name) /\ KeptIn(contents, name) = R[Len(contents)]
<1> DEFINE N == Len(contents)
           S == Seq(Nat)
           Read(s, i) == IF contents[i].role = name THEN s \o contents[i].paragraphs ELSE s
           step == [x \in (1..N) \X S |-> Read(x[2], x[1])]
           F == CHOOSE f : f = [i \in 0..N |->
                  IF i = 0 THEN <<>>
                  ELSE IF contents[i].role = name THEN f[i - 1] \o contents[i].paragraphs
                  ELSE f[i - 1]]
<1>1. N \in Nat /\ \A i \in 1..N : contents[i].paragraphs \in S
  <2>1. N \in Nat /\ \A i \in 1..N : contents[i] \in ContentKind
    OBVIOUS
  <2> HIDE DEF N
  <2> QED
    BY <2>1 DEF ContentKind
<1>2. KeptIn(contents, name) = F[N]
  BY DEF KeptIn
<1>3. \A i \in 1..N, s \in S : Read(s, i) \in S
  <2> SUFFICES ASSUME NEW i \in 1..N, NEW s \in S PROVE Read(s, i) \in S
    OBVIOUS
  <2>1. s \o contents[i].paragraphs \in S
    BY <1>1
  <2> HIDE DEF S
  <2> QED
    BY <2>1
<1> HIDE DEF N
<1>4. PICK f : Steps(f, N, S, <<>>, step)
  <2>1. step \in [(1..N) \X S -> S]
    <3> HIDE DEF Read, S
    <3> QED
      BY <1>3
  <2>2. <<>> \in S
    OBVIOUS
  <2> HIDE DEF step, S
  <2> QED
    BY <1>1, <2>1, <2>2, StepsExist
<1>5. f \in [0..N -> S] /\ f[0] = <<>> /\ \A i \in 1..N : f[i] = Read(f[i - 1], i)
  <2> HIDE DEF Read, S
  <2>1. f \in [0..N -> S] /\ f[0] = <<>> /\ \A i \in 1..N : f[i] = step[<<i, f[i - 1]>>]
    BY <1>4 DEF Steps
  <2>2. ASSUME NEW i \in 1..N PROVE f[i] = Read(f[i - 1], i)
    <3>1. i - 1 \in 0..N
      BY <1>1
    <3> QED
      BY <2>1, <3>1
  <2> QED
    BY <2>1, <2>2
<1>6. F = [i \in 0..N |-> IF i = 0 THEN <<>> ELSE Read(F[i - 1], i)]
  <2>1. f = [i \in 0..N |-> IF i = 0 THEN <<>> ELSE Read(f[i - 1], i)]
    <3> HIDE DEF Read, S
    <3> QED
      BY <1>1, <1>5
  <2> QED
    BY <2>1, Zenon
<1> HIDE DEF F
<1>7. F[0] = <<>> /\ \A i \in 1..N : F[i] = Read(F[i - 1], i)
  <2> HIDE DEF Read
  <2> QED
    BY <1>1, <1>6
<1>8. \A i \in 0..N : F[i] \in S
  <2> DEFINE typed == {i \in 0..N : F[i] \in S}
  <2> HIDE DEF Read
  <2>1. 0 \in typed
    <3>1. <<>> \in S
      OBVIOUS
    <3> HIDE DEF S
    <3> QED
      BY <1>1, <1>7, <3>1
  <2>2. ASSUME NEW i \in 1..N, i - 1 \in typed PROVE i \in typed
    <3> HIDE DEF S
    <3> QED
      BY <1>3, <1>7, <2>2
  <2> HIDE DEF typed
  <2>3. 0..N \subseteq typed
    BY <1>1, <2>1, <2>2, RangeInduction
  <2> QED
    BY <2>3 DEF typed
<1>9. Reads(F, contents, name)
  <2>1. F \in [0..N -> S]
    <3> HIDE DEF Read, S
    <3> QED
      BY <1>6, <1>8
  <2> QED
    BY <1>7, <2>1 DEF Reads, N
<1> QED
  BY <1>2, <1>9 DEF N

\* One content more is read after the others.
LEMMA KeptAppends ==
  ASSUME NEW contents \in Seq(ContentKind), NEW c \in ContentKind, NEW name
  PROVE  /\ KeptIn(contents, name) \in Seq(Nat)
         /\ KeptIn(Append(contents, c), name)
              = IF c.role = name THEN KeptIn(contents, name) \o c.paragraphs
                                 ELSE KeptIn(contents, name)
<1> DEFINE more == Append(contents, c)
           N == Len(contents)
<1>1. /\ more \in Seq(ContentKind) /\ Len(more) = N + 1 /\ N \in Nat
      /\ more[N + 1] = c /\ \A i \in 1..N : more[i] = contents[i]
  OBVIOUS
<1>2. PICK Q : Reads(Q, contents, name) /\ KeptIn(contents, name) = Q[N]
  BY KeptIsRead
<1> HIDE DEF more
<1>3. PICK R : Reads(R, more, name) /\ KeptIn(more, name) = R[Len(more)]
  BY <1>1, KeptIsRead
<1> HIDE DEF N
<1>4. \A i \in 0..N : R[i] = Q[i]
  <2> DEFINE same == {i \in 0..N : R[i] = Q[i]}
  <2>1. 0 \in same
    BY <1>1, <1>2, <1>3 DEF Reads
  <2>2. ASSUME NEW i \in 1..N, i - 1 \in same PROVE i \in same
    <3>1. i \in 1..Len(more) /\ i \in 1..Len(contents)
      BY <1>1 DEF N
    <3>2. Q[i] = IF contents[i].role = name THEN Q[i - 1] \o contents[i].paragraphs ELSE Q[i - 1]
      BY <1>2, <3>1 DEF Reads
    <3>3. R[i] = IF more[i].role = name THEN R[i - 1] \o more[i].paragraphs ELSE R[i - 1]
      BY <1>3, <3>1 DEF Reads
    <3> QED
      BY <1>1, <2>2, <3>2, <3>3
  <2> HIDE DEF same
  <2>3. 0..N \subseteq same
    BY <1>1, <2>1, <2>2, RangeInduction
  <2> QED
    BY <2>3 DEF same
<1>5. R[N + 1] = IF c.role = name THEN R[N] \o c.paragraphs ELSE R[N]
  <2>1. N + 1 \in 1..Len(more) /\ (N + 1) - 1 = N
    BY <1>1
  <2> QED
    BY <1>1, <1>3, <2>1 DEF Reads
<1>6. R[N] = Q[N] /\ Q[N] \in Seq(Nat)
  <2>1. N \in 0..N
    BY <1>1
  <2> QED
    BY <1>2, <1>4, <2>1 DEF Reads, N
<1> QED
  BY <1>1, <1>2, <1>3, <1>5, <1>6 DEF more

\* No contents hold nothing.
LEMMA KeptOfNone == \A name : KeptIn(<<>>, name) = <<>>
<1> SUFFICES ASSUME NEW name PROVE KeptIn(<<>>, name) = <<>>
  OBVIOUS
<1> DEFINE none == <<>>
<1>1. none \in Seq(ContentKind) /\ Len(none) = 0
  OBVIOUS
<1> HIDE DEF none
<1>2. PICK R : Reads(R, none, name) /\ KeptIn(none, name) = R[Len(none)]
  BY <1>1, KeptIsRead
<1> QED
  BY <1>1, <1>2 DEF Reads, none

\* What the properties use of the bytes of a content: they are those of its
\* first paragraph, and grow with the paragraphs before it and after it.
ChunksGrow(role) ==
  LET order == Semantic(role)
      N == Len(order)
  IN
  /\ \A i, j \in 1..N : Chunk(role, i, j) \in Int
  /\ \A i \in 1..N : Chunk(role, i, i) = Overhead(role) + role.text[order[i]].bytes
  /\ \A i, j \in 1..N : i <= j /\ j + 1 <= N =>
       Chunk(role, i, j + 1) = Chunk(role, i, j) + role.text[order[j + 1]].separator
                                                 + role.text[order[j + 1]].bytes
  /\ \A m, b, j \in 1..N : m <= b /\ b <= j => Chunk(role, b, j) <= Chunk(role, m, j)

\* The paragraphs that are kept are paragraphs of the text.
LEMMA OrderIs ==
  ASSUME NEW role, RoleKinds(role)
  PROVE  LET order == Semantic(role) IN
         /\ Len(order) \in Nat \ {0}
         /\ \A i \in 1..Len(order) :
              /\ order[i] \in 1..Len(role.text)
              /\ role.text[order[i]].separator \in Nat /\ role.text[order[i]].bytes \in Nat
<1> DEFINE order == Semantic(role)
<1>1. order \in Seq(1..Len(role.text)) /\ order # <<>>
  BY SemanticIs
<1> HIDE DEF order
<1>2. Len(order) \in Nat \ {0} /\ \A i \in 1..Len(order) : order[i] \in 1..Len(role.text)
  BY <1>1
<1>3. \A i \in 1..Len(order) :
        role.text[order[i]].separator \in Nat /\ role.text[order[i]].bytes \in Nat
  BY <1>2, OverheadIs
<1> QED
  BY <1>2, <1>3 DEF order

\* It follows from the sums of the paragraphs' bytes.
LEMMA ChunksDoGrow ==
  ASSUME NEW role, RoleKinds(role)
  PROVE  ChunksGrow(role)
<1> DEFINE order == Semantic(role)
           N == Len(order)
           B(i) == role.text[order[i]].bytes
           T(i) == role.text[order[i]].separator
           weights == [k \in 1..N |-> T(k) + B(k)]
           P == PartialSums(weights)
           O == Overhead(role)
<1>1. N \in Nat /\ O \in Nat /\ \A i \in 1..N : T(i) \in Nat /\ B(i) \in Nat
  BY OrderIs, OverheadIs
<1>2. \A i, j \in 1..N : Chunk(role, i, j) = O + B(i) + (P[j] - P[i])
  BY DEF Chunk
<1> HIDE DEF N, B, T, O
<1>3. weights \in Seq(Nat) /\ Len(weights) = N /\ \A k \in 1..N : weights[k] = T(k) + B(k)
  <2>1. weights \in [1..N -> Nat]
    BY <1>1
  <2> QED
    BY <1>1, <2>1
<1> HIDE DEF weights
<1>4. /\ \A k \in 1..N : P[k] = P[k - 1] + (T(k) + B(k))
      /\ \A k \in 0..N : P[k] \in Nat
      /\ \A k, l \in 0..N : k <= l => P[k] <= P[l]
  BY <1>3, SumsAdd, SumsGrow
<1> HIDE DEF P
<1>5. \A k \in 1..N : k \in 0..N /\ k - 1 \in 0..N
  BY <1>1
<1>6. \A i, j \in 1..N : Chunk(role, i, j) \in Int
  <2> SUFFICES ASSUME NEW i \in 1..N, NEW j \in 1..N PROVE Chunk(role, i, j) \in Int
    OBVIOUS
  <2>1. P[i] \in Nat /\ P[j] \in Nat /\ B(i) \in Nat
    BY <1>1, <1>4, <1>5
  <2>2. Chunk(role, i, j) = O + B(i) + (P[j] - P[i])
    BY <1>2
  <2> QED
    BY <1>1, <2>1, <2>2
<1>7. \A i \in 1..N : Chunk(role, i, i) = O + B(i)
  <2> SUFFICES ASSUME NEW i \in 1..N PROVE Chunk(role, i, i) = O + B(i)
    OBVIOUS
  <2>1. P[i] \in Nat /\ B(i) \in Nat
    BY <1>1, <1>4, <1>5
  <2>2. Chunk(role, i, i) = O + B(i) + (P[i] - P[i])
    BY <1>2
  <2> QED
    BY <1>1, <2>1, <2>2
<1>8. ASSUME NEW i \in 1..N, NEW j \in 1..N, i <= j, j + 1 <= N
      PROVE  Chunk(role, i, j + 1) = Chunk(role, i, j) + T(j + 1) + B(j + 1)
  <2>1. j + 1 \in 1..N /\ (j + 1) - 1 = j
    BY <1>1, <1>8
  <2>2. /\ P[i] \in Nat /\ P[j] \in Nat /\ B(i) \in Nat
        /\ T(j + 1) \in Nat /\ B(j + 1) \in Nat
    BY <1>1, <1>4, <1>5, <2>1
  <2>3. /\ Chunk(role, i, j) = O + B(i) + (P[j] - P[i])
        /\ Chunk(role, i, j + 1) = O + B(i) + (P[j + 1] - P[i])
    BY <1>2, <2>1
  <2>4. P[j + 1] = P[j] + (T(j + 1) + B(j + 1))
    BY <1>4, <2>1
  <2> QED
    BY <1>1, <2>2, <2>3, <2>4
<1>9. ASSUME NEW m \in 1..N, NEW b \in 1..N, NEW j \in 1..N, m <= b, b <= j
      PROVE  Chunk(role, b, j) <= Chunk(role, m, j)
  <2>1. /\ P[m] \in Nat /\ P[b] \in Nat /\ P[j] \in Nat /\ P[b - 1] \in Nat
        /\ B(m) \in Nat /\ B(b) \in Nat /\ T(b) \in Nat
    BY <1>1, <1>4, <1>5
  <2>2. /\ Chunk(role, b, j) = O + B(b) + (P[j] - P[b])
        /\ Chunk(role, m, j) = O + B(m) + (P[j] - P[m])
    BY <1>2
  <2>3. CASE m = b
    BY <1>1, <2>1, <2>2, <2>3
  <2>4. CASE m < b
    <3>1. P[b] = P[b - 1] + (T(b) + B(b))
      BY <1>4
    <3>2. P[m] <= P[b - 1]
      <4>1. m <= b - 1 /\ m \in 0..N /\ b - 1 \in 0..N
        BY <1>1, <2>4
      <4> QED
        BY <1>4, <4>1
    <3> QED
      BY <1>1, <2>1, <2>2, <3>1, <3>2
  <2> QED
    BY <1>9, <2>3, <2>4
<1> QED
  BY <1>6, <1>7, <1>8, <1>9 DEF ChunksGrow, N, B, T, O

\* A way to cut the first paragraphs of a role.
CutsUpTo(role, s, k) ==
  /\ s \in SUBSET (1..k) /\ 1 \in s
  /\ \A i \in s, j \in 1..k :
       i <= j /\ s \cap (i + 1)..j = {} => Chunk(role, i, j) <= MaxBytes

\* No way to cut them has fewer contents than g, and none with as many begins
\* its last one later than b.
Ahead(role, g, b, k) ==
  \A s : CutsUpTo(role, s, k) =>
    /\ Cardinality(g) <= Cardinality(s)
    /\ Cardinality(s) = Cardinality(g) => \A x \in s : x <= b

\* Cuts as the packing makes them: ahead of all others, the last of them at b.
Greedy(role, g, b, k) ==
  /\ CutsUpTo(role, g, k) /\ Ahead(role, g, b, k)
  /\ b \in g /\ \A x \in g : x <= b

\* A way to cut the paragraphs cuts the first of them.
LEMMA CutsRestrict ==
  ASSUME NEW role, NEW n \in Nat, NEW k \in 1..n, NEW s, CutsUpTo(role, s, n)
  PROVE  /\ CutsUpTo(role, s \cap 1..k, k)
         /\ Cardinality(s \cap 1..k) \in Nat /\ Cardinality(s) \in Nat
         /\ Cardinality(s \cap 1..k) <= Cardinality(s)
         /\ k + 1 \in s => Cardinality(s \cap 1..k) + 1 <= Cardinality(s)
<1> DEFINE t == s \cap 1..k
<1>1. s \in SUBSET (1..n) /\ 1 \in s
  BY DEF CutsUpTo
<1>2. t \in SUBSET (1..k) /\ 1 \in t
  BY <1>1
<1>3. ASSUME NEW i \in t, NEW j \in 1..k, i <= j, t \cap (i + 1)..j = {}
      PROVE  Chunk(role, i, j) <= MaxBytes
  <2>1. i \in s /\ j \in 1..n
    BY <1>1
  <2>2. s \cap (i + 1)..j = {}
    BY <1>1, <1>3
  <2> QED
    BY <1>3, <2>1, <2>2 DEF CutsUpTo
<1>4. IsFiniteSet(s) /\ IsFiniteSet(t)
  <2>1. IsFiniteSet(1..n)
    BY FS_Interval
  <2>2. IsFiniteSet(s)
    BY <1>1, <2>1, FS_Subset
  <2> QED
    BY <2>2, FS_Subset
<1>5. Cardinality(t) \in Nat /\ Cardinality(s) \in Nat /\ Cardinality(t) <= Cardinality(s)
  BY <1>4, FS_Subset, FS_CardinalityType
<1>6. ASSUME k + 1 \in s PROVE Cardinality(t) + 1 <= Cardinality(s)
  <2>1. k + 1 \notin t
    BY <1>1
  <2>2. t \cup {k + 1} \subseteq s
    BY <1>6
  <2>3. Cardinality(t \cup {k + 1}) = Cardinality(t) + 1
    BY <1>4, <2>1, FS_AddElement
  <2>4. Cardinality(t \cup {k + 1}) <= Cardinality(s)
    BY <1>4, <2>2, FS_Subset
  <2> QED
    BY <2>3, <2>4
<1> HIDE DEF t
<1>7. CutsUpTo(role, t, k)
  BY <1>2, <1>3 DEF CutsUpTo
<1> QED
  BY <1>5, <1>6, <1>7 DEF t

\* Before each paragraph, or at it, there is a last cut.
LEMMA LastCut ==
  ASSUME NEW role, NEW n \in Nat, NEW i \in 1..n, NEW s, CutsUpTo(role, s, n)
  PROVE  \E m \in s : m <= i /\ s \cap (m + 1)..i = {} /\ Chunk(role, m, i) <= MaxBytes
<1> DEFINE gaps == {d \in Nat : d <= i /\ i - d \in s}
<1>1. s \in SUBSET (1..n) /\ 1 \in s
  BY DEF CutsUpTo
<1>2. i - 1 \in gaps
  BY <1>1
<1>3. PICK d \in gaps : \A e \in gaps : d <= e
  <2> HIDE DEF gaps
  <2>1. gaps \in SUBSET Nat
    BY DEF gaps
  <2> QED
    BY <1>2, <2>1, LeastExists
<1>4. i - d \in s /\ i - d <= i /\ i - d \in 1..n
  BY <1>1
<1>5. s \cap ((i - d) + 1)..i = {}
  <2> SUFFICES ASSUME NEW x \in s, x \in ((i - d) + 1)..i PROVE FALSE
    OBVIOUS
  <2>1. i - x \in gaps /\ i - x < d
    BY <1>1
  <2> QED
    BY <1>3, <2>1
<1>6. Chunk(role, i - d, i) <= MaxBytes
  BY <1>4, <1>5 DEF CutsUpTo
<1> QED
  BY <1>4, <1>5, <1>6

\* The first paragraph can be cut in one way.
LEMMA GreedyBegins ==
  ASSUME NEW role, Chunk(role, 1, 1) <= MaxBytes
  PROVE  Greedy(role, {1}, 1, 1)
<1> DEFINE g == {1}
<1>1. CutsUpTo(role, g, 1)
  <2>1. g \in SUBSET (1..1) /\ 1 \in g
    OBVIOUS
  <2>2. ASSUME NEW i \in g, NEW j \in 1..1, i <= j, g \cap (i + 1)..j = {}
        PROVE  Chunk(role, i, j) <= MaxBytes
    <3>1. i = 1 /\ j = 1
      OBVIOUS
    <3> QED
      BY <3>1
  <2> HIDE DEF g
  <2> QED
    BY <2>1, <2>2 DEF CutsUpTo
<1>2. ASSUME NEW s, CutsUpTo(role, s, 1)
      PROVE  Cardinality({1}) <= Cardinality(s) /\ \A x \in s : x <= 1
  <2>1. s \in SUBSET (1..1) /\ 1 \in s
    BY <1>2 DEF CutsUpTo
  <2>2. \A x \in s : x = 1
    BY <2>1
  <2>3. s = {1}
    BY <2>1, <2>2
  <2> QED
    BY <2>2, <2>3, FS_Singleton
<1> QED
  BY <1>1, <1>2 DEF Greedy, Ahead

\* The next paragraph joins the content while there is room for it.
LEMMA GreedyJoins ==
  ASSUME NEW role, NEW k \in Nat \ {0}, NEW g, NEW b, Greedy(role, g, b, k),
         Chunk(role, b, k + 1) <= MaxBytes
  PROVE  Greedy(role, g, b, k + 1)
<1>1. CutsUpTo(role, g, k) /\ Ahead(role, g, b, k) /\ b \in g /\ \A x \in g : x <= b
  BY DEF Greedy
<1>2. g \in SUBSET (1..k) /\ 1 \in g
  BY <1>1 DEF CutsUpTo
<1>3. ASSUME NEW i \in g, NEW j \in 1..(k + 1), i <= j, g \cap (i + 1)..j = {}
      PROVE  Chunk(role, i, j) <= MaxBytes
  <2>1. CASE j = k + 1
    <3>1. b \notin (i + 1)..j
      BY <1>1, <1>3
    <3>2. i = b
      BY <1>1, <1>2, <2>1, <3>1
    <3> QED
      BY <2>1, <3>2
  <2>2. CASE j \in 1..k
    BY <1>1, <1>3, <2>2 DEF CutsUpTo
  <2> QED
    BY <2>1, <2>2
<1>4. CutsUpTo(role, g, k + 1)
  BY <1>2, <1>3 DEF CutsUpTo
<1>5. ASSUME NEW s, CutsUpTo(role, s, k + 1)
      PROVE  /\ Cardinality(g) <= Cardinality(s)
             /\ Cardinality(s) = Cardinality(g) => \A x \in s : x <= b
  <2> DEFINE t == s \cap 1..k
             c == Cardinality(t)
  <2>1. /\ CutsUpTo(role, t, k) /\ c \in Nat /\ Cardinality(s) \in Nat
        /\ c <= Cardinality(s) /\ (k + 1 \in s => c + 1 <= Cardinality(s))
    <3>1. k + 1 \in Nat /\ k \in 1..(k + 1)
      OBVIOUS
    <3> QED
      BY <1>5, <3>1, CutsRestrict
  <2>2. Cardinality(g) <= c /\ (c = Cardinality(g) => \A x \in t : x <= b)
    BY <1>1, <2>1 DEF Ahead
  <2>3. Cardinality(g) \in Nat
    <3>1. IsFiniteSet(g)
      <4>1. IsFiniteSet(1..k)
        BY FS_Interval
      <4> QED
        BY <1>2, <4>1, FS_Subset
    <3> QED
      BY <3>1, FS_CardinalityType
  <2>4. s \in SUBSET (1..(k + 1))
    BY <1>5 DEF CutsUpTo
  <2> HIDE DEF c
  <2>5. ASSUME Cardinality(s) = Cardinality(g), NEW x \in s PROVE x <= b
    <3>1. k + 1 \notin s /\ c = Cardinality(g)
      BY <2>1, <2>2, <2>3, <2>5
    <3>2. x \in t
      BY <2>4, <3>1
    <3> QED
      BY <2>2, <3>1, <3>2
  <2> QED
    BY <2>1, <2>2, <2>3, <2>5
<1> QED
  BY <1>1, <1>4, <1>5 DEF Greedy, Ahead

\* It begins another one when there is none: so must every other way to cut
\* that is not behind already.
LEMMA GreedyBreaks ==
  ASSUME NEW role, ChunksGrow(role), MaxBytes \in Nat,
         NEW k \in Nat \ {0}, k + 1 <= Len(Semantic(role)), Len(Semantic(role)) \in Nat,
         NEW g, NEW b, Greedy(role, g, b, k),
         Chunk(role, b, k + 1) > MaxBytes, Chunk(role, k + 1, k + 1) <= MaxBytes
  PROVE  /\ Greedy(role, g \cup {k + 1}, k + 1, k + 1)
         /\ Cardinality(g) \in Nat /\ Cardinality(g \cup {k + 1}) = Cardinality(g) + 1
<1> DEFINE h == g \cup {k + 1}
<1>1. CutsUpTo(role, g, k) /\ Ahead(role, g, b, k) /\ b \in g /\ \A x \in g : x <= b
  BY DEF Greedy
<1>2. g \in SUBSET (1..k) /\ 1 \in g /\ b \in 1..k
  BY <1>1 DEF CutsUpTo
<1>3. Cardinality(g) \in Nat /\ Cardinality(h) = Cardinality(g) + 1
  <2>1. IsFiniteSet(g)
    <3>1. IsFiniteSet(1..k)
      BY FS_Interval
    <3> QED
      BY <1>2, <3>1, FS_Subset
  <2>2. k + 1 \notin g
    BY <1>2
  <2> QED
    BY <2>1, <2>2, FS_AddElement, FS_CardinalityType
<1>4. h \in SUBSET (1..(k + 1)) /\ 1 \in h
  BY <1>2
<1>5. ASSUME NEW i \in h, NEW j \in 1..(k + 1), i <= j, h \cap (i + 1)..j = {}
      PROVE  Chunk(role, i, j) <= MaxBytes
  <2>1. CASE j = k + 1
    <3>1. k + 1 \notin (i + 1)..j
      BY <1>5
    <3>2. i = k + 1
      BY <1>4, <2>1, <3>1
    <3> QED
      BY <2>1, <3>2
  <2>2. CASE j \in 1..k
    <3>1. i \in g
      BY <1>5, <2>2
    <3>2. g \cap (i + 1)..j = {}
      BY <1>5
    <3> QED
      BY <1>1, <1>5, <2>2, <3>1, <3>2 DEF CutsUpTo
  <2> QED
    BY <2>1, <2>2
<1>6. CutsUpTo(role, h, k + 1)
  <2> HIDE DEF h
  <2> QED
    BY <1>4, <1>5 DEF CutsUpTo
<1>7. ASSUME NEW s, CutsUpTo(role, s, k + 1)
      PROVE  Cardinality(h) <= Cardinality(s) /\ \A x \in s : x <= k + 1
  <2> DEFINE t == s \cap 1..k
             c == Cardinality(t)
  <2>1. /\ CutsUpTo(role, t, k) /\ c \in Nat /\ Cardinality(s) \in Nat
        /\ c <= Cardinality(s) /\ (k + 1 \in s => c + 1 <= Cardinality(s))
    <3>1. k + 1 \in Nat /\ k \in 1..(k + 1)
      OBVIOUS
    <3> QED
      BY <1>7, <3>1, CutsRestrict
  <2>2. Cardinality(g) <= c /\ (c = Cardinality(g) => \A x \in t : x <= b)
    BY <1>1, <2>1 DEF Ahead
  <2>3. s \in SUBSET (1..(k + 1))
    BY <1>7 DEF CutsUpTo
  <2> HIDE DEF c, h
  <2>4. CASE k + 1 \in s
    BY <1>3, <2>1, <2>2, <2>3, <2>4
  <2>5. CASE k + 1 \notin s
    <3>1. c # Cardinality(g)
      <4> SUFFICES ASSUME c = Cardinality(g) PROVE FALSE
        OBVIOUS
      <4>1. \A x \in s : x <= b
        BY <2>2, <2>3, <2>5
      <4>2. PICK m \in s : m <= k + 1 /\ Chunk(role, m, k + 1) <= MaxBytes
        <5>1. k + 1 \in Nat /\ k + 1 \in 1..(k + 1)
          OBVIOUS
        <5> QED
          BY <1>7, <5>1, LastCut
      <4>3. m <= b /\ m \in 1..(k + 1)
        BY <2>3, <4>1
      <4>4. /\ m \in 1..Len(Semantic(role)) /\ b \in 1..Len(Semantic(role))
            /\ k + 1 \in 1..Len(Semantic(role)) /\ b <= k + 1
        BY <1>2, <4>3
      <4>5. /\ Chunk(role, b, k + 1) <= Chunk(role, m, k + 1)
            /\ Chunk(role, b, k + 1) \in Int /\ Chunk(role, m, k + 1) \in Int
        BY <4>3, <4>4 DEF ChunksGrow
      <4> QED
        BY <4>2, <4>5
    <3> QED
      BY <1>3, <2>1, <2>2, <2>3, <3>1
  <2> QED
    BY <2>4, <2>5
<1> HIDE DEF h
<1>8. k + 1 \in h /\ \A x \in h : x <= k + 1
  BY <1>4 DEF h
<1> QED
  BY <1>3, <1>6, <1>7, <1>8 DEF Greedy, Ahead, h

\* One number more at the end of two sequences is one more after both.
LEMMA AppendsAfter ==
  ASSUME NEW s \in Seq(Nat), NEW t \in Seq(Nat), NEW x \in Nat
  PROVE  s \o Append(t, x) = Append(s \o t, x) /\ (s \o t) \o <<x>> = Append(s \o t, x)
<1>1. \A u \in Seq(Nat) : Append(u, x) = u \o <<x>>
  <2> SUFFICES ASSUME NEW u \in Seq(Nat) PROVE Append(u, x) = u \o <<x>>
    OBVIOUS
  <2> DEFINE a == Append(u, x)
             c == u \o <<x>>
  <2>1. /\ a \in Seq(Nat) /\ Len(a) = Len(u) + 1
        /\ \A i \in 1..Len(a) : a[i] = IF i = Len(u) + 1 THEN x ELSE u[i]
    OBVIOUS
  <2>2. <<x>> \in Seq(Nat) /\ Len(<<x>>) = 1 /\ <<x>>[1] = x
    OBVIOUS
  <2>3. /\ c \in Seq(Nat) /\ Len(c) = Len(u) + 1
        /\ \A i \in 1..Len(u) + 1 : c[i] = IF i <= Len(u) THEN u[i] ELSE <<x>>[i - Len(u)]
    BY <2>2, ConcatProperties
  <2>4. \A i \in 1..Len(a) : a[i] = c[i]
    BY <2>1, <2>2, <2>3
  <2> HIDE DEF a, c
  <2>5. a = c
    BY <2>1, <2>3, <2>4, SeqEqual
  <2> QED
    BY <2>5 DEF a, c
<1>2. s \o t \in Seq(Nat) /\ <<x>> \in Seq(Nat)
  OBVIOUS
<1>3. s \o (t \o <<x>>) = (s \o t) \o <<x>>
  BY <1>2, ConcatAssociative
<1>4. Append(t, x) = t \o <<x>> /\ Append(s \o t, x) = (s \o t) \o <<x>>
  BY <1>1, <1>2
<1> QED
  BY <1>3, <1>4

\* What the beginnings of a sequence are.
LEMMA BeginningFacts ==
  ASSUME NEW s \in Seq(Nat)
  PROVE  /\ SubSeq(s, 1, 0) = <<>> /\ SubSeq(s, 1, Len(s)) = s
         /\ \A k \in 1..Len(s) : SubSeq(s, 1, k) = Append(SubSeq(s, 1, k - 1), s[k])
<1>1. SubSeq(s, 1, 0) = <<>>
  OBVIOUS
<1>2. SubSeq(s, 1, Len(s)) = s
  OBVIOUS
<1>3. ASSUME NEW k \in 1..Len(s)
      PROVE  SubSeq(s, 1, k) = Append(SubSeq(s, 1, k - 1), s[k])
  OBVIOUS
<1> QED
  BY <1>1, <1>2, <1>3

\* Every content is within the limit.
Within(contents) == \A i \in 1..Len(contents) : contents[i].bytes <= MaxBytes

\* Every way to cut the role makes more contents than there may be.
Hopeless(role, before) ==
  \A s : CutsUpTo(role, s, Len(Semantic(role))) => Len(before) + Cardinality(s) > CountLimit

\* The content being packed after k paragraphs: the cuts so far are greedy,
\* and the contents hold the paragraphs up to there.
Holds(role, before, p, k) ==
  /\ Within(p.contents)
  /\ KeptIn(p.contents, role.name) \o p.packed = SubSeq(Semantic(role), 1, k)
  /\ \A name : name # role.name => KeptIn(p.contents, name) = KeptIn(before, name)

\* The contents so far are as many as the greedy cuts, the one being packed too.
Cut(role, before, p, k) ==
  IF k = 0 THEN p.packed = <<>> /\ p.contents = before
  ELSE /\ p.packed # <<>> /\ p.bytes <= MaxBytes
       /\ Len(p.contents) = Len(before) \/ Len(p.contents) < CountLimit
       /\ \E g, b : /\ Greedy(role, g, b, k) /\ p.bytes = Chunk(role, b, k)
                    /\ Len(p.contents) + 1 = Len(before) + Cardinality(g)

\* The inductive invariant of the packing; a rejection is because nothing else fits.
PackInv(role, before, p, k) ==
  IF p.rejected THEN Hopeless(role, before)
  ELSE Holds(role, before, p, k) /\ Cut(role, before, p, k)

\* The contents before those of a role hold nothing of it.
Before(role, contents) ==
  /\ contents \in Seq(ContentKind) /\ Within(contents)
  /\ KeptIn(contents, role.name) = <<>>

\* A paragraph too long for a content of its own leaves no way to cut the role.
LEMMA TooLongAlone ==
  ASSUME NEW role, RoleKinds(role), LimitKinds, NEW before,
         NEW k \in 1..Len(Semantic(role)), Chunk(role, k, k) > MaxBytes
  PROVE  Hopeless(role, before)
<1> DEFINE N == Len(Semantic(role))
<1> SUFFICES ASSUME NEW s, CutsUpTo(role, s, N) PROVE FALSE
  BY DEF Hopeless
<1>1. N \in Nat
  BY OrderIs
<1>2. PICK m \in s : m <= k /\ Chunk(role, m, k) <= MaxBytes
  <2> HIDE DEF N
  <2>1. k \in 1..N
    BY DEF N
  <2> QED
    BY <1>1, <2>1, LastCut
<1>3. m \in 1..N
  BY DEF CutsUpTo
<1>4. /\ Chunk(role, k, k) <= Chunk(role, m, k)
      /\ Chunk(role, k, k) \in Int /\ Chunk(role, m, k) \in Int
  BY <1>1, <1>2, <1>3, ChunksDoGrow DEF ChunksGrow
<1>5. MaxBytes \in Nat
  BY DEF LimitKinds
<1> HIDE DEF N
<1> QED
  BY <1>2, <1>4, <1>5

\* What a role's contents and the paragraphs being packed hold, with one more.
LEMMA HoldsMore ==
  ASSUME NEW role, RoleKinds(role), NEW before, NEW p \in PackingKind,
         NEW k \in 1..Len(Semantic(role)), Holds(role, before, p, k - 1)
  PROVE  LET i == Semantic(role)[k]
             closed == Content(role, p.packed, p.bytes)
             beginning == SubSeq(Semantic(role), 1, k)
         IN  /\ KeptIn(p.contents, role.name) \o Append(p.packed, i) = beginning
             /\ KeptIn(Append(p.contents, closed), role.name) \o <<i>> = beginning
             /\ \A name : name # role.name =>
                  KeptIn(Append(p.contents, closed), name) = KeptIn(before, name)
             /\ p.bytes <= MaxBytes => Within(Append(p.contents, closed))
<1> DEFINE order == Semantic(role)
           i == order[k]
           closed == Content(role, p.packed, p.bytes)
           kept == KeptIn(p.contents, role.name)
<1>1. order \in Seq(Nat) /\ i \in Nat
  <2>1. order \in Seq(1..Len(role.text))
    BY SemanticIs
  <2>2. 1..Len(role.text) \subseteq Nat
    BY DEF RoleKinds
  <2> HIDE DEF order
  <2>3. \A j \in 1..Len(order) : order[j] \in Nat
    BY <2>1, <2>2
  <2>4. order \in Seq(Nat)
    BY <2>1, <2>3
  <2> QED
    BY <2>3, <2>4 DEF order
<1>2. p.contents \in Seq(ContentKind) /\ p.packed \in Seq(Nat) /\ p.bytes \in Nat
  BY DEF PackingKind
<1>3. closed \in ContentKind /\ closed.role = role.name /\ closed.paragraphs = p.packed
      /\ closed.bytes = p.bytes
  BY <1>2 DEF ContentKind, RoleKinds, Content
<1>4. kept \in Seq(Nat)
  BY <1>2, <1>3, KeptAppends
<1>5. kept \o p.packed = SubSeq(order, 1, k - 1)
  BY DEF Holds
<1>6. SubSeq(order, 1, k) = Append(SubSeq(order, 1, k - 1), i)
  <2> HIDE DEF order
  <2>1. k \in 1..Len(order)
    BY DEF order
  <2> QED
    BY <1>1, <2>1, BeginningFacts
<1> HIDE DEF order, i, closed
<1>7. kept \o Append(p.packed, i) = SubSeq(order, 1, k)
  <2> HIDE DEF kept
  <2>1. kept \o Append(p.packed, i) = Append(kept \o p.packed, i)
    BY <1>1, <1>2, <1>4, AppendsAfter, Zenon
  <2> QED
    BY <1>5, <1>6, <2>1
<1>8. KeptIn(Append(p.contents, closed), role.name) = kept \o p.packed
  BY <1>2, <1>3, KeptAppends
<1>9. (kept \o p.packed) \o <<i>> = SubSeq(order, 1, k)
  BY <1>1, <1>2, <1>4, <1>5, <1>6, AppendsAfter
<1>10. ASSUME NEW name, name # role.name
       PROVE  KeptIn(Append(p.contents, closed), name) = KeptIn(before, name)
  <2>1. KeptIn(p.contents, name) = KeptIn(before, name)
    BY <1>10 DEF Holds
  <2>2. KeptIn(Append(p.contents, closed), name) = KeptIn(p.contents, name)
    BY <1>2, <1>3, <1>10, KeptAppends
  <2> QED
    BY <2>1, <2>2
<1>11. ASSUME p.bytes <= MaxBytes PROVE Within(Append(p.contents, closed))
  <2>1. Within(p.contents)
    BY DEF Holds
  <2> QED
    BY <1>2, <1>3, <1>11, <2>1 DEF Within
<1> HIDE DEF kept
<1>12. KeptIn(p.contents, role.name) \o Append(p.packed, i) = SubSeq(order, 1, k)
  BY <1>7 DEF kept
<1>13. KeptIn(Append(p.contents, closed), role.name) \o <<i>> = SubSeq(order, 1, k)
  BY <1>8, <1>9
<1> QED
  BY <1>10, <1>11, <1>12, <1>13 DEF order, i, closed

\* A paragraph more is packed as it should be.
LEMMA PackStep ==
  ASSUME NEW role, RoleKinds(role), LimitKinds, NEW before, Before(role, before),
         NEW p \in PackingKind, NEW k \in 1..Len(Semantic(role)),
         PackInv(role, before, p, k - 1)
  PROVE  PackInv(role, before, AddParagraph(p, role, Semantic(role)[k]), k)
<1> DEFINE order == Semantic(role)
           N == Len(order)
           i == order[k]
           q == AddParagraph(p, role, i)
           alone == Overhead(role) + role.text[i].bytes
           joined == p.bytes + role.text[i].separator + role.text[i].bytes
           closed == Append(p.contents, Content(role, p.packed, p.bytes))
           first == p.packed = <<>>
<1>1. /\ N \in Nat \ {0} /\ i \in 1..Len(role.text) /\ Overhead(role) \in Nat
      /\ role.text[i].separator \in Nat /\ role.text[i].bytes \in Nat
  BY OrderIs, OverheadIs
<1>2. alone = Chunk(role, k, k)
  BY ChunksDoGrow DEF ChunksGrow
<1>3. /\ p.contents \in Seq(ContentKind) /\ p.packed \in Seq(Nat) /\ p.bytes \in Nat
      /\ p.rejected \in BOOLEAN /\ MaxBytes \in Nat /\ CountLimit \in Nat
      /\ before \in Seq(ContentKind) /\ k \in Nat
  BY DEF PackingKind, LimitKinds, Before
<1>4. q = IF p.rejected \/ alone > MaxBytes THEN [p EXCEPT !.rejected = TRUE]
          ELSE IF ~first /\ joined > MaxBytes
            THEN [contents |-> closed, rejected |-> Len(p.contents) + 1 >= CountLimit,
                  packed |-> <<i>>, bytes |-> alone]
          ELSE [p EXCEPT !.packed = Append(@, i), !.bytes = IF first THEN alone ELSE joined]
  BY DEF AddParagraph, Pack
<1>5. alone \in Nat /\ joined \in Nat
  <2>1. /\ p.bytes \in Nat /\ Overhead(role) \in Nat
        /\ role.text[i].separator \in Nat /\ role.text[i].bytes \in Nat
    BY <1>1, <1>3
  <2> DEFINE x == role.text[i].separator
             y == role.text[i].bytes
             z == Overhead(role)
  <2>2. \A u, v, w \in Nat : u + v \in Nat /\ u + v + w \in Nat
    OBVIOUS
  <2>3. z + y \in Nat /\ p.bytes + x + y \in Nat
    <3> HIDE DEF x, y, z
    <3> QED
      BY <2>1, <2>2 DEF x, y, z
  <2> QED
    BY <2>3
<1>6. Len(closed) = Len(p.contents) + 1 /\ Len(p.contents) \in Nat /\ Len(before) \in Nat
  BY <1>3
<1> HIDE DEF order, N, i, q, alone, joined, closed, first
<1>7. CASE p.rejected \/ alone > MaxBytes
  <2>1. q.rejected
    <3>1. q = [p EXCEPT !.rejected = TRUE]
      BY <1>4, <1>7
    <3> QED
      BY <3>1 DEF PackingKind
  <2>2. Hopeless(role, before)
    <3>1. CASE p.rejected
      BY <3>1 DEF PackInv
    <3>2. CASE alone > MaxBytes
      BY <1>2, <3>2, TooLongAlone
    <3> QED
      BY <1>7, <3>1, <3>2
  <2> QED
    BY <2>1, <2>2 DEF PackInv, q, i, order
<1>8. CASE ~p.rejected /\ alone <= MaxBytes
  <2>1. Holds(role, before, p, k - 1) /\ Cut(role, before, p, k - 1)
    BY <1>8 DEF PackInv
  <2>2. /\ KeptIn(p.contents, role.name) \o Append(p.packed, i) = SubSeq(order, 1, k)
        /\ KeptIn(closed, role.name) \o <<i>> = SubSeq(order, 1, k)
        /\ \A name : name # role.name => KeptIn(closed, name) = KeptIn(before, name)
        /\ p.bytes <= MaxBytes => Within(closed)
    BY <2>1, HoldsMore DEF order, i, closed
  <2>3. Within(p.contents) /\ \A name : name # role.name => KeptIn(p.contents, name) = KeptIn(before, name)
    BY <2>1 DEF Holds
  <2>4. ASSUME ~(~first /\ joined > MaxBytes)
        PROVE  /\ q.contents = p.contents /\ q.packed = Append(p.packed, i) /\ q.packed # <<>>
               /\ q.bytes = (IF first THEN alone ELSE joined) /\ q.rejected = FALSE
               /\ Holds(role, before, q, k)
    <3>1. q = [p EXCEPT !.packed = Append(@, i), !.bytes = IF first THEN alone ELSE joined]
      BY <1>3, <1>4, <1>5, <1>8, <2>4
    <3>2. /\ q.contents = p.contents /\ q.packed = Append(p.packed, i)
          /\ q.bytes = (IF first THEN alone ELSE joined) /\ q.rejected = p.rejected
      BY <3>1 DEF PackingKind
    <3>3. Append(p.packed, i) # <<>>
      <4>1. i \in Nat
        BY <1>1 DEF RoleKinds
      <4>2. p.packed \in Seq(Nat)
        BY <1>3
      <4>3. \A s \in Seq(Nat), x \in Nat : Append(s, x) # <<>>
        OBVIOUS
      <4> QED
        BY <4>1, <4>2, <4>3
    <3> QED
      BY <1>3, <1>8, <2>2, <2>3, <3>2, <3>3 DEF Holds, order
  <2>5. CASE k = 1
    <3>1. first /\ p.contents = before
      BY <2>1, <2>5 DEF Cut, first
    <3>2. Greedy(role, {1}, 1, 1) /\ Cardinality({1}) = 1
      BY <1>2, <1>8, <2>5, GreedyBegins, FS_Singleton
    <3>3. Cut(role, before, q, k)
      <4>1. q.bytes = Chunk(role, 1, k) /\ q.bytes <= MaxBytes
        BY <1>2, <1>8, <2>4, <2>5, <3>1
      <4>2. Len(q.contents) + 1 = Len(before) + Cardinality({1})
        BY <1>6, <2>4, <3>1, <3>2
      <4> DEFINE g == {1}
                 b == 1
      <4>3. Greedy(role, g, b, k) /\ q.bytes = Chunk(role, b, k)
            /\ Len(q.contents) + 1 = Len(before) + Cardinality(g)
        BY <2>5, <3>2, <4>1, <4>2
      <4> HIDE DEF g, b
      <4>4. q.contents = before /\ q.packed # <<>>
        BY <2>4, <3>1
      <4> QED
        BY <2>5, <4>1, <4>3, <4>4 DEF Cut
    <3> QED
      BY <2>4, <3>1, <3>3 DEF PackInv, q, i, order
  <2>6. CASE k # 1
    <3> DEFINE l == k - 1
    <3>1. l \in Nat \ {0} /\ l + 1 = k /\ l \in 1..N /\ l + 1 <= N /\ k \in 1..N /\ l # 0
      BY <1>1, <2>6 DEF N, order
    <3>2. /\ ~first /\ p.bytes <= MaxBytes
          /\ Len(p.contents) = Len(before) \/ Len(p.contents) < CountLimit
      BY <2>1, <3>1 DEF Cut, first
    <3>3. PICK g, b : /\ Greedy(role, g, b, l) /\ p.bytes = Chunk(role, b, l)
                      /\ Len(p.contents) + 1 = Len(before) + Cardinality(g)
      BY <2>1, <3>1 DEF Cut
    <3>4. b \in 1..l
      BY <3>3 DEF Greedy, CutsUpTo
    <3>5. joined = Chunk(role, b, k)
      <4>1. b \in 1..N /\ b <= l
        BY <1>1, <3>1, <3>4
      <4>2. Chunk(role, b, l + 1) = Chunk(role, b, l) + role.text[order[l + 1]].separator
                                                    + role.text[order[l + 1]].bytes
        BY <3>1, <4>1, ChunksDoGrow DEF ChunksGrow, N, order
      <4> QED
        BY <3>1, <3>3, <4>2 DEF joined, i
    <3> HIDE DEF l
    <3>6. CASE joined <= MaxBytes
      <4>1. Greedy(role, g, b, k)
        BY <3>1, <3>3, <3>5, <3>6, GreedyJoins
      <4>2. ~(~first /\ joined > MaxBytes)
        BY <1>3, <1>5, <3>6
      <4>3. q.bytes = Chunk(role, b, k) /\ q.bytes <= MaxBytes
        BY <2>4, <3>2, <3>5, <3>6, <4>2
      <4>4. /\ q.packed # <<>> /\ Len(q.contents) + 1 = Len(before) + Cardinality(g)
            /\ Len(q.contents) = Len(before) \/ Len(q.contents) < CountLimit
        BY <2>4, <3>2, <3>3, <4>2
      <4>5. k # 0
        BY <1>3, <3>1
      <4>6. Cut(role, before, q, k)
        BY <4>1, <4>3, <4>4, <4>5 DEF Cut
      <4> QED
        BY <2>4, <4>2, <4>6 DEF PackInv, q, i, order
    <3>7. CASE joined > MaxBytes
      <4> DEFINE h == g \cup {k}
      <4>1. Greedy(role, h, k, k) /\ Cardinality(g) \in Nat /\ Cardinality(h) = Cardinality(g) + 1
        <5>1. Chunk(role, b, l + 1) > MaxBytes /\ Chunk(role, l + 1, l + 1) <= MaxBytes
          BY <1>2, <1>8, <3>1, <3>5, <3>7
        <5>2. ChunksGrow(role)
          BY ChunksDoGrow
        <5>3. l + 1 <= Len(Semantic(role)) /\ Len(Semantic(role)) \in Nat
          BY <1>1, <3>1 DEF N, order
        <5> QED
          BY <1>3, <3>1, <3>3, <5>1, <5>2, <5>3, GreedyBreaks
      <4>2. q = [contents |-> closed, rejected |-> Len(p.contents) + 1 >= CountLimit,
                 packed |-> <<i>>, bytes |-> alone]
        BY <1>3, <1>4, <1>5, <1>8, <3>2, <3>7
      <4>3. /\ q.contents = closed /\ q.packed = <<i>> /\ q.packed # <<>> /\ q.bytes = alone
            /\ q.rejected = (Len(p.contents) + 1 >= CountLimit)
        BY <4>2
      <4>4. CASE Len(p.contents) + 1 >= CountLimit
        <5>1. ASSUME NEW s, CutsUpTo(role, s, N) PROVE Len(before) + Cardinality(s) > CountLimit
          <6>1. /\ CutsUpTo(role, s \cap 1..k, k) /\ Cardinality(s \cap 1..k) <= Cardinality(s)
                /\ Cardinality(s \cap 1..k) \in Nat /\ Cardinality(s) \in Nat
            BY <1>1, <3>1, <5>1, CutsRestrict
          <6>2. Cardinality(h) <= Cardinality(s \cap 1..k)
            BY <4>1, <6>1 DEF Greedy, Ahead
          <6> QED
            BY <1>3, <1>6, <3>3, <4>1, <4>4, <6>1, <6>2
        <5>2. Hopeless(role, before)
          BY <5>1 DEF Hopeless, N, order
        <5> QED
          BY <4>3, <4>4, <5>2 DEF PackInv, q, i, order
      <4>5. CASE ~(Len(p.contents) + 1 >= CountLimit)
        <5>1. Holds(role, before, q, k)
          BY <2>2, <3>2, <4>3 DEF Holds, order
        <5>2. /\ Len(q.contents) < CountLimit
              /\ Len(q.contents) + 1 = Len(before) + Cardinality(h)
          BY <1>3, <1>6, <3>3, <4>1, <4>3, <4>5
        <5>3. q.bytes = Chunk(role, k, k) /\ q.bytes <= MaxBytes
          BY <1>2, <1>8, <4>3
        <5> HIDE DEF h
        <5>4. Cut(role, before, q, k)
          BY <1>3, <2>6, <3>1, <4>1, <4>3, <5>2, <5>3, SMTT(20) DEF Cut
        <5> QED
          BY <4>3, <4>5, <5>1, <5>4 DEF PackInv, q, i, order
      <4> QED
        BY <4>4, <4>5
    <3> QED
      BY <1>3, <1>5, <3>6, <3>7
  <2> QED
    BY <2>5, <2>6
<1> QED
  BY <1>3, <1>5, <1>7, <1>8

\* All the paragraphs of a role are packed so.
LEMMA PackedAll ==
  ASSUME NEW role, RoleKinds(role), LimitKinds, NEW before, Before(role, before)
  PROVE  LET N == Len(Semantic(role))
             p == Packing(role, before)[N]
         IN  p \in PackingKind /\ PackInv(role, before, p, N)
<1> DEFINE order == Semantic(role)
           N == Len(order)
           P == Packing(role, before)
           packed == {k \in 0..N : PackInv(role, before, P[k], k)}
<1>1. N \in Nat \ {0} /\ order \in Seq(Nat)
  <2>1. order \in Seq(1..Len(role.text)) /\ \A x \in 1..Len(role.text) : x \in Nat
    BY SemanticIs DEF RoleKinds
  <2>2. N \in Nat \ {0}
    BY OrderIs
  <2> HIDE DEF order
  <2> QED
    BY <2>1, <2>2
<1>2. before \in Seq(ContentKind) /\ Within(before) /\ KeptIn(before, role.name) = <<>>
  BY DEF Before
<1>3. /\ P \in [0..N -> PackingKind]
      /\ P[0] = [contents |-> before, rejected |-> FALSE, packed |-> <<>>,
                 bytes |-> Overhead(role)]
      /\ \A k \in 1..N : P[k] = AddParagraph(P[k - 1], role, order[k])
  BY <1>2, PackingIs
<1> HIDE DEF P, N, order
<1>4. 0 \in packed
  <2>1. P[0].rejected = FALSE /\ P[0].packed = <<>> /\ P[0].contents = before
    BY <1>3
  <2>2. KeptIn(P[0].contents, role.name) \o P[0].packed = SubSeq(order, 1, 0)
    <3>1. SubSeq(order, 1, 0) = <<>>
      BY <1>1, BeginningFacts
    <3>2. <<>> \o <<>> = <<>>
      OBVIOUS
    <3> QED
      BY <1>2, <2>1, <3>1, <3>2
  <2>3. Holds(role, before, P[0], 0)
    BY <1>2, <2>1, <2>2 DEF Holds, order
  <2>4. Cut(role, before, P[0], 0)
    BY <2>1 DEF Cut
  <2> QED
    BY <1>1, <2>1, <2>3, <2>4 DEF PackInv
<1>5. ASSUME NEW k \in 1..N, k - 1 \in packed PROVE k \in packed
  <2>1. P[k - 1] \in PackingKind /\ PackInv(role, before, P[k - 1], k - 1)
    BY <1>1, <1>3, <1>5
  <2>2. PackInv(role, before, AddParagraph(P[k - 1], role, order[k]), k)
    BY <2>1, PackStep DEF N, order
  <2> QED
    BY <1>1, <1>3, <2>2
<1>6. N \in packed
  <2> HIDE DEF packed
  <2>1. N \in Nat /\ N \in 0..N
    BY <1>1
  <2> QED
    BY <1>4, <1>5, <2>1, RangeInduction
<1> QED
  BY <1>1, <1>3, <1>6 DEF P, N, order

\* Cuts is about all the paragraphs.
LEMMA CutsAre ==
  ASSUME NEW role
  PROVE  \A s : s \in Cuts(role) <=> CutsUpTo(role, s, Len(Semantic(role)))
<1> DEFINE N == Len(Semantic(role))
<1>1. Cuts(role) = {s \in SUBSET (1..N) :
                      /\ 1 \in s
                      /\ \A i \in s, j \in 1..N :
                           i <= j /\ s \cap (i + 1)..j = {} => Chunk(role, i, j) <= MaxBytes}
  BY DEF Cuts
<1> HIDE DEF N
<1>2. \A s : s \in Cuts(role) <=> CutsUpTo(role, s, N)
  BY <1>1 DEF CutsUpTo
<1> QED
  BY <1>2 DEF N

\* The cuts of a packing that was not given up are the fewest.
LEMMA GreedyIsBest ==
  ASSUME NEW role, RoleKinds(role), NEW g, NEW b, Greedy(role, g, b, Len(Semantic(role)))
  PROVE  /\ Cuts(role) # {} /\ Cardinality(g) \in Nat
         /\ Min({Cardinality(s) : s \in Cuts(role)}) = Cardinality(g)
<1> DEFINE N == Len(Semantic(role))
           sizes == {Cardinality(s) : s \in Cuts(role)}
<1>1. N \in Nat
  BY OrderIs
<1>2. CutsUpTo(role, g, N) /\ Ahead(role, g, b, N)
  BY DEF Greedy
<1>3. g \in Cuts(role)
  BY <1>2, CutsAre
<1>4. \A s \in Cuts(role) : Cardinality(g) <= Cardinality(s) /\ Cardinality(s) \in Nat
  <2> SUFFICES ASSUME NEW s \in Cuts(role)
               PROVE  Cardinality(g) <= Cardinality(s) /\ Cardinality(s) \in Nat
    OBVIOUS
  <2>1. CutsUpTo(role, s, N)
    BY CutsAre
  <2>2. IsFiniteSet(s)
    <3>1. s \subseteq 1..N /\ IsFiniteSet(1..N)
      BY <1>1, <2>1, FS_Interval DEF CutsUpTo
    <3> QED
      BY <3>1, FS_Subset
  <2> QED
    BY <1>2, <2>1, <2>2, FS_CardinalityType DEF Ahead
<1>5. Cardinality(g) \in sizes /\ \A x \in sizes : Cardinality(g) <= x /\ x \in Nat
  BY <1>3, <1>4
<1>6. Min(sizes) \in sizes /\ \A x \in sizes : Min(sizes) <= x
  <2> HIDE DEF sizes
  <2> QED
    BY <1>5 DEF Min
<1>7. Min(sizes) = Cardinality(g)
  <2> HIDE DEF sizes
  <2> QED
    BY <1>5, <1>6
<1> QED
  BY <1>3, <1>4, <1>7

\* What the contents are once a role is added to those before it.
Added(role, before, contents) ==
  /\ contents \in Seq(ContentKind) /\ Within(contents)
  /\ Len(contents) = Len(before) + Fewest(role)
  /\ KeptIn(contents, role.name) = Semantic(role)
  /\ \A name : name # role.name => KeptIn(contents, name) = KeptIn(before, name)

\* There is room for a role.
Room(role, before) ==
  Possible(role) /\ Len(before) + Fewest(role) <= CountLimit

\* A whole role is a number of bytes.
LEMMA WholeRoleIs ==
  ASSUME NEW role, RoleKinds(role)
  PROVE  WholeRole(role) \in Nat /\ TextBytes(role.text) \in Nat
<1> DEFINE weights == [i \in DOMAIN role.text |-> role.text[i].separator + role.text[i].bytes]
<1>1. weights \in Seq(Nat)
  <2>1. Len(role.text) \in Nat /\ DOMAIN role.text = 1..Len(role.text)
    BY DEF RoleKinds
  <2>2. \A i \in 1..Len(role.text) : role.text[i].separator + role.text[i].bytes \in Nat
    <3> SUFFICES ASSUME NEW i \in 1..Len(role.text)
                 PROVE  role.text[i].separator + role.text[i].bytes \in Nat
      OBVIOUS
    <3>1. role.text[i].separator \in Nat /\ role.text[i].bytes \in Nat
      BY OverheadIs
    <3> QED
      BY <3>1
  <2>3. weights \in [1..Len(role.text) -> Nat]
    BY <2>1, <2>2
  <2> HIDE DEF weights
  <2> QED
    BY <2>1, <2>3
<1>2. TextBytes(role.text) = SumOf(weights)
  BY DEF TextBytes
<1> HIDE DEF weights
<1>3. TextBytes(role.text) \in Nat
  BY <1>1, <1>2, SumOfIs
<1> QED
  BY <1>3, OverheadIs DEF WholeRole

\* A role is added whole, cut as little as possible, or not at all.
LEMMA RoleAdded ==
  ASSUME LimitKinds, NEW role, RoleKinds(role), NEW before, Before(role, before)
  PROVE  LET added == AddRole([contents |-> before, rejected |-> FALSE], role) IN
         /\ Possible(role) => Fewest(role) \in Nat
         /\ Room(role, before) => ~added.rejected /\ Added(role, before, added.contents)
         /\ ~Room(role, before) => added = Rejected
<1> DEFINE order == Semantic(role)
           N == Len(order)
           p == Packing(role, before)[N]
           whole == WholeRole(role) <= MaxBytes
           last == IF whole THEN Content(role, order, WholeRole(role))
                            ELSE Content(role, p.packed, p.bytes)
           others == IF whole THEN before ELSE p.contents
           contents == Append(others, last)
           added == AddRole([contents |-> before, rejected |-> FALSE], role)
<1>1. added = IF (~whole /\ p.rejected) \/ Len(contents) > CountLimit
              THEN Rejected ELSE [contents |-> contents, rejected |-> FALSE]
  BY DEF AddRole
<1>2. N \in Nat \ {0} /\ order \in Seq(Nat)
  <2>1. order \in Seq(1..Len(role.text)) /\ \A x \in 1..Len(role.text) : x \in Nat
    BY SemanticIs DEF RoleKinds
  <2>2. N \in Nat \ {0}
    BY OrderIs
  <2> HIDE DEF order
  <2> QED
    BY <2>1, <2>2
<1>3. p \in PackingKind /\ PackInv(role, before, p, N)
  BY PackedAll
<1>4. /\ before \in Seq(ContentKind) /\ Within(before) /\ KeptIn(before, role.name) = <<>>
      /\ Len(before) \in Nat /\ MaxBytes \in Nat /\ CountLimit \in Nat
      /\ role.name \in {"user", "assistant"} /\ WholeRole(role) \in Nat
  BY WholeRoleIs DEF Before, LimitKinds, RoleKinds
<1>5. /\ p.contents \in Seq(ContentKind) /\ p.packed \in Seq(Nat) /\ p.bytes \in Nat
      /\ p.rejected \in BOOLEAN
  BY <1>3 DEF PackingKind
<1> HIDE DEF p, order, N, added
<1>6. /\ last \in ContentKind /\ others \in Seq(ContentKind) /\ last.role = role.name
      /\ last.paragraphs = (IF whole THEN order ELSE p.packed)
      /\ last.bytes = (IF whole THEN WholeRole(role) ELSE p.bytes)
  BY <1>2, <1>4, <1>5 DEF Content, ContentKind
<1> HIDE DEF last, others
<1>7. /\ contents \in Seq(ContentKind) /\ Len(contents) = Len(others) + 1
      /\ Len(others) \in Nat
  BY <1>6
<1>8. /\ KeptIn(contents, role.name) = KeptIn(others, role.name) \o last.paragraphs
      /\ \A name : name # role.name => KeptIn(contents, name) = KeptIn(others, name)
  BY <1>6, KeptAppends
<1>9. ASSUME Within(others), last.bytes <= MaxBytes PROVE Within(contents)
  BY <1>6, <1>7, <1>9 DEF Within
<1> HIDE DEF contents
<1>10. CASE whole
  <2>1. Possible(role) /\ Fewest(role) = 1
    BY <1>10 DEF Possible, Fewest
  <2>2. others = before
    BY <1>10 DEF others
  <2>3. KeptIn(contents, role.name) = order
    <3>1. <<>> \o order = order
      BY <1>2, ConcatEmptySeq
    <3> QED
      BY <1>4, <1>6, <1>8, <1>10, <2>2, <3>1
  <2>4. Within(contents)
    BY <1>4, <1>6, <1>9, <1>10, <2>2
  <2>5. Added(role, before, contents)
    BY <1>7, <1>8, <2>1, <2>2, <2>3, <2>4 DEF Added, order
  <2>6. Room(role, before) <=> ~(Len(contents) > CountLimit)
    BY <1>4, <1>7, <2>1, <2>2 DEF Room
  <2> QED
    BY <1>1, <1>10, <2>1, <2>5, <2>6 DEF added
<1>11. CASE ~whole /\ p.rejected
  <2>1. added = Rejected
    BY <1>1, <1>11
  <2>2. \A s : CutsUpTo(role, s, N) => Len(before) + Cardinality(s) > CountLimit
    BY <1>3, <1>11 DEF PackInv, Hopeless, N, order
  <2>3. ASSUME Possible(role)
        PROVE  Fewest(role) \in Nat /\ Len(before) + Fewest(role) > CountLimit
    <3> DEFINE sizes == {Cardinality(s) : s \in Cuts(role)}
    <3>1. \A s \in Cuts(role) : Len(before) + Cardinality(s) > CountLimit
      BY <2>2, CutsAre DEF N, order
    <3>2. \A s \in Cuts(role) : Cardinality(s) \in Nat
      <4> SUFFICES ASSUME NEW s \in Cuts(role) PROVE Cardinality(s) \in Nat
        OBVIOUS
      <4>1. CutsUpTo(role, s, N)
        BY CutsAre DEF N, order
      <4>2. s \subseteq 1..N /\ IsFiniteSet(1..N)
        BY <1>2, <4>1, FS_Interval DEF CutsUpTo
      <4> QED
        BY <4>2, FS_Subset, FS_CardinalityType
    <3>3. sizes \in SUBSET Nat /\ sizes # {}
      BY <1>11, <2>3, <3>2 DEF Possible
    <3>4. Fewest(role) = Min(sizes)
      BY <1>11 DEF Fewest
    <3>5. \A x \in sizes : Len(before) + x > CountLimit
      BY <3>1
    <3> HIDE DEF sizes
    <3>6. PICK m \in sizes : \A x \in sizes : m <= x
      BY <3>3, LeastExists
    <3>7. Min(sizes) \in sizes
      BY <3>6 DEF Min
    <3> QED
      BY <3>3, <3>4, <3>5, <3>7
  <2>4. ~Room(role, before)
    BY <1>4, <2>3 DEF Room
  <2> QED
    BY <2>1, <2>3, <2>4 DEF added
<1>12. CASE ~whole /\ ~p.rejected
  <2>1. Holds(role, before, p, N) /\ Cut(role, before, p, N)
    BY <1>3, <1>12 DEF PackInv
  <2>2. PICK g, b : /\ Greedy(role, g, b, N)
                    /\ Len(p.contents) + 1 = Len(before) + Cardinality(g)
    BY <1>2, <2>1 DEF Cut
  <2>3. Possible(role) /\ Fewest(role) = Cardinality(g) /\ Cardinality(g) \in Nat
    BY <1>12, <2>2, GreedyIsBest DEF Possible, Fewest, N, order
  <2>4. others = p.contents /\ Len(contents) = Len(before) + Fewest(role)
    BY <1>7, <1>12, <2>2, <2>3 DEF others
  <2>5. KeptIn(contents, role.name) = order
    <3>1. SubSeq(order, 1, N) = order
      BY <1>2, BeginningFacts DEF N
    <3>2. KeptIn(p.contents, role.name) \o p.packed = order
      BY <2>1, <3>1 DEF Holds, order
    <3> QED
      BY <1>6, <1>8, <1>12, <2>4, <3>2
  <2>6. Within(contents)
    <3>1. Within(p.contents) /\ p.bytes <= MaxBytes
      BY <1>2, <2>1 DEF Holds, Cut
    <3> QED
      BY <1>6, <1>9, <1>12, <2>4, <3>1
  <2>7. \A name : name # role.name => KeptIn(contents, name) = KeptIn(before, name)
    BY <1>8, <2>1, <2>4 DEF Holds
  <2>8. Added(role, before, contents)
    BY <1>7, <2>4, <2>5, <2>6, <2>7 DEF Added, order
  <2>9. Room(role, before) <=> ~(Len(contents) > CountLimit)
    BY <1>4, <2>3, <2>4 DEF Room
  <2> QED
    BY <1>1, <1>12, <2>3, <2>8, <2>9 DEF added
<1> QED
  BY <1>5, <1>10, <1>11, <1>12

\* What an input of the function is.
TurnKinds ==
  /\ \A text \in {turn.user, turn.assistant} :
       text \in Seq(Paragraph) /\ \E i \in DOMAIN text : ~text[i].blank
  /\ turn.prefix \in Nat
  /\ turn.limits \in [segment_max_bytes : Nat, max_pending_rows : Nat \ {0},
                      max_pending_bytes : Nat]

\* Its limits and its roles are what the lemmas are about.
LEMMA TurnHasKinds ==
  ASSUME TurnKinds
  PROVE  /\ LimitKinds /\ CountLimit \in Nat \ {0}
         /\ RoleKinds(User) /\ RoleKinds(Assistant) /\ User.name # Assistant.name
<1>1. LimitKinds /\ CountLimit \in Nat \ {0}
  BY DEF TurnKinds, LimitKinds, MaxBytes, CountLimit
<1>2. /\ User.text = turn.user /\ User.prefix = 0 /\ User.name = "user"
      /\ Assistant.text = turn.assistant /\ Assistant.prefix = turn.prefix
      /\ Assistant.name = "assistant"
  BY DEF User, Assistant
<1>3. /\ turn.user \in Seq(Paragraph) /\ \E i \in DOMAIN turn.user : ~turn.user[i].blank
      /\ turn.assistant \in Seq(Paragraph)
      /\ \E i \in DOMAIN turn.assistant : ~turn.assistant[i].blank
      /\ turn.prefix \in Nat
  BY DEF TurnKinds
<1>5. RoleKinds(User) /\ RoleKinds(Assistant)
  <2> DEFINE u == User
             a == Assistant
  <2>1. 0 \in Nat
    OBVIOUS
  <2>2. /\ u.text = turn.user /\ u.prefix \in Nat /\ u.name \in {"user", "assistant"}
        /\ a.text = turn.assistant /\ a.prefix \in Nat /\ a.name \in {"user", "assistant"}
    BY <1>2, <1>3, <2>1
  <2> HIDE DEF u, a
  <2>3. RoleKinds(u) /\ RoleKinds(a)
    BY <1>3, <2>2 DEF RoleKinds
  <2> QED
    BY <2>3 DEF u, a
<1>4. User.name # Assistant.name
  BY <1>2
<1> QED
  BY <1>1, <1>4, <1>5

\* A turn is rejected only when no way to cut it is within the limits, and is
\* otherwise cut as little as possible, with every paragraph in its place
\* (retention._semantic_contents).
LEMMA TurnsAreCutBest == TurnKinds => CutsAreBest
<1> SUFFICES ASSUME TurnKinds PROVE CutsAreBest
  OBVIOUS
<1> DEFINE none == [contents |-> <<>>, rejected |-> FALSE]
           first == AddRole(none, User)
           both == AddRole(first, Assistant)
<1>1. /\ LimitKinds /\ CountLimit \in Nat /\ MaxBytes \in Nat
      /\ RoleKinds(User) /\ RoleKinds(Assistant) /\ User.name # Assistant.name
  BY TurnHasKinds DEF LimitKinds
<1>2. CASE WholeTurn <= MaxBytes
  <2>1. Len(Retained.contents) = 1
    BY <1>2 DEF Retained
  <2> QED
    BY <1>2, <2>1 DEF CutsAreBest
<1>3. CASE ~(WholeTurn <= MaxBytes)
  <2>1. Retained = both
    BY <1>3 DEF Retained
  <2>2. Before(User, <<>>)
    <3>1. <<>> \in Seq(ContentKind) /\ 1..Len(<<>>) = {}
      OBVIOUS
    <3> QED
      BY <3>1, KeptOfNone DEF Before, Within
  <2>3. /\ Possible(User) => Fewest(User) \in Nat
        /\ Room(User, <<>>) => ~first.rejected /\ Added(User, <<>>, first.contents)
        /\ ~Room(User, <<>>) => first = Rejected
    BY <1>1, <2>2, RoleAdded
  <2>4. Room(User, <<>>) <=> Possible(User) /\ Fewest(User) <= CountLimit
    BY <2>3 DEF Room
  <2> DEFINE best == /\ Possible(User) /\ Possible(Assistant)
                     /\ Fewest(User) + Fewest(Assistant) <= CountLimit
  <2>5. CASE ~Room(User, <<>>)
    <3>1. both = Rejected
      BY <2>3, <2>5 DEF AddRole, Rejected
    <3>2. ~best
      <4> SUFFICES ASSUME best PROVE FALSE
        OBVIOUS
      <4>1. Fewest(User) \in Nat /\ ~(Fewest(User) <= CountLimit)
        BY <2>3, <2>4, <2>5
      <4>2. Fewest(Assistant) \in Nat
        <5>1. Before(Assistant, <<>>)
          BY <2>2, KeptOfNone DEF Before
        <5> QED
          BY <1>1, <5>1, RoleAdded
      <4> QED
        BY <1>1, <4>1, <4>2
    <3> QED
      BY <1>3, <2>1, <3>1, <3>2 DEF CutsAreBest, Rejected
  <2>6. CASE Room(User, <<>>)
    <3> DEFINE before == first.contents
    <3>1. ~first.rejected /\ Added(User, <<>>, before)
      BY <2>3, <2>6
    <3>2. /\ before \in Seq(ContentKind) /\ Within(before) /\ Len(before) = Fewest(User)
          /\ KeptIn(before, User.name) = Semantic(User)
          /\ KeptIn(before, Assistant.name) = <<>>
      <4>1. /\ before \in Seq(ContentKind) /\ Within(before)
            /\ Len(before) = Len(<<>>) + Fewest(User)
            /\ KeptIn(before, User.name) = Semantic(User)
            /\ \A name : name # User.name => KeptIn(before, name) = KeptIn(<<>>, name)
        BY <3>1 DEF Added
      <4>2. Fewest(User) \in Nat /\ Len(<<>>) = 0
        BY <2>3, <2>4, <2>6
      <4>3. KeptIn(before, Assistant.name) = <<>>
        BY <1>1, <4>1, KeptOfNone
      <4> HIDE DEF before
      <4> QED
        BY <4>1, <4>2, <4>3
    <3>3. both = AddRole([contents |-> before, rejected |-> FALSE], Assistant)
      BY <3>1 DEF AddRole
    <3>4. Before(Assistant, before)
      BY <3>2 DEF Before
    <3>5. /\ Possible(Assistant) => Fewest(Assistant) \in Nat
          /\ Room(Assistant, before) => ~both.rejected /\ Added(Assistant, before, both.contents)
          /\ ~Room(Assistant, before) => both = Rejected
      <4> HIDE DEF before, both
      <4> QED
        BY <1>1, <3>3, <3>4, RoleAdded
    <3>6. Room(Assistant, before) <=> best
      BY <2>4, <2>6, <3>2 DEF Room
    <3> HIDE DEF both, before, best, first
    <3>7. CASE ~Room(Assistant, before)
      <4>1. both.rejected
        BY <3>5, <3>7 DEF Rejected
      <4> QED
        BY <1>3, <2>1, <3>6, <3>7, <4>1 DEF CutsAreBest, best
    <3>8. CASE Room(Assistant, before)
      <4>1. ~both.rejected /\ Added(Assistant, before, both.contents)
        BY <3>5, <3>8
      <4>2. /\ both.contents \in Seq(ContentKind) /\ Within(both.contents)
            /\ Len(both.contents) = Fewest(User) + Fewest(Assistant)
            /\ KeptIn(both.contents, Assistant.name) = Semantic(Assistant)
            /\ KeptIn(both.contents, User.name) = Semantic(User)
        BY <1>1, <3>2, <4>1 DEF Added
      <4>3. Kept(User) = Semantic(User) /\ Kept(Assistant) = Semantic(Assistant)
        BY <2>1, <4>2 DEF Kept
      <4>4. \A i \in DOMAIN both.contents : both.contents[i].bytes <= MaxBytes
        BY <4>2 DEF Within
      <4> QED
        BY <1>3, <2>1, <3>6, <3>8, <4>1, <4>2, <4>3, <4>4 DEF CutsAreBest, best
    <3> QED
      BY <3>7, <3>8
  <2> QED
    BY <2>5, <2>6
<1> QED
  BY <1>2, <1>3

\* A sum of one or two numbers.
LEMMA SmallSums ==
  ASSUME NEW s \in Seq(Nat)
  PROVE  /\ Len(s) = 1 => SumOf(s) = s[1]
         /\ Len(s) = 2 => SumOf(s) = s[1] + s[2]
<1>1. PartialSums(s)[0] = 0 /\ \A n \in 1..Len(s) : PartialSums(s)[n] = PartialSums(s)[n - 1] + s[n]
  BY SumsAdd
<1>2. \A n \in 1..Len(s) : s[n] \in Nat
  OBVIOUS
<1>3. ASSUME Len(s) = 1 PROVE SumOf(s) = s[1]
  <2>1. PartialSums(s)[1] = PartialSums(s)[1 - 1] + s[1] /\ 1 - 1 = 0 /\ s[1] \in Nat
    BY <1>1, <1>2, <1>3
  <2> QED
    BY <1>1, <1>3, <2>1 DEF SumOf
<1>4. ASSUME Len(s) = 2 PROVE SumOf(s) = s[1] + s[2]
  <2>1. /\ PartialSums(s)[1] = PartialSums(s)[1 - 1] + s[1] /\ 1 - 1 = 0 /\ s[1] \in Nat
        /\ PartialSums(s)[2] = PartialSums(s)[2 - 1] + s[2] /\ 2 - 1 = 1 /\ s[2] \in Nat
    BY <1>1, <1>2, <1>4
  <2> QED
    BY <1>1, <1>4, <2>1 DEF SumOf
<1> QED
  BY <1>3, <1>4

\* A role that fits a content is one.
LEMMA WholeRoleAdded ==
  ASSUME NEW role, NEW before \in Seq(ContentKind), WholeRole(role) <= MaxBytes,
         CountLimit \in Nat, Len(before) < CountLimit
  PROVE  AddRole([contents |-> before, rejected |-> FALSE], role)
           = [contents |-> Append(before, Content(role, Semantic(role), WholeRole(role))),
              rejected |-> FALSE]
<1> DEFINE contents == Append(before, Content(role, Semantic(role), WholeRole(role)))
<1>1. Len(contents) = Len(before) + 1 /\ Len(before) \in Nat
  OBVIOUS
<1>2. ~(Len(contents) > CountLimit)
  BY <1>1
<1> HIDE DEF contents
<1> QED
  BY <1>2 DEF AddRole, contents

\* The configuration leaves room for the smallest turn (config.load_config).
LEMMA SmallestTurnIsRoomy == TurnKinds => SmallestTurnFits
<1> SUFFICES ASSUME TurnKinds, Accepted(turn.limits), turn.prefix = 0,
                    TextBytes(turn.user) = Smallest, TextBytes(turn.assistant) = Smallest
             PROVE  /\ ~Retained.rejected
                    /\ SumOf([i \in DOMAIN Retained.contents |->
                                Retained.contents[i].bytes + Allowance])
                         <= turn.limits.max_pending_bytes
  BY DEF SmallestTurnFits
<1> DEFINE rows == turn.limits.max_pending_rows
           room == turn.limits.max_pending_bytes
           One == Common + Frame + 1
           Two == Common + 2 * (Frame + 1)
<1>1. /\ Common \in Nat /\ Frame \in Nat /\ Allowance \in Nat
      /\ MaxBytes \in Nat /\ rows \in Nat \ {0} /\ room \in Nat
      /\ CountLimit = rows /\ MaxBytes = turn.limits.segment_max_bytes
  BY RetainedTurnAssumption DEF TurnKinds, MaxBytes, CountLimit
<1>2. MinimumContent(1) = One /\ MinimumContent(2) = Two
  BY <1>1 DEF MinimumContent, Smallest
<1>3. WholeRole(User) = One /\ WholeRole(Assistant) = One /\ WholeTurn = Two
  <2>1. WholeRole(User) = One /\ WholeRole(Assistant) = One
    BY <1>1 DEF WholeRole, Overhead, User, Assistant, Smallest
  <2> QED
    BY <1>1, <2>1 DEF WholeTurn
<1>4. /\ MaxBytes >= IF rows = 1 THEN Two ELSE One
      /\ (IF rows = 1 \/ Two <= MaxBytes THEN Two + Allowance ELSE 2 * One + 2 * Allowance) <= room
  <2>1. MinimumSegment(turn.limits) = IF rows = 1 THEN Two ELSE One
    BY <1>2 DEF MinimumSegment
  <2>2. MinimumAdmission(turn.limits)
          = IF rows = 1 \/ Two <= MaxBytes THEN Two + Allowance ELSE 2 * One + 2 * Allowance
    BY <1>1, <1>2 DEF MinimumAdmission
  <2> QED
    BY <1>1, <2>1, <2>2 DEF Accepted
<1>5. One \in Nat /\ Two \in Nat
  BY <1>1
<1> HIDE DEF rows, room, One, Two
<1>6. CASE Two <= MaxBytes
  <2> DEFINE c == [role |-> "both", paragraphs |-> <<>>, bytes |-> Two]
             costs == [i \in DOMAIN <<c>> |-> <<c>>[i].bytes + Allowance]
  <2>1. Retained = [contents |-> <<c>>, rejected |-> FALSE]
    BY <1>3, <1>6 DEF Retained
  <2>2. costs \in Seq(Nat) /\ Len(costs) = 1 /\ costs[1] = Two + Allowance
    <3>1. DOMAIN <<c>> = 1..1 /\ <<c>>[1] = c /\ c.bytes = Two
      OBVIOUS
    <3>2. costs = [i \in 1..1 |-> Two + Allowance]
      <4> HIDE DEF c
      <4>1. \A i \in 1..1 : <<c>>[i].bytes + Allowance = Two + Allowance
        BY <3>1
      <4> QED
        BY <3>1, <4>1
    <3>3. Two + Allowance \in Nat
      BY <1>1, <1>5
    <3> HIDE DEF costs
    <3> QED
      BY <3>2, <3>3
  <2> HIDE DEF costs
  <2>3. SumOf(costs) = Two + Allowance
    BY <2>2, SmallSums
  <2>4. Two + Allowance <= room
    BY <1>1, <1>4, <1>6
  <2> QED
    BY <2>1, <2>3, <2>4 DEF costs, room
<1>7. CASE ~(Two <= MaxBytes)
  <2> DEFINE u == Content(User, Semantic(User), WholeRole(User))
             a == Content(Assistant, Semantic(Assistant), WholeRole(Assistant))
             costs == [i \in DOMAIN <<u, a>> |-> <<u, a>>[i].bytes + Allowance]
  <2>1. rows # 1 /\ One <= MaxBytes /\ 2 <= CountLimit /\ CountLimit \in Nat
    BY <1>1, <1>4, <1>5, <1>7
  <2>2. u \in ContentKind /\ a \in ContentKind /\ u.bytes = One /\ a.bytes = One
    <3>1. \A role \in {User, Assistant} : RoleKinds(role) /\ WholeRole(role) = One
      BY <1>3, TurnHasKinds
    <3>2. ASSUME NEW role \in {User, Assistant}
          PROVE  /\ Content(role, Semantic(role), WholeRole(role)) \in ContentKind
                 /\ Content(role, Semantic(role), WholeRole(role)).bytes = One
      <4>1. RoleKinds(role) /\ WholeRole(role) = One
        BY <3>1
      <4>2. /\ Semantic(role) \in Seq(1..Len(role.text)) /\ role.name \in {"user", "assistant"}
            /\ \A x \in 1..Len(role.text) : x \in Nat
        BY <4>1, SemanticIs DEF RoleKinds
      <4>3. Semantic(role) \in Seq(Nat)
        BY <4>2
      <4> QED
        BY <1>5, <4>1, <4>2, <4>3 DEF Content, ContentKind
    <3> QED
      BY <3>2
  <2>3. AddRole([contents |-> <<>>, rejected |-> FALSE], User)
          = [contents |-> <<u>>, rejected |-> FALSE]
    <3> DEFINE none == <<>>
    <3>1. none \in Seq(ContentKind) /\ Len(none) = 0
      OBVIOUS
    <3>2. Append(none, u) = <<u>>
      <4> HIDE DEF u
      <4> QED
        OBVIOUS
    <3> HIDE DEF none, u
    <3>3. WholeRole(User) <= MaxBytes /\ Len(none) < CountLimit
      BY <1>3, <2>1, <3>1
    <3>4. AddRole([contents |-> none, rejected |-> FALSE], User)
            = [contents |-> Append(none, u), rejected |-> FALSE]
      BY <2>1, <3>1, <3>3, WholeRoleAdded DEF u
    <3> QED
      BY <3>2, <3>4 DEF none
  <2>4. AddRole([contents |-> <<u>>, rejected |-> FALSE], Assistant)
          = [contents |-> <<u, a>>, rejected |-> FALSE]
    <3> DEFINE one == <<u>>
    <3> HIDE DEF u
    <3>1. one \in Seq(ContentKind) /\ Len(one) = 1
      BY <2>2
    <3>2. Append(one, a) = <<u, a>>
      <4> HIDE DEF a
      <4> DEFINE more == Append(one, a)
      <4>1. more \in Seq(ContentKind) /\ Len(more) = 2 /\ more[1] = u /\ more[2] = a
        BY <2>2, <3>1
      <4>2. /\ <<u, a>> \in Seq(ContentKind) /\ Len(<<u, a>>) = 2
            /\ <<u, a>>[1] = u /\ <<u, a>>[2] = a
        BY <2>2
      <4> HIDE DEF more
      <4>3. \A i \in 1..2 : more[i] = <<u, a>>[i]
        BY <4>1, <4>2
      <4>4. more = <<u, a>>
        BY <4>1, <4>2, <4>3, SeqEqual
      <4> QED
        BY <4>4 DEF more
    <3> HIDE DEF one, a
    <3>3. WholeRole(Assistant) <= MaxBytes /\ Len(one) < CountLimit
      BY <1>3, <2>1, <3>1
    <3>4. AddRole([contents |-> one, rejected |-> FALSE], Assistant)
            = [contents |-> Append(one, a), rejected |-> FALSE]
      BY <2>1, <3>1, <3>3, WholeRoleAdded DEF a
    <3> QED
      BY <3>2, <3>4 DEF one
  <2>5. Retained = [contents |-> <<u, a>>, rejected |-> FALSE]
    <3> HIDE DEF u, a
    <3> QED
      BY <1>3, <1>7, <2>3, <2>4 DEF Retained
  <2> HIDE DEF u, a
  <2>6. costs \in Seq(Nat) /\ Len(costs) = 2 /\ costs[1] = One + Allowance /\ costs[2] = One + Allowance
    <3>1. DOMAIN <<u, a>> = 1..2 /\ <<u, a>>[1] = u /\ <<u, a>>[2] = a
      OBVIOUS
    <3>2. \A i \in 1..2 : <<u, a>>[i].bytes + Allowance = One + Allowance
      BY <2>2, <3>1
    <3>3. costs = [i \in 1..2 |-> One + Allowance]
      BY <3>1, <3>2
    <3>4. One + Allowance \in Nat
      BY <1>1, <1>5
    <3> HIDE DEF costs
    <3> QED
      BY <3>3, <3>4
  <2> HIDE DEF costs
  <2>7. SumOf(costs) = 2 * One + 2 * Allowance
    <3>1. SumOf(costs) = costs[1] + costs[2]
      BY <2>6, SmallSums
    <3> QED
      BY <1>1, <1>5, <2>6, <3>1
  <2>8. 2 * One + 2 * Allowance <= room
    BY <1>1, <1>4, <1>7, <2>1
  <2> QED
    BY <2>5, <2>7, <2>8 DEF costs, room
<1> QED
  BY <1>6, <1>7

\* No turn is refused or cut up without need, for every text and every limits.
THEOREM TurnsArePackedBest == TurnKinds => PackingIsBest
  BY TurnsAreCutBest, SmallestTurnIsRoomy DEF PackingIsBest

-----------------------------------------------------------------------------
(***************************************************************************)
(* Recalled memories in the prompt.  The search for the longest beginning  *)
(* that fits narrows a range that everything above is too long for, and is *)
(* over before it runs out of rounds.  The loop over the results keeps what*)
(* the properties say of its last context, and counts the checks of the    *)
(* deadline, or has failed for a reason.                                   *)
(***************************************************************************)
\* What an input of the function is.
ResponseKinds ==
  /\ response.results \in Seq(Result) /\ Len(response.results) <= MaxResults
  /\ response.budget \in Int /\ response.late \in Nat

\* A longer beginning of a memory takes no fewer bytes.
LEMMA BeginningsGrow ==
  ASSUME NEW r \in Result
  PROVE  LET size == Len(Chars[r.memory]) IN
         /\ size \in Nat /\ LineBytes(r) \in Nat
         /\ \A n \in 0..size : TruncatedBytes(r, n) \in Nat
         /\ \A m, n \in 0..size : m <= n => TruncatedBytes(r, m) <= TruncatedBytes(r, n)
<1> DEFINE s == Chars[r.memory]
           size == Len(s)
<1>1. r.memory \in Memory /\ r.attachments \in Nat
  BY RecallContextAssumption DEF Result
<1>2. s \in Seq(Nat \ {0})
  BY <1>1, RecallContextAssumption
<1>3. Record \in Nat /\ Marker \in Nat
  BY RecallContextAssumption
<1> HIDE DEF s
<1>4. s \in Seq(Nat) /\ size \in Nat
  BY <1>2
<1>5. /\ \A n \in 0..size : PartialSums(s)[n] \in Nat
      /\ \A m, n \in 0..size : m <= n => PartialSums(s)[m] <= PartialSums(s)[n]
  BY <1>4, SumsGrow
<1>6. /\ LineBytes(r) = Record + PartialSums(s)[size] + r.attachments
      /\ \A n : TruncatedBytes(r, n) = Record + PartialSums(s)[n] + Marker
  BY DEF LineBytes, TruncatedBytes, Prefixed, s
<1> HIDE DEF size
<1>7. LineBytes(r) \in Nat
  <2>1. PartialSums(s)[size] \in Nat
    <3>1. size \in 0..size
      BY <1>4
    <3> QED
      BY <1>5, <3>1
  <2> QED
    BY <1>1, <1>3, <1>6, <2>1
<1>8. \A n \in 0..size : TruncatedBytes(r, n) \in Nat
  BY <1>3, <1>5, <1>6
<1>9. ASSUME NEW m \in 0..size, NEW n \in 0..size, m <= n
      PROVE  TruncatedBytes(r, m) <= TruncatedBytes(r, n)
  <2>1. PartialSums(s)[m] \in Nat /\ PartialSums(s)[n] \in Nat /\ PartialSums(s)[m] <= PartialSums(s)[n]
    BY <1>5, <1>9
  <2> QED
    BY <1>3, <1>6, <2>1
<1> QED
  BY <1>4, <1>7, <1>8, <1>9 DEF size, s

\* What a round of the search is about.
SearchKind == [low : Int, high : Int, best : Int, rounds : Nat]

\* The recursive function goes through the rounds of the search.
LEMMA SearchIs ==
  ASSUME NEW r \in Result, NEW available \in Int
  PROVE  LET size == Len(Chars[r.memory]) IN
         \E f : /\ LongestPrefix(r, available) = f[size + 1]
                /\ f \in [0..(size + 1) -> SearchKind]
                /\ f[0] = [low |-> 0, high |-> size, best |-> 0, rounds |-> 0]
                /\ \A n \in 1..(size + 1) : f[n] = Narrow(f[n - 1], r, available)
<1> DEFINE size == Len(Chars[r.memory])
           N == size + 1
           start == [low |-> 0, high |-> size, best |-> 0, rounds |-> 0]
           step == [x \in (1..N) \X SearchKind |-> Narrow(x[2], r, available)]
           F == CHOOSE f : f = [n \in 0..N |-> IF n = 0 THEN start
                                               ELSE Narrow(f[n - 1], r, available)]
<1>1. size \in Nat /\ N \in Nat
  BY BeginningsGrow
<1>2. LongestPrefix(r, available) = F[N]
  BY DEF LongestPrefix
<1>3. start \in SearchKind
  BY <1>1 DEF SearchKind
<1>4. \A s \in SearchKind : Narrow(s, r, available) \in SearchKind
  <2> SUFFICES ASSUME NEW s \in SearchKind PROVE Narrow(s, r, available) \in SearchKind
    OBVIOUS
  <2> DEFINE middle == (s.low + s.high) \div 2
             next == [s EXCEPT !.rounds = @ + 1]
  <2>1. middle \in Int /\ next \in SearchKind
    BY DEF SearchKind
  <2>2. Narrow(s, r, available)
          = IF s.low > s.high THEN s
            ELSE IF TruncatedBytes(r, middle) <= available
              THEN [next EXCEPT !.low = middle + 1, !.best = middle]
            ELSE [next EXCEPT !.high = middle - 1]
    BY DEF Narrow
  <2> HIDE DEF middle, next
  <2>3. /\ [next EXCEPT !.low = middle + 1, !.best = middle] \in SearchKind
        /\ [next EXCEPT !.high = middle - 1] \in SearchKind
    <3> DEFINE more == middle + 1
               less == middle - 1
    <3>1. more \in Int /\ less \in Int
      BY <2>1
    <3> HIDE DEF more, less
    <3>2. /\ [next EXCEPT !.low = more, !.best = middle] \in SearchKind
          /\ [next EXCEPT !.high = less] \in SearchKind
      BY <2>1, <3>1 DEF SearchKind
    <3> QED
      BY <3>2 DEF more, less
  <2>4. CASE s.low > s.high
    <3>1. Narrow(s, r, available) = s
      BY <2>2, <2>4
    <3> QED
      BY <3>1
  <2>5. CASE ~(s.low > s.high) /\ TruncatedBytes(r, middle) <= available
    <3>1. Narrow(s, r, available) = [next EXCEPT !.low = middle + 1, !.best = middle]
      BY <2>2, <2>5
    <3> QED
      BY <2>3, <3>1
  <2>6. CASE ~(s.low > s.high) /\ ~(TruncatedBytes(r, middle) <= available)
    <3>1. Narrow(s, r, available) = [next EXCEPT !.high = middle - 1]
      BY <2>2, <2>6
    <3> QED
      BY <2>3, <3>1
  <2> QED
    BY <2>4, <2>5, <2>6
<1> HIDE DEF size, N, start
<1>5. PICK f : Steps(f, N, SearchKind, start, step)
  <2>1. step \in [(1..N) \X SearchKind -> SearchKind]
    BY <1>4
  <2> HIDE DEF step
  <2> QED
    BY <1>1, <1>3, <2>1, StepsExist
<1>6. /\ f \in [0..N -> SearchKind] /\ f[0] = start
      /\ \A n \in 1..N : f[n] = Narrow(f[n - 1], r, available)
  <2>1. f \in [0..N -> SearchKind] /\ f[0] = start /\ \A n \in 1..N : f[n] = step[<<n, f[n - 1]>>]
    BY <1>5 DEF Steps
  <2>2. ASSUME NEW n \in 1..N PROVE f[n] = Narrow(f[n - 1], r, available)
    <3>1. n - 1 \in 0..N
      BY <1>1
    <3> QED
      BY <2>1, <3>1
  <2> QED
    BY <2>1, <2>2
<1>7. F = [n \in 0..N |-> IF n = 0 THEN start ELSE Narrow(F[n - 1], r, available)]
  <2>1. f = [n \in 0..N |-> IF n = 0 THEN start ELSE Narrow(f[n - 1], r, available)]
    BY <1>1, <1>6
  <2> QED
    BY <2>1, Zenon
<1> HIDE DEF F
<1>8. F[0] = start /\ \A n \in 1..N : F[n] = Narrow(F[n - 1], r, available)
  BY <1>1, <1>7
<1>9. \A n \in 0..N : F[n] \in SearchKind
  <2> DEFINE typed == {n \in 0..N : F[n] \in SearchKind}
  <2>1. 0 \in typed
    BY <1>1, <1>3, <1>8
  <2>2. ASSUME NEW n \in 1..N, n - 1 \in typed PROVE n \in typed
    BY <1>4, <1>8, <2>2
  <2> HIDE DEF typed
  <2>3. 0..N \subseteq typed
    BY <1>1, <2>1, <2>2, RangeInduction
  <2> QED
    BY <2>3 DEF typed
<1>10. F \in [0..N -> SearchKind]
  BY <1>7, <1>9
<1> QED
  BY <1>2, <1>8, <1>10 DEF N, start, size

\* What is known of the search after some rounds: everything above high is
\* too long, best is the longest that fitted, and the range between them
\* shrinks with every round that is made.
Searching(s, r, available, rounds) ==
  LET size == Len(Chars[r.memory]) IN
  /\ s.low \in 0..(size + 1) /\ s.high \in -1..size /\ s.best \in 0..size
  /\ s.low <= s.high + 1
  /\ s.low > s.high \/ s.high - s.low + rounds <= size
  /\ s.rounds \in 0..rounds
  /\ TruncatedBytes(r, s.best) <= available
  /\ s.best = s.low - 1 \/ (s.low = 0 /\ s.best = 0)
  /\ \A m \in 0..size : m > s.high => TruncatedBytes(r, m) > available

\* One round.
LEMMA SearchStep ==
  ASSUME NEW r \in Result, NEW available \in Int, NEW n \in Nat, NEW s \in SearchKind,
         Searching(s, r, available, n)
  PROVE  Searching(Narrow(s, r, available), r, available, n + 1)
<1> DEFINE size == Len(Chars[r.memory])
           middle == (s.low + s.high) \div 2
           t == Narrow(s, r, available)
<1>1. /\ size \in Nat /\ \A m \in 0..size : TruncatedBytes(r, m) \in Nat
      /\ \A l, m \in 0..size : l <= m => TruncatedBytes(r, l) <= TruncatedBytes(r, m)
  BY BeginningsGrow
<1>2. /\ s.low \in 0..(size + 1) /\ s.high \in -1..size /\ s.best \in 0..size
      /\ s.low <= s.high + 1
      /\ s.low > s.high \/ s.high - s.low + n <= size
      /\ s.rounds \in 0..n
      /\ TruncatedBytes(r, s.best) <= available
      /\ s.best = s.low - 1 \/ (s.low = 0 /\ s.best = 0)
      /\ \A m \in 0..size : m > s.high => TruncatedBytes(r, m) > available
  BY DEF Searching
<1>3. s.low \in Int /\ s.high \in Int /\ s.best \in Int /\ s.rounds \in Nat
  BY DEF SearchKind
<1>4. t = IF s.low > s.high THEN s
          ELSE IF TruncatedBytes(r, middle) <= available
            THEN [[s EXCEPT !.rounds = @ + 1] EXCEPT !.low = middle + 1, !.best = middle]
          ELSE [[s EXCEPT !.rounds = @ + 1] EXCEPT !.high = middle - 1]
  BY DEF Narrow
<1>5. s.low <= s.high => s.low <= middle /\ middle <= s.high
  BY <1>3
<1>6. middle \in Int
  BY <1>3
<1> HIDE DEF size, middle, t
<1>7. CASE s.low > s.high
  <2>1. t = s
    BY <1>4, <1>7
  <2>2. t.rounds \in 0..(n + 1)
    BY <1>2, <2>1
  <2> QED
    BY <1>1, <1>2, <1>7, <2>1, <2>2 DEF Searching, size, t
<1>8. CASE ~(s.low > s.high) /\ TruncatedBytes(r, middle) <= available
  <2>1. t = [[s EXCEPT !.rounds = @ + 1] EXCEPT !.low = middle + 1, !.best = middle]
    BY <1>4, <1>8
  <2>2. t.low = middle + 1 /\ t.high = s.high /\ t.best = middle /\ t.rounds = s.rounds + 1
    BY <2>1 DEF SearchKind
  <2>3. s.low <= middle /\ middle <= s.high
    BY <1>3, <1>5, <1>8
  <2>4. /\ t.low \in 0..(size + 1) /\ t.high \in -1..size /\ t.best \in 0..size
        /\ t.low <= t.high + 1
        /\ t.low > t.high \/ t.high - t.low + (n + 1) <= size
        /\ t.best = t.low - 1
    BY <1>1, <1>2, <1>3, <1>6, <1>8, <2>2, <2>3
  <2>5. \A m \in 0..size : m > t.high => TruncatedBytes(r, m) > available
    BY <1>2, <2>2
  <2>6. t.rounds \in 0..(n + 1)
    BY <1>2, <1>3, <2>2
  <2> QED
    BY <1>8, <2>2, <2>4, <2>5, <2>6 DEF Searching, size, t
<1>9. CASE ~(s.low > s.high) /\ ~(TruncatedBytes(r, middle) <= available)
  <2>1. t = [[s EXCEPT !.rounds = @ + 1] EXCEPT !.high = middle - 1]
    BY <1>4, <1>9
  <2>2. t.low = s.low /\ t.high = middle - 1 /\ t.best = s.best /\ t.rounds = s.rounds + 1
    BY <2>1 DEF SearchKind
  <2>3. s.low <= middle /\ middle <= s.high /\ middle \in 0..size
    BY <1>1, <1>2, <1>3, <1>5, <1>6, <1>9
  <2>4. /\ t.low \in 0..(size + 1) /\ t.high \in -1..size /\ t.best \in 0..size
        /\ t.low <= t.high + 1
        /\ t.low > t.high \/ t.high - t.low + (n + 1) <= size
    BY <1>1, <1>2, <1>3, <1>6, <1>9, <2>2, <2>3
  <2>5. ASSUME NEW m \in 0..size, m > t.high PROVE TruncatedBytes(r, m) > available
    <3>1. middle <= m
      BY <1>1, <1>6, <2>2, <2>5
    <3>2. TruncatedBytes(r, middle) <= TruncatedBytes(r, m)
      BY <1>1, <2>3, <3>1
    <3>3. TruncatedBytes(r, middle) \in Nat /\ TruncatedBytes(r, m) \in Nat
      BY <1>1, <2>3
    <3> QED
      BY <1>9, <3>2, <3>3
  <2>6. t.rounds \in 0..(n + 1)
    BY <1>2, <1>3, <2>2
  <2> QED
    BY <1>2, <2>2, <2>4, <2>5, <2>6 DEF Searching, size, t
<1> QED
  BY <1>3, <1>7, <1>8, <1>9

\* The search ends with the longest beginning that fits, if any does.
LEMMA LongestIsFound ==
  ASSUME NEW r \in Result, NEW available \in Int, TruncatedBytes(r, 0) <= available
  PROVE  LET size == Len(Chars[r.memory])
             chars == CharsThatFit(r, available)
         IN  /\ chars \in 0..size /\ TruncatedBytes(r, chars) <= available
             /\ chars < size => TruncatedBytes(r, chars + 1) > available
             /\ LongestPrefix(r, available).rounds \in 0..(size + 1)
<1> DEFINE size == Len(Chars[r.memory])
           N == size + 1
           chars == CharsThatFit(r, available)
           found == LongestPrefix(r, available)
<1>1. size \in Nat /\ N \in Nat /\ \A m \in 0..size : TruncatedBytes(r, m) \in Nat
  BY BeginningsGrow
<1>2. PICK f : /\ found = f[N]
               /\ f \in [0..N -> SearchKind]
               /\ f[0] = [low |-> 0, high |-> size, best |-> 0, rounds |-> 0]
               /\ \A n \in 1..N : f[n] = Narrow(f[n - 1], r, available)
  BY SearchIs
<1> DEFINE searched == {n \in 0..N : Searching(f[n], r, available, n)}
<1> HIDE DEF found
<1>3. 0 \in searched
  <2>1. f[0].low = 0 /\ f[0].high = size /\ f[0].best = 0 /\ f[0].rounds = 0
    BY <1>2
  <2>2. Searching(f[0], r, available, 0)
    <3> HIDE DEF N
    <3> QED
      BY <1>1, <2>1 DEF Searching
  <2> QED
    BY <1>1, <2>2
<1>4. ASSUME NEW n \in 1..N, n - 1 \in searched PROVE n \in searched
  <2> HIDE DEF N
  <2>1. n - 1 \in Nat /\ n - 1 \in 0..N /\ (n - 1) + 1 = n /\ f[n - 1] \in SearchKind
    BY <1>1, <1>2
  <2>2. Searching(Narrow(f[n - 1], r, available), r, available, (n - 1) + 1)
    BY <1>4, <2>1, SearchStep
  <2> QED
    BY <1>1, <1>2, <2>1, <2>2
<1>5. N \in searched
  <2> HIDE DEF searched, N
  <2>1. N \in 0..N
    BY <1>1
  <2> QED
    BY <1>1, <1>3, <1>4, <2>1, RangeInduction
<1> DEFINE s == f[N]
<1>6. /\ s.low \in 0..(size + 1) /\ s.high \in -1..size /\ s.best \in 0..size
      /\ s.low <= s.high + 1
      /\ s.low > s.high \/ s.high - s.low + (size + 1) <= size
      /\ s.rounds \in 0..(size + 1)
      /\ TruncatedBytes(r, s.best) <= available
      /\ s.best = s.low - 1 \/ (s.low = 0 /\ s.best = 0)
      /\ \A m \in 0..size : m > s.high => TruncatedBytes(r, m) > available
  BY <1>5 DEF Searching
<1>7. chars = s.best /\ found = s
  BY <1>2 DEF CharsThatFit, found
<1> HIDE DEF s, size, N, chars
<1>8. s.high # -1
  <2> SUFFICES ASSUME s.high = -1 PROVE FALSE
    OBVIOUS
  <2>1. 0 \in 0..size /\ 0 > s.high
    BY <1>1
  <2>2. TruncatedBytes(r, 0) > available /\ TruncatedBytes(r, 0) \in Nat
    BY <1>1, <1>6, <2>1
  <2> QED
    BY <2>2
<1>9. s.best = s.high
  BY <1>1, <1>6, <1>8
<1>10. chars < size => chars + 1 \in 0..size /\ chars + 1 > s.high
  BY <1>1, <1>6, <1>7, <1>9
<1>11. /\ chars \in 0..size /\ TruncatedBytes(r, chars) <= available
       /\ chars < size => TruncatedBytes(r, chars + 1) > available
       /\ found.rounds \in 0..(size + 1)
  BY <1>6, <1>7, <1>10
<1> QED
  BY <1>11 DEF size, chars, found

\* What a line of the context and the context are.
LineKind == [index : Nat, record : Result, chars : Nat, bytes : Nat]
ContextKind ==
  [lines : Seq(LineKind), bytes : Nat, seen : SUBSET {Fingerprint(r) : r \in Result},
   full : BOOLEAN, checks : Nat, failed : BOOLEAN]

\* A result without its handles is a result; one still too long has none left.
LEMMA UncrowdedIs ==
  ASSUME NEW r \in Result, NEW available
  PROVE  /\ WithoutCrowding(r, available) \in Result
         /\ WithoutCrowding(r, available).memory = r.memory
         /\ LineBytes(WithoutCrowding(r, available)) > available =>
              WithoutCrowding(r, available) = [r EXCEPT !.attachments = 0]
<1>1. [r EXCEPT !.attachments = 0] \in Result
  BY RecallContextAssumption DEF Result
<1>2. [r EXCEPT !.attachments = 0].memory = r.memory
  BY DEF Result
<1>3. r.attachments = 0 => r = [r EXCEPT !.attachments = 0]
  BY DEF Result
<1>4. CASE r.attachments # 0 /\ LineBytes(r) > available
  BY <1>1, <1>2, <1>4 DEF WithoutCrowding
<1>5. CASE ~(r.attachments # 0 /\ LineBytes(r) > available)
  <2>1. WithoutCrowding(r, available) = r
    BY <1>5 DEF WithoutCrowding
  <2> QED
    BY <1>3, <1>5, <2>1
<1> QED
  BY <1>4, <1>5

\* What a result's line would be, whole or cut.
Chosen(context, i) == CharsThatFit(RecordOf(context, i), Left(context))
WholeLine(context, i) ==
  Line(i, RecordOf(context, i), Len(Chars[RecordOf(context, i).memory]),
       LineBytes(RecordOf(context, i)))
CutLine(context, i) ==
  Line(i, RecordOf(context, i), Chosen(context, i),
       TruncatedBytes(RecordOf(context, i), Chosen(context, i)))

\* A result is passed over when it is too large or its record was seen.
LEMMA PassesIs ==
  ASSUME NEW context, NEW i
  PROVE  Passes(context, i) <=>
           \/ response.results[i].form = "oversized"
           \/ Fingerprint(RecordOf(context, i)) \in context.seen
  BY DEF Passes, RecordOf, PrintOfEvidence

\* What one result does to the context.
LEMMA FittedIs ==
  ASSUME NEW context, NEW i
  PROVE  Fitted(context, i) =
           IF Passes(context, i) THEN context
           ELSE IF LineBytes(RecordOf(context, i)) <= Left(context)
             THEN [context EXCEPT !.lines = Append(@, WholeLine(context, i)),
                     !.bytes = @ + Separator(context) + LineBytes(RecordOf(context, i)),
                     !.seen = @ \cup {Fingerprint(RecordOf(context, i))}]
           ELSE IF TruncatedBytes(RecordOf(context, i), 0) <= Left(context)
             THEN [context EXCEPT !.lines = Append(@, CutLine(context, i)),
                     !.bytes = @ + Separator(context)
                                 + TruncatedBytes(RecordOf(context, i), Chosen(context, i)),
                     !.full = TRUE]
           ELSE [context EXCEPT !.full = TRUE]
  BY DEF Fitted, WholeLine, CutLine, Chosen

\* The pieces of it.
LEMMA PiecesAre ==
  ASSUME ResponseKinds, NEW context \in ContextKind, NEW i \in 1..Len(response.results)
  PROVE  /\ response.results[i] \in Result /\ RecordOf(context, i) \in Result
         /\ Separator(context) \in Nat /\ Left(context) \in Int
         /\ LineBytes(RecordOf(context, i)) \in Nat
         /\ WholeLine(context, i) \in LineKind
         /\ TruncatedBytes(RecordOf(context, i), 0) <= Left(context) =>
              /\ CutLine(context, i) \in LineKind
              /\ TruncatedBytes(RecordOf(context, i), Chosen(context, i)) \in Nat
              /\ TruncatedBytes(RecordOf(context, i), Chosen(context, i)) <= Left(context)
<1> DEFINE r == RecordOf(context, i)
           available == Left(context)
           size == Len(Chars[r.memory])
           chars == Chosen(context, i)
<1>1. response.results[i] \in Result /\ i \in Nat
  BY DEF ResponseKinds
<1>2. r \in Result
  BY <1>1, UncrowdedIs DEF RecordOf
<1>3. Separator(context) \in Nat
  BY DEF Separator
<1>4. available \in Int
  BY <1>3 DEF Left, ContextKind, ResponseKinds
<1> HIDE DEF r, available
<1>5. /\ size \in Nat /\ LineBytes(r) \in Nat
      /\ \A n \in 0..size : TruncatedBytes(r, n) \in Nat
  BY <1>2, BeginningsGrow
<1>6. WholeLine(context, i) \in LineKind
  BY <1>1, <1>2, <1>5 DEF WholeLine, Line, LineKind, r
<1>7. ASSUME TruncatedBytes(r, 0) <= available
      PROVE  /\ CutLine(context, i) \in LineKind
             /\ TruncatedBytes(r, chars) \in Nat /\ TruncatedBytes(r, chars) <= available
  <2>1. chars \in 0..size /\ TruncatedBytes(r, chars) <= available
    BY <1>2, <1>4, <1>7, LongestIsFound DEF Chosen, r, available
  <2>2. chars \in Nat /\ TruncatedBytes(r, chars) \in Nat
    BY <1>5, <2>1
  <2>3. CutLine(context, i) \in LineKind
    BY <1>1, <1>2, <2>2 DEF CutLine, Line, LineKind, r
  <2> QED
    BY <2>1, <2>2, <2>3
<1> QED
  BY <1>1, <1>2, <1>3, <1>4, <1>5, <1>6, <1>7 DEF r, available

\* Fitting one result in makes a context of a context.
LEMMA FittedKept ==
  ASSUME ResponseKinds, NEW context \in ContextKind, NEW i \in 1..Len(response.results)
  PROVE  Fitted(context, i) \in ContextKind
<1> DEFINE r == RecordOf(context, i)
           cost == LineBytes(r)
           less == TruncatedBytes(r, Chosen(context, i))
           b1 == context.bytes + Separator(context) + cost
           b2 == context.bytes + Separator(context) + less
           seen == context.seen \cup {Fingerprint(r)}
           l1 == Append(context.lines, WholeLine(context, i))
           l2 == Append(context.lines, CutLine(context, i))
<1>1. /\ r \in Result /\ Separator(context) \in Nat /\ cost \in Nat
      /\ WholeLine(context, i) \in LineKind
      /\ TruncatedBytes(r, 0) <= Left(context) => CutLine(context, i) \in LineKind /\ less \in Nat
  BY PiecesAre
<1>2. /\ context.lines \in Seq(LineKind) /\ context.bytes \in Nat
      /\ context.seen \in SUBSET {Fingerprint(x) : x \in Result}
  BY DEF ContextKind
<1> HIDE DEF r
<1>3. b1 \in Nat /\ l1 \in Seq(LineKind) /\ seen \in SUBSET {Fingerprint(x) : x \in Result}
  <2>1. b1 \in Nat
    BY <1>1, <1>2
  <2>2. l1 \in Seq(LineKind)
    BY <1>1, <1>2
  <2>3. seen \in SUBSET {Fingerprint(x) : x \in Result}
    BY <1>1, <1>2
  <2> QED
    BY <2>1, <2>2, <2>3
<1>4. ASSUME TruncatedBytes(r, 0) <= Left(context) PROVE b2 \in Nat /\ l2 \in Seq(LineKind)
  <2>1. less \in Nat /\ CutLine(context, i) \in LineKind
    BY <1>1, <1>4
  <2>2. b2 \in Nat
    BY <1>1, <1>2, <2>1
  <2>3. l2 \in Seq(LineKind)
    BY <1>2, <2>1
  <2> QED
    BY <2>2, <2>3
<1>5. Fitted(context, i) =
        IF Passes(context, i) THEN context
        ELSE IF cost <= Left(context)
          THEN [context EXCEPT !.lines = l1, !.bytes = b1, !.seen = seen]
        ELSE IF TruncatedBytes(r, 0) <= Left(context)
          THEN [context EXCEPT !.lines = l2, !.bytes = b2, !.full = TRUE]
        ELSE [context EXCEPT !.full = TRUE]
  BY FittedIs DEF r
<1> HIDE DEF b1, b2, seen, l1, l2, cost
<1>6. [context EXCEPT !.lines = l1, !.bytes = b1, !.seen = seen] \in ContextKind
  BY <1>3 DEF ContextKind
<1>7. TruncatedBytes(r, 0) <= Left(context) =>
        [context EXCEPT !.lines = l2, !.bytes = b2, !.full = TRUE] \in ContextKind
  BY <1>4 DEF ContextKind
<1>8. [context EXCEPT !.full = TRUE] \in ContextKind
  BY DEF ContextKind
<1> QED
  BY <1>5, <1>6, <1>7, <1>8

\* A result takes four checks when a line is made of it, no more than that when
\* the loop goes on, and no more than a search makes when it does not.
LEMMA ChecksAre ==
  ASSUME ResponseKinds, NEW context \in ContextKind, NEW i \in 1..Len(response.results)
  PROVE  LET n == Checks(context, i)
             size == Len(Chars[response.results[i].memory])
             r == RecordOf(context, i)
         IN  /\ n \in Nat /\ size \in Nat /\ 1 <= n /\ n <= size + 5
             /\ Passes(context, i) \/ LineBytes(r) <= Left(context) => n <= 4
             /\ ~Passes(context, i) => 4 <= n
<1> DEFINE n == Checks(context, i)
           result == response.results[i]
           size == Len(Chars[result.memory])
           r == RecordOf(context, i)
           available == Left(context)
           rounds == LongestPrefix(r, available).rounds
<1>1. /\ result \in Result /\ r \in Result /\ available \in Int
      /\ LineBytes(r) \in Nat
  BY PiecesAre
<1>2. r.memory = result.memory
  BY <1>1, UncrowdedIs DEF RecordOf
<1>3. size \in Nat /\ TruncatedBytes(r, 0) \in Nat
  <2>1. Len(Chars[r.memory]) \in Nat /\ \A m \in 0..Len(Chars[r.memory]) : TruncatedBytes(r, m) \in Nat
    BY <1>1, BeginningsGrow
  <2>2. size \in Nat /\ \A m \in 0..size : TruncatedBytes(r, m) \in Nat
    BY <1>2, <2>1
  <2> HIDE DEF size, r
  <2> QED
    BY <2>2
<1>4. TruncatedBytes(r, 0) <= available => rounds \in 0..(size + 1)
  <2> HIDE DEF r, available
  <2> QED
    BY <1>1, <1>2, LongestIsFound
<1>5. n = IF result.form = "oversized" THEN 1
          ELSE IF \/ Passes(context, i)
                  \/ LineBytes(r) <= available
                  \/ TruncatedBytes(r, 0) > available
            THEN 4
          ELSE 4 + rounds
  BY DEF Checks
<1>6. result.form = "oversized" => Passes(context, i)
  BY DEF Passes
<1> HIDE DEF n, result, size, r, available, rounds
<1>7. /\ n \in Nat /\ 1 <= n /\ n <= size + 5
      /\ Passes(context, i) \/ LineBytes(r) <= available => n <= 4
      /\ ~Passes(context, i) => 4 <= n
  BY <1>1, <1>3, <1>4, <1>5, <1>6
<1> QED
  BY <1>3, <1>7 DEF n, result, size, r, available

\* One result makes a context of a context.
LEMMA ConsiderKept ==
  ASSUME ResponseKinds, NEW context \in ContextKind, NEW i \in 1..Len(response.results)
  PROVE  Consider(context, i) \in ContextKind
<1> DEFINE checks == context.checks + Checks(context, i)
<1>1. checks \in Nat
  BY ChecksAre DEF ContextKind
<1>2. Fitted(context, i) \in ContextKind
  BY FittedKept
<1>3. Consider(context, i) = context \/ Consider(context, i) = [context EXCEPT !.failed = TRUE]
        \/ Consider(context, i) = [Fitted(context, i) EXCEPT !.checks = checks]
  BY DEF Consider
<1> HIDE DEF checks
<1>4. [context EXCEPT !.failed = TRUE] \in ContextKind
  BY DEF ContextKind
<1>5. \A c \in ContextKind : [c EXCEPT !.checks = checks] \in ContextKind
  BY <1>1 DEF ContextKind
<1> QED
  BY <1>2, <1>3, <1>4, <1>5

\* The recursive function goes through the results.
LEMMA ContextsAre ==
  ASSUME ResponseKinds
  PROVE  /\ Contexts \in [0..Len(response.results) -> ContextKind]
         /\ Contexts[0] = Empty
         /\ \A i \in 1..Len(response.results) : Contexts[i] = Consider(Contexts[i - 1], i)
<1> DEFINE N == Len(response.results)
           step == [x \in (1..N) \X ContextKind |-> Consider(x[2], x[1])]
           F == CHOOSE f : f = [i \in 0..N |-> IF i = 0 THEN Empty
                                               ELSE Consider(f[i - 1], i)]
<1>1. N \in Nat
  BY DEF ResponseKinds
<1>2. Contexts = F
  BY DEF Contexts
<1>3. Empty \in ContextKind
  BY DEF ContextKind, Empty
<1>4. \A c \in ContextKind, i \in 1..N : Consider(c, i) \in ContextKind
  BY ConsiderKept
<1> HIDE DEF N
<1>5. PICK f : Steps(f, N, ContextKind, Empty, step)
  <2>1. step \in [(1..N) \X ContextKind -> ContextKind]
    BY <1>4
  <2> HIDE DEF step
  <2> QED
    BY <1>1, <1>3, <2>1, StepsExist
<1>6. /\ f \in [0..N -> ContextKind] /\ f[0] = Empty
      /\ \A i \in 1..N : f[i] = Consider(f[i - 1], i)
  <2>1. f \in [0..N -> ContextKind] /\ f[0] = Empty /\ \A i \in 1..N : f[i] = step[<<i, f[i - 1]>>]
    BY <1>5 DEF Steps
  <2>2. ASSUME NEW i \in 1..N PROVE f[i] = Consider(f[i - 1], i)
    <3>1. i - 1 \in 0..N
      BY <1>1
    <3> QED
      BY <2>1, <3>1
  <2> QED
    BY <2>1, <2>2
<1>7. F = [i \in 0..N |-> IF i = 0 THEN Empty ELSE Consider(F[i - 1], i)]
  <2>1. f = [i \in 0..N |-> IF i = 0 THEN Empty ELSE Consider(f[i - 1], i)]
    BY <1>1, <1>6
  <2> QED
    BY <2>1, Zenon
<1> HIDE DEF F
<1>8. F[0] = Empty /\ \A i \in 1..N : F[i] = Consider(F[i - 1], i)
  BY <1>1, <1>7
<1>9. \A i \in 0..N : F[i] \in ContextKind
  <2> DEFINE typed == {i \in 0..N : F[i] \in ContextKind}
  <2>1. 0 \in typed
    BY <1>1, <1>3, <1>8
  <2>2. ASSUME NEW i \in 1..N, i - 1 \in typed PROVE i \in typed
    BY <1>4, <1>8, <2>2
  <2> HIDE DEF typed
  <2>3. 0..N \subseteq typed
    BY <1>1, <2>1, <2>2, RangeInduction
  <2> QED
    BY <2>3 DEF typed
<1>10. F \in [0..N -> ContextKind]
  BY <1>7, <1>9
<1> QED
  BY <1>2, <1>8, <1>10 DEF N

\* What the lines before a result take, with one more line.
LEMMA SpentIs ==
  /\ \A j \in Nat : SpentBefore(<<>>, j) = 0
  /\ \A lines \in Seq(LineKind), j \in Nat : SpentBefore(lines, j) \in Nat
  /\ \A lines \in Seq(LineKind), line \in LineKind, j \in Nat :
       SpentBefore(Append(lines, line), j)
         = SpentBefore(lines, j) + (IF line.index < j THEN line.bytes + 1 ELSE 0)
<1> DEFINE Cost(line, j) == IF line.index < j THEN line.bytes + 1 ELSE 0
           Costs(lines, j) == [k \in DOMAIN lines |-> Cost(lines[k], j)]
<1>1. \A line \in LineKind, j \in Nat : Cost(line, j) \in Nat
  BY DEF LineKind
<1>2. \A lines, j : SpentBefore(lines, j) = SumOf(Costs(lines, j))
  BY DEF SpentBefore
<1> HIDE DEF Cost
<1>3. ASSUME NEW j \in Nat PROVE SpentBefore(<<>>, j) = 0
  <2>1. Costs(<<>>, j) = <<>>
    OBVIOUS
  <2> HIDE DEF Costs
  <2> QED
    BY <1>2, <2>1, SumOfIs
<1>4. ASSUME NEW lines \in Seq(LineKind), NEW j \in Nat
      PROVE  Costs(lines, j) \in Seq(Nat) /\ SpentBefore(lines, j) \in Nat
  <2>1. Costs(lines, j) \in Seq(Nat)
    <3>1. \A k \in 1..Len(lines) : lines[k] \in LineKind
      OBVIOUS
    <3>2. Costs(lines, j) \in [1..Len(lines) -> Nat] /\ Len(lines) \in Nat
      <4>1. DOMAIN lines = 1..Len(lines) /\ Len(lines) \in Nat
        OBVIOUS
      <4>2. \A k \in DOMAIN lines : Cost(lines[k], j) \in Nat
        BY <1>1, <3>1, <4>1
      <4>3. [k \in DOMAIN lines |-> Cost(lines[k], j)] \in [DOMAIN lines -> Nat]
        BY <4>2
      <4> QED
        BY <4>1, <4>3
    <3>3. Seq(Nat) = UNION {[1..n -> Nat] : n \in Nat}
      BY SeqDef
    <3> HIDE DEF Costs
    <3> QED
      BY <3>2, <3>3, Zenon
  <2> HIDE DEF Costs
  <2> QED
    BY <1>2, <2>1, SumOfIs
<1>5. ASSUME NEW lines \in Seq(LineKind), NEW line \in LineKind, NEW j \in Nat
      PROVE  SpentBefore(Append(lines, line), j) = SpentBefore(lines, j) + Cost(line, j)
  <2> DEFINE more == Append(lines, line)
             costs == Costs(lines, j)
             n == Len(lines)
  <2>1. costs \in Seq(Nat) /\ Cost(line, j) \in Nat
    BY <1>1, <1>4
  <2>2. /\ n \in Nat /\ more \in Seq(LineKind) /\ DOMAIN more = 1..(n + 1)
        /\ more[n + 1] = line /\ \A k \in 1..n : more[k] = lines[k]
    OBVIOUS
  <2>3. Len(costs) = n /\ \A k \in 1..n : costs[k] = Cost(lines[k], j)
    OBVIOUS
  <2>4. Costs(more, j) = [k \in 1..(n + 1) |-> Cost(more[k], j)]
    <3> HIDE DEF more
    <3> QED
      BY <2>2
  <2> HIDE DEF more, costs, n, Costs
  <2>5. /\ Costs(more, j) \in Seq(Nat) /\ Len(Costs(more, j)) = n + 1
        /\ \A k \in 1..(n + 1) : Costs(more, j)[k] = Cost(more[k], j)
    <3>1. Costs(more, j) \in Seq(Nat)
      BY <1>4, <2>2
    <3>2. DOMAIN Costs(more, j) = 1..(n + 1)
      BY <2>4
    <3>3. Len(Costs(more, j)) = n + 1
      BY <2>2, <3>1, <3>2
    <3> QED
      BY <2>4, <3>1, <3>3
  <2>6. /\ Append(costs, Cost(line, j)) \in Seq(Nat) /\ Len(Append(costs, Cost(line, j))) = n + 1
        /\ Append(costs, Cost(line, j))[n + 1] = Cost(line, j)
        /\ \A k \in 1..n : Append(costs, Cost(line, j))[k] = costs[k]
    BY <2>1, <2>2, <2>3
  <2>7. Costs(more, j) = Append(costs, Cost(line, j))
    <3>1. ASSUME NEW k \in 1..(n + 1) PROVE Costs(more, j)[k] = Append(costs, Cost(line, j))[k]
      <4>1. CASE k = n + 1
        BY <2>2, <2>5, <2>6, <4>1
      <4>2. CASE k \in 1..n
        BY <2>2, <2>3, <2>5, <2>6, <4>2
      <4>3. n \in Nat
        BY <2>2
      <4>4. k = n + 1 \/ k \in 1..n
        BY <4>3
      <4> QED
        BY <4>1, <4>2, <4>4
    <3> DEFINE a == Costs(more, j)
               c == Append(costs, Cost(line, j))
    <3>2. a \in Seq(Nat) /\ c \in Seq(Nat) /\ Len(a) = Len(c) /\ \A k \in 1..Len(a) : a[k] = c[k]
      <4>1. 1..Len(a) = 1..(n + 1) /\ Len(a) = Len(c)
        BY <2>5, <2>6
      <4> QED
        BY <2>5, <2>6, <3>1, <4>1, Zenon
    <3> HIDE DEF a, c
    <3>3. a = c
      BY <3>2, SeqEqual
    <3> QED
      BY <3>3 DEF a, c
  <2> USE DEF more, costs
  <2> HIDE DEF Costs
  <2> QED
    BY <1>2, <2>1, <2>7, SumOfIs
<1> QED
  BY <1>3, <1>4, <1>5 DEF Cost

\* The room left is a number.
LEMMA RoomIsNumber ==
  ASSUME ResponseKinds, NEW lines \in Seq(LineKind), NEW j \in Nat
  PROVE  Available(lines, j) \in Int
<1>1. SpentBefore(lines, j) \in Nat
  BY SpentIs
<1>2. response.budget \in Int
  BY DEF ResponseKinds
<1>3. Available(lines, j) = response.budget - SpentBefore(lines, j)
  BY DEF Available
<1> QED
  BY <1>1, <1>2, <1>3

\* A line of a later result leaves what was said of an earlier one.
LEMMA EarlierStays ==
  ASSUME ResponseKinds, NEW lines \in Seq(LineKind), NEW line \in LineKind,
         NEW j \in Nat, j <= line.index
  PROVE  LET more == Append(lines, line) IN
         /\ Available(more, j) = Available(lines, j)
         /\ Dropped(more, j) <=> Dropped(lines, j)
         /\ Evidence(more, j) = Evidence(lines, j)
         /\ Shown(lines, j) => Shown(more, j)
         /\ line.index = j => Shown(more, j)
<1> DEFINE more == Append(lines, line)
<1>1. /\ DOMAIN more = 1..(Len(lines) + 1) /\ DOMAIN lines = 1..Len(lines) /\ Len(lines) \in Nat
      /\ \A k \in 1..Len(lines) : more[k] = lines[k]
      /\ more[Len(lines) + 1] = line
  OBVIOUS
<1>2. line.index \in Nat
  BY DEF LineKind
<1>3. SpentBefore(more, j) = SpentBefore(lines, j)
  <2>1. SpentBefore(lines, j) \in Nat
    BY SpentIs
  <2>2. ~(line.index < j)
    BY <1>2
  <2> QED
    BY <2>1, <2>2, SpentIs
<1>4. Available(more, j) = Available(lines, j)
  BY <1>3 DEF Available
<1> HIDE DEF more
<1>5. Dropped(more, j) <=> Dropped(lines, j)
  <2> DEFINE Says(r) == /\ r.index < j /\ Whole(r)
                        /\ Fingerprint(r.record) = Fingerprint(Evidence(lines, j))
             Large == response.results[j].form = "oversized"
             Sound == response.results[j].form = "sound"
  <2>1. Dropped(lines, j) <=> (Large \/ (Sound /\ \E k \in DOMAIN lines : Says(lines[k])))
    BY DEF Dropped
  <2>2. Dropped(more, j) <=> (Large \/ (Sound /\ \E k \in DOMAIN more : Says(more[k])))
    BY <1>4 DEF Dropped, Evidence
  <2>3. ~Says(line)
    BY <1>2
  <2> HIDE DEF Says, Large, Sound
  <2>4. (\E k \in DOMAIN more : Says(more[k])) <=> \E k \in DOMAIN lines : Says(lines[k])
    BY <1>1, <2>3
  <2> QED
    BY <2>1, <2>2, <2>4
<1>6. Shown(lines, j) => Shown(more, j)
  BY <1>1 DEF Shown
<1>7. line.index = j => Shown(more, j)
  BY <1>1 DEF Shown
<1>8. Evidence(more, j) = Evidence(lines, j)
  BY <1>4 DEF Evidence
<1> QED
  BY <1>4, <1>5, <1>6, <1>7, <1>8 DEF more

\* What is known of the context after the first i results.
InRankOrder(lines, i) ==
  /\ \A k \in DOMAIN lines : lines[k].index \in 1..i
  /\ \A k, l \in DOMAIN lines : k < l => lines[k].index < lines[l].index

\* The bytes are those of the lines, with what separates a line from the next.
WithinBudget(context, i) ==
  /\ context.lines = <<>> => context.bytes = 0
  /\ context.lines # <<>> => context.bytes <= response.budget
  /\ \A j \in Nat : j > i =>
       SpentBefore(context.lines, j) = IF context.lines = <<>> THEN 0 ELSE context.bytes + 1

\* No evidence is shown twice.
NoneRepeated(lines) ==
  \A k, l \in DOMAIN lines :
    k < l => Fingerprint(lines[k].record) # Fingerprint(lines[l].record)

\* Every line shows a sound result, as much of it as there was room for; the
\* room only shrinks.
ResultsShown(context) ==
  LET lines == context.lines
      RoomFor(k) == Available(lines, lines[k].index)
  IN
  /\ \A k \in DOMAIN lines :
       /\ response.results[lines[k].index].form = "sound"
       /\ lines[k].record = Evidence(lines, lines[k].index)
       /\ Left(context) <= RoomFor(k)
  /\ \A k, l \in DOMAIN lines : k < l => RoomFor(l) <= RoomFor(k)

\* A line is cut no shorter than it must be.
CutLongest(lines) ==
  \A k \in DOMAIN lines : ~Whole(lines[k]) =>
    LET r == lines[k].record  n == lines[k].chars IN
    n < Len(Chars[r.memory]) => TruncatedBytes(r, n + 1) > Available(lines, lines[k].index)

\* Every result of S is shown or passed over.
AllDone(lines, S) == \A j \in S : Shown(lines, j) \/ Dropped(lines, j)

\* No line is cut.
AllWhole(lines) == \A k \in DOMAIN lines : Whole(lines[k])

\* Before the loop is left: all results so far are done with.
StillOpen(context, i) ==
  /\ AllWhole(context.lines)
  /\ context.seen = {Fingerprint(context.lines[k].record) : k \in DOMAIN context.lines}
  /\ AllDone(context.lines, 1..i)

\* The loop was left at e, with a line cut for it.
CutAt(lines, e) ==
  /\ \E k \in DOMAIN lines : lines[k].index = e /\ ~Whole(lines[k])
  /\ \A k \in DOMAIN lines : lines[k].index # e => Whole(lines[k])

\* The loop was left at e, without a line for it.
NoRoomAt(lines, e) ==
  AllWhole(lines) /\ ~Shown(lines, e) /\ ~Dropped(lines, e) /\ NoRoom(lines, e)

\* The loop was left at e.
EndedAt(lines, e) ==
  /\ AllDone(lines, 1..(e - 1))
  /\ \A k \in DOMAIN lines : lines[k].index <= e
  /\ CutAt(lines, e) \/ NoRoomAt(lines, e)

\* The inductive invariant of the loop over the results.
ContextSound(context, i) ==
  /\ InRankOrder(context.lines, i)
  /\ WithinBudget(context, i)
  /\ NoneRepeated(context.lines)
  /\ ResultsShown(context)
  /\ CutLongest(context.lines)
  /\ IF context.full THEN \E e \in 1..i : EndedAt(context.lines, e)
     ELSE StillOpen(context, i)

\* The deadline was checked four times for each line and once at least for
\* each result, and no more often than the results and one search need.
Counted(context, i) ==
  /\ \A k \in DOMAIN context.lines : context.lines[k].index + 3 * k <= context.checks
  /\ IF context.full
     THEN \E e \in 1..i :
            context.checks <= 4 * e + Len(Chars[response.results[e].memory]) + 1
     ELSE i + 3 * Len(context.lines) <= context.checks /\ context.checks <= 4 * i

\* What the loop keeps: a failure has its reason.
LoopSound(context, i) ==
  IF context.failed THEN Excused ELSE ContextSound(context, i) /\ Counted(context, i)

\* The room left is what the lines have not spent.
LEMMA RoomIs ==
  ASSUME ResponseKinds, NEW context \in ContextKind, NEW i \in Nat, WithinBudget(context, i),
         NEW j \in Nat, j > i
  PROVE  Left(context) = Available(context.lines, j)
<1>1. SpentBefore(context.lines, j) = IF context.lines = <<>> THEN 0 ELSE context.bytes + 1
  BY DEF WithinBudget
<1>2. context.lines = <<>> => context.bytes = 0
  BY DEF WithinBudget
<1>3. context.bytes \in Nat /\ response.budget \in Int
  BY DEF ContextKind, ResponseKinds
<1> QED
  BY <1>1, <1>2, <1>3 DEF Left, Separator, Available

\* A line more, of the next result.
LEMMA LineAdded ==
  ASSUME ResponseKinds, NEW lines \in Seq(LineKind), NEW i \in Nat \ {0},
         NEW line \in LineKind, line.index = i, InRankOrder(lines, i - 1)
  PROVE  LET more == Append(lines, line) IN
         /\ InRankOrder(more, i)
         /\ /\ NoneRepeated(lines)
            /\ \A k \in DOMAIN lines : Fingerprint(lines[k].record) # Fingerprint(line.record)
            => NoneRepeated(more)
         /\ AllDone(lines, 1..(i - 1)) => AllDone(more, 1..(i - 1))
         /\ Shown(more, i)
         /\ AllWhole(lines) /\ Whole(line) => AllWhole(more)
         /\ AllWhole(lines) /\ ~Whole(line) => CutAt(more, i)
<1> DEFINE more == Append(lines, line)
           n == Len(lines)
<1>1. /\ DOMAIN more = 1..(n + 1) /\ DOMAIN lines = 1..n /\ n \in Nat
      /\ \A k \in 1..n : more[k] = lines[k]
      /\ more[n + 1] = line
  OBVIOUS
<1>2. \A j \in 1..i :
        /\ Shown(lines, j) => Shown(more, j)
        /\ Dropped(lines, j) => Dropped(more, j)
        /\ j = i => Shown(more, j)
  BY EarlierStays
<1> HIDE DEF more, n
<1>3. /\ \A k \in 1..n : lines[k].index \in 1..(i - 1)
      /\ \A k, l \in 1..n : k < l => lines[k].index < lines[l].index
  BY <1>1 DEF InRankOrder
<1>4. InRankOrder(more, i)
  <2>1. ASSUME NEW k \in DOMAIN more PROVE more[k].index \in 1..i
    BY <1>1, <1>3
  <2>2. ASSUME NEW k \in DOMAIN more, NEW l \in DOMAIN more, k < l
        PROVE  more[k].index < more[l].index
    <3>1. k \in 1..n
      BY <1>1, <2>2
    <3>2. CASE l = n + 1
      BY <1>1, <1>3, <3>1, <3>2
    <3>3. CASE l \in 1..n
      BY <1>1, <1>3, <2>2, <3>1, <3>3
    <3> QED
      BY <1>1, <3>2, <3>3
  <2> QED
    BY <2>1, <2>2 DEF InRankOrder
<1>5. ASSUME NoneRepeated(lines),
             \A k \in DOMAIN lines : Fingerprint(lines[k].record) # Fingerprint(line.record)
      PROVE  NoneRepeated(more)
  <2> SUFFICES ASSUME NEW k \in 1..(n + 1), NEW l \in 1..(n + 1), k < l
               PROVE  Fingerprint(more[k].record) # Fingerprint(more[l].record)
    BY <1>1 DEF NoneRepeated
  <2>1. k \in 1..n
    BY <1>1
  <2>2. CASE l = n + 1
    BY <1>1, <1>5, <2>1, <2>2
  <2>3. CASE l \in 1..n
    BY <1>1, <1>5, <2>1, <2>3 DEF NoneRepeated
  <2> QED
    BY <1>1, <2>2, <2>3
<1>6. AllDone(lines, 1..(i - 1)) => AllDone(more, 1..(i - 1))
  BY <1>2 DEF AllDone
<1>7. Shown(more, i)
  BY <1>2
<1>8. AllWhole(lines) /\ Whole(line) => AllWhole(more)
  BY <1>1 DEF AllWhole
<1>9. AllWhole(lines) /\ ~Whole(line) => CutAt(more, i)
  <2> SUFFICES ASSUME AllWhole(lines), ~Whole(line) PROVE CutAt(more, i)
    OBVIOUS
  <2>1. n + 1 \in DOMAIN more /\ more[n + 1].index = i /\ ~Whole(more[n + 1])
    BY <1>1
  <2>2. ASSUME NEW k \in DOMAIN more, more[k].index # i PROVE Whole(more[k])
    <3>1. k \in 1..n
      BY <1>1, <2>2
    <3> QED
      BY <1>1, <3>1 DEF AllWhole
  <2> QED
    BY <2>1, <2>2 DEF CutAt
<1> QED
  BY <1>4, <1>5, <1>6, <1>7, <1>8, <1>9 DEF more

\* The lines there are remain cut as long as they could be.
LEMMA CutsStay ==
  ASSUME ResponseKinds, NEW lines \in Seq(LineKind), NEW i \in Nat \ {0},
         NEW line \in LineKind, line.index = i, InRankOrder(lines, i - 1), CutLongest(lines),
         Whole(line) \/ LET r == line.record  n == line.chars IN
                        n < Len(Chars[r.memory]) =>
                          TruncatedBytes(r, n + 1) > Available(lines, i)
  PROVE  CutLongest(Append(lines, line))
<1> DEFINE more == Append(lines, line)
           n == Len(lines)
           Longest(l, room) ==
             l.chars < Len(Chars[l.record.memory]) => TruncatedBytes(l.record, l.chars + 1) > room
<1>1. /\ DOMAIN more = 1..(n + 1) /\ DOMAIN lines = 1..n /\ n \in Nat
      /\ \A k \in 1..n : more[k] = lines[k]
      /\ more[n + 1] = line
  OBVIOUS
<1>2. \A j \in 1..i : Available(more, j) = Available(lines, j)
  BY EarlierStays
<1>3. \A k \in DOMAIN lines : lines[k].index \in 1..i
  BY DEF InRankOrder
<1>4. \A k \in DOMAIN lines : ~Whole(lines[k]) =>
        Longest(lines[k], Available(lines, lines[k].index))
  BY DEF CutLongest
<1>5. ~Whole(line) => Longest(line, Available(lines, i))
  OBVIOUS
<1>6. (\A k \in DOMAIN more : ~Whole(more[k]) => Longest(more[k], Available(more, more[k].index)))
        => CutLongest(more)
  BY DEF CutLongest
<1> HIDE DEF more, n, Longest
<1>7. ASSUME NEW k \in 1..(n + 1), ~Whole(more[k])
      PROVE  Longest(more[k], Available(more, more[k].index))
  <2>1. CASE k = n + 1
    BY <1>1, <1>2, <1>5, <1>7, <2>1
  <2>2. CASE k \in 1..n
    BY <1>1, <1>2, <1>3, <1>4, <1>7, <2>2
  <2>3. n \in Nat
    BY <1>1
  <2>4. k = n + 1 \/ k \in 1..n
    BY <2>3
  <2> QED
    BY <2>1, <2>2, <2>4
<1>8. CutLongest(more)
  BY <1>1, <1>6, <1>7
<1> QED
  BY <1>8 DEF more

\* A line that fits in the room left leaves the context within the budget.
LEMMA RoomSpent ==
  ASSUME ResponseKinds, NEW context \in ContextKind, NEW i \in Nat \ {0}, NEW c \in ContextKind,
         WithinBudget(context, i - 1), NEW line \in LineKind, line.index = i,
         line.bytes <= Left(context),
         c.lines = Append(context.lines, line),
         c.bytes = context.bytes + Separator(context) + line.bytes
  PROVE  WithinBudget(c, i)
<1> DEFINE before == context.lines
           more == Append(before, line)
<1>1. before \in Seq(LineKind) /\ context.bytes \in Nat /\ response.budget \in Int /\ line.bytes \in Nat
  BY DEF ContextKind, ResponseKinds, LineKind
<1>2. more # <<>>
  BY <1>1
<1>3. before = <<>> => context.bytes = 0
  BY DEF WithinBudget
<1>4. c.bytes <= response.budget
  BY <1>1 DEF Left, Separator
<1>5. ASSUME NEW j \in Nat, j > i PROVE SpentBefore(more, j) = c.bytes + 1
  <2>1. j > i - 1
    BY <1>5
  <2>2. SpentBefore(before, j) = IF before = <<>> THEN 0 ELSE context.bytes + 1
    BY <2>1 DEF WithinBudget
  <2> HIDE DEF before
  <2>3. SpentBefore(more, j) = SpentBefore(before, j) + (line.bytes + 1)
    <3>1. line.index < j
      BY <1>5
    <3>2. SpentBefore(more, j)
            = SpentBefore(before, j) + (IF line.index < j THEN line.bytes + 1 ELSE 0)
      BY <1>1, SpentIs
    <3> QED
      BY <3>1, <3>2
  <2>4. Separator(context) = IF before = <<>> THEN 0 ELSE 1
    BY DEF Separator, before
  <2> HIDE DEF more
  <2>5. CASE before = <<>>
    BY <1>1, <1>3, <2>2, <2>3, <2>4, <2>5
  <2>6. CASE before # <<>>
    <3>1. /\ SpentBefore(before, j) = context.bytes + 1 /\ Separator(context) = 1
          /\ c.bytes = context.bytes + Separator(context) + line.bytes
      BY <2>2, <2>4, <2>6
    <3>2. context.bytes \in Nat /\ line.bytes \in Nat
      BY <1>1
    <3>3. c.bytes = context.bytes + 1 + line.bytes
      BY <3>1
    <3>4. \A a, b \in Nat : (a + 1) + (b + 1) = (a + 1 + b) + 1
      OBVIOUS
    <3>5. SpentBefore(more, j) = (context.bytes + 1) + (line.bytes + 1)
      BY <2>3, <3>1, Zenon
    <3>6. c.bytes + 1 = (context.bytes + 1 + line.bytes) + 1
      BY <3>3, Zenon
    <3> QED
      BY <3>2, <3>4, <3>5, <3>6, Zenon
  <2> QED
    BY <2>5, <2>6
<1>6. c.lines = more
  OBVIOUS
<1> HIDE DEF more
<1> QED
  BY <1>2, <1>4, <1>5, <1>6 DEF WithinBudget

\* The new line shows its result, with what room was left for it.
LEMMA ResultAdded ==
  ASSUME ResponseKinds, NEW context \in ContextKind, NEW i \in Nat \ {0}, NEW c \in ContextKind,
         InRankOrder(context.lines, i - 1), WithinBudget(context, i - 1), ResultsShown(context),
         response.results[i].form = "sound",
         NEW line \in LineKind, line.index = i, line.record = RecordOf(context, i),
         c.lines = Append(context.lines, line),
         c.bytes = context.bytes + Separator(context) + line.bytes
  PROVE  ResultsShown(c)
<1> DEFINE lines == context.lines
           more == Append(lines, line)
           n == Len(lines)
           RoomFor(k) == Available(lines, lines[k].index)
           RoomOf(k) == Available(more, more[k].index)
<1>1. lines \in Seq(LineKind) /\ context.bytes \in Nat /\ response.budget \in Int /\ line.bytes \in Nat
  BY DEF ContextKind, ResponseKinds, LineKind
<1>2. /\ DOMAIN more = 1..(n + 1) /\ DOMAIN lines = 1..n /\ n \in Nat
      /\ \A k \in 1..n : more[k] = lines[k]
      /\ more[n + 1] = line /\ more # <<>>
  BY <1>1
<1>3. Left(context) = Available(lines, i)
  <2>1. i - 1 \in Nat /\ i > i - 1
    OBVIOUS
  <2> QED
    BY <2>1, RoomIs
<1>4. Left(c) <= Left(context) /\ Left(c) \in Int /\ Left(context) \in Int
  <2>1. Separator(c) = 1
    BY <1>2 DEF Separator
  <2>2. Separator(context) \in {0, 1}
    BY DEF Separator
  <2>3. Left(c) = response.budget - (context.bytes + Separator(context) + line.bytes) - 1
    BY <2>1 DEF Left
  <2>4. Left(context) = response.budget - context.bytes - Separator(context)
    BY DEF Left
  <2>5. \A b \in Int, m, l \in Nat, t \in {0, 1} :
          /\ b - (m + t + l) - 1 \in Int /\ b - m - t \in Int
          /\ b - (m + t + l) - 1 <= b - m - t
    OBVIOUS
  <2>6. /\ response.budget - (context.bytes + Separator(context) + line.bytes) - 1 \in Int
        /\ response.budget - context.bytes - Separator(context) \in Int
        /\ response.budget - (context.bytes + Separator(context) + line.bytes) - 1
             <= response.budget - context.bytes - Separator(context)
    BY <1>1, <2>2, <2>5, Zenon
  <2> HIDE DEF lines, more, n
  <2> QED
    BY <2>3, <2>4, <2>6, Zenon
<1>5. /\ \A k \in 1..n : /\ response.results[lines[k].index].form = "sound"
                         /\ lines[k].record = Evidence(lines, lines[k].index)
                         /\ Left(context) <= RoomFor(k)
      /\ \A k, l \in 1..n : k < l => RoomFor(l) <= RoomFor(k)
  BY <1>2 DEF ResultsShown
<1>6. \A k \in 1..n : lines[k].index \in Nat /\ lines[k].index <= i
  BY <1>2 DEF InRankOrder
<1>7. \A j \in Nat : j <= i => /\ Available(more, j) = Available(lines, j)
                              /\ Evidence(more, j) = Evidence(lines, j)
                              /\ Available(lines, j) \in Int
  <2>1. ASSUME NEW j \in Nat, j <= i
        PROVE  Available(more, j) = Available(lines, j) /\ Evidence(more, j) = Evidence(lines, j)
    BY <1>1, <2>1, EarlierStays
  <2>2. \A j \in Nat : Available(lines, j) \in Int
    BY <1>1, RoomIsNumber
  <2> QED
    BY <2>1, <2>2
<1>8. line.record = Evidence(lines, i)
  BY <1>3 DEF Evidence, RecordOf
<1> HIDE DEF lines, more, n
<1>9. \A k \in 1..n : RoomOf(k) = RoomFor(k) /\ RoomFor(k) \in Int
  BY <1>2, <1>6, <1>7
<1>10. RoomOf(n + 1) = Left(context)
  BY <1>2, <1>3, <1>7
<1>11. ASSUME NEW k \in 1..(n + 1)
       PROVE  /\ response.results[more[k].index].form = "sound"
              /\ more[k].record = Evidence(more, more[k].index)
              /\ Left(c) <= RoomOf(k)
  <2>1. CASE k \in 1..n
    <3>1. more[k] = lines[k] /\ lines[k].index \in Nat /\ lines[k].index <= i
      BY <1>2, <1>6, <2>1
    <3>2. Left(c) <= RoomOf(k)
      <4>1. RoomOf(k) = RoomFor(k) /\ RoomFor(k) \in Int /\ Left(context) <= RoomFor(k)
        BY <1>5, <1>9, <2>1
      <4> HIDE DEF RoomOf, RoomFor
      <4> QED
        BY <1>4, <4>1
    <3>3. /\ response.results[more[k].index].form = "sound"
          /\ more[k].record = Evidence(more, more[k].index)
      BY <1>5, <1>7, <2>1, <3>1
    <3> QED
      BY <3>2, <3>3
  <2>2. CASE k = n + 1
    <3>1. more[k] = line /\ RoomOf(k) = Left(context)
      BY <1>2, <1>10, <2>2
    <3>2. Evidence(more, i) = Evidence(lines, i)
      BY <1>7
    <3> HIDE DEF RoomOf
    <3> QED
      BY <1>4, <1>8, <3>1, <3>2
  <2>3. k \in 1..n \/ k = n + 1
    BY <1>2
  <2> QED
    BY <2>1, <2>2, <2>3
<1>12. ASSUME NEW k \in 1..(n + 1), NEW l \in 1..(n + 1), k < l PROVE RoomOf(l) <= RoomOf(k)
  <2>1. k \in 1..n
    BY <1>2, <1>12
  <2>2. RoomOf(k) = RoomFor(k)
    BY <1>9, <2>1
  <2> HIDE DEF RoomOf, RoomFor
  <2>3. CASE l \in 1..n
    BY <1>5, <1>9, <1>12, <2>1, <2>2, <2>3
  <2>4. CASE l = n + 1
    BY <1>5, <1>10, <2>1, <2>2, <2>4
  <2>5. l \in 1..n \/ l = n + 1
    BY <1>2
  <2> QED
    BY <2>3, <2>4, <2>5
<1>13. c.lines = more /\ DOMAIN more = 1..(n + 1)
  BY <1>2 DEF lines, more
<1> QED
  BY <1>11, <1>12, <1>13, Zenon DEF ResultsShown

\* Evidence is seen when a line shows it.
LEMMA SeenIsDropped ==
  ASSUME ResponseKinds, NEW context \in ContextKind, NEW i \in 1..Len(response.results),
         response.results[i].form # "malformed",
         InRankOrder(context.lines, i - 1), WithinBudget(context, i - 1),
         StillOpen(context, i - 1)
  PROVE  /\ Dropped(context.lines, i) <=>
              \/ response.results[i].form = "oversized"
              \/ Fingerprint(RecordOf(context, i)) \in context.seen
         /\ ~Shown(context.lines, i)
<1>1. Left(context) = Available(context.lines, i)
  <2>1. i - 1 \in Nat /\ i \in Nat /\ i > i - 1
    BY DEF ResponseKinds
  <2> QED
    BY <2>1, RoomIs
<1>2. \A k \in DOMAIN context.lines :
        context.lines[k].index < i /\ context.lines[k].index # i /\ Whole(context.lines[k])
  <2>1. ASSUME NEW k \in DOMAIN context.lines
        PROVE  context.lines[k].index < i /\ context.lines[k].index # i
    <3>1. context.lines[k].index \in 1..(i - 1)
      BY DEF InRankOrder
    <3>2. i \in Nat
      BY DEF ResponseKinds
    <3> QED
      BY <3>1, <3>2
  <2> QED
    BY <2>1 DEF StillOpen, AllWhole
<1>3. context.seen = {Fingerprint(context.lines[k].record) : k \in DOMAIN context.lines}
  BY DEF StillOpen
<1>4. ~Shown(context.lines, i)
  BY <1>2 DEF Shown
<1>5. response.results[i].form \in {"sound", "oversized"}
  BY PiecesAre DEF Result
<1>6. Evidence(context.lines, i) = RecordOf(context, i)
  BY <1>1 DEF Evidence, RecordOf
<1> QED
  BY <1>2, <1>3, <1>4, <1>5, <1>6 DEF Dropped

\* What is said of the lines alone stays true of one more result.
LEMMA StaysSound ==
  ASSUME NEW lines, NEW i \in Nat \ {0}, NEW context, context.lines = lines
  PROVE  /\ InRankOrder(lines, i - 1) => InRankOrder(lines, i)
         /\ WithinBudget(context, i - 1) => WithinBudget(context, i)
<1>1. 1..(i - 1) \subseteq 1..i
  OBVIOUS
<1>2. InRankOrder(lines, i - 1) => InRankOrder(lines, i)
  BY <1>1 DEF InRankOrder
<1>3. \A j \in Nat : j > i => j > i - 1
  OBVIOUS
<1>4. WithinBudget(context, i - 1) => WithinBudget(context, i)
  BY <1>3 DEF WithinBudget
<1> QED
  BY <1>2, <1>4

\* What is said of a context depends on these of its parts.
LEMMA PartsMatter ==
  ASSUME NEW context, NEW c, NEW i, c.lines = context.lines, c.bytes = context.bytes,
         c.seen = context.seen, c.full = context.full, ContextSound(context, i)
  PROVE  ContextSound(c, i)
<1>1. Left(c) = Left(context)
  BY DEF Left, Separator
<1>2. ResultsShown(context) => ResultsShown(c)
  BY <1>1 DEF ResultsShown
<1>3. WithinBudget(context, i) => WithinBudget(c, i)
  BY DEF WithinBudget
<1>4. StillOpen(context, i) => StillOpen(c, i)
  BY DEF StillOpen
<1> QED
  BY <1>2, <1>3, <1>4 DEF ContextSound

\* Once the loop has been left, the results that follow change nothing.
LEMMA FullSound ==
  ASSUME ResponseKinds, NEW context \in ContextKind, NEW i \in 1..Len(response.results),
         ContextSound(context, i - 1), context.full
  PROVE  ContextSound(context, i)
<1> DEFINE lines == context.lines
<1>1. i \in Nat \ {0}
  BY DEF ResponseKinds
<1>2. /\ InRankOrder(lines, i - 1) /\ WithinBudget(context, i - 1)
      /\ NoneRepeated(lines) /\ ResultsShown(context) /\ CutLongest(lines)
      /\ \E e \in 1..(i - 1) : EndedAt(lines, e)
  BY DEF ContextSound
<1>3. InRankOrder(lines, i) /\ WithinBudget(context, i)
  BY <1>1, <1>2, StaysSound
<1>4. 1..(i - 1) \subseteq 1..i
  BY <1>1
<1>5. \E e \in 1..i : EndedAt(lines, e)
  <2> HIDE DEF lines
  <2> QED
    BY <1>2, <1>4
<1> QED
  BY <1>2, <1>3, <1>5 DEF ContextSound

\* A result passed over.
LEMMA PassedSound ==
  ASSUME ResponseKinds, NEW context \in ContextKind, NEW i \in 1..Len(response.results),
         ContextSound(context, i - 1), ~context.full,
         response.results[i].form # "malformed", Passes(context, i)
  PROVE  ContextSound(context, i)
<1> DEFINE lines == context.lines
<1>1. i \in Nat \ {0}
  BY DEF ResponseKinds
<1>2. /\ InRankOrder(lines, i - 1) /\ WithinBudget(context, i - 1)
      /\ NoneRepeated(lines) /\ ResultsShown(context) /\ CutLongest(lines)
      /\ StillOpen(context, i - 1)
  BY DEF ContextSound
<1>3. InRankOrder(lines, i) /\ WithinBudget(context, i)
  BY <1>1, <1>2, StaysSound
<1>4. Dropped(lines, i)
  BY <1>2, PassesIs, SeenIsDropped
<1>5. AllDone(lines, 1..i)
  <2>1. AllDone(lines, 1..(i - 1))
    BY <1>2 DEF StillOpen
  <2>2. \A j \in 1..i : j = i \/ j \in 1..(i - 1)
    BY <1>1
  <2> HIDE DEF lines
  <2> QED
    BY <1>4, <2>1, <2>2 DEF AllDone
<1>6. StillOpen(context, i)
  BY <1>2, <1>5 DEF StillOpen
<1> QED
  BY <1>2, <1>3, <1>6 DEF ContextSound

\* The first result there is no room for.
LEMMA RefusedSound ==
  ASSUME ResponseKinds, NEW context \in ContextKind, NEW i \in 1..Len(response.results),
         ContextSound(context, i - 1), ~context.full,
         response.results[i].form # "malformed", ~Passes(context, i),
         ~(TruncatedBytes(RecordOf(context, i), 0) <= Left(context))
  PROVE  ContextSound([context EXCEPT !.full = TRUE], i)
<1> DEFINE lines == context.lines
           c == [context EXCEPT !.full = TRUE]
<1>1. i \in Nat \ {0} /\ i \in 1..i
  BY DEF ResponseKinds
<1>2. response.results[i].form = "sound"
  <2>1. response.results[i].form \in {"sound", "oversized", "malformed"}
    BY PiecesAre DEF Result
  <2> QED
    BY <2>1 DEF Passes
<1>3. /\ InRankOrder(lines, i - 1) /\ WithinBudget(context, i - 1)
      /\ NoneRepeated(lines) /\ ResultsShown(context) /\ CutLongest(lines)
      /\ StillOpen(context, i - 1)
  BY DEF ContextSound
<1>4. c.lines = lines /\ c.bytes = context.bytes /\ c.full = TRUE
  BY DEF ContextKind
<1>5. InRankOrder(lines, i) /\ WithinBudget(c, i)
  <2>1. WithinBudget(c, i - 1)
    BY <1>3, <1>4 DEF WithinBudget
  <2> HIDE DEF lines, c
  <2> QED
    BY <1>1, <1>3, <1>4, <2>1, StaysSound
<1>6. ~Dropped(lines, i) /\ ~Shown(lines, i)
  BY <1>3, PassesIs, SeenIsDropped
<1>7. NoRoom(lines, i)
  <2> DEFINE result == response.results[i]
             r == RecordOf(context, i)
             plain == [result EXCEPT !.attachments = 0]
  <2>1. result \in Result /\ Left(context) \in Int
    BY PiecesAre
  <2>2. r.memory = result.memory /\ r \in Result
    BY <2>1, UncrowdedIs DEF RecordOf
  <2>3. plain.memory = result.memory
    BY <2>1 DEF Result
  <2>4. TruncatedBytes(plain, 0) = TruncatedBytes(r, 0)
    <3> HIDE DEF plain, r, result
    <3> QED
      BY <2>2, <2>3 DEF TruncatedBytes
  <2>5. TruncatedBytes(r, 0) \in Nat
    <3> HIDE DEF r
    <3>1. Len(Chars[r.memory]) \in Nat /\ \A n \in 0..Len(Chars[r.memory]) : TruncatedBytes(r, n) \in Nat
      BY <2>2, BeginningsGrow
    <3> QED
      BY <3>1
  <2>6. Left(context) = Available(lines, i)
    <3>1. i - 1 \in Nat /\ i \in Nat /\ i > i - 1
      BY <1>1
    <3> QED
      BY <1>3, <3>1, RoomIs
  <2>7. TruncatedBytes(plain, 0) > Available(lines, i)
    <3>1. ~(TruncatedBytes(r, 0) <= Left(context))
      OBVIOUS
    <3> HIDE DEF r, plain, lines
    <3> QED
      BY <2>1, <2>4, <2>5, <2>6, <3>1
  <2> QED
    BY <1>2, <2>7 DEF NoRoom
<1>8. EndedAt(lines, i)
  <2>1. AllDone(lines, 1..(i - 1)) /\ AllWhole(lines)
    BY <1>3 DEF StillOpen
  <2>2. \A k \in DOMAIN lines : lines[k].index <= i
    BY <1>1, <1>5 DEF InRankOrder
  <2>3. NoRoomAt(lines, i)
    BY <1>6, <1>7, <2>1 DEF NoRoomAt
  <2> QED
    BY <2>1, <2>2, <2>3 DEF EndedAt
<1>9. ResultsShown(c)
  <2>1. Left(c) = Left(context)
    BY <1>4 DEF Left, Separator
  <2> QED
    BY <1>3, <1>4, <2>1 DEF ResultsShown
<1> HIDE DEF lines, c
<1> QED
  BY <1>1, <1>3, <1>4, <1>5, <1>8, <1>9 DEF ContextSound, c

\* A result shown whole.
LEMMA ShownSound ==
  ASSUME ResponseKinds, NEW context \in ContextKind, NEW i \in 1..Len(response.results),
         ContextSound(context, i - 1), ~context.full,
         response.results[i].form # "malformed", ~Passes(context, i),
         LineBytes(RecordOf(context, i)) <= Left(context), NEW c \in ContextKind,
         c.lines = Append(context.lines, WholeLine(context, i)),
         c.bytes = context.bytes + Separator(context) + LineBytes(RecordOf(context, i)),
         c.seen = context.seen \cup {Fingerprint(RecordOf(context, i))},
         c.full = context.full
  PROVE  ContextSound(c, i)
<1> DEFINE lines == context.lines
           line == WholeLine(context, i)
           r == RecordOf(context, i)
           more == Append(lines, line)
<1>1. i \in Nat \ {0}
  BY DEF ResponseKinds
<1>2. ~c.full /\ Fingerprint(r) \notin context.seen /\ response.results[i].form = "sound"
  <2>1. response.results[i].form \in {"sound", "oversized", "malformed"}
    BY PiecesAre DEF Result
  <2> QED
    BY <2>1, PassesIs
<1>3. /\ InRankOrder(lines, i - 1) /\ WithinBudget(context, i - 1)
      /\ NoneRepeated(lines) /\ ResultsShown(context) /\ CutLongest(lines)
      /\ StillOpen(context, i - 1)
  BY DEF ContextSound
<1>4. /\ line \in LineKind /\ line.index = i /\ line.record = r
      /\ line.bytes = LineBytes(r) /\ Whole(line) /\ lines \in Seq(LineKind)
  <2>1. line.index = i /\ line.record = r /\ line.bytes = LineBytes(r)
    BY DEF WholeLine, Line
  <2>2. line \in LineKind /\ lines \in Seq(LineKind)
    BY PiecesAre DEF ContextKind
  <2> HIDE DEF line, lines, r
  <2> QED
    BY <2>1, <2>2 DEF Whole
<1>5. /\ AllWhole(lines) /\ AllDone(lines, 1..(i - 1))
      /\ context.seen = {Fingerprint(lines[k].record) : k \in DOMAIN lines}
  BY <1>3 DEF StillOpen
<1>6. \A k \in DOMAIN lines : Fingerprint(lines[k].record) # Fingerprint(line.record)
  BY <1>2, <1>4, <1>5
<1>7. c.lines = more /\ c.seen = context.seen \cup {Fingerprint(r)}
  OBVIOUS
<1>8. line.bytes <= Left(context)
  BY <1>4
<1>9. WithinBudget(c, i) /\ ResultsShown(c)
  <2>1. c.bytes = context.bytes + Separator(context) + line.bytes
    BY <1>4
  <2>2. line.record = RecordOf(context, i)
    BY <1>4
  <2> HIDE DEF line, r
  <2>3. WithinBudget(c, i)
    BY <1>1, <1>3, <1>4, <1>7, <1>8, <2>1, RoomSpent
  <2> QED
    BY <1>1, <1>2, <1>3, <1>4, <1>7, <2>1, <2>2, <2>3, ResultAdded
<1> HIDE DEF line, lines, r
<1>10. /\ InRankOrder(more, i) /\ NoneRepeated(more) /\ AllDone(more, 1..(i - 1))
       /\ Shown(more, i) /\ AllWhole(more)
  BY <1>1, <1>3, <1>4, <1>5, <1>6, LineAdded
<1>11. CutLongest(more)
  BY <1>1, <1>3, <1>4, CutsStay
<1>12. AllDone(more, 1..i)
  <2>1. \A j \in 1..i : j = i \/ j \in 1..(i - 1)
    BY <1>1
  <2> HIDE DEF more
  <2> QED
    BY <1>10, <2>1 DEF AllDone
<1>13. c.seen = {Fingerprint(more[k].record) : k \in DOMAIN more}
  <2>1. /\ DOMAIN more = 1..(Len(lines) + 1) /\ DOMAIN lines = 1..Len(lines)
        /\ Len(lines) \in Nat
        /\ \A k \in 1..Len(lines) : more[k] = lines[k]
        /\ more[Len(lines) + 1] = line
    BY <1>4
  <2>2. /\ Len(lines) + 1 \in DOMAIN more
        /\ \A k \in DOMAIN more : k = Len(lines) + 1 \/ k \in DOMAIN lines
        /\ DOMAIN lines \subseteq DOMAIN more
    BY <2>1
  <2> HIDE DEF more
  <2>3. \A k \in DOMAIN lines : more[k] = lines[k]
    BY <2>1
  <2>4. c.seen = {Fingerprint(lines[k].record) : k \in DOMAIN lines} \cup {Fingerprint(line.record)}
    BY <1>4, <1>5, <1>7
  <2>5. c.seen \subseteq {Fingerprint(more[k].record) : k \in DOMAIN more}
    BY <2>1, <2>2, <2>3, <2>4
  <2>6. {Fingerprint(more[k].record) : k \in DOMAIN more} \subseteq c.seen
    BY <2>1, <2>2, <2>3, <2>4
  <2> QED
    BY <2>5, <2>6
<1>14. StillOpen(c, i)
  BY <1>7, <1>10, <1>12, <1>13 DEF StillOpen
<1> QED
  BY <1>2, <1>7, <1>9, <1>10, <1>11, <1>14 DEF ContextSound

\* The first result that has to be cut.
LEMMA CutSound ==
  ASSUME ResponseKinds, NEW context \in ContextKind, NEW i \in 1..Len(response.results),
         ContextSound(context, i - 1), ~context.full,
         response.results[i].form # "malformed", ~Passes(context, i),
         ~(LineBytes(RecordOf(context, i)) <= Left(context)),
         TruncatedBytes(RecordOf(context, i), 0) <= Left(context), NEW c \in ContextKind,
         c.lines = Append(context.lines, CutLine(context, i)),
         c.bytes = context.bytes + Separator(context)
                     + TruncatedBytes(RecordOf(context, i), Chosen(context, i)),
         c.full = TRUE
  PROVE  ContextSound(c, i)
<1> DEFINE lines == context.lines
           line == CutLine(context, i)
           r == RecordOf(context, i)
           chars == Chosen(context, i)
           more == Append(lines, line)
<1>1. i \in Nat \ {0} /\ i \in 1..i
  BY DEF ResponseKinds
<1>2. Fingerprint(r) \notin context.seen /\ response.results[i].form = "sound"
  <2>1. response.results[i].form \in {"sound", "oversized", "malformed"}
    BY PiecesAre DEF Result
  <2> QED
    BY <2>1, PassesIs
<1>3. /\ InRankOrder(lines, i - 1) /\ WithinBudget(context, i - 1)
      /\ NoneRepeated(lines) /\ ResultsShown(context) /\ CutLongest(lines)
      /\ StillOpen(context, i - 1)
  BY DEF ContextSound
<1>4. /\ line \in LineKind /\ line.index = i /\ line.record = r /\ line.chars = chars
      /\ line.bytes = TruncatedBytes(r, chars) /\ ~Whole(line) /\ lines \in Seq(LineKind)
      /\ line.bytes <= Left(context)
  <2>1. /\ line.index = i /\ line.record = r /\ line.chars = chars
        /\ line.bytes = TruncatedBytes(r, chars)
    BY DEF CutLine, Line
  <2>2. line \in LineKind /\ lines \in Seq(LineKind)
    BY PiecesAre DEF ContextKind
  <2>3. /\ TruncatedBytes(r, chars) \in Nat /\ TruncatedBytes(r, chars) <= Left(context)
        /\ LineBytes(r) \in Nat /\ Left(context) \in Int
    BY PiecesAre
  <2>4. ~(LineBytes(r) <= Left(context))
    OBVIOUS
  <2> HIDE DEF line, lines, r, chars
  <2>5. TruncatedBytes(r, chars) # LineBytes(r)
    BY <2>3, <2>4
  <2> QED
    BY <2>1, <2>2, <2>3, <2>5 DEF Whole
<1>5. /\ AllWhole(lines) /\ AllDone(lines, 1..(i - 1))
      /\ \A k \in DOMAIN lines : Fingerprint(lines[k].record) # Fingerprint(line.record)
  BY <1>2, <1>3, <1>4 DEF StillOpen
<1>6. c.lines = more
  OBVIOUS
<1>7. WithinBudget(c, i) /\ ResultsShown(c)
  <2>1. c.bytes = context.bytes + Separator(context) + line.bytes
    BY <1>4
  <2>2. line.record = RecordOf(context, i)
    BY <1>4
  <2> HIDE DEF line, r, chars
  <2>3. WithinBudget(c, i)
    BY <1>1, <1>3, <1>4, <1>6, <2>1, RoomSpent
  <2> QED
    BY <1>1, <1>2, <1>3, <1>4, <1>6, <2>1, <2>2, <2>3, ResultAdded
<1>8. chars < Len(Chars[r.memory]) => TruncatedBytes(r, chars + 1) > Available(lines, i)
  <2>1. Left(context) = Available(lines, i)
    <3>1. i - 1 \in Nat /\ i \in Nat /\ i > i - 1
      BY <1>1
    <3> QED
      BY <1>3, <3>1, RoomIs
  <2>2. r \in Result /\ Left(context) \in Int
    BY PiecesAre
  <2>3. TruncatedBytes(r, 0) <= Left(context) /\ chars = CharsThatFit(r, Left(context))
    BY DEF Chosen
  <2> HIDE DEF r, chars, lines
  <2> QED
    BY <2>1, <2>2, <2>3, LongestIsFound
<1> HIDE DEF line, lines, r, chars
<1>9. /\ InRankOrder(more, i) /\ NoneRepeated(more) /\ AllDone(more, 1..(i - 1))
      /\ CutAt(more, i)
  BY <1>1, <1>3, <1>4, <1>5, LineAdded
<1>10. CutLongest(more)
  BY <1>1, <1>3, <1>4, <1>8, CutsStay
<1> HIDE DEF more
<1>11. EndedAt(more, i)
  <2>1. \A k \in DOMAIN more : more[k].index <= i
    BY <1>1, <1>9 DEF InRankOrder
  <2> QED
    BY <1>9, <2>1 DEF EndedAt
<1> QED
  BY <1>1, <1>6, <1>7, <1>9, <1>10, <1>11 DEF ContextSound

\* Fitting a result in leaves the context sound.
LEMMA FittedSound ==
  ASSUME ResponseKinds, NEW context \in ContextKind, NEW i \in 1..Len(response.results),
         ContextSound(context, i - 1), ~context.full, response.results[i].form # "malformed"
  PROVE  ContextSound(Fitted(context, i), i)
<1> DEFINE r == RecordOf(context, i)
           b1 == context.bytes + Separator(context) + LineBytes(r)
           b2 == context.bytes + Separator(context) + TruncatedBytes(r, Chosen(context, i))
           seen == context.seen \cup {Fingerprint(r)}
           l1 == Append(context.lines, WholeLine(context, i))
           l2 == Append(context.lines, CutLine(context, i))
           c == Fitted(context, i)
<1>1. c = IF Passes(context, i) THEN context
          ELSE IF LineBytes(r) <= Left(context)
            THEN [context EXCEPT !.lines = l1, !.bytes = b1, !.seen = seen]
          ELSE IF TruncatedBytes(r, 0) <= Left(context)
            THEN [context EXCEPT !.lines = l2, !.bytes = b2, !.full = TRUE]
          ELSE [context EXCEPT !.full = TRUE]
  BY FittedIs
<1>2. c \in ContextKind
  BY FittedKept
<1> HIDE DEF b1, b2, l1, l2, seen, c, r
<1>3. CASE Passes(context, i)
  BY <1>1, <1>3, PassedSound DEF c
<1>4. CASE ~Passes(context, i) /\ LineBytes(r) <= Left(context)
  <2>1. c = [context EXCEPT !.lines = l1, !.bytes = b1, !.seen = seen]
    BY <1>1, <1>4
  <2>2. c.lines = l1 /\ c.bytes = b1 /\ c.seen = seen /\ c.full = context.full
    BY <2>1 DEF ContextKind
  <2>3. ContextSound(c, i)
    BY <1>2, <1>4, <2>2, ShownSound DEF l1, b1, seen, r
  <2> QED
    BY <2>3 DEF c
<1>5. CASE ~Passes(context, i) /\ ~(LineBytes(r) <= Left(context))
           /\ TruncatedBytes(r, 0) <= Left(context)
  <2>1. c = [context EXCEPT !.lines = l2, !.bytes = b2, !.full = TRUE]
    BY <1>1, <1>5
  <2>2. c.lines = l2 /\ c.bytes = b2 /\ c.full = TRUE
    BY <2>1 DEF ContextKind
  <2>3. ContextSound(c, i)
    BY <1>2, <1>5, <2>2, CutSound DEF l2, b2, r
  <2> QED
    BY <2>3 DEF c
<1>6. CASE ~Passes(context, i) /\ ~(LineBytes(r) <= Left(context))
           /\ ~(TruncatedBytes(r, 0) <= Left(context))
  <2>1. c = [context EXCEPT !.full = TRUE]
    BY <1>1, <1>6
  <2>2. ContextSound([context EXCEPT !.full = TRUE], i)
    BY <1>6, RefusedSound DEF r
  <2> QED
    BY <2>1, <2>2 DEF c
<1> QED
  BY <1>3, <1>4, <1>5, <1>6

\* A result within the checks one search allows explains a late deadline.
LEMMA LateIsExcused ==
  ASSUME ResponseKinds, NEW e \in 1..Len(response.results), NEW n \in Nat,
         n <= 4 * e + Len(Chars[response.results[e].memory]) + 1, n + 1 >= response.late
  PROVE  Excused
<1> DEFINE size == Len(Chars[response.results[e].memory])
<1>1. response.results[e] \in Result /\ e \in DOMAIN response.results
  BY DEF ResponseKinds
<1>2. size \in Nat
  BY <1>1, BeginningsGrow
<1>3. e \in Nat /\ response.late \in Nat
  BY DEF ResponseKinds
<1> HIDE DEF size
<1>4. response.late <= 4 * e + size + 2
  <2>1. n <= 4 * e + size + 1
    BY DEF size
  <2> QED
    BY <1>2, <1>3, <2>1
<1> QED
  BY <1>1, <1>4 DEF Excused, size

\* The checks made stay within what the results and one search need.
LEMMA FittedCounted ==
  ASSUME ResponseKinds, NEW context \in ContextKind, NEW i \in 1..Len(response.results),
         ~context.full, ContextSound(context, i - 1), Counted(context, i - 1), NEW c,
         c.lines = Fitted(context, i).lines, c.full = Fitted(context, i).full,
         c.checks = context.checks + Checks(context, i)
  PROVE  Counted(c, i)
<1> DEFINE lines == context.lines
           n == Len(lines)
           more == Checks(context, i)
           size == Len(Chars[response.results[i].memory])
           r == RecordOf(context, i)
           fitted == Fitted(context, i)
           whole == WholeLine(context, i)
           cut == CutLine(context, i)
<1>1. i \in Nat \ {0} /\ i \in 1..i
  BY DEF ResponseKinds
<1>2. /\ \A k \in DOMAIN lines : lines[k].index + 3 * k <= context.checks
      /\ (i - 1) + 3 * n <= context.checks /\ context.checks <= 4 * (i - 1)
  BY DEF Counted
<1>3. /\ more \in Nat /\ size \in Nat /\ 1 <= more /\ more <= size + 5
      /\ Passes(context, i) \/ LineBytes(r) <= Left(context) => more <= 4
      /\ ~Passes(context, i) => 4 <= more
  BY ChecksAre
<1>4. /\ lines \in Seq(LineKind) /\ n \in Nat /\ context.checks \in Nat
      /\ \A k \in DOMAIN lines : lines[k].index \in Nat /\ k \in Nat
  <2>1. lines \in Seq(LineKind) /\ context.checks \in Nat
    BY DEF ContextKind
  <2> HIDE DEF lines
  <2>2. \A k \in DOMAIN lines : lines[k] \in LineKind /\ k \in Nat
    BY <2>1
  <2>3. Len(lines) \in Nat
    BY <2>1
  <2> QED
    BY <2>1, <2>2, <2>3 DEF LineKind
<1>5. fitted = IF Passes(context, i) THEN context
               ELSE IF LineBytes(r) <= Left(context)
                 THEN [context EXCEPT !.lines = Append(@, whole),
                         !.bytes = @ + Separator(context) + LineBytes(r),
                         !.seen = @ \cup {Fingerprint(r)}]
               ELSE IF TruncatedBytes(r, 0) <= Left(context)
                 THEN [context EXCEPT !.lines = Append(@, cut),
                         !.bytes = @ + Separator(context) + TruncatedBytes(r, Chosen(context, i)),
                         !.full = TRUE]
               ELSE [context EXCEPT !.full = TRUE]
  BY FittedIs
<1>6. whole.index = i /\ cut.index = i
  BY DEF WholeLine, CutLine, Line
<1>7. c.checks = context.checks + more
  OBVIOUS
<1>8. c.lines = fitted.lines /\ c.full = fitted.full
  OBVIOUS
<1> HIDE DEF lines, n, more, size, r, fitted, whole, cut
<1>9. c.checks \in Nat /\ c.checks <= 4 * i + size + 1 /\ context.checks <= c.checks
  BY <1>1, <1>2, <1>3, <1>4, <1>7
<1>10. ASSUME NEW k \in DOMAIN lines PROVE lines[k].index + 3 * k <= c.checks
  <2>1. lines[k].index + 3 * k <= context.checks /\ lines[k].index \in Nat /\ k \in Nat
    BY <1>2, <1>4
  <2>2. context.checks \in Nat /\ c.checks \in Nat /\ context.checks <= c.checks
    BY <1>4, <1>9
  <2> QED
    BY <2>1, <2>2
<1>11. ASSUME NEW line, line.index = i, c.lines = Append(lines, line), ~Passes(context, i)
       PROVE  /\ \A k \in DOMAIN c.lines : c.lines[k].index + 3 * k <= c.checks
              /\ Len(c.lines) = n + 1 /\ i + 3 * (n + 1) <= c.checks
  <2>1. /\ DOMAIN c.lines = 1..(n + 1) /\ DOMAIN lines = 1..n /\ Len(c.lines) = n + 1
        /\ \A k \in 1..n : c.lines[k] = lines[k]
        /\ c.lines[n + 1] = line
    BY <1>4, <1>11 DEF n
  <2>2. i + 3 * (n + 1) <= c.checks
    BY <1>1, <1>2, <1>3, <1>4, <1>7, <1>11
  <2>3. ASSUME NEW k \in 1..(n + 1) PROVE c.lines[k].index + 3 * k <= c.checks
    <3>1. k \in 1..n \/ k = n + 1
      BY <1>4
    <3>2. CASE k \in 1..n
      BY <1>10, <2>1, <3>2
    <3>3. CASE k = n + 1
      BY <1>11, <2>1, <2>2, <3>3
    <3> QED
      BY <3>1, <3>2, <3>3
  <2> QED
    BY <2>1, <2>2, <2>3
<1>12. c.full => \E e \in 1..i : c.checks <= 4 * e + Len(Chars[response.results[e].memory]) + 1
  BY <1>1, <1>9 DEF size
<1>13. CASE Passes(context, i)
  <2>1. c.lines = lines /\ c.full = context.full
    BY <1>5, <1>8, <1>13 DEF lines
  <2>2. i + 3 * Len(c.lines) <= c.checks /\ c.checks <= 4 * i
    <3>1. Len(c.lines) = n
      BY <2>1 DEF n
    <3> QED
      BY <1>1, <1>2, <1>3, <1>4, <1>7, <1>13, <3>1
  <2> QED
    BY <1>10, <2>1, <2>2 DEF Counted
<1>14. CASE ~Passes(context, i) /\ LineBytes(r) <= Left(context)
  <2>1. c.lines = Append(lines, whole) /\ c.full = context.full
    BY <1>5, <1>8, <1>14 DEF ContextKind, lines
  <2>2. /\ \A k \in DOMAIN c.lines : c.lines[k].index + 3 * k <= c.checks
        /\ Len(c.lines) = n + 1 /\ i + 3 * (n + 1) <= c.checks
    BY <1>6, <1>11, <1>14, <2>1
  <2>3. c.checks <= 4 * i
    BY <1>1, <1>2, <1>3, <1>4, <1>7, <1>14
  <2> QED
    BY <2>1, <2>2, <2>3 DEF Counted
<1>15. CASE /\ ~Passes(context, i) /\ ~(LineBytes(r) <= Left(context))
            /\ TruncatedBytes(r, 0) <= Left(context)
  <2>1. c.lines = Append(lines, cut) /\ c.full
    BY <1>5, <1>8, <1>15 DEF ContextKind, lines
  <2>2. \A k \in DOMAIN c.lines : c.lines[k].index + 3 * k <= c.checks
    BY <1>6, <1>11, <1>15, <2>1
  <2> QED
    BY <1>12, <2>1, <2>2 DEF Counted
<1>16. CASE /\ ~Passes(context, i) /\ ~(LineBytes(r) <= Left(context))
            /\ ~(TruncatedBytes(r, 0) <= Left(context))
  <2>1. c.lines = lines /\ c.full
    BY <1>5, <1>8, <1>16 DEF ContextKind, lines
  <2> QED
    BY <1>10, <1>12, <2>1 DEF Counted
<1> QED
  BY <1>13, <1>14, <1>15, <1>16

\* One result of the loop.
LEMMA ConsiderSound ==
  ASSUME ResponseKinds, NEW context \in ContextKind, NEW i \in 1..Len(response.results),
         LoopSound(context, i - 1)
  PROVE  LoopSound(Consider(context, i), i)
<1> DEFINE checks == context.checks + Checks(context, i)
           fitted == Fitted(context, i)
           c == Consider(context, i)
           malformed == response.results[i].form = "malformed"
           size == Len(Chars[response.results[i].memory])
<1>1. c = IF context.full \/ context.failed THEN context
          ELSE IF malformed \/ checks >= response.late THEN [context EXCEPT !.failed = TRUE]
          ELSE [fitted EXCEPT !.checks = checks]
  BY DEF Consider
<1>2. fitted \in ContextKind
  BY FittedKept
<1>3. i \in Nat \ {0} /\ i \in DOMAIN response.results /\ response.late \in Nat
  BY DEF ResponseKinds
<1>4. i - 1 \in Nat /\ 1..(i - 1) \subseteq 1..i
  BY <1>3
<1> HIDE DEF c
<1>5. CASE context.failed
  <2>1. c = context
    BY <1>1, <1>5
  <2> QED
    BY <1>5, <2>1 DEF LoopSound, c
<1>6. CASE ~context.failed /\ context.full
  <2>1. c = context
    BY <1>1, <1>6
  <2>2. ContextSound(context, i - 1) /\ Counted(context, i - 1)
    BY <1>6 DEF LoopSound
  <2>3. ContextSound(context, i)
    BY <1>6, <2>2, FullSound
  <2>4. Counted(context, i)
    BY <1>4, <1>6, <2>2 DEF Counted
  <2> QED
    BY <1>6, <2>1, <2>3, <2>4 DEF LoopSound, c
<1>7. CASE ~context.failed /\ ~context.full /\ (malformed \/ checks >= response.late)
  <2>1. c = [context EXCEPT !.failed = TRUE]
    BY <1>1, <1>7
  <2>2. c.failed
    BY <2>1 DEF ContextKind
  <2>3. CASE malformed
    BY <1>3, <2>2, <2>3 DEF LoopSound, Excused, c
  <2>4. CASE checks >= response.late
    <3>1. context.checks <= 4 * (i - 1) /\ context.checks \in Nat
      BY <1>7 DEF LoopSound, Counted, ContextKind
    <3>2. Checks(context, i) \in Nat /\ size \in Nat /\ Checks(context, i) <= size + 5
      BY ChecksAre
    <3> HIDE DEF size
    <3>3. checks \in Nat /\ checks <= 4 * i + size + 1
      BY <1>3, <3>1, <3>2
    <3>4. checks + 1 >= response.late
      BY <1>3, <2>4, <3>3
    <3> HIDE DEF checks
    <3>5. Excused
      BY <3>3, <3>4, LateIsExcused DEF size
    <3> QED
      BY <2>2, <3>5 DEF LoopSound, c
  <2> QED
    BY <1>7, <2>3, <2>4
<1>8. CASE ~context.failed /\ ~context.full /\ ~(malformed \/ checks >= response.late)
  <2>1. c = [fitted EXCEPT !.checks = checks]
    BY <1>1, <1>8
  <2>2. /\ c.lines = fitted.lines /\ c.bytes = fitted.bytes /\ c.seen = fitted.seen
        /\ c.full = fitted.full /\ c.checks = checks /\ c.failed = fitted.failed
    <3> HIDE DEF fitted, checks
    <3> QED
      BY <1>2, <2>1 DEF ContextKind
  <2>3. ContextSound(context, i - 1) /\ Counted(context, i - 1)
    BY <1>8 DEF LoopSound
  <2>4. ContextSound(fitted, i)
    BY <1>8, <2>3, FittedSound
  <2>5. ContextSound(c, i)
    <3> HIDE DEF fitted
    <3> QED
      BY <2>2, <2>4, PartsMatter
  <2>6. Counted(c, i)
    BY <1>8, <2>2, <2>3, FittedCounted
  <2>7. LoopSound(context, i - 1) /\ fitted.failed = context.failed
    BY FittedIs DEF ContextKind
  <2>8. ~c.failed
    BY <1>8, <2>2, <2>7
  <2> QED
    BY <2>5, <2>6, <2>8 DEF LoopSound, c
<1> QED
  BY <1>5, <1>6, <1>7, <1>8

\* The whole loop leaves the context sound.
LEMMA ContextIsSound ==
  ASSUME ResponseKinds
  PROVE  LET N == Len(response.results) IN
         Contexts[N] \in ContextKind /\ LoopSound(Contexts[N], N)
<1> DEFINE N == Len(response.results)
           sound == {i \in 0..N : LoopSound(Contexts[i], i)}
<1>1. N \in Nat
  BY DEF ResponseKinds
<1>2. /\ Contexts \in [0..N -> ContextKind] /\ Contexts[0] = Empty
      /\ \A i \in 1..N : Contexts[i] = Consider(Contexts[i - 1], i)
  BY ContextsAre
<1>3. 0 \in sound
  <2>1. /\ Empty.lines = <<>> /\ Empty.bytes = 0 /\ Empty.seen = {} /\ Empty.full = FALSE
        /\ Empty.checks = 0 /\ Empty.failed = FALSE
    BY DEF Empty
  <2>2. DOMAIN Empty.lines = {}
    BY <2>1
  <2>3. WithinBudget(Empty, 0)
    BY <2>1, SpentIs DEF WithinBudget
  <2>4. InRankOrder(Empty.lines, 0) /\ NoneRepeated(Empty.lines) /\ CutLongest(Empty.lines)
        /\ ResultsShown(Empty)
    BY <2>2 DEF InRankOrder, NoneRepeated, CutLongest, ResultsShown
  <2>5. StillOpen(Empty, 0)
    <3>1. 1..0 = {}
      OBVIOUS
    <3> QED
      BY <2>1, <2>2, <3>1 DEF StillOpen, AllWhole, AllDone
  <2>6. Counted(Empty, 0)
    <3>1. Len(<<>>) = 0
      OBVIOUS
    <3> QED
      BY <2>1, <2>2, <3>1 DEF Counted
  <2>7. ContextSound(Empty, 0)
    BY <2>1, <2>3, <2>4, <2>5 DEF ContextSound
  <2> QED
    BY <1>1, <1>2, <2>1, <2>6, <2>7 DEF LoopSound
<1>4. ASSUME NEW i \in 1..N, i - 1 \in sound PROVE i \in sound
  <2>1. i - 1 \in 0..N /\ i \in 0..N
    BY <1>1
  <2>2. Contexts[i - 1] \in ContextKind /\ Contexts[i] = Consider(Contexts[i - 1], i)
    BY <1>2, <2>1
  <2>3. LoopSound(Contexts[i - 1], i - 1)
    BY <1>4
  <2> QED
    BY <2>1, <2>2, <2>3, ConsiderSound
<1>5. N \in sound
  <2> HIDE DEF sound, N
  <2>1. N \in 0..N
    BY <1>1
  <2> QED
    BY <1>1, <1>3, <1>4, <2>1, RangeInduction
<1>6. N \in 0..N
  BY <1>1
<1> QED
  BY <1>2, <1>5, <1>6

\* Of one result, shown twice as different evidence, the handles were given up
\* the second time.
LEMMA HandlesGivenUp ==
  ASSUME NEW x \in Result, NEW a \in Int, NEW b \in Int, b <= a,
         Fingerprint(WithoutCrowding(x, a)) # Fingerprint(WithoutCrowding(x, b))
  PROVE  WithoutCrowding(x, a).attachments # 0 /\ WithoutCrowding(x, b).attachments = 0
<1> DEFINE plain == [x EXCEPT !.attachments = 0]
           Crowded(n) == x.attachments # 0 /\ LineBytes(x) > n
<1>1. WithoutCrowding(x, a) = (IF Crowded(a) THEN plain ELSE x)
      /\ WithoutCrowding(x, b) = (IF Crowded(b) THEN plain ELSE x)
  BY DEF WithoutCrowding
<1>2. plain.attachments = 0
  BY DEF Result
<1>3. Crowded(a) => Crowded(b)
  <2>1. LineBytes(x) \in Nat
    BY BeginningsGrow
  <2> QED
    BY <2>1
<1>4. Crowded(b) => x.attachments # 0
  OBVIOUS
<1> HIDE DEF plain, Crowded
<1>5. ~Crowded(a) /\ Crowded(b)
  BY <1>1, <1>3
<1> QED
  BY <1>1, <1>2, <1>4, <1>5

\* A context that shows nothing shows nothing twice, and nothing too late.
LEMMA NothingIsShown == RecallContext = <<>> => NothingTwice /\ NothingLate
<1>1. DOMAIN <<>> = {}
  OBVIOUS
<1> QED
  BY <1>1 DEF NothingTwice, NothingLate

\* A sound context shows nothing twice.
LEMMA SoundShowsOnce ==
  ASSUME ResponseKinds, NEW c \in ContextKind, ContextSound(c, Len(response.results)),
         RecallContext = c.lines
  PROVE  NothingTwice
<1> DEFINE lines == c.lines
           N == Len(response.results)
           RoomFor(k) == Available(lines, lines[k].index)
<1>1. N \in Nat /\ MaxResults + 1 \in Nat /\ MaxResults + 1 > N
  BY RecallContextAssumption DEF ResponseKinds
<1>2. c.bytes \in Nat /\ response.budget \in Int /\ lines \in Seq(LineKind)
  BY DEF ContextKind, ResponseKinds
<1>3. /\ InRankOrder(lines, N) /\ WithinBudget(c, N) /\ NoneRepeated(lines)
      /\ \A k \in DOMAIN lines : /\ response.results[lines[k].index].form = "sound"
                                 /\ lines[k].record = Evidence(lines, lines[k].index)
      /\ \A k, l \in DOMAIN lines : k < l => RoomFor(l) <= RoomFor(k)
  BY DEF ContextSound, ResultsShown
<1>4. \A k \in DOMAIN lines : lines[k].index \in 1..N
  BY <1>3 DEF InRankOrder
<1> HIDE DEF N, lines
<1>5. lines # <<>> => SpentBefore(lines, MaxResults + 1) - 1 <= response.budget
  <2> SUFFICES ASSUME lines # <<>>
               PROVE  SpentBefore(lines, MaxResults + 1) - 1 <= response.budget
    OBVIOUS
  <2>1. c.bytes <= response.budget
    BY <1>3 DEF WithinBudget, lines
  <2>2. SpentBefore(lines, MaxResults + 1) = c.bytes + 1
    BY <1>1, <1>3 DEF WithinBudget, lines
  <2> QED
    BY <1>2, <2>1, <2>2
<1>6. ASSUME NEW k \in DOMAIN lines, NEW l \in DOMAIN lines, k < l
      PROVE  /\ lines[k].index < lines[l].index
             /\ Fingerprint(lines[k].record) # Fingerprint(lines[l].record)
             /\ response.results[lines[k].index] = response.results[lines[l].index]
                  => lines[k].record.attachments # 0 /\ lines[l].record.attachments = 0
  <2>1. /\ lines[k].index < lines[l].index
        /\ Fingerprint(lines[k].record) # Fingerprint(lines[l].record)
    BY <1>3, <1>6 DEF InRankOrder, NoneRepeated
  <2>2. ASSUME response.results[lines[k].index] = response.results[lines[l].index]
        PROVE  lines[k].record.attachments # 0 /\ lines[l].record.attachments = 0
    <3> DEFINE x == response.results[lines[k].index]
               a == RoomFor(k)
               b == RoomFor(l)
    <3>1. x \in Result
      BY <1>4 DEF ResponseKinds, N
    <3>2. a \in Int /\ b \in Int
      <4>1. \A j \in Nat : Available(lines, j) \in Int
        BY <1>2, RoomIsNumber
      <4>2. lines[k].index \in Nat /\ lines[l].index \in Nat
        BY <1>1, <1>4
      <4> QED
        BY <4>1, <4>2
    <3>3. b <= a
      BY <1>3, <1>6
    <3>4. lines[k].record = WithoutCrowding(x, a) /\ lines[l].record = WithoutCrowding(x, b)
      BY <1>3, <2>2 DEF Evidence
    <3> HIDE DEF x, a, b
    <3> QED
      BY <2>1, <3>1, <3>2, <3>3, <3>4, HandlesGivenUp
  <2> QED
    BY <2>1, <2>2
<1>7. RecallContext = lines
  BY DEF lines
<1> QED
  BY <1>3, <1>5, <1>6, <1>7 DEF NothingTwice

\* The least of a set of numbers.
LEMMA MinIs ==
  ASSUME NEW S \in SUBSET Int, NEW e \in S, \A i \in S : e <= i
  PROVE  Min(S) = e
<1>1. \A x \in S : (\A y \in S : x <= y) => x = e
  <2> SUFFICES ASSUME NEW x \in S, \A y \in S : x <= y PROVE x = e
    OBVIOUS
  <2>1. x <= e /\ e <= x /\ x \in Int /\ e \in Int
    OBVIOUS
  <2> QED
    BY <2>1
<1> QED
  BY <1>1 DEF Min

\* A sound context uses the room there is.
LEMMA SoundUsesRoom ==
  ASSUME ResponseKinds, NEW c \in ContextKind, ContextSound(c, Len(response.results)),
         RecallContext = c.lines
  PROVE  RoomIsUsed
<1> DEFINE lines == RecallContext
           cut == {lines[k].index : k \in {j \in DOMAIN lines : ~Whole(lines[j])}}
           unseen == {i \in DOMAIN response.results : ~Shown(lines, i) /\ ~Dropped(lines, i)}
           ended == cut \cup (IF cut = {} /\ unseen # {} THEN {Min(unseen)} ELSE {})
           N == Len(response.results)
           Longest(line) == LET r == line.record  n == line.chars IN
             n < Len(Chars[r.memory]) => TruncatedBytes(r, n + 1) > Available(lines, line.index)
<1>1. N \in Nat /\ DOMAIN response.results = 1..N
  BY DEF ResponseKinds
<1>2. /\ CutLongest(lines)
      /\ IF c.full THEN \E e \in 1..N : EndedAt(lines, e)
         ELSE StillOpen(c, N)
  BY DEF ContextSound
<1>3. \A k \in DOMAIN lines : ~Whole(lines[k]) => Longest(lines[k])
  BY <1>2 DEF CutLongest
<1>4. RoomIsUsed <=>
        /\ \A i \in unseen : \E e \in ended : e <= i
        /\ \A i \in ended \ cut : NoRoom(lines, i)
        /\ \A e \in ended, k \in DOMAIN lines : lines[k].index <= e
        /\ \A k \in DOMAIN lines : ~Whole(lines[k]) => Longest(lines[k])
  BY DEF RoomIsUsed
<1> HIDE DEF N, Longest
<1>5. CASE ~c.full
  <2>1. cut = {} /\ AllDone(lines, 1..N)
    BY <1>2, <1>5 DEF StillOpen, AllWhole
  <2>2. unseen = {}
    BY <1>1, <2>1 DEF AllDone
  <2>3. ended = {}
    BY <2>1, <2>2
  <2> HIDE DEF unseen, ended, cut, lines
  <2> QED
    BY <1>3, <1>4, <2>2, <2>3
<1>6. CASE c.full
  <2>1. PICK e \in 1..N : EndedAt(lines, e)
    BY <1>2, <1>6
  <2>2. /\ AllDone(lines, 1..(e - 1))
        /\ \A k \in DOMAIN lines : lines[k].index <= e
        /\ CutAt(lines, e) \/ NoRoomAt(lines, e)
    BY <2>1 DEF EndedAt
  <2>3. e \in Int /\ unseen \subseteq Int
    BY <1>1
  <2>4. ASSUME NEW i \in unseen PROVE e <= i
    <3>1. i \in 1..N /\ ~(Shown(lines, i) \/ Dropped(lines, i))
      BY <1>1
    <3>2. i \notin 1..(e - 1)
      BY <2>2, <3>1 DEF AllDone
    <3> QED
      BY <1>1, <3>1, <3>2
  <2>5. ended = {e} /\ (e \in cut \/ NoRoom(lines, e))
    <3>1. CASE CutAt(lines, e)
      <4>1. cut = {e}
        BY <3>1 DEF CutAt
      <4> HIDE DEF cut, unseen
      <4> QED
        BY <4>1
    <3>2. CASE NoRoomAt(lines, e)
      <4>1. cut = {}
        BY <3>2 DEF NoRoomAt, AllWhole
      <4>2. e \in unseen /\ NoRoom(lines, e)
        BY <1>1, <3>2 DEF NoRoomAt
      <4>3. Min(unseen) = e
        <5> HIDE DEF unseen
        <5> QED
          BY <2>3, <2>4, <4>2, MinIs
      <4> HIDE DEF cut, unseen
      <4> QED
        BY <4>1, <4>2, <4>3
    <3> QED
      BY <2>2, <3>1, <3>2
  <2> HIDE DEF unseen, ended, cut, lines
  <2> QED
    BY <1>3, <1>4, <2>2, <2>4, <2>5
<1> QED
  BY <1>5, <1>6

\* The context is the best there is for every response.
THEOREM RoomIsSpentBest == ResponseKinds => ContextIsBest
<1> SUFFICES ASSUME ResponseKinds PROVE ContextIsBest
  OBVIOUS
<1> DEFINE N == Len(response.results)
           c == Contexts[N]
<1>1. c \in ContextKind /\ LoopSound(c, N)
  BY ContextIsSound
<1>2. RecallContext = IF c.failed \/ c.checks + 1 >= response.late THEN <<>> ELSE c.lines
  BY DEF RecallContext, Fails
<1>3. N \in Nat /\ response.late \in Nat /\ c.checks \in Nat
  BY <1>1 DEF ResponseKinds, ContextKind
<1> HIDE DEF c
<1>4. CASE ~c.failed /\ ~(c.checks + 1 >= response.late)
  <2>1. RecallContext = c.lines /\ ContextSound(c, N) /\ Counted(c, N)
    BY <1>1, <1>2, <1>4 DEF LoopSound
  <2>2. NothingTwice /\ RoomIsUsed
    BY <1>1, <2>1, SoundShowsOnce, SoundUsesRoom
  <2>3. ASSUME NEW k \in DOMAIN RecallContext
        PROVE  RecallContext[k].index + 3 * k + 1 < response.late
    <3>1. c.lines[k].index + 3 * k <= c.checks
      BY <2>1 DEF Counted
    <3>2. c.lines[k].index \in Nat /\ k \in Nat
      <4> DEFINE lines == c.lines
      <4>1. lines \in Seq(LineKind) /\ k \in DOMAIN lines
        BY <1>1, <2>1 DEF ContextKind
      <4> HIDE DEF lines
      <4>2. lines[k] \in LineKind /\ k \in Nat
        BY <4>1
      <4> QED
        BY <4>2 DEF LineKind, lines
    <3> QED
      BY <1>3, <1>4, <2>1, <3>1, <3>2
  <2>4. NothingLate
    BY <2>3 DEF NothingLate
  <2> QED
    BY <2>2, <2>4 DEF ContextIsBest
<1>5. CASE (c.failed \/ c.checks + 1 >= response.late) /\ N = 0
  <2>1. c = Empty
    BY <1>5, ContextsAre DEF c
  <2>2. RecallContext = c.lines /\ ~c.failed
    BY <1>2, <1>5, <2>1 DEF Empty
  <2>3. ContextSound(c, N)
    BY <1>1, <2>2 DEF LoopSound
  <2>4. RoomIsUsed
    BY <1>1, <2>2, <2>3, SoundUsesRoom
  <2> QED
    BY <1>2, <1>5, <2>4, NothingIsShown DEF ContextIsBest
<1>6. CASE (c.failed \/ c.checks + 1 >= response.late) /\ N # 0
  <2>1. Excused
    <3>1. CASE c.failed
      BY <1>1, <3>1 DEF LoopSound
    <3>2. CASE ~c.failed
      <4>1. Counted(c, N) /\ c.checks + 1 >= response.late
        BY <1>1, <1>6, <3>2 DEF LoopSound
      <4>2. PICK e \in 1..N : c.checks <= 4 * e + Len(Chars[response.results[e].memory]) + 1
        <5>1. CASE c.full
          BY <4>1, <5>1 DEF Counted
        <5>2. CASE ~c.full
          <6> DEFINE size == Len(Chars[response.results[N].memory])
          <6>1. N \in 1..N
            BY <1>3, <1>6
          <6>2. response.results[N] \in Result
            BY <6>1 DEF ResponseKinds
          <6>3. size \in Nat
            BY <6>2, BeginningsGrow
          <6>4. c.checks <= 4 * N
            BY <4>1, <5>2 DEF Counted
          <6> HIDE DEF size, N
          <6>5. c.checks <= 4 * N + size + 1
            BY <1>3, <6>3, <6>4
          <6> QED
            BY <6>1, <6>5 DEF size
        <5> QED
          BY <5>1, <5>2
      <4> QED
        BY <1>3, <4>1, <4>2, LateIsExcused
    <3> QED
      BY <3>1, <3>2
  <2> QED
    BY <1>2, <1>6, <2>1, NothingIsShown DEF ContextIsBest
<1> QED
  BY <1>4, <1>5, <1>6

-----------------------------------------------------------------------------
(***************************************************************************)
(* Each behaviour runs one part; the others stand still.                   *)
(***************************************************************************)
\* The files and the attachments keep their invariants; the functions keep
\* their inputs.
LocalInv == FileInv /\ AttachmentInv /\ DelayKinds /\ TurnKinds /\ ResponseKinds

\* It holds of every input and every file.
LEMMA LocalBegins == Init => LocalInv
<1> SUFFICES ASSUME Init PROVE LocalInv
  OBVIOUS
<1>1. DelayKinds
  <2>1. BackoffInit \/ delay = LeastDelay
    BY DEF Init
  <2>2. BackoffInit => DelayKinds
    BY BackoffAssumption DEF BackoffInit, DelayKinds
  <2>3. delay = LeastDelay => DelayKinds
    BY DEF LeastDelay, DelayKinds
  <2> QED
    BY <2>1, <2>2, <2>3
<1>2. TurnKinds
  <2>1. RetainedTurnInit \/ turn = LeastTurn
    BY DEF Init
  <2>2. RetainedTurnInit => TurnKinds
    BY RetainedTurnAssumption DEF RetainedTurnInit, TurnKinds
  <2>3. ASSUME turn = LeastTurn PROVE TurnKinds
    <3> DEFINE text == <<Piece(0, 1)>>
    <3>1. Piece(0, 1) \in Paragraph /\ ~Piece(0, 1).blank
      <4>1. (1 = 0) = FALSE
        OBVIOUS
      <4>2. Piece(0, 1) = [separator |-> 0, bytes |-> 1, blank |-> FALSE]
        BY <4>1, Zenon DEF Piece
      <4>3. \A b \in BOOLEAN : [separator |-> 0, bytes |-> 1, blank |-> b] \in Paragraph
        BY DEF Paragraph
      <4>4. Piece(0, 1) \in Paragraph
        BY <4>2, <4>3, Zenon
      <4>5. ~Piece(0, 1).blank
        BY <4>2
      <4> QED
        BY <4>4, <4>5
    <3>2. text \in Seq(Paragraph) /\ \E i \in DOMAIN text : ~text[i].blank
      BY <3>1
    <3>3. /\ turn.user = text /\ turn.assistant = text /\ turn.prefix = 0
          /\ turn.limits = [segment_max_bytes |-> 8, max_pending_rows |-> 1,
                            max_pending_bytes |-> 9]
      BY <2>3 DEF LeastTurn
    <3> HIDE DEF text
    <3> QED
      BY <3>2, <3>3 DEF TurnKinds
  <2> QED
    BY <2>1, <2>2, <2>3
<1>3. ResponseKinds
  <2>1. RecallContextInit \/ response = LeastResponse
    BY DEF Init
  <2>2. RecallContextInit => ResponseKinds
    <3> SUFFICES ASSUME RecallContextInit PROVE ResponseKinds
      OBVIOUS
    <3>1. PICK n \in 0..MaxResults : response \in [results : [1..n -> Received], budget : Budgets, late : Lateness]
      BY DEF RecallContextInit
    <3>2. /\ n \in Nat /\ n <= MaxResults /\ Budgets \subseteq Int /\ Lateness \subseteq Nat
          /\ Received \subseteq Result
      BY RecallContextAssumption
    <3>3. /\ response.results \in [1..n -> Result] /\ response.budget \in Int
          /\ response.late \in Nat
      BY <3>1, <3>2
    <3>4. response.results \in Seq(Result) /\ Len(response.results) = n
      <4> DEFINE results == response.results
      <4>1. Seq(Result) = UNION {[1..k -> Result] : k \in Nat}
        BY SeqDef
      <4>2. results \in [1..n -> Result] /\ n \in Nat
        BY <3>2, <3>3
      <4> HIDE DEF results
      <4>3. results \in Seq(Result)
        BY <4>1, <4>2, Zenon
      <4>4. DOMAIN results = 1..n
        BY <4>2
      <4>5. Len(results) = n
        BY <4>2, <4>3, <4>4
      <4> QED
        BY <4>3, <4>5 DEF results
    <3> QED
      BY <3>2, <3>3, <3>4 DEF ResponseKinds
  <2>3. response = LeastResponse => ResponseKinds
    BY RecallContextAssumption DEF LeastResponse, ResponseKinds
  <2> QED
    BY <2>1, <2>2, <2>3
<1> QED
  BY <1>1, <1>2, <1>3, FilesBegin, AttachmentsBegin DEF Init, LocalInv

\* A step of a part is a step of the part's own module.
LEMMA LocalSteps ==
  [Next]_vars => /\ [OutboxFileNext]_outboxFileVars /\ [BinaryRowNext]_binaryRowVars
                 /\ UNCHANGED functions
BY DEF Next, vars, functions

\* Every step keeps it.
LEMMA LocalKeeps == LocalInv /\ [Next]_vars => LocalInv'
<1> SUFFICES ASSUME LocalInv, [Next]_vars PROVE LocalInv'
  OBVIOUS
<1>1. FileInv'
  BY LocalSteps, FilesStep DEF LocalInv
<1>2. AttachmentInv'
  BY LocalSteps, AttachmentsStep DEF LocalInv
<1>3. DelayKinds'
  BY LocalSteps DEF LocalInv, DelayKinds, functions
<1>4. TurnKinds' /\ ResponseKinds'
  BY LocalSteps DEF LocalInv, TurnKinds, ResponseKinds, functions
<1> QED
  BY <1>1, <1>2, <1>3, <1>4 DEF LocalInv

\* The inductive invariant of the local machine.
THEOREM LocalInvariant == Spec => []LocalInv
BY LocalBegins, LocalKeeps, PTL DEF Spec

\* Once an owner of a newer lock file has moved a row, an older owner moves no
\* other (_owner_descriptor inside the transaction).
THEOREM OwnersAreFenced == Spec => StaleOwnersAreFenced
<1>1. LocalInv /\ [Next]_vars => [committed' >= committed]_committed
  BY LocalSteps, CommitsInOrder DEF LocalInv
<1> QED
  BY <1>1, LocalInvariant, PTL DEF Spec, StaleOwnersAreFenced

\* Every variable of the files and their locks holds a value of its kind
\* (SQLiteOutbox, ProfileLockOwner).
THEOREM FileTypes == Spec => []OutboxFileTypeOK
<1>1. LocalInv /\ LocalInv' /\ HolderKinds /\ [Next]_vars => HolderKinds'
  BY LocalSteps, HoldersStep DEF LocalInv
<1>2. Init => HolderKinds
  BY HoldersBegin DEF Init
<1>3. LocalInv /\ HolderKinds => OutboxFileTypeOK
  BY OutboxFileAssumption
     DEF LocalInv, FileInv, Fenced, SchemaIsOurs, HolderKinds, OutboxFileTypeOK, File, NoFile
<1> QED
  BY <1>1, <1>2, <1>3, LocalInvariant, PTL DEF Spec

\* The schema of a later release is never overwritten (_initialize_schema).
THEOREM SchemaAdvances == Spec => SchemaOnlyAdvances
<1>1. LocalInv /\ [Next]_vars => [version' >= version]_version
  BY LocalSteps, CommitsInOrder DEF LocalInv
<1> QED
  BY <1>1, LocalInvariant, PTL DEF Spec, SchemaOnlyAdvances

\* An attachment is the content of its file at one moment (_read_local).
THEOREM AttachmentsAreWhole == Spec => SnapshotIsWhole
<1>1. LocalInv /\ [Next]_vars => [Len(parts') > Len(parts) => data \in held]_binaryRowVars
  BY LocalSteps, AddsWhole DEF LocalInv
<1> QED
  BY <1>1, LocalInvariant, PTL DEF Spec, SnapshotIsWhole

\* A row the fingerprint lets through decodes, whatever the policy became.
THEOREM RowsDecodeWhenClaimed == Spec => []ClaimedRowsDecode
<1>1. LocalInv => ClaimedRowsDecode
  BY RowsDecode DEF LocalInv, AttachmentInv
<1> QED
  BY <1>1, LocalInvariant, PTL

\* Retries are spaced by the capped doubling, in every behaviour.
THEOREM DelaysAreCapped == Spec => []DelayIsCapped
<1>1. LocalInv => DelayIsCapped
  BY DelayIsDoubled DEF LocalInv
<1> QED
  BY <1>1, LocalInvariant, PTL

\* A turn is rejected only when no way to cut it fits, and is cut into the
\* fewest contents, each within the limit, otherwise (_semantic_contents).
THEOREM PackingStaysBest == Spec => []PackingIsBest
<1>1. LocalInv => PackingIsBest
  BY TurnsArePackedBest DEF LocalInv
<1> QED
  BY <1>1, LocalInvariant, PTL

\* The prompt shows no evidence twice and leaves out none there is room for, or
\* shows nothing, because a result is malformed or the deadline was reached
\* (format_recall_context_with_selected_results_and_provenance).
THEOREM ContextStaysBest == Spec => []ContextIsBest
<1>1. LocalInv => ContextIsBest
  BY RoomIsSpentBest DEF LocalInv
<1> QED
  BY <1>1, LocalInvariant, PTL
=============================================================================
