----------------------------- MODULE OutboxFile ------------------------------
(***************************************************************************)
(* The files behind the outbox of one Hermes home (outbox.py): opening the *)
(* database and its schema, and the lock file whose owner may move rows.   *)
(*                                                                         *)
(* The lock file can be deleted or replaced under a running owner, by      *)
(* whoever cleans the directory.  The lock of the old file then excludes   *)
(* nobody, and what keeps two owners apart is the identity (device and     *)
(* inode) each transition compares.  A file is numbered by its creation    *)
(* here; an inode number is free again once no name and no descriptor      *)
(* refers to its file.  Outbox leaves all this out: there the lock itself  *)
(* excludes.                                                               *)
(***************************************************************************)
EXTENDS Naturals

CONSTANTS
  Proc,        \* processes that open the outbox and send
  Probe,       \* the status command, which probes the lock
  NoProc,      \* holds a lock when it is free
  Inode,       \* inode numbers
  MaxFiles,    \* lock files ever created; a bound
  MaxCrashes   \* processes that die; a bound

ASSUME OutboxFileAssumption ==
  /\ Probe \notin Proc /\ NoProc \notin Proc \cup {Probe}
  /\ MaxFiles \in Nat /\ MaxCrashes \in Nat /\ 0 \notin Inode

VARIABLES
  lockFile,   \* the file at profile_lock_path, NoFile when there is none
  created,    \* the number of lock files created so far
  inode,      \* the inode number of each file
  flock,      \* the process that holds the lock of each file
  version,    \* PRAGMA user_version, with the schema that belongs to it
  dbLock,     \* the process inside BEGIN IMMEDIATE
  at,         \* where each process is
  identity,   \* profile_lock_identity: the inode captured by open
  descriptor, \* the lock file a process has open
  probed,     \* the lock file the status command has open and locked
  committed,  \* the lock file of the owner that committed last (ghost)
  crashes     \* processes that died

outboxFileVars == <<lockFile, created, inode, flock, version, dbLock, at, identity, descriptor,
                    probed, committed, crashes>>
files == <<lockFile, created, inode>>

File == 1..MaxFiles
NoFile == 0
OUTBOX_SCHEMA_VERSION == 1
Newer == 2          \* the schema of a later release

ProcStep == {"closed", "files", "creating", "created", "revalidate", "open", "opened", "flocked",
             "owner", "checked", "updating", "confirmed", "lost"}

OutboxFileInit ==
  /\ lockFile = NoFile /\ created = 0
  /\ inode = [f \in File |-> 0]
  /\ flock = [f \in File |-> NoProc]
  /\ version = 0
  /\ dbLock = NoProc
  /\ at = [p \in Proc |-> "closed"]
  /\ identity = [p \in Proc |-> 0]
  /\ descriptor = [p \in Proc |-> NoFile]
  /\ probed = NoFile
  /\ committed = NoFile
  /\ crashes = 0

Step(p, from, to) ==
  /\ at[p] = from
  /\ at' = [at EXCEPT ![p] = to]

\* An inode number no name or descriptor refers to.
FreeInodes ==
  LET used == ({lockFile, probed} \cup {descriptor[p] : p \in Proc}) \ {NoFile}
  IN Inode \ {inode[f] : f \in used}

NewLockFile ==
  /\ created < MaxFiles
  /\ created' = created + 1
  /\ lockFile' = created'
  /\ \E i \in FreeInodes : inode' = [inode EXCEPT ![created'] = i]

-----------------------------------------------------------------------------
(***************************************************************************)
(* SQLiteOutbox.open.  A failure at any of its steps closes the connection *)
(* and so rolls back: OpenFails.                                           *)
(***************************************************************************)

\* _ensure_private_regular_file: creates the lock file exclusively or opens
\* the one that is there, and captures its identity.
PrepareFiles(p) ==
  /\ Step(p, "closed", "files")
  /\ IF lockFile = NoFile THEN NewLockFile ELSE UNCHANGED files
  /\ identity' = [identity EXCEPT ![p] = inode'[lockFile']]
  /\ UNCHANGED <<flock, version, dbLock, descriptor, probed, committed, crashes>>

\* _initialize_schema reads the version first without a transaction.
ReadVersion(p) ==
  /\ version \in {0, OUTBOX_SCHEMA_VERSION}
  /\ Step(p, "files", IF version = 0 THEN "creating" ELSE "revalidate")
  /\ UNCHANGED <<files, flock, version, dbLock, identity, descriptor, probed, committed, crashes>>

\* BEGIN IMMEDIATE, and the version again: another process may have created
\* the schema meanwhile, or a newer one.
CreateSchema(p) ==
  /\ Step(p, "creating", "created")
  /\ dbLock = NoProc
  /\ version \in {0, OUTBOX_SCHEMA_VERSION}
  /\ dbLock' = p
  /\ UNCHANGED <<files, flock, version, identity, descriptor, probed, committed, crashes>>

CommitSchema(p) ==
  /\ Step(p, "created", "revalidate")
  /\ version' = OUTBOX_SCHEMA_VERSION
  /\ dbLock' = NoProc
  /\ UNCHANGED <<files, flock, identity, descriptor, probed, committed, crashes>>

\* _revalidate_open_paths: the path must still name the captured file.
PathIs(p) == lockFile # NoFile /\ inode[lockFile] = identity[p]

Opened(p) ==
  /\ PathIs(p)
  /\ Step(p, "revalidate", "open")
  /\ UNCHANGED <<files, flock, version, dbLock, identity, descriptor, probed, committed, crashes>>

OpenFails(p) ==
  /\ at[p] \in {"files", "creating", "created", "revalidate"}
  /\ at' = [at EXCEPT ![p] = "closed"]
  /\ dbLock' = IF dbLock = p THEN NoProc ELSE dbLock
  /\ UNCHANGED <<files, flock, version, identity, descriptor, probed, committed, crashes>>

CloseOutbox(p) ==
  /\ Step(p, "open", "closed")
  /\ UNCHANGED <<files, flock, version, dbLock, identity, descriptor, probed, committed, crashes>>

-----------------------------------------------------------------------------
(***************************************************************************)
(* try_acquire_profile_lock and release.                                   *)
(***************************************************************************)

OpenLockFile(p) ==
  /\ Step(p, "open", "opened")
  /\ lockFile # NoFile
  /\ descriptor' = [descriptor EXCEPT ![p] = lockFile]
  /\ UNCHANGED <<files, flock, version, dbLock, identity, probed, committed, crashes>>

\* _revalidate_profile_lock_identity compares the path and the descriptor.
SameFile(p) == PathIs(p) /\ descriptor[p] # NoFile /\ inode[descriptor[p]] = identity[p]

\* Validated, and flocked without waiting.
TryFlock(p) ==
  /\ SameFile(p)
  /\ flock[descriptor[p]] = NoProc
  /\ Step(p, "opened", "flocked")
  /\ flock' = [flock EXCEPT ![descriptor[p]] = p]
  /\ UNCHANGED <<files, version, dbLock, identity, descriptor, probed, committed, crashes>>

Acquired(p) ==
  /\ SameFile(p)
  /\ Step(p, "flocked", "owner")
  /\ UNCHANGED <<files, flock, version, dbLock, identity, descriptor, probed, committed, crashes>>

Unlocked(p) == [f \in File |-> IF flock[f] = p THEN NoProc ELSE flock[f]]

\* Contended or failed; or ProfileLockOwner.release, at any time.
ReleaseLock(p) ==
  /\ at[p] \in {"opened", "flocked", "owner", "lost"}
  /\ at' = [at EXCEPT ![p] = "open"]
  /\ flock' = Unlocked(p)
  /\ descriptor' = [descriptor EXCEPT ![p] = NoFile]
  /\ UNCHANGED <<files, version, dbLock, identity, probed, committed, crashes>>

-----------------------------------------------------------------------------
(***************************************************************************)
(* An owner's transition: recover_sending, claim_due, complete_claim and   *)
(* reschedule_claim have the same frame.                                   *)
(***************************************************************************)

\* _owner_descriptor before the transaction.
CheckOwner(p) ==
  /\ SameFile(p)
  /\ Step(p, "owner", "checked")
  /\ UNCHANGED <<files, flock, version, dbLock, identity, descriptor, probed, committed, crashes>>

\* BEGIN IMMEDIATE waits for the database; the update is not visible yet.
BeginImmediate(p) ==
  /\ dbLock = NoProc
  /\ Step(p, "checked", "updating")
  /\ dbLock' = p
  /\ UNCHANGED <<files, flock, version, identity, descriptor, probed, committed, crashes>>

\* Faulty variant: the check before the transaction is trusted.
RecheckSkipped(p) ==
  /\ Step(p, "updating", "confirmed")
  /\ UNCHANGED <<files, flock, version, dbLock, identity, descriptor, probed, committed, crashes>>

\* _owner_descriptor again, inside the transaction.
RecheckOwner(p) ==
  /\ SameFile(p)
  /\ Step(p, "updating", "confirmed")
  /\ UNCHANGED <<files, flock, version, dbLock, identity, descriptor, probed, committed, crashes>>

CommitTransition(p) ==
  /\ Step(p, "confirmed", "owner")
  /\ dbLock' = NoProc
  /\ committed' = descriptor[p]
  /\ UNCHANGED <<files, flock, version, identity, descriptor, probed, crashes>>

\* A failed check or a busy database: rolled back, reported as LOCAL_FAILURE,
\* and the owner gives up.
TransitionFails(p) ==
  /\ at[p] \in {"owner", "checked", "updating", "confirmed"}
  /\ at' = [at EXCEPT ![p] = "lost"]
  /\ dbLock' = IF dbLock = p THEN NoProc ELSE dbLock
  /\ UNCHANGED <<files, flock, version, identity, descriptor, probed, committed, crashes>>

-----------------------------------------------------------------------------
(***************************************************************************)
(* The environment.                                                        *)
(***************************************************************************)

\* _probe_sender_ownership locks the file for a moment when it is free.
ProbeLocks ==
  /\ probed = NoFile /\ lockFile # NoFile
  /\ flock[lockFile] = NoProc
  /\ flock' = [flock EXCEPT ![lockFile] = Probe]
  /\ probed' = lockFile
  /\ UNCHANGED <<files, version, dbLock, at, identity, descriptor, committed, crashes>>

ProbeEnds ==
  /\ probed # NoFile
  /\ flock' = Unlocked(Probe)
  /\ probed' = NoFile
  /\ UNCHANGED <<files, version, dbLock, at, identity, descriptor, committed, crashes>>

CrashProcess(p) ==
  /\ crashes < MaxCrashes /\ at[p] # "closed"
  /\ crashes' = crashes + 1
  /\ at' = [at EXCEPT ![p] = "closed"]
  /\ dbLock' = IF dbLock = p THEN NoProc ELSE dbLock
  /\ flock' = Unlocked(p)
  /\ descriptor' = [descriptor EXCEPT ![p] = NoFile]
  /\ UNCHANGED <<files, version, identity, probed, committed>>

DeleteLockFile ==
  /\ lockFile # NoFile
  /\ lockFile' = NoFile
  /\ UNCHANGED <<created, inode, flock, version, dbLock, at, identity, descriptor, probed,
                 committed, crashes>>

\* Another file is moved to the path, which is never without one.
ReplaceLockFile ==
  /\ lockFile # NoFile
  /\ NewLockFile
  /\ UNCHANGED <<flock, version, dbLock, at, identity, descriptor, probed, committed, crashes>>

\* A later release opens the database and brings its own schema.
NewerRelease ==
  /\ dbLock = NoProc /\ version # Newer
  /\ version' = Newer
  /\ UNCHANGED <<files, flock, dbLock, at, identity, descriptor, probed, committed, crashes>>

OutboxFileNext ==
  \/ \E p \in Proc :
       \/ PrepareFiles(p) \/ ReadVersion(p) \/ CreateSchema(p) \/ CommitSchema(p) \/ Opened(p)
       \/ OpenFails(p) \/ CloseOutbox(p) \/ OpenLockFile(p) \/ TryFlock(p) \/ Acquired(p)
       \/ ReleaseLock(p) \/ CheckOwner(p) \/ BeginImmediate(p) \/ RecheckOwner(p)
       \/ CommitTransition(p) \/ TransitionFails(p) \/ CrashProcess(p)
  \/ ProbeLocks \/ ProbeEnds \/ DeleteLockFile \/ ReplaceLockFile \/ NewerRelease

OutboxFileSpec == OutboxFileInit /\ [][OutboxFileNext]_outboxFileVars

-----------------------------------------------------------------------------
(***************************************************************************)
(* Properties.                                                             *)
(***************************************************************************)

\* Every variable holds a value of its kind.
OutboxFileTypeOK ==
  /\ lockFile \in File \cup {NoFile} /\ created \in 0..MaxFiles
  /\ inode \in [File -> Inode \cup {0}]
  /\ flock \in [File -> Proc \cup {Probe, NoProc}]
  /\ version \in {0, OUTBOX_SCHEMA_VERSION, Newer}
  /\ dbLock \in Proc \cup {NoProc}
  /\ at \in [Proc -> ProcStep]
  /\ identity \in [Proc -> Inode \cup {0}]
  /\ descriptor \in [Proc -> File \cup {NoFile}]
  /\ probed \in File \cup {NoFile} /\ committed \in File \cup {NoFile}
  /\ crashes \in 0..MaxCrashes

\* Once an owner of a newer lock file has moved a row, the owner of an older
\* one never moves another (recover_sending, claim_due, complete_claim and
\* reschedule_claim check _owner_descriptor inside the transaction).
StaleOwnersAreFenced == [][committed' >= committed]_committed

\* Opening the outbox never puts its schema over that of a later release
\* (_initialize_schema reads the version again inside the transaction).
SchemaOnlyAdvances == [][version' >= version]_version
=============================================================================
