----------------------------- MODULE DaemonLock -----------------------------
(***************************************************************************)
(* The lock file that lets one daemon at a time advance a watch file.      *)
(*                                                                         *)
(* Code: acquireDaemonLock (cmd/daemon.go) and LockFile                    *)
(* (internal/util/filelock_unix.go).  flock locks the open file, not its   *)
(* name, and release removes the name after it has unlocked: between the   *)
(* two another process may have the file open, or locked.                  *)
(***************************************************************************)
EXTENDS Integers, FiniteSets, Functions

CONSTANTS
    Daemons,   \* the daemon processes; one that ended may be started again
    Files,     \* the lock files
    LockOf,    \* the lock file next to each daemon's watch file
    NoDaemon   \* the owner of an unlocked file

ASSUME LockAssumption ==
    /\ IsFiniteSet(Daemons) /\ IsFiniteSet(Files)
    /\ LockOf \in [Daemons -> Files]
    /\ NoDaemon \notin Daemons

VARIABLES
    path,   \* the inode each lock file's name stands for, or NoInode
    fd,     \* the inode each daemon has open, or NoInode
    owner   \* who holds the flock of each inode

lock == <<path, fd, owner>>

NoInode == -1

\* As many as the names and the processes can refer to, and one more.
Inodes == 0 .. (Cardinality(Files) + Cardinality(Daemons))

LockTypeOK ==
    /\ path \in [Files -> Inodes \cup {NoInode}]
    /\ fd \in [Daemons -> Inodes \cup {NoInode}]
    /\ owner \in [Inodes -> Daemons \cup {NoDaemon}]

LockInit ==
    /\ path = [f \in Files |-> NoInode]
    /\ fd = [d \in Daemons |-> NoInode]
    /\ owner = [i \in Inodes |-> NoDaemon]

\* An inode that no name and no process refers to.
Fresh == CHOOSE i \in Inodes : i \notin Range(path) \cup Range(fd)

\* os.OpenFile with O_CREATE.
OpenLock(d) ==
    LET f == LockOf[d]
        i == IF path[f] = NoInode THEN Fresh ELSE path[f]
    IN /\ path' = [path EXCEPT ![f] = i]
       /\ fd' = [fd EXCEPT ![d] = i]
       /\ UNCHANGED owner

Locked(d) == owner[fd[d]] # NoDaemon

\* Flock with LOCK_EX and LOCK_NB.
TakeLock(d) ==
    /\ ~Locked(d)
    /\ owner' = [owner EXCEPT ![fd[d]] = d]
    /\ UNCHANGED <<path, fd>>

\* It is held: the file is closed, and the process exits.
LockHeld(d) ==
    /\ Locked(d)
    /\ fd' = [fd EXCEPT ![d] = NoInode]
    /\ UNCHANGED <<path, owner>>

\* What the system does with the descriptor: unlock and close.
DropLock(d) ==
    /\ owner' = [i \in Inodes |-> IF owner[i] = d THEN NoDaemon ELSE owner[i]]
    /\ fd' = [fd EXCEPT ![d] = NoInode]
    /\ UNCHANGED path

\* os.Remove takes whatever file has the name by now.
RemoveLock(d) ==
    /\ path' = [path EXCEPT ![LockOf[d]] = NoInode]
    /\ UNCHANGED <<fd, owner>>

=============================================================================
