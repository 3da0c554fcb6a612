------------------------------- MODULE UUCPLock -------------------------------
(***************************************************************************)
(* The UUCP lock file of a modem (faxd/UUCPLock.c++), by which faxq,       *)
(* faxgetty, faxsend and foreign programs keep off each other's calls.     *)
(*                                                                         *)
(* lock() makes a file of its own and links it to the name of the lock.    *)
(* If that fails it looks at the lock that is there, removes it if it is   *)
(* stale, and links again.  The file system calls of lock() and check()    *)
(* are steps of their own, since the processes run them concurrently.      *)
(* A file is known here by the process whose pid it holds.  A process that *)
(* dies is replaced by a new one, which takes the name of the old one.     *)
(***************************************************************************)
EXTENDS Naturals

CONSTANTS
  Processes,   \* who locks this modem
  NoFile,      \* no lock file exists
  LockTimeout  \* configuration: lockTimeout > 0, stale locks may be purged

ASSUME LockConstants ==
  /\ NoFile \notin [owner : Processes, alive : BOOLEAN, newer : BOOLEAN]
  /\ LockTimeout \in BOOLEAN

VARIABLES
  file,    \* what the name of the lock leads to
  pc,      \* where each process is in lock()
  opened,  \* the file that check() has opened
  locked,  \* UUCPLock::locked
  died     \* history: some process has ended

vars == <<file, pc, opened, locked, died>>

\* alive: its owner exists; newer: it is younger than lockTimeout.
LockFile == [owner : Processes, alive : BOOLEAN, newer : BOOLEAN]
NewFile(p) == [owner |-> p, alive |-> TRUE, newer |-> TRUE]

Goto(p, step) == pc' = [pc EXCEPT ![p] = step]

-----------------------------------------------------------------------------
\* Mutant: the lock file is written in place, over one that is there.
CreateOver(p, step) ==
  /\ file' = NewFile(p) /\ locked' = [locked EXCEPT ![p] = TRUE] /\ Goto(p, "idle")

\* create: link(2) succeeds for one process only.
Create(p, step) ==
  \/ /\ file = NoFile
     /\ file' = NewFile(p) /\ locked' = [locked EXCEPT ![p] = TRUE]
     /\ Goto(p, "idle")
  \/ /\ file # NoFile
     /\ Goto(p, step)
     /\ UNCHANGED <<file, locked>>

\* lock: nothing if the process has it already.
Lock(p) ==
  /\ pc[p] = "idle" /\ ~locked[p]
  /\ Create(p, "check")
  /\ UNCHANGED <<opened, died>>

\* check: open the lock file.  Without a lock timeout none is ever stale.
CheckOpen(p) ==
  /\ pc[p] = "check"
  /\ opened' = [opened EXCEPT ![p] = IF file # NoFile /\ LockTimeout THEN file ELSE @]
  /\ Goto(p, IF file = NoFile THEN "create" ELSE IF LockTimeout THEN "stat" ELSE "idle")
  /\ UNCHANGED <<file, locked, died>>

\* isNewer: stat(2) by name; the lock may be gone or another by now.
CheckNewer(p) ==
  /\ pc[p] = "stat"
  /\ Goto(p, IF file # NoFile /\ file.newer THEN "idle" ELSE "owner")
  /\ UNCHANGED <<file, opened, locked, died>>

\* Mutant: kill(2) is taken to have found the owner whatever it returned.
OwnerExistsAlways(p) == TRUE

\* ownerExists: the pid is read from the file that was opened.
OwnerExists(p) == opened[p].alive

CheckOwner(p) ==
  /\ pc[p] = "owner"
  /\ Goto(p, IF OwnerExists(p) THEN "idle" ELSE "purge")
  /\ UNCHANGED <<file, opened, locked, died>>

\* The lock is stale: unlink(2) by name, and create again.
Purge(p) ==
  /\ pc[p] = "purge"
  /\ Goto(p, IF file = NoFile THEN "idle" ELSE "create")
  /\ file' = NoFile
  /\ UNCHANGED <<opened, locked, died>>

CreateAgain(p) ==
  /\ pc[p] = "create"
  /\ Create(p, "idle")
  /\ UNCHANGED <<opened, died>>

Unlock(p) ==
  /\ pc[p] = "idle" /\ locked[p]
  /\ file' = NoFile
  /\ locked' = [locked EXCEPT ![p] = FALSE]
  /\ UNCHANGED <<pc, opened, died>>

\* The process p ends, with the lock or between two locks, and a new one
\* takes its place.
Die(p) ==
  LET orphan(f) == IF f.owner = p THEN [f EXCEPT !.alive = FALSE] ELSE f
  IN /\ pc[p] = "idle"
     /\ file' = IF file = NoFile THEN file ELSE orphan(file)
     /\ opened' = [q \in Processes |-> orphan(opened[q])]
     /\ locked' = [locked EXCEPT ![p] = FALSE]
     /\ died' = TRUE
     /\ UNCHANGED pc

\* The lock file grows older than lockTimeout.
Age ==
  /\ file # NoFile /\ file.newer
  /\ file' = [file EXCEPT !.newer = FALSE]
  /\ UNCHANGED <<pc, opened, locked, died>>

Init ==
  /\ file = NoFile
  /\ pc = [p \in Processes |-> "idle"]
  /\ opened = [p \in Processes |-> NewFile(p)]
  /\ locked = [p \in Processes |-> FALSE]
  /\ died = FALSE

Attempt(p) ==
  Lock(p) \/ CheckOpen(p) \/ CheckNewer(p) \/ CheckOwner(p) \/ Purge(p) \/ CreateAgain(p)

Next == Age \/ \E p \in Processes : Attempt(p) \/ Unlock(p) \/ Die(p)

Spec == Init /\ [][Next]_vars

\* Someone keeps trying to lock the modem, and time passes.
FairSpec == Spec /\ WF_vars(Age) /\ \A p \in Processes : WF_vars(Attempt(p))

-----------------------------------------------------------------------------
\* Every variable keeps its type.
TypeOK ==
  /\ file \in LockFile \cup {NoFile}
  /\ pc \in [Processes -> {"idle", "check", "stat", "owner", "purge", "create"}]
  /\ opened \in [Processes -> LockFile]
  /\ locked \in [Processes -> BOOLEAN]
  /\ died \in BOOLEAN

\* At most one process has the modem.
MutualExclusion == \A p, q \in Processes : locked[p] /\ locked[q] => p = q

\* Who has the modem owns the file that says so: no one has taken it away.
LockIsMine == \A p \in Processes : locked[p] => file # NoFile /\ file.owner = p

\* No lock can be stale: they do not expire, or all their owners are alive.
NoneStale == LockTimeout => ~died

\* The lock excludes, and says who has the modem, until the first process that
\* dies where locks expire: no interleaving of the file system calls of lock,
\* check and unlock, and no lock however old, leads a process to take the
\* modem from another.
ExclusiveUntilDeath == NoneStale => MutualExclusion /\ LockIsMine

\* "Locks are automatically expired ... if the process owner is no longer
\* around" (check): the lock a dead process has left is removed.
StaleIsPurged ==
  LockTimeout => ((file # NoFile /\ ~file.alive) ~> (file = NoFile \/ file.alive))

\* What ExclusiveUntilDeath rests on: no process judges a lock stale.
NothingPurged ==
  /\ \A p \in Processes :
       /\ pc[p] # "purge"
       /\ ~LockTimeout => pc[p] \notin {"stat", "owner"}
  /\ LockTimeout => /\ file # NoFile => file.alive
                    /\ \A p \in Processes : opened[p].alive

IInv == TypeOK /\ (NoneStale => LockIsMine /\ NothingPurged)
=============================================================================
