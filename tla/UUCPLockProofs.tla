---------------------------- MODULE UUCPLockProofs ----------------------------
(***************************************************************************)
(* The UUCP lock excludes as long as no lock can be stale: lockTimeout is  *)
(* 0, or no process has died.  For any set of processes.                   *)
(***************************************************************************)
EXTENDS UUCPLock, TLAPS

\* The file a process makes is a lock file, distinct from none.
LEMMA NewFileType ==
  ASSUME NEW p \in Processes
  PROVE  NewFile(p) \in LockFile /\ NewFile(p) # NoFile
<1>1. NewFile(p) \in LockFile
  BY DEF NewFile, LockFile
<1> QED BY <1>1, LockConstants DEF LockFile

\* What every step is shown to keep while no lock can be stale.
Kept == LockIsMine /\ NothingPurged

\* link(2) gives the modem to a process only when no one has it: whoever has
\* it has a file there.
LEMMA CreateStep ==
  ASSUME TypeOK, NEW p \in Processes, NEW step \in {"idle", "check"},
         Create(p, step), UNCHANGED <<opened, died>>
  PROVE  TypeOK' /\ (Kept => Kept')
<1>1. CASE file = NoFile /\ file' = NewFile(p)
           /\ locked' = [locked EXCEPT ![p] = TRUE] /\ Goto(p, "idle")
  <2>1. TypeOK'
    BY <1>1, NewFileType DEF TypeOK, Goto
  <2>2. ASSUME LockIsMine PROVE LockIsMine'
    BY <1>1, <2>2, NewFileType DEF TypeOK, LockIsMine, NewFile
  <2>3. ASSUME NothingPurged PROVE NothingPurged'
    BY <1>1, <2>3, NewFileType DEF TypeOK, NothingPurged, NewFile, Goto
  <2> QED BY <2>1, <2>2, <2>3 DEF Kept
<1>2. CASE file # NoFile /\ Goto(p, step) /\ UNCHANGED <<file, locked>>
  BY <1>2 DEF TypeOK, Kept, LockIsMine, NothingPurged, Goto
<1> QED BY <1>1, <1>2 DEF Create

LEMMA Initially == Init => IInv
<1> SUFFICES ASSUME Init PROVE IInv
  OBVIOUS
<1>1. TypeOK
  BY NewFileType DEF Init, TypeOK
<1>2. LockIsMine /\ NothingPurged
  BY DEF Init, LockIsMine, NothingPurged, NewFile
<1> QED BY <1>1, <1>2 DEF IInv

\* A process that dies leaves locks no one may judge stale, or ends the time
\* for which anything is said.
LEMMA DieStep ==
  ASSUME TypeOK, NEW p \in Processes, Die(p)
  PROVE  TypeOK' /\ (~LockTimeout /\ Kept => Kept')
<1> DEFINE orphan(f) == IF f.owner = p THEN [f EXCEPT !.alive = FALSE] ELSE f
<1>1. \A f \in LockFile : orphan(f) \in LockFile /\ orphan(f).owner = f.owner
  BY DEF LockFile
<1>2. file' = (IF file = NoFile THEN file ELSE orphan(file))
      /\ opened' = [q \in Processes |-> orphan(opened[q])]
      /\ locked' = [locked EXCEPT ![p] = FALSE] /\ pc' = pc /\ died' = TRUE
  BY DEF Die
<1> HIDE DEF orphan
<1>3. TypeOK'
  BY <1>1, <1>2 DEF TypeOK
<1>4. NoFile \notin LockFile
  BY LockConstants DEF LockFile
<1>5. ASSUME LockIsMine PROVE LockIsMine'
  BY <1>1, <1>2, <1>4, <1>5 DEF TypeOK, LockIsMine
<1>6. ASSUME ~LockTimeout, NothingPurged PROVE NothingPurged'
  BY <1>2, <1>6 DEF NothingPurged
<1> QED BY <1>3, <1>5, <1>6 DEF Kept

\* No step takes a lock from the process that has it: no process comes to judge
\* a lock stale, since it has opened none or the owner of it is alive.
LEMMA Inductive == IInv /\ [Next]_vars => IInv'
<1> SUFFICES ASSUME IInv, [Next]_vars PROVE IInv'
  OBVIOUS
<1>a. TypeOK /\ (NoneStale => Kept)
  BY DEF IInv, Kept
<1>b. ASSUME TypeOK', died' = died, Kept => Kept' PROVE IInv'
  BY <1>a, <1>b DEF IInv, Kept, NoneStale
<1>1. ASSUME NEW p \in Processes, Lock(p) PROVE IInv'
  BY <1>1, <1>a, <1>b, CreateStep DEF Lock
<1>2. ASSUME NEW p \in Processes, CheckOpen(p) PROVE IInv'
  <2>1. TypeOK' /\ died' = died
    BY <1>2, <1>a DEF TypeOK, CheckOpen, Goto
  <2>2. ASSUME LockIsMine PROVE LockIsMine'
    BY <1>2, <2>2 DEF LockIsMine, CheckOpen
  <2>3. ASSUME NothingPurged PROVE NothingPurged'
    BY <1>2, <1>a, <2>3 DEF TypeOK, NothingPurged, CheckOpen, Goto
  <2> QED BY <1>b, <2>1, <2>2, <2>3 DEF Kept
<1>3. ASSUME NEW p \in Processes, CheckNewer(p) PROVE IInv'
  BY <1>3, <1>a, <1>b DEF TypeOK, Kept, LockIsMine, NothingPurged, CheckNewer, Goto
<1>4. ASSUME NEW p \in Processes, CheckOwner(p) PROVE IInv'
  <2>1. TypeOK' /\ died' = died
    BY <1>4, <1>a DEF TypeOK, CheckOwner, Goto
  <2>2. ASSUME Kept PROVE Kept'
    BY <1>4, <1>a, <2>2
      DEF TypeOK, Kept, LockIsMine, NothingPurged, CheckOwner, OwnerExists, Goto
  <2> QED BY <1>b, <2>1, <2>2
<1>5. ASSUME NEW p \in Processes, Purge(p) PROVE IInv'
  <2>1. TypeOK' /\ died' = died
    BY <1>5, <1>a DEF TypeOK, Purge, Goto
  <2>2. ~Kept
    BY <1>5 DEF Kept, NothingPurged, Purge
  <2> QED BY <1>b, <2>1, <2>2
<1>6. ASSUME NEW p \in Processes, CreateAgain(p) PROVE IInv'
  BY <1>6, <1>a, <1>b, CreateStep DEF CreateAgain
<1>7. ASSUME NEW p \in Processes, Unlock(p) PROVE IInv'
  <2>1. TypeOK' /\ died' = died
    BY <1>7, <1>a DEF TypeOK, Unlock
  <2>2. ASSUME LockIsMine PROVE LockIsMine'
    BY <1>7, <1>a, <2>2 DEF TypeOK, LockIsMine, Unlock
  <2>3. ASSUME NothingPurged PROVE NothingPurged'
    BY <1>7, <2>3 DEF NothingPurged, Unlock
  <2> QED BY <1>b, <2>1, <2>2, <2>3 DEF Kept
<1>8. ASSUME NEW p \in Processes, Die(p) PROVE IInv'
  <2>1. TypeOK' /\ (~LockTimeout /\ Kept => Kept')
    BY <1>8, <1>a, DieStep
  <2>2. died' = TRUE
    BY <1>8 DEF Die
  <2> QED BY <1>a, <2>1, <2>2 DEF IInv, Kept, NoneStale
<1>9. ASSUME Age PROVE IInv'
  <2>1. file \in LockFile /\ NoFile \notin LockFile
    BY <1>9, <1>a, LockConstants DEF TypeOK, Age, LockFile
  <2>2. file' \in LockFile /\ file'.owner = file.owner /\ file'.alive = file.alive
    BY <1>9, <2>1 DEF Age, LockFile
  <2>3. TypeOK' /\ died' = died
    BY <1>9, <1>a, <2>2 DEF TypeOK, Age
  <2>4. Kept => Kept'
    BY <1>9, <1>a, <2>1, <2>2 DEF TypeOK, Kept, LockIsMine, NothingPurged, Age
  <2> QED BY <1>b, <2>3, <2>4
<1>10. CASE UNCHANGED vars
  BY <1>10, <1>a, <1>b DEF TypeOK, Kept, LockIsMine, NothingPurged, vars
<1> QED
  BY <1>1, <1>2, <1>3, <1>4, <1>5, <1>6, <1>7, <1>8, <1>9, <1>10 DEF Next, Attempt

LEMMA MineExcludes == LockIsMine => MutualExclusion
BY DEF LockIsMine, MutualExclusion

\* The modem never has two owners, and the lock file names its owner, however
\* the calls of the processes interleave, until one dies where locks expire.
THEOREM Exclusive == Spec => []ExclusiveUntilDeath
<1>1. IInv => ExclusiveUntilDeath
  BY MineExcludes DEF IInv, ExclusiveUntilDeath
<1> QED BY Initially, Inductive, <1>1, PTL DEF Spec
=============================================================================
