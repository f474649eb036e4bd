--------------------------- MODULE DaemonPidProofs ---------------------------
(***************************************************************************)
(* Proofs about DaemonPid: until a stop() unlinks the pid file, the file   *)
(* and its claim lock keep the daemon unique, for any number of processes  *)
(* that start, crash, are signalled or are killed at any point.            *)
(***************************************************************************)
EXTENDS DaemonPid, TLAPS, FiniteSetTheorems

\* Only the holder of the flock is inside claim_pid_file.
Claiming == {"create", "write", "inspect", "remove", "recreate"}
LockHeld == \A d \in Daemons : pc[d] \in Claiming => lock = d

\* What each process knows of the file: the claimer knows that what it removes
\* is stale and that what it writes is its own; past the claim the file names
\* the process.
FileKnown ==
  \A d \in Daemons :
    /\ pc[d] = "write" => file = [by |-> d, written |-> FALSE]
    /\ pc[d] = "remove" => ~OwnerAlive
    /\ pc[d] \in {"open"} \cup Running => file = [by |-> d, written |-> TRUE]

\* The file was created by a process that has started.
Started == file.by # None => pc[file.by] # "new"

FileInv == LockHeld /\ FileKnown /\ Started

\* A stop() that is past its reading of the file has a process to end.
StopNamed ==
  \A s \in Stoppers : stop[s].at \in {"term", "poll", "unlink"} => stop[s].pid # None

\* The inductive invariant. The unlink of a stop() breaks FileInv for good, by
\* design of the code: it holds the lock of nobody.
IInv == TypeOK /\ StopNamed /\ (FileUntouched => FileInv)

\* The initial state: nothing runs and there is no file.
LEMMA InitInv == Init => IInv
BY DaemonAssumption DEF Init, IInv, TypeOK, StopNamed, FileInv, LockHeld, FileKnown, Started,
   File, NoFile, PCs, Stop, Running, Claiming

\* The types alone.
LEMMA TypeInv ==
  ASSUME TypeOK, NEW d \in Daemons,
         \/ Launch(d) \/ DaemonStep(d) \/ Die(d) \/ Crash(d) \/ WriteError(d) \/ Signal(d)
  PROVE  TypeOK'
<1> USE DaemonAssumption DEF TypeOK, PCs, Running, File, NoFile, Go, Released, fates, Unlink
<1>1. CASE Launch(d)
  BY <1>1 DEF Launch
<1>2. CASE AcquireLock(d)
  BY <1>2 DEF AcquireLock
<1>3. CASE CreateNew(d)
  BY <1>3 DEF CreateNew
<1>4. CASE AlreadyExists(d)
  BY <1>4 DEF AlreadyExists
<1>5. CASE WritePid(d)
  BY <1>5 DEF WritePid
<1>6. CASE Conflict(d)
  BY <1>6 DEF Conflict
<1>7. CASE FindStale(d)
  BY <1>7 DEF FindStale
<1>8. CASE RemoveStale(d)
  BY <1>8 DEF RemoveStale
<1>9. CASE OpenDb(d)
  BY <1>9 DEF OpenDb
<1>10. CASE EndDrain(d)
  BY <1>10 DEF EndDrain
<1>11. CASE Wake(d)
  BY <1>11 DEF Wake
<1>12. CASE Exit(d)
  BY <1>12 DEF Exit
<1>13. CASE Crash(d)
  BY <1>13 DEF Crash, Fault
<1>14. CASE WriteError(d)
  BY <1>14 DEF WriteError, Fault
<1>15. CASE Signal(d)
  BY <1>15 DEF Signal, Fault, Terminate
<1>16. CASE Die(d)
  BY <1>16 DEF Die
<1>17. QED
  BY <1>1, <1>2, <1>3, <1>4, <1>5, <1>6, <1>7, <1>8, <1>9, <1>10, <1>11, <1>12,
     <1>13, <1>14, <1>15, <1>16 DEF DaemonStep

\* A step inside claim_pid_file: d holds the lock, so no other process is in
\* there, and a file that d may touch belongs to no running daemon.
LEMMA ClaimInv ==
  ASSUME TypeOK, FileInv, NEW d \in Daemons,
         \/ AcquireLock(d) \/ CreateNew(d) \/ AlreadyExists(d) \/ WritePid(d)
         \/ Conflict(d) \/ FindStale(d) \/ RemoveStale(d) \/ WriteError(d)
  PROVE  FileInv'
<1> USE DaemonAssumption DEF FileInv, TypeOK, LockHeld, FileKnown, Started, PCs, Running,
        Claiming, File, NoFile, Go, Released, Alive, ReadPid, OwnerAlive, Unlink
<1>1. CASE AcquireLock(d)
  BY <1>1 DEF AcquireLock, LockFree
<1>2. CASE CreateNew(d)
  <2>1. /\ pc[d] \in Claiming /\ lock = d /\ file = NoFile /\ UNCHANGED lock
        /\ file' = [by |-> d, written |-> FALSE] /\ pc' = [pc EXCEPT ![d] = "write"]
    BY <1>2 DEF CreateNew
  <2>2. \A e \in Daemons \ {d} : pc[e] \notin Claiming \cup {"open"} \cup Running
    BY <2>1
  <2>3. pc' \in [Daemons -> PCs] /\ pc'[d] = "write" /\ \A e \in Daemons \ {d} : pc'[e] = pc[e]
    BY <2>1
  <2> HIDE DEF TypeOK, PCs, File, NoFile, Go, Released, Alive, ReadPid, OwnerAlive, Unlink
  <2>4. LockHeld' /\ FileKnown' /\ Started'
    BY <2>1, <2>2, <2>3
  <2>5. QED
    BY <2>4
<1>3. CASE AlreadyExists(d)
  BY <1>3 DEF AlreadyExists
<1>4. CASE WritePid(d)
  <2>1. /\ pc[d] = "write" /\ lock = d /\ file = [by |-> d, written |-> FALSE]
        /\ pc' = [pc EXCEPT ![d] = "open"] /\ lock' = None
    BY <1>4 DEF WritePid
  <2>2. file' = [by |-> d, written |-> TRUE]
    BY <1>4, <2>1 DEF WritePid
  <2>3. \A e \in Daemons \ {d} : pc[e] \notin Claiming \cup {"open"} \cup Running
    BY <2>1
  <2>4. pc' \in [Daemons -> PCs] /\ pc'[d] = "open" /\ \A e \in Daemons \ {d} : pc'[e] = pc[e]
    BY <2>1
  <2> HIDE DEF TypeOK, PCs, File, NoFile, Go, Released, Alive, ReadPid, OwnerAlive, Unlink
  <2>5. LockHeld' /\ FileKnown' /\ Started'
    BY <2>1, <2>2, <2>3, <2>4
  <2>6. QED
    BY <2>5
<1>5. CASE Conflict(d)
  BY <1>5 DEF Conflict
<1>6. CASE FindStale(d)
  BY <1>6 DEF FindStale
<1>7. CASE RemoveStale(d)
  BY <1>7 DEF RemoveStale
<1>8. CASE WriteError(d)
  BY <1>8 DEF WriteError
<1>9. QED
  BY <1>1, <1>2, <1>3, <1>4, <1>5, <1>6, <1>7, <1>8

\* A step outside it: the file changes only when its owner removes it.
LEMMA RunInv ==
  ASSUME TypeOK, FileInv, NEW d \in Daemons,
         \/ Launch(d) \/ OpenDb(d) \/ EndDrain(d) \/ Wake(d) \/ Exit(d)
         \/ Die(d) \/ Crash(d) \/ Signal(d)
  PROVE  FileInv'
<1> USE DaemonAssumption DEF FileInv, TypeOK, LockHeld, FileKnown, Started, PCs, Running,
        Claiming, File, NoFile, Go, Released, Alive, ReadPid, OwnerAlive, Unlink
<1>1. CASE Launch(d)
  BY <1>1 DEF Launch
<1>2. CASE OpenDb(d)
  BY <1>2 DEF OpenDb
<1>3. CASE EndDrain(d)
  BY <1>3 DEF EndDrain
<1>4. CASE Wake(d)
  BY <1>4 DEF Wake
<1>5. CASE Exit(d)
  BY <1>5 DEF Exit
<1>6. CASE Crash(d)
  BY <1>6 DEF Crash
<1>7. CASE Signal(d)
  BY <1>7 DEF Signal, Terminate
<1>8. CASE Die(d)
  BY <1>8 DEF Die
<1>9. QED
  BY <1>1, <1>2, <1>3, <1>4, <1>5, <1>6, <1>7, <1>8

\* A stop() keeps the types, and keeps naming the process it ends.
LEMMA StopTypeInv ==
  ASSUME TypeOK, StopNamed, NEW s \in Stoppers, StopStep(s)
  PROVE  (TypeOK /\ StopNamed)'
<1> USE DaemonAssumption DEF TypeOK, StopNamed, PCs, Running, File, NoFile, Stop, Go, Released,
        StopAt, Unlink, fates
<1>1. CASE StopRead(s)
  BY <1>1 DEF StopRead, ReadPid
<1>2. CASE StopTerm(s)
  <2>1. stop[s].pid \in Daemons
    BY <1>2 DEF StopTerm
  <2>2. CASE Alive(stop[s].pid)
    BY <1>2, <2>1, <2>2 DEF StopTerm, Terminate
  <2>3. CASE ~Alive(stop[s].pid)
    BY <1>2, <2>1, <2>3 DEF StopTerm
  <2>4. QED
    BY <2>2, <2>3
<1>3. CASE StopSeesDeath(s)
  BY <1>3 DEF StopSeesDeath
<1>4. CASE StopKill(s)
  <2>1. stop[s].pid \in Daemons
    BY <1>4 DEF StopKill
  <2>2. QED
    BY <1>4, <2>1 DEF StopKill, Fault
<1>5. CASE StopUnlink(s)
  BY <1>5 DEF StopUnlink
<1>6. QED
  BY <1>1, <1>2, <1>3, <1>4, <1>5 DEF StopStep

\* The death of a process disturbs nothing the others know.
LEMMA DeathInv ==
  ASSUME TypeOK, FileInv, NEW d \in Daemons, Alive(d),
         Go(d, "dead"), lock' = Released(d), UNCHANGED file
  PROVE  FileInv'
BY DaemonAssumption DEF FileInv, TypeOK, LockHeld, FileKnown, Started, PCs, Running, Claiming,
   File, NoFile, Go, Released, Alive, ReadPid, OwnerAlive

\* Up to its unlink, a stop() does nothing but end processes.
LEMMA StopInv ==
  ASSUME IInv, NEW s \in Stoppers, StopStep(s), FileUntouched'
  PROVE  FileInv'
<1>1. FileUntouched
  BY DEF IInv, TypeOK, Stop, FileUntouched, StopStep, StopRead, StopTerm, StopSeesDeath,
     StopKill, StopUnlink, StopAt
<1>2. TypeOK /\ StopNamed /\ FileInv
  BY <1>1 DEF IInv
<1>3. stop[s].at \in {"term", "poll", "unlink"} => stop[s].pid \in Daemons
  BY <1>2 DEF TypeOK, StopNamed, Stop
<1>4. UNCHANGED <<file, lock, pc>> => FileInv'
  BY <1>2 DEF FileInv, LockHeld, FileKnown, Started, OwnerAlive, ReadPid, Alive
<1>5. CASE StopRead(s)
  BY <1>4, <1>5 DEF StopRead
<1>6. CASE StopTerm(s)
  <2>1. CASE Alive(stop[s].pid) /\ stop[s].pid \notin armed
    BY <1>2, <1>3, <1>6, <2>1, DeathInv DEF StopTerm, Terminate
  <2>2. CASE ~(Alive(stop[s].pid) /\ stop[s].pid \notin armed)
    BY <1>4, <1>6, <2>2 DEF StopTerm, Terminate
  <2>3. QED
    BY <2>1, <2>2
<1>7. CASE StopSeesDeath(s)
  BY <1>4, <1>7 DEF StopSeesDeath
<1>8. CASE StopKill(s)
  BY <1>4, <1>8 DEF StopKill
<1>9. CASE StopUnlink(s)
  <2>1. stop'[s].at = "end" /\ stop'[s].pid # None
    BY <1>2, <1>9 DEF StopUnlink, StopAt, TypeOK, StopNamed, Stop
  <2>2. QED
    BY <2>1 DEF FileUntouched
<1>10. QED
  BY <1>5, <1>6, <1>7, <1>8, <1>9 DEF StopStep

\* The invariant is inductive.
LEMMA NextInv == IInv /\ [Next]_vars => IInv'
<1> SUFFICES ASSUME IInv, [Next]_vars PROVE IInv'
  OBVIOUS
<1>1. ASSUME NEW d \in Daemons,
             Launch(d) \/ DaemonStep(d) \/ Die(d) \/ Crash(d) \/ WriteError(d) \/ Signal(d)
      PROVE  IInv'
  <2>1. TypeOK'
    BY <1>1, TypeInv DEF IInv
  <2>2. UNCHANGED stop
    BY <1>1 DEF DaemonStep, Launch, AcquireLock, CreateNew, AlreadyExists, WritePid, Conflict,
       FindStale, RemoveStale, OpenDb, EndDrain, Wake, Exit, Die, Crash, WriteError, Signal
  <2>3. FileUntouched => FileInv'
    BY <1>1, ClaimInv, RunInv DEF IInv, DaemonStep
  <2>4. QED
    BY <2>1, <2>2, <2>3 DEF IInv, StopNamed, FileUntouched
<1>2. ASSUME NEW s \in Stoppers, StopStep(s)
      PROVE  IInv'
  BY <1>2, StopTypeInv, StopInv DEF IInv
<1>3. CASE UNCHANGED vars
  BY <1>3 DEF vars, fates, IInv, TypeOK, StopNamed, FileUntouched, FileInv, LockHeld, FileKnown,
     Started, OwnerAlive, ReadPid, Alive
<1>4. QED
  BY <1>1, <1>2, <1>3 DEF Next

\* The inductive invariant always holds.
LEMMA AlwaysIInv == Spec => []IInv
BY InitInv, NextInv, PTL DEF Spec

\* Until a stop() unlinks it, the pid file names the daemon that runs, so
\* status() is right about it and no start can pass it by.
THEOREM FileNamesDaemon == Spec => []RunningDaemonIsRecorded
<1>1. IInv => RunningDaemonIsRecorded
  BY DEF IInv, FileInv, FileKnown, RunningDaemonIsRecorded
<1>2. QED
  BY <1>1, AlwaysIInv, PTL

\* Until a stop() unlinks the pid file, at most one daemon drains, whatever
\* starts, crashes, signals and kills there are.
THEOREM DaemonIsUnique == Spec => []OneDaemon
<1>1. RunningDaemonIsRecorded => OneDaemon
  <2> SUFFICES ASSUME RunningDaemonIsRecorded, FileUntouched
               PROVE  Cardinality({d \in Daemons : pc[d] \in Running}) <= 1
    BY DEF OneDaemon
  <2>1. {d \in Daemons : pc[d] \in Running} \subseteq {file.by}
    BY DEF RunningDaemonIsRecorded
  <2>2. IsFiniteSet({file.by}) /\ Cardinality({file.by}) = 1
    BY FS_Singleton
  <2>3. QED
    BY <2>1, <2>2, FS_Subset
<1>2. QED
  BY <1>1, FileNamesDaemon, PTL

\* The types of the model are kept.
THEOREM DaemonTyped == Spec => []TypeOK
BY AlwaysIInv, PTL DEF IInv

-----------------------------------------------------------------------------
(* Across the unlinks: what a daemon that nobody has killed, failed to      *)
(* kill or robbed of its file can rely on.                                 *)

Untouched(d) == d \notin killed \cup spared \cup lost

\* Past the claim of the pid file.
Past == {"open", "dead"} \cup Running

\* The file is that of the untouched daemon that writes it or runs.
Owned ==
  \A d \in Daemons : Untouched(d) =>
    /\ pc[d] = "write" => file = [by |-> d, written |-> FALSE]
    /\ pc[d] \in {"open"} \cup Running => file = [by |-> d, written |-> TRUE]

\* A file about to be removed as stale is stale.
StaleKnown == \A d \in Daemons : pc[d] = "remove" => ~OwnerAlive

\* The file holds a pid only when its creator is past the claim.
CreatorKnown ==
  file.by # None => pc[file.by] \in IF file.written THEN Past ELSE {"write", "dead"}

\* A stop() ends a process past its claim, and unlinks only when the process is
\* dead, has been sent a SIGKILL or could not be sent one.
Ending ==
  \A s \in Stoppers :
    stop[s].pid # None =>
      /\ stop[s].at # "begin" /\ pc[stop[s].pid] \in Past
      /\ stop[s].at = "unlink" =>
           pc[stop[s].pid] = "dead" \/ stop[s].pid \in killed \cup spared

ClaimInvariant == LockHeld /\ Owned /\ StaleKnown /\ CreatorKnown
EndInv == TypeOK /\ StopNamed /\ ClaimInvariant /\ Ending

\* A step inside claim_pid_file: d holds the lock, so a file that d creates or
\* removes belongs to no untouched daemon.
LEMMA ClaimKeepsOwned ==
  ASSUME TypeOK, ClaimInvariant, NEW d \in Daemons,
         \/ AcquireLock(d) \/ CreateNew(d) \/ AlreadyExists(d) \/ WritePid(d)
         \/ Conflict(d) \/ FindStale(d) \/ RemoveStale(d) \/ WriteError(d)
  PROVE  ClaimInvariant'
<1> USE DaemonAssumption DEF ClaimInvariant, TypeOK, LockHeld, Owned, StaleKnown, CreatorKnown,
        Untouched, Past, PCs, Running, Claiming, File, NoFile, Go, Released, Alive, ReadPid,
        OwnerAlive, fates
<1>1. CASE AcquireLock(d)
  BY <1>1 DEF AcquireLock, LockFree
<1>2. CASE CreateNew(d)
  <2>1. /\ pc[d] \in Claiming /\ lock = d /\ file = NoFile /\ UNCHANGED <<lock, fates>>
        /\ file' = [by |-> d, written |-> FALSE] /\ pc' = [pc EXCEPT ![d] = "write"]
    BY <1>2 DEF CreateNew
  <2>2. \A e \in Daemons \ {d} :
          /\ pc[e] \notin Claiming
          /\ Untouched(e) => pc[e] \notin {"open"} \cup Running
    BY <2>1
  <2>3. LockHeld' /\ StaleKnown' /\ CreatorKnown'
    BY <2>1, <2>2
  <2>4. Owned'
    BY <2>1, <2>2
  <2>5. QED
    BY <2>3, <2>4
<1>3. CASE AlreadyExists(d)
  BY <1>3 DEF AlreadyExists
<1>4. CASE WritePid(d)
  <2>1. CASE file.by = d
    <3>1. /\ pc[d] = "write" /\ lock = d /\ file' = [by |-> d, written |-> TRUE]
          /\ pc' = [pc EXCEPT ![d] = "open"] /\ lock' = None
      BY <1>4, <2>1 DEF WritePid
    <3>2. \A e \in Daemons \ {d} :
            /\ pc[e] \notin Claiming
            /\ Untouched(e) => pc[e] \notin {"open"} \cup Running
      BY <2>1, <3>1
    <3>3. UNCHANGED fates
      BY <1>4 DEF WritePid
    <3>4. LockHeld' /\ StaleKnown' /\ CreatorKnown'
      BY <3>1, <3>2
    <3>5. Owned'
      BY <3>1, <3>2, <3>3
    <3>6. QED
      BY <3>4, <3>5
  <2>2. CASE file.by # d
    BY <1>4, <2>2 DEF WritePid
  <2>3. QED
    BY <2>1, <2>2
<1>5. CASE Conflict(d)
  BY <1>5 DEF Conflict
<1>6. CASE FindStale(d)
  BY <1>6 DEF FindStale
<1>7. CASE RemoveStale(d)
  BY <1>7 DEF RemoveStale
<1>8. CASE WriteError(d)
  BY <1>8 DEF WriteError, Unlink
<1>9. QED
  BY <1>1, <1>2, <1>3, <1>4, <1>5, <1>6, <1>7, <1>8

\* A step outside it: an exit removes its own file, or robs its owner.
LEMMA RunKeepsOwned ==
  ASSUME TypeOK, ClaimInvariant, NEW d \in Daemons,
         \/ Launch(d) \/ OpenDb(d) \/ EndDrain(d) \/ Wake(d) \/ Exit(d)
         \/ Die(d) \/ Crash(d) \/ Signal(d)
  PROVE  ClaimInvariant'
<1> USE DaemonAssumption DEF ClaimInvariant, TypeOK, LockHeld, Owned, StaleKnown, CreatorKnown,
        Untouched, Past, PCs, Running, Claiming, File, NoFile, Go, Released, Alive, ReadPid,
        OwnerAlive, fates
<1>1. CASE Launch(d)
  BY <1>1 DEF Launch
<1>2. CASE OpenDb(d)
  BY <1>2 DEF OpenDb
<1>3. CASE EndDrain(d)
  BY <1>3 DEF EndDrain
<1>4. CASE Wake(d)
  BY <1>4 DEF Wake
<1>5. CASE Exit(d)
  BY <1>5 DEF Exit, Unlink
<1>6. CASE Crash(d)
  BY <1>6 DEF Crash
<1>7. CASE Signal(d)
  BY <1>7 DEF Signal, Terminate
<1>8. CASE Die(d)
  BY <1>8 DEF Die
<1>9. QED
  BY <1>1, <1>2, <1>3, <1>4, <1>5, <1>6, <1>7, <1>8

\* A process past its claim stays past it, a dead one stays dead, and a SIGKILL
\* is not taken back.
LEMMA ProcessKeepsEnding ==
  ASSUME TypeOK, Ending, NEW d \in Daemons,
         Launch(d) \/ DaemonStep(d) \/ Die(d) \/ Crash(d) \/ WriteError(d) \/ Signal(d)
  PROVE  Ending'
<1>1. /\ UNCHANGED <<stop, killed, spared>>
      /\ \A e \in Daemons \ {d} : pc'[e] = pc[e]
      /\ pc[d] \in Past => pc'[d] \in Past
      /\ pc[d] = "dead" => pc'[d] = "dead"
  BY DEF TypeOK, Past, Running, DaemonStep, Launch, AcquireLock, CreateNew, AlreadyExists,
     WritePid, Conflict, FindStale, RemoveStale, OpenDb, EndDrain, Wake, Exit, Die, Crash,
     WriteError, Signal, Terminate, Alive, Go, fates
<1>2. QED
  BY <1>1 DEF Ending, TypeOK, Stop

\* The death of a process disturbs nothing the others know.
LEMMA DeathKeepsOwned ==
  ASSUME TypeOK, ClaimInvariant, NEW d \in Daemons, Alive(d),
         Go(d, "dead"), lock' = Released(d), UNCHANGED <<file, fates>>
  PROVE  ClaimInvariant'
BY DaemonAssumption DEF ClaimInvariant, LockHeld, Owned, StaleKnown, CreatorKnown, Untouched,
   Past, TypeOK, PCs, Running, Claiming, File, NoFile, Go, Released, Alive, ReadPid, OwnerAlive,
   fates

\* A stop() ends processes and unlinks a file: that of the process it has
\* ended, or that of a daemon it robs.
LEMMA StopKeepsEnd ==
  ASSUME EndInv, NEW s \in Stoppers, StopStep(s)
  PROVE  (ClaimInvariant /\ Ending)'
<1>1. TypeOK /\ StopNamed /\ ClaimInvariant /\ Ending
  BY DEF EndInv
<1>2. stop[s].at \in {"term", "poll", "unlink"} => stop[s].pid \in Daemons
  BY <1>1 DEF TypeOK, StopNamed, Stop
<1>3. UNCHANGED <<file, lock, pc, lost>> /\ killed \subseteq killed' /\ spared \subseteq spared'
        => ClaimInvariant'
  BY <1>1 DEF ClaimInvariant, LockHeld, Owned, StaleKnown, CreatorKnown, Untouched, OwnerAlive,
     ReadPid, Alive
<1>4. CASE StopRead(s)
  <2>1. ReadPid # None => ReadPid \in Daemons /\ pc[ReadPid] \in Past
    BY <1>1 DEF TypeOK, File, ReadPid, ClaimInvariant, CreatorKnown
  <2>2. Ending'
    BY <1>1, <1>4, <2>1, DaemonAssumption
       DEF StopRead, Ending, TypeOK, Stop, Alive, Past, Running, fates
  <2>3. QED
    BY <1>3, <1>4, <2>2 DEF StopRead, fates
<1>5. CASE StopTerm(s)
  <2>1. CASE Alive(stop[s].pid) /\ stop[s].pid \notin armed
    <3>1. ClaimInvariant'
      BY <1>1, <1>2, <1>5, <2>1, DeathKeepsOwned DEF StopTerm, Terminate
    <3>2. Ending'
      BY <1>1, <1>2, <1>5, <2>1
         DEF StopTerm, Terminate, Go, StopAt, Ending, TypeOK, Stop, Past, fates
    <3>3. QED
      BY <3>1, <3>2
  <2>2. CASE ~(Alive(stop[s].pid) /\ stop[s].pid \notin armed)
    <3>1. UNCHANGED <<file, lock, pc, fates>>
      BY <1>5, <2>2 DEF StopTerm, Terminate
    <3>2. Ending'
      BY <1>1, <1>5, <2>2, <3>1 DEF StopTerm, StopAt, Ending, TypeOK, Stop, fates
    <3>3. QED
      BY <1>3, <3>1, <3>2 DEF fates
  <2>3. QED
    BY <2>1, <2>2
<1>6. CASE StopSeesDeath(s)
  <2>1. pc[stop[s].pid] = "dead"
    BY <1>1, <1>2, <1>6, DaemonAssumption
       DEF StopSeesDeath, Alive, Ending, Past, Running, TypeOK, Stop
  <2>2. Ending'
    BY <1>1, <1>6, <2>1 DEF StopSeesDeath, StopAt, Ending, TypeOK, Stop, fates
  <2>3. QED
    BY <1>3, <1>6, <2>2 DEF StopSeesDeath, fates
<1>7. CASE StopKill(s)
  <2>1. /\ UNCHANGED <<file, lock, pc, lost>>
        /\ killed \subseteq killed' /\ spared \subseteq spared'
        /\ stop[s].pid \in killed' \cup spared'
    BY <1>7 DEF StopKill
  <2>2. Ending'
    BY <1>1, <1>2, <1>7, <2>1 DEF StopKill, StopAt, Ending, TypeOK, Stop
  <2>3. QED
    BY <1>3, <2>1, <2>2
<1>8. CASE StopUnlink(s)
  <2> DEFINE p == stop[s].pid
  <2>1. /\ p \in Daemons
        /\ p \in killed \cup spared \/ pc[p] = "dead"
    BY <1>1, <1>2, <1>8, DaemonAssumption DEF StopUnlink, Ending
  <2>2. /\ file' = NoFile /\ lost' = lost \cup ({file.by} \ {p, None})
        /\ UNCHANGED <<lock, pc, killed, spared>>
    BY <1>8 DEF StopUnlink, Unlink
  <2>3. \A d \in Daemons : Untouched(d)' /\ pc[d] # "dead" => Untouched(d) /\ file.by # d
    BY <2>1, <2>2, DaemonAssumption DEF Untouched
  <2>4. ClaimInvariant'
    BY <1>1, <2>2, <2>3, DaemonAssumption
       DEF ClaimInvariant, LockHeld, Owned, StaleKnown, CreatorKnown, Running, OwnerAlive,
           ReadPid, Alive, NoFile
  <2>5. Ending'
    BY <1>1, <1>8, <2>2 DEF StopUnlink, StopAt, Ending, TypeOK, Stop
  <2>6. QED
    BY <2>4, <2>5
<1>9. QED
  BY <1>4, <1>5, <1>6, <1>7, <1>8 DEF StopStep

\* However often the daemon is stopped and started, at most one goes on
\* draining that was neither killed, nor failed to be killed, nor robbed of its
\* file, for any number of concurrent starts, stops, crashes and signals.
THEOREM RestartIsUnique == Spec => []RestartLeavesOne
<1>1. Init => EndInv
  BY InitInv, DaemonAssumption
     DEF IInv, EndInv, Init, NoFile, ClaimInvariant, LockHeld, Owned, StaleKnown, CreatorKnown,
         Ending, Claiming, Running
<1>2. EndInv /\ [Next]_vars => EndInv'
  <2> SUFFICES ASSUME EndInv, [Next]_vars PROVE EndInv'
    OBVIOUS
  <2>1. ASSUME NEW d \in Daemons,
               Launch(d) \/ DaemonStep(d) \/ Die(d) \/ Crash(d) \/ WriteError(d) \/ Signal(d)
        PROVE  EndInv'
    <3>1. TypeOK' /\ Ending'
      BY <2>1, TypeInv, ProcessKeepsEnding DEF EndInv
    <3>2. ClaimInvariant'
      BY <2>1, ClaimKeepsOwned, RunKeepsOwned DEF EndInv, DaemonStep
    <3>3. UNCHANGED stop
      BY <2>1 DEF DaemonStep, Launch, AcquireLock, CreateNew, AlreadyExists, WritePid, Conflict,
         FindStale, RemoveStale, OpenDb, EndDrain, Wake, Exit, Die, Crash, WriteError, Signal
    <3>4. QED
      BY <3>1, <3>2, <3>3 DEF EndInv, StopNamed
  <2>2. ASSUME NEW s \in Stoppers, StopStep(s)
        PROVE  EndInv'
    BY <2>2, StopTypeInv, StopKeepsEnd DEF EndInv
  <2>3. CASE UNCHANGED vars
    BY <2>3 DEF vars, EndInv, TypeOK, StopNamed, ClaimInvariant, LockHeld, Owned, StaleKnown,
       CreatorKnown, Untouched, OwnerAlive, ReadPid, Alive, Ending
  <2>4. QED
    BY <2>1, <2>2, <2>3 DEF Next
<1>3. EndInv => RestartLeavesOne
  <2> SUFFICES ASSUME EndInv PROVE RestartLeavesOne
    OBVIOUS
  <2>1. {d \in Daemons : pc[d] \in Running /\ d \notin killed \cup spared \cup lost}
          \subseteq {file.by}
    BY DEF EndInv, ClaimInvariant, Owned, Untouched
  <2>2. IsFiniteSet({file.by}) /\ Cardinality({file.by}) = 1
    BY FS_Singleton
  <2>3. QED
    BY <2>1, <2>2, FS_Subset DEF RestartLeavesOne
<1>4. QED
  BY <1>1, <1>2, <1>3, PTL DEF Spec

=============================================================================
