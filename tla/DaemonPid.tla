------------------------------ MODULE DaemonPid ------------------------------
(***************************************************************************)
(* The life of the background daemon (crates/difflore-core/src/infra/      *)
(* daemon.rs): processes that call run() compete for the pid file under an *)
(* flock, the winner drains until a signal ends it, and stop() terminates  *)
(* the daemon it finds in the file.                                        *)
(*                                                                         *)
(* Every process is a pid of its own that lives once; pids are not reused. *)
(***************************************************************************)
EXTENDS Naturals, FiniteSets

CONSTANTS
  Daemons,    \* processes that call run(), spawned by hooks
  Stoppers,   \* calls of stop()
  None,       \* no process
  MaxFaults   \* bound: crashes, signals, write errors, failed database opens and kills

ASSUME DaemonAssumption == None \notin Daemons /\ MaxFaults \in Nat

VARIABLES
  file,       \* daemon.pid: who created it and whether the pid is in it yet
  lock,       \* the holder of daemon.pid.lock
  pc,         \* where each daemon is in run()
  armed,      \* daemons whose SIGTERM / SIGINT handler is installed
  asked,      \* daemons that caught a signal and have not looked at it yet
  killed,     \* daemons a SIGKILL is on its way to, or has reached
  stop,       \* where each stop() is, and the pid it read
  faults,
  spared,     \* history: daemons whose SIGKILL failed
  lost        \* history: daemons whose pid file was unlinked for another's

vars == <<file, lock, pc, armed, asked, killed, stop, faults, spared, lost>>
fates == <<killed, spared, lost>>

NoFile == [by |-> None, written |-> FALSE]
File == [by : Daemons \cup {None}, written : BOOLEAN]
Running == {"drain", "wait", "exiting"}
PCs == {"new", "lock", "create", "write", "inspect", "remove", "recreate", "open", "dead"}
         \cup Running
Stop == [at : {"begin", "term", "poll", "unlink", "end"}, pid : Daemons \cup {None}]

\* is_process_alive
Alive(d) == pc[d] \notin {"new", "dead"}

\* read_pid: nothing while the file is missing or still empty.
ReadPid == IF file.written THEN file.by ELSE None

Init ==
  /\ file = NoFile /\ lock = None
  /\ pc = [d \in Daemons |-> "new"]
  /\ armed = {} /\ asked = {}
  /\ stop = [s \in Stoppers |-> [at |-> "begin", pid |-> None]]
  /\ faults = 0
  /\ killed = {} /\ spared = {} /\ lost = {}

Fault == faults < MaxFaults /\ faults' = faults + 1

Go(d, l) == pc' = [pc EXCEPT ![d] = l]

\* remove_pid_file by a process that means e's file: whatever is at the path
\* goes, which may be the file of a daemon that has claimed it since.
Unlink(e) ==
  /\ file' = NoFile
  /\ lost' = lost \cup ({file.by} \ {e, None})

-----------------------------------------------------------------------------
(* claim_pid_file                                                          *)

Launch(d) ==
  /\ pc[d] = "new"
  /\ Go(d, "lock")
  /\ UNCHANGED <<file, lock, armed, asked, stop, faults, fates>>

Unlocked(d) == TRUE                      \* mutant: the flock is missing

\* PidClaimLock::acquire blocks until the flock is free.
LockFree(d) == lock = None

AcquireLock(d) ==
  /\ pc[d] = "lock" /\ LockFree(d)
  /\ lock' = d
  /\ Go(d, "create")
  /\ UNCHANGED <<file, armed, asked, stop, faults, fates>>

NotReleased(d) == lock                   \* mutant: the lock is kept

\* The lock after d lets go of it: dropped with PidClaimLock, or by the kernel.
Released(d) == IF lock = d THEN None ELSE lock

\* write_new_pid: create_new first, the text in a second system call.
CreateNew(d) ==
  /\ pc[d] \in {"create", "recreate"} /\ file = NoFile
  /\ file' = [by |-> d, written |-> FALSE]
  /\ Go(d, "write")
  /\ UNCHANGED <<lock, armed, asked, stop, faults, fates>>

AlreadyExists(d) ==
  /\ pc[d] = "create" /\ file # NoFile
  /\ Go(d, "inspect")
  /\ UNCHANGED <<file, lock, armed, asked, stop, faults, fates>>

\* The text goes to the file d created, which may have been unlinked since.
WritePid(d) ==
  /\ pc[d] = "write"
  /\ file' = IF file.by = d THEN [file EXCEPT !.written = TRUE] ELSE file
  /\ lock' = Released(d)
  /\ Go(d, "open")
  /\ UNCHANGED <<armed, asked, stop, faults, fates>>

OwnerIgnored == FALSE                    \* mutant: every file is stale

OwnerAlive == ReadPid # None /\ Alive(ReadPid)

\* reclaim_stale_pid_file: a live owner is a conflict ...
Conflict(d) ==
  /\ \/ pc[d] = "inspect" /\ OwnerAlive
     \/ pc[d] = "recreate" /\ file # NoFile
  /\ lock' = Released(d)
  /\ Go(d, "dead")
  /\ UNCHANGED <<file, armed, asked, stop, faults, fates>>

\* ... any other file is stale, is removed and is created again.
FindStale(d) ==
  /\ pc[d] = "inspect" /\ ~OwnerAlive
  /\ Go(d, "remove")
  /\ UNCHANGED <<file, lock, armed, asked, stop, faults, fates>>

RemoveStale(d) ==
  /\ pc[d] = "remove"
  /\ file' = NoFile
  /\ Go(d, "recreate")
  /\ UNCHANGED <<lock, armed, asked, stop, faults, fates>>

-----------------------------------------------------------------------------
(* run                                                                     *)

OpenDb(d) ==
  /\ pc[d] = "open"
  /\ Go(d, "drain")
  /\ UNCHANGED <<file, lock, armed, asked, stop, faults, fates>>

\* The end of a drain is the first time, and then every time, that the
\* shutdown future is polled: polling it installs the handlers.
EndDrain(d) ==
  /\ pc[d] = "drain"
  /\ armed' = armed \cup {d}
  /\ Go(d, IF d \in asked THEN "exiting" ELSE "wait")
  /\ UNCHANGED <<file, lock, asked, stop, faults, fates>>

\* The sleep of select! ends, by the clock or by a signal.
Wake(d) ==
  /\ pc[d] = "wait"
  /\ Go(d, IF d \in asked THEN "exiting" ELSE "drain")
  /\ UNCHANGED <<file, lock, armed, asked, stop, faults, fates>>

\* remove_pid_file at the end of run(), whoever the file belongs to.
Exit(d) ==
  /\ pc[d] = "exiting"
  /\ Unlink(d)
  /\ Go(d, "dead")
  /\ UNCHANGED <<lock, armed, asked, stop, faults, killed, spared>>

\* SIGTERM: caught, or fatal while no handler is installed.
Terminate(d) ==
  IF d \in armed
  THEN asked' = asked \cup {d} /\ UNCHANGED <<pc, lock>>
  ELSE Go(d, "dead") /\ lock' = Released(d) /\ UNCHANGED asked

-----------------------------------------------------------------------------
(* stop                                                                    *)

StopAt(s, l) == stop' = [stop EXCEPT ![s].at = l]

StopRead(s) ==
  /\ stop[s].at = "begin"
  /\ stop' = [stop EXCEPT ![s] =
       IF ReadPid = None THEN [@ EXCEPT !.at = "end"]
       ELSE [at |-> IF Alive(ReadPid) THEN "term" ELSE "unlink", pid |-> ReadPid]]
  /\ UNCHANGED <<file, lock, pc, armed, asked, faults, fates>>

\* send_term; an error, and the end of stop(), when the process is gone.
StopTerm(s) ==
  /\ stop[s].at = "term"
  /\ IF Alive(stop[s].pid)
     THEN Terminate(stop[s].pid) /\ StopAt(s, "poll")
     ELSE StopAt(s, "end") /\ UNCHANGED <<pc, lock, asked>>
  /\ UNCHANGED <<file, armed, faults, fates>>

\* The polling loop sees the process gone.
StopSeesDeath(s) ==
  /\ stop[s].at = "poll" /\ ~Alive(stop[s].pid)
  /\ StopAt(s, "unlink")
  /\ UNCHANGED <<file, lock, pc, armed, asked, faults, fates>>

\* Mutant: the grace period expires and nothing more is done to the process.
StopGivesUp(s) ==
  /\ stop[s].at = "poll"
  /\ StopAt(s, "unlink")
  /\ UNCHANGED <<file, lock, pc, armed, asked, faults, fates>>

\* The grace period expires, and the process may have ended in the last pause:
\* SIGKILL. stop() neither waits for it to take effect nor looks at its error.
StopKill(s) ==
  /\ stop[s].at = "poll"
  /\ \/ killed' = killed \cup {stop[s].pid} /\ UNCHANGED <<spared, faults>>
     \/ Fault /\ spared' = spared \cup {stop[s].pid} /\ UNCHANGED killed
  /\ StopAt(s, "unlink")
  /\ UNCHANGED <<file, lock, pc, armed, asked, lost>>

StopUnlink(s) ==
  /\ stop[s].at = "unlink"
  /\ Unlink(stop[s].pid)
  /\ StopAt(s, "end")
  /\ UNCHANGED <<lock, pc, armed, asked, faults, killed, spared>>

-----------------------------------------------------------------------------
(* Faults                                                                  *)

\* The process dies, or init_db fails and run() returns without removing the
\* pid file; the kernel releases the flock.
Crash(d) ==
  /\ Fault
  /\ Alive(d)
  /\ lock' = Released(d)
  /\ Go(d, "dead")
  /\ UNCHANGED <<file, armed, asked, stop, fates>>

\* A pid that cannot be written is removed again.
WriteError(d) ==
  /\ Fault
  /\ pc[d] = "write"
  /\ Unlink(d)
  /\ lock' = Released(d)
  /\ Go(d, "dead")
  /\ UNCHANGED <<armed, asked, stop, killed, spared>>

\* The kernel ends a process it was told to kill, which goes on until then.
Die(d) ==
  /\ d \in killed /\ Alive(d)
  /\ lock' = Released(d)
  /\ Go(d, "dead")
  /\ UNCHANGED <<file, armed, asked, stop, faults, fates>>

\* A signal that no stop() sent: the user, or the end of the session.
Signal(d) ==
  /\ Fault
  /\ Alive(d)
  /\ Terminate(d)
  /\ UNCHANGED <<file, armed, stop, fates>>

-----------------------------------------------------------------------------
DaemonStep(d) ==
  \/ AcquireLock(d) \/ CreateNew(d) \/ AlreadyExists(d) \/ WritePid(d)
  \/ Conflict(d) \/ FindStale(d) \/ RemoveStale(d)
  \/ OpenDb(d) \/ EndDrain(d) \/ Wake(d) \/ Exit(d)

StopStep(s) ==
  StopRead(s) \/ StopTerm(s) \/ StopSeesDeath(s) \/ StopKill(s) \/ StopUnlink(s)

Next ==
  \/ \E d \in Daemons : Launch(d) \/ DaemonStep(d) \/ Die(d) \/ Crash(d) \/ WriteError(d) \/ Signal(d)
  \/ \E s \in Stoppers : StopStep(s)

Spec == Init /\ [][Next]_vars

\* A process that runs goes on running.
FairSpec == Spec /\ \A d \in Daemons : WF_vars(DaemonStep(d))

-----------------------------------------------------------------------------
(* Properties                                                              *)

TypeOK ==
  /\ file \in File
  /\ lock \in Daemons \cup {None}
  /\ pc \in [Daemons -> PCs]
  /\ armed \subseteq Daemons /\ asked \subseteq armed
  /\ stop \in [Stoppers -> Stop]
  /\ faults \in 0..MaxFaults
  /\ killed \subseteq Daemons /\ spared \subseteq Daemons /\ lost \subseteq Daemons

\* No stop() has got to the end of its work on the pid file yet.
FileUntouched == \A s \in Stoppers : stop[s].at = "end" => stop[s].pid = None

\* "Refuse to start a second daemon against the same DIFFLORE_HOME - two
\* concurrent drainers would double-send every outbox row" (daemon.rs:462-465),
\* whatever starts, crashes, signals and kills there are, until a stop() has
\* unlinked the file, which may be that of a daemon started since.
OneDaemon == FileUntouched => Cardinality({d \in Daemons : pc[d] \in Running}) <= 1

\* The pid file never misleads status() about a daemon that drains: until a
\* stop() unlinks it, it holds the running daemon's pid, so hooks spawn no
\* second one.
RunningDaemonIsRecorded ==
  FileUntouched => \A d \in Daemons : pc[d] \in Running => file = [by |-> d, written |-> TRUE]

\* However often the daemon is stopped and started again, at most one goes on
\* draining: stop() takes the file of a daemon away only when that daemon is
\* dead or has been sent a SIGKILL (daemon.rs:434-440), whatever starts, crashes
\* and other stops come between. The exceptions are what the code cannot help:
\* a kill whose error is ignored, and a daemon that lost its file to the late
\* unlink of a stop() or of an exit that meant another.
RestartLeavesOne ==
  Cardinality({d \in Daemons : pc[d] \in Running /\ d \notin killed \cup spared \cup lost}) <= 1

\* Every start comes to a decision, whoever dies holding the claim lock. A daemon is
\* started once, so that in the end each has decided or was never started.
EveryStartDecides ==
  <>[](\A d \in Daemons : pc[d] \in {"new", "dead"} \cup Running)
=============================================================================
