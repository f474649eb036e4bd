---------------------------- MODULE HookForward ----------------------------
(* The warm path of the editor hooks of one project: the shims that forward  *)
(* an event over the project's socket or fall back in-process                 *)
(* (bin/difflore-hook.rs, hook/forward/protocol.rs), and the forward daemons  *)
(* they start, with the forwarder an MCP server hosts (hook/forward/mod.rs).  *)
(* A shim process handles one event. The socket file is what the path holds:  *)
(* nothing, the socket of a listener that is gone, a leftover that is no       *)
(* socket, or the socket of a live listener, named by its process.            *)
EXTENDS Naturals, FiniteSets

CONSTANTS Shims,     \* hook processes, one event each
          Large,     \* the shims whose request does not fit the socket's buffer
          Backlog,   \* connections the kernel queues at a listener
          Daemons,   \* slots for processes that may host a forwarder
          Hosts,     \* the slots of MCP servers: Lifetime::Process
          Foreign,   \* the slots of an installation with another version guard
          Casts,     \* the sets of slots in use: one of them, for a whole behaviour
          Modes,     \* the DIFFLORE_HOOK_FORWARD modes of the shims
          Paths      \* what the socket path may hold at first

Probes == 3

ASSUME ForwardAssumption ==
    /\ Hosts \subseteq Daemons /\ Foreign \subseteq Daemons
    /\ Casts \subseteq SUBSET Daemons
    /\ Large \subseteq Shims /\ Backlog \in Nat \ {0}
    /\ Modes \subseteq {"auto", "always", "never"}
    /\ Paths \subseteq {"none", "stale", "plain"}
    /\ Daemons \cap {"none", "stale", "plain"} = {}

VARIABLES sock,      \* the file at the project's socket path
          dpc,       \* where each daemon process is
          probes,    \* connects that its probe has seen refused
          pc,        \* where each shim is, at the end what it printed or how it exited
          conn,      \* its request: the daemon it went to, and the request's state
          handled,   \* how often the hook runtime has handled its event to the end
          gaveUp,    \* the shims that stopped waiting for the answer to a request they
                     \* had written, or could not read it
          calm       \* history: the path was empty at first, and no listener has ended
                     \* and no shim has evicted one so far

daemonVars == <<dpc, probes>>
shimVars == <<pc, gaveUp>>
vars == <<sock, dpc, probes, pc, conn, handled, gaveUp, calm>>

Listening == {d \in Daemons : dpc[d] \in {"init", "serve", "hung"}}
Ends == {"output", "noop", "skipped", "error"}
NoConn == [to |-> "none", st |-> "none"]
Conns == [to : Daemons, st : {"queued", "handling", "handled", "replied", "garbled", "failed",
                              "foreign", "reset"}]

TypeOK ==
    /\ sock \in {"none", "stale", "plain"} \cup Daemons
    /\ dpc \in [Daemons -> {"absent", "off", "bind", "probe", "unlink", "rebind", "init", "serve",
                          "hung"}]
    /\ probes \in [Daemons -> 0..(Probes - 1)]
    /\ pc \in [Shims -> {"start", "connect", "write", "wait", "evict", "miss", "fallback"} \cup Ends]
    /\ conn \in [Shims -> Conns \cup {NoConn}]
    /\ handled \in [Shims -> 0..2]
    /\ gaveUp \subseteq Shims
    /\ calm \in BOOLEAN

Init ==
    /\ sock \in Paths
    /\ \E cast \in Casts : dpc = [d \in Daemons |-> IF d \in cast THEN "off" ELSE "absent"]
    /\ probes = [d \in Daemons |-> 0]
    /\ pc = [s \in Shims |-> "start"]
    /\ conn = [s \in Shims |-> NoConn]
    /\ handled = [s \in Shims |-> 0]
    /\ gaveUp = {}
    /\ calm = (sock = "none")

-----------------------------------------------------------------------------
(* The shim *)

Goto(s, step) == pc' = [pc EXCEPT ![s] = step]

\* Input that cannot be read or is too large, and, unless forwarding is forced, an
\* event the runtime would ignore: the shim prints the no-op and ends.
QuickReturn(s) ==
    /\ pc[s] = "start"
    /\ Goto(s, "skipped")
    /\ UNCHANGED <<sock, daemonVars, conn, handled, gaveUp, calm>>

Begin(s) ==
    /\ pc[s] = "start"
    /\ \/ Modes \cap {"auto", "always"} # {} /\ Goto(s, "connect")
       \/ "never" \in Modes /\ Goto(s, "fallback")
    /\ UNCHANGED <<sock, daemonVars, conn, handled, gaveUp, calm>>

HasRoom(d) == Cardinality({s \in Shims : conn[s] = [to |-> d, st |-> "queued"]}) < Backlog

\* connect_blocking_for_hash: the kernel queues the connection at the listener of
\* the path, whether it accepts yet or not; while its queue is full, connect blocks.
Connect(s) ==
    /\ pc[s] = "connect"
    /\ \/ /\ sock \in Daemons /\ HasRoom(sock)
          /\ conn' = [conn EXCEPT ![s] = [to |-> sock, st |-> "queued"]]
          /\ Goto(s, "write")
       \/ /\ sock \notin Daemons
          /\ Goto(s, "miss")
          /\ UNCHANGED conn
    /\ UNCHANGED <<sock, daemonVars, handled, gaveUp, calm>>

\* write_all and flush, before the watchdog is armed: a request that does not fit
\* the buffer is not written before the daemon reads it. A connection that was
\* reset, or that the daemon has closed after an error of its own, is a miss.
Write(s) ==
    /\ pc[s] = "write"
    /\ \/ /\ conn[s].st \in {"queued", "handling"}
          /\ s \in Large => conn[s].st = "handling" /\ dpc[conn[s].to] = "serve"
          /\ Goto(s, "wait")
          /\ UNCHANGED conn
       \/ /\ conn[s].st \in {"failed", "reset"}
          /\ Goto(s, "miss")
          /\ conn' = [conn EXCEPT ![s] = NoConn]
    /\ UNCHANGED <<sock, daemonVars, handled, gaveUp, calm>>

\* Fault: the ok flag of the answer is not looked at.
ReceiveIgnoresError(s) ==
    /\ pc[s] = "wait"
    /\ conn[s].st \in {"replied", "failed"}
    /\ Goto(s, "output")
    /\ conn' = [conn EXCEPT ![s] = NoConn]
    /\ UNCHANGED <<sock, daemonVars, handled, gaveUp, calm>>

\* Fault: the shim goes on to the fallback after it printed the answer.
ReceiveFallsThrough(s) ==
    /\ pc[s] = "wait"
    /\ conn[s].st \in {"replied", "failed"}
    /\ Goto(s, "miss")
    /\ conn' = [conn EXCEPT ![s] = NoConn]
    /\ UNCHANGED <<sock, daemonVars, handled, gaveUp, calm>>

\* An answer within the time limit is printed; an error in it, or one too large to
\* read, is a miss, and an answer of another version removes the socket first.
Receive(s) ==
    /\ pc[s] = "wait"
    /\ \/ /\ conn[s].st = "replied"
          /\ Goto(s, "output")
          /\ UNCHANGED gaveUp
       \/ /\ conn[s].st \in {"failed", "garbled", "reset"}
          /\ Goto(s, "miss")
          /\ gaveUp' = IF conn[s].st = "failed" THEN gaveUp ELSE gaveUp \cup {s}
       \/ /\ conn[s].st = "foreign"
          /\ Goto(s, "evict")
          /\ UNCHANGED gaveUp
    /\ conn' = [conn EXCEPT ![s] = NoConn]
    /\ UNCHANGED <<sock, daemonVars, handled, calm>>

\* Fault: the watchdog ends once the request is accepted.
TimeoutWhileQueued(s) ==
    /\ pc[s] = "wait"
    /\ conn[s].st = "queued"
    /\ Goto(s, "miss")
    /\ gaveUp' = gaveUp \cup {s}
    /\ conn' = [conn EXCEPT ![s] = IF @.st \in {"queued", "handling", "handled"} THEN @ ELSE NoConn]
    /\ UNCHANGED <<sock, daemonVars, handled, calm>>

\* The watchdog of ipc_roundtrip_blocking: the request stays with the daemon.
Timeout(s) ==
    /\ pc[s] = "wait"
    /\ Goto(s, "miss")
    /\ gaveUp' = gaveUp \cup {s}
    /\ conn' = [conn EXCEPT ![s] = IF @.st \in {"queued", "handling", "handled"} THEN @ ELSE NoConn]
    /\ UNCHANGED <<sock, daemonVars, handled, calm>>

\* remove_current_project_socket_best_effort: by path, whoever listens there now.
Evict(s) ==
    /\ pc[s] = "evict"
    /\ sock' = "none"
    /\ Goto(s, "miss")
    /\ calm' = FALSE
    /\ UNCHANGED <<daemonVars, conn, handled, gaveUp>>

\* A missed forward: an error where forwarding is forced; otherwise the shim
\* starts a daemon for the next event, if it can, and falls back.
Miss(s) ==
    /\ pc[s] = "miss"
    /\ \/ /\ "always" \in Modes
          /\ Goto(s, "error")
          /\ UNCHANGED dpc
       \/ /\ "auto" \in Modes
          /\ Goto(s, "fallback")
          /\ \/ UNCHANGED dpc
             \/ \E d \in Daemons \ (Hosts \cup Foreign) :
                   dpc[d] = "off" /\ dpc' = [dpc EXCEPT ![d] = "bind"]
    /\ UNCHANGED <<sock, probes, conn, handled, gaveUp, calm>>

\* The event is handled in-process; a runtime that fails leaves the no-op.
Fallback(s) ==
    /\ pc[s] = "fallback"
    /\ \/ Goto(s, "output") /\ handled' = [handled EXCEPT ![s] = @ + 1]
       \/ Goto(s, "noop") /\ UNCHANGED handled
    /\ UNCHANGED <<sock, daemonVars, conn, gaveUp, calm>>

-----------------------------------------------------------------------------
(* A daemon: bind_or_yield, then the accept loop *)

\* An MCP server, or a daemon of another installation, starts on its own.
Launch(d) ==
    /\ d \in Hosts \cup Foreign
    /\ dpc[d] = "off"
    /\ dpc' = [dpc EXCEPT ![d] = "bind"]
    /\ UNCHANGED <<sock, probes, shimVars, conn, handled, calm>>

\* The kernel gives the path to one binder: it fails if any file is there.
TryBind(d, occupied) ==
    IF sock = "none"
    THEN sock' = d /\ dpc' = [dpc EXCEPT ![d] = "init"]
    ELSE dpc' = [dpc EXCEPT ![d] = occupied] /\ UNCHANGED sock

\* Fault: "probe, remove, bind", the order bind_or_yield was written to avoid.
ProbesFirst(d) ==
    /\ dpc[d] = "bind"
    /\ dpc' = [dpc EXCEPT ![d] = "probe"]
    /\ UNCHANGED <<sock, probes, shimVars, conn, handled, calm>>

Bind(d) ==
    /\ dpc[d] = "bind"
    /\ TryBind(d, "probe")
    /\ UNCHANGED <<probes, shimVars, conn, handled, calm>>

\* One round of probe_socket. A file that is no socket is judged at the first
\* round only, before any connect.
Probe(d) ==
    /\ dpc[d] = "probe"
    /\ \/ /\ sock \in Daemons
          /\ dpc' = [dpc EXCEPT ![d] = "off"]
          /\ probes' = [probes EXCEPT ![d] = 0]
       \/ /\ probes[d] = Probes - 1 \/ (sock = "plain" /\ probes[d] = 0)
          /\ sock \notin Daemons
          /\ dpc' = [dpc EXCEPT ![d] = "unlink"]
          /\ probes' = [probes EXCEPT ![d] = 0]
       \/ /\ probes[d] < Probes - 1 /\ (sock = "plain" => probes[d] > 0)
          /\ sock \notin Daemons
          /\ probes' = [probes EXCEPT ![d] = @ + 1]
          /\ UNCHANGED dpc
    /\ UNCHANGED <<sock, shimVars, conn, handled, calm>>

\* Any error but refused or not found counts as live.
ProbeUnclear(d) ==
    /\ dpc[d] = "probe"
    /\ ~(sock = "plain" /\ probes[d] = 0)
    /\ dpc' = [dpc EXCEPT ![d] = "off"]
    /\ probes' = [probes EXCEPT ![d] = 0]
    /\ UNCHANGED <<sock, shimVars, conn, handled, calm>>

\* remove_file of a path judged stale: whatever is there by now is removed.
RemoveStale(d) ==
    /\ dpc[d] = "unlink"
    /\ sock' = "none"
    /\ dpc' = [dpc EXCEPT ![d] = "rebind"]
    /\ UNCHANGED <<probes, shimVars, conn, handled, calm>>

Rebind(d) ==
    /\ dpc[d] = "rebind"
    /\ TryBind(d, "off")
    /\ UNCHANGED <<probes, shimVars, conn, handled, calm>>

\* The end of a request: its shim finds it as long as it writes or waits.
Answered(s, st) == IF pc[s] \in {"write", "wait"} THEN [conn[s] EXCEPT !.st = st] ELSE NoConn

\* The requests of a process that ends are reset, those being handled included.
Reset(d) ==
    conn' = [s \in Shims |-> IF conn[s].to = d /\ conn[s].st \in {"queued", "handling", "handled"}
                             THEN Answered(s, "reset") ELSE conn[s]]

\* The process ends in good order: the dropped listener removes the path it was
\* bound to by its name.
Drop(d) ==
    /\ sock' = "none"
    /\ dpc' = [dpc EXCEPT ![d] = "off"]
    /\ Reset(d)
    /\ calm' = FALSE
    /\ UNCHANGED <<probes, shimVars, handled>>

Ready(d) ==
    /\ dpc[d] = "init"
    /\ dpc' = [dpc EXCEPT ![d] = "serve"]
    /\ UNCHANGED <<sock, probes, shimVars, conn, handled, calm>>

\* The database or the index cannot be opened, although the path is bound.
InitFails(d) == dpc[d] = "init" /\ Drop(d)

Accept(d, s) ==
    /\ dpc[d] = "serve"
    /\ conn[s] = [to |-> d, st |-> "queued"]
    /\ conn' = [conn EXCEPT ![s].st = "handling"]
    /\ UNCHANGED <<sock, daemonVars, shimVars, handled, calm>>

\* handle_connection reads the whole request; handle_request refuses another
\* version before any work. A line that cannot be read is answered before its end.
Handle(d, s) ==
    /\ dpc[d] = "serve"
    /\ conn[s] = [to |-> d, st |-> "handling"]
    /\ \/ /\ pc[s] # "write" /\ d \in Foreign
          /\ conn' = [conn EXCEPT ![s] = Answered(s, "foreign")]
          /\ UNCHANGED handled
       \/ /\ pc[s] # "write" /\ d \notin Foreign
          /\ conn' = [conn EXCEPT ![s].st = "handled"]
          /\ handled' = [handled EXCEPT ![s] = @ + 1]
       \/ /\ conn' = [conn EXCEPT ![s] = Answered(s, "failed")]
          /\ UNCHANGED handled
    /\ UNCHANGED <<sock, daemonVars, shimVars, calm>>

\* The answer is written; one that is too large the shim cannot read.
Reply(d, s) ==
    /\ dpc[d] = "serve"
    /\ conn[s] = [to |-> d, st |-> "handled"]
    /\ \E st \in {"replied", "garbled"} : conn' = [conn EXCEPT ![s] = Answered(s, st)]
    /\ UNCHANGED <<sock, daemonVars, shimVars, handled, calm>>

\* Fault: the reap waits for the handlers, too.
IdleReapWaits(d) ==
    /\ dpc[d] = "serve"
    /\ d \notin Hosts
    /\ \A s \in Shims : conn[s].to = d => conn[s].st \notin {"queued", "handling"}
    /\ Drop(d)

\* The accept times out: nothing is queued, whatever is still being handled.
IdleReap(d) ==
    /\ dpc[d] = "serve"
    /\ d \notin Hosts
    /\ \A s \in Shims : conn[s] # [to |-> d, st |-> "queued"]
    /\ Drop(d)

\* The MCP server that hosts the forwarder ends.
HostEnds(d) == d \in Hosts /\ dpc[d] \in {"init", "serve"} /\ Drop(d)

\* A listener hangs: its process is stopped, or waits for something for ever. Its
\* socket stays connectable, and it neither accepts nor reads nor ends.
Hang(d) ==
    /\ dpc[d] \in {"init", "serve"}
    /\ dpc' = [dpc EXCEPT ![d] = "hung"]
    /\ UNCHANGED <<sock, probes, shimVars, conn, handled, calm>>

\* A process is killed: its socket file stays, and nobody listens there.
Killed(d) ==
    /\ dpc[d] \notin {"absent", "off"}
    /\ dpc' = [dpc EXCEPT ![d] = "off"]
    /\ sock' = IF sock = d THEN "stale" ELSE sock
    /\ probes' = [probes EXCEPT ![d] = 0]
    /\ Reset(d)
    /\ calm' = (calm /\ d \notin Listening)
    /\ UNCHANGED <<shimVars, handled>>

ForwardStep(s) ==
    \/ QuickReturn(s) \/ Begin(s) \/ Connect(s) \/ Write(s) \/ Receive(s) \/ Timeout(s)
    \/ Evict(s) \/ Miss(s)

ShimStep(s) == ForwardStep(s) \/ Fallback(s)

StartStep(d) ==
    Bind(d) \/ Probe(d) \/ ProbeUnclear(d) \/ RemoveStale(d) \/ Rebind(d) \/ Ready(d) \/ InitFails(d)

DaemonStep(d) ==
    \/ Launch(d) \/ StartStep(d) \/ IdleReap(d) \/ HostEnds(d) \/ Hang(d) \/ Killed(d)
    \/ \E s \in Shims : Accept(d, s) \/ Handle(d, s) \/ Reply(d, s)

Next == (\E s \in Shims : ShimStep(s)) \/ (\E d \in Daemons : DaemonStep(d))

Spec == Init /\ [][Next]_vars

\* Processes that do not hang are scheduled and timers fire. Nothing says that a
\* handler ends, in a daemon or in-process, that a process is killed or an MCP
\* server started or stopped.
FairSpec ==
    /\ Spec
    /\ \A s \in Shims : WF_vars(ForwardStep(s))
    /\ \A d \in Daemons : WF_vars(StartStep(d)) /\ WF_vars(IdleReap(d))
    /\ \A d \in Daemons, s \in Shims : WF_vars(Accept(d, s))

-----------------------------------------------------------------------------
(* Properties *)

\* Daemons started together on a path nobody used settle to one: as long as no
\* listener has ended and no shim has evicted one, at most one process listens and
\* the path leads to it, however many starts race through bind_or_yield. Its
\* removals count: with the order "probe, remove, bind" of mod.rs:146-150 the second
\* of two starts would take the path from the first.
ColdStartSettlesToOne ==
    calm => \A d \in Listening : sock = d

\* A shim that printed a hook output had its event handled to the end, by a daemon
\* or in-process, whatever died or timed out in between; only the shim that reports
\* an error or a no-op may leave the event unhandled.
OutputMeansHandled ==
    \A s \in Shims : pc[s] = "output" => handled[s] > 0

\* An event is handled twice only if its shim gave up on a request that was
\* already on its way, or could not read its answer: no other order of answers,
\* errors and fallbacks repeats it.
TwiceOnlyAfterGivingUp ==
    \A s \in Shims : handled[s] > 1 => s \in gaveUp

\* Blocked where the watchdog of ipc_roundtrip_blocking does not reach: connecting
\* to a full queue, or writing, while the listener hangs.
Stalled(s) ==
    \/ pc[s] = "connect" /\ sock \in Daemons /\ dpc[sock] = "hung" /\ ~HasRoom(sock)
    \/ pc[s] = "write" /\ conn[s].to \in Daemons /\ dpc[conn[s].to] = "hung"

\* The warm path never holds up a hook: it ends or goes on to handle the event
\* in-process, although handlers may be stuck and daemons die or hang with a
\* connectable socket. The one exception is a hook that from some time on is
\* blocked in the connect or the write to a hung daemon (protocol.rs:339-343).
HooksMoveOn ==
    \A s \in Shims :
        \/ pc[s] = "start" ~> pc[s] \in Ends \cup {"fallback"}
        \/ <>[]Stalled(s)

\* A daemon whose path has been taken by another or removed is reaped, unless it
\* hangs: no later event can reach it and keep it alive.
OrphansAreReaped ==
    \A d \in Daemons \ Hosts :
        (d \in Listening /\ sock # d) ~> (d \notin Listening \/ dpc[d] = "hung")

\* What bind_or_yield says of its removal: it never takes the path from a peer
\* that listens there.
RemovesNoLiveSocket ==
    [][\A d \in Daemons : dpc[d] = "unlink" /\ dpc'[d] = "rebind" => sock \notin Daemons]_vars

=============================================================================
