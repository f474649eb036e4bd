------------------------- MODULE HookForwardProofs -------------------------
(* Proofs about HookForward, for any number of shims, daemons, MCP servers   *)
(* and installations. The properties rest on a bookkeeping of each shim that *)
(* says, for every place it may be at, what can have become of its request   *)
(* and how often its event can have been handled by then.                    *)
EXTENDS HookForward, TLAPS

Pending == {"queued", "handling", "handled"}

Places == {"start", "connect", "write", "wait", "evict", "miss", "fallback"} \cup Ends
Stops == {"replied", "garbled", "failed", "foreign", "reset"}

\* Before the request, while the shim writes it, while it waits, while it is on its way to the fallback
\* and after its end.
Before(s) == conn[s] = NoConn /\ handled[s] = 0 /\ s \notin gaveUp

Writing(s) ==
    /\ conn[s] \in Conns /\ s \notin gaveUp /\ handled[s] = 0
    /\ conn[s].st \in {"queued", "handling", "failed", "reset"}

During(s) ==
    /\ conn[s] \in Conns /\ s \notin gaveUp
    /\ conn[s].st \in {"queued", "handling", "failed", "foreign"} => handled[s] = 0
    /\ conn[s].st \in {"handled", "replied", "garbled"} => handled[s] = 1
    /\ conn[s].st = "reset" => handled[s] <= 1

Leaving(s, n) ==
    /\ conn[s] = NoConn \/ (conn[s] \in Conns /\ conn[s].st \in Pending)
    /\ handled[s] <= n
    /\ conn[s] # NoConn /\ conn[s].st \in {"queued", "handling"} => handled[s] < n
    /\ s \notin gaveUp => conn[s] = NoConn /\ handled[s] < n

Bookkeeping(s) ==
    /\ pc[s] \in {"start", "connect"} => Before(s)
    /\ pc[s] = "write" => Writing(s)
    /\ pc[s] = "wait" => During(s)
    /\ pc[s] \in {"evict", "miss", "fallback"} => Leaving(s, 1)
    /\ pc[s] \in Ends => Leaving(s, 2)
    /\ pc[s] = "output" => handled[s] > 0

\* The type invariant without the bound on handled, which needs the bookkeeping.
Typed ==
    /\ sock \in {"none", "stale", "plain"} \cup Daemons
    /\ dpc \in [Daemons -> {"absent", "off", "bind", "probe", "unlink", "rebind", "init", "serve",
                          "hung"}]
    /\ probes \in [Daemons -> 0..(Probes - 1)]
    /\ pc \in [Shims -> Places]
    /\ conn \in [Shims -> Conns \cup {NoConn}]
    /\ handled \in [Shims -> Nat]
    /\ gaveUp \subseteq Shims
    /\ calm \in BOOLEAN

Booked == \A s \in Shims : Bookkeeping(s)

IInv == Typed /\ Booked

\* A request is never mistaken for no request.
LEMMA Constants ==
    /\ NoConn \notin Conns
    /\ \A c \in Conns : c.to \in Daemons /\ c.to # "none" /\ c.st # "none"
BY ForwardAssumption DEF Conns, NoConn

\* The invariant holds when no process has taken a step.
LEMMA InitIInv == Init => IInv
BY ForwardAssumption DEF Init, IInv, Typed, Booked, Bookkeeping, Before, Probes, Ends, Places, NoConn

\* The bookkeeping bounds how often an event is handled, at every place of its shim.
LEMMA InvariantsFollow == IInv => TypeOK /\ OutputMeansHandled /\ TwiceOnlyAfterGivingUp
<1> SUFFICES ASSUME IInv PROVE TypeOK /\ OutputMeansHandled /\ TwiceOnlyAfterGivingUp
    OBVIOUS
<1>1. ASSUME NEW s \in Shims
      PROVE  handled[s] \in 0..2 /\ (handled[s] > 1 => s \in gaveUp) /\ (pc[s] = "output" => handled[s] > 0)
  <2>1. Bookkeeping(s) /\ handled[s] \in Nat
        /\ pc[s] \in Places
        BY DEF IInv, Booked, Typed
  <2>2. CASE pc[s] \in {"start", "connect"}
        BY <2>1, <2>2 DEF Bookkeeping, Before
  <2>3. CASE pc[s] = "wait"
        BY <2>1, <2>3 DEF Bookkeeping, During, Conns
  <2>6. CASE pc[s] = "write"
        BY <2>1, <2>6 DEF Bookkeeping, Writing
  <2>4. CASE pc[s] \in {"evict", "miss", "fallback"}
        BY <2>1, <2>4 DEF Bookkeeping, Leaving
  <2>5. CASE pc[s] \in Ends
        BY <2>1, <2>5 DEF Bookkeeping, Leaving, Ends
  <2>q. QED BY <2>1, <2>2, <2>3, <2>4, <2>5, <2>6 DEF Places
<1>2. handled \in [Shims -> 0..2]
      BY <1>1 DEF IInv, Typed
<1>q. QED BY <1>1, <1>2 DEF IInv, Typed, TypeOK, Places, OutputMeansHandled, TwiceOnlyAfterGivingUp

-----------------------------------------------------------------------------
(* Types *)

\* Every step of a shim (difflore-hook) keeps the types.
LEMMA TypedShim == ASSUME Typed, NEW s \in Shims, ShimStep(s) PROVE Typed'
<1> USE ForwardAssumption DEF Typed, Goto, Ends, Places
<1>1. CASE QuickReturn(s)
      BY <1>1 DEF QuickReturn, daemonVars
<1>2. CASE Begin(s)
      BY <1>2 DEF Begin, daemonVars
<1>3. CASE Connect(s)
  <2>1. CASE sock \in Daemons
    <3>1. [to |-> sock, st |-> "queued"] \in Conns
          BY <2>1 DEF Conns
    <3>q. QED BY <1>3, <2>1, <3>1 DEF Connect, daemonVars
  <2>2. CASE sock \notin Daemons
        BY <1>3, <2>2 DEF Connect, daemonVars
  <2>q. QED BY <2>1, <2>2
<1>9. CASE Write(s)
      BY <1>9 DEF Write, daemonVars
<1>4. CASE Receive(s)
      BY <1>4 DEF Receive, daemonVars
<1>5. CASE Timeout(s)
      BY <1>5 DEF Timeout, daemonVars
<1>6. CASE Evict(s)
      BY <1>6 DEF Evict, daemonVars
<1>7. CASE Miss(s)
      BY <1>7 DEF Miss, daemonVars
<1>8. CASE Fallback(s)
      BY <1>8 DEF Fallback, daemonVars
<1>q. QED BY <1>1, <1>2, <1>3, <1>4, <1>5, <1>6, <1>7, <1>8, <1>9 DEF ShimStep, ForwardStep

\* An answer to a request is a request state, or none if nobody waits.
LEMMA AnsweredTyped ==
    ASSUME Typed, NEW s \in Shims, conn[s] \in Conns,
           NEW st \in Stops
    PROVE  Answered(s, st) \in Conns \cup {NoConn}
BY DEF Answered, Conns, Stops

\* So is what the end of a daemon makes of its requests.
LEMMA ResetTyped ==
    ASSUME Typed, NEW d \in Daemons, Reset(d)
    PROVE  conn' \in [Shims -> Conns \cup {NoConn}]
<1>1. ASSUME NEW s \in Shims PROVE conn'[s] \in Conns \cup {NoConn}
  <2>1. CASE conn[s].to = d /\ conn[s].st \in Pending
    <3>1. conn[s] \in Conns
          BY <2>1, ForwardAssumption DEF Typed, NoConn, Pending
    <3>q. QED BY <2>1, <3>1, AnsweredTyped DEF Reset, Pending, Stops
  <2>2. CASE ~(conn[s].to = d /\ conn[s].st \in Pending)
        BY <2>2 DEF Reset, Typed, Pending
  <2>q. QED BY <2>1, <2>2
<1>q. QED BY <1>1 DEF Reset

\* Every step of a daemon or MCP server keeps the types.
LEMMA TypedDaemon == ASSUME Typed, NEW d \in Daemons, DaemonStep(d) PROVE Typed'
<1> USE ForwardAssumption DEF shimVars, daemonVars
<1>1. CASE Launch(d)
      BY <1>1 DEF Launch, Typed
<1>2. CASE Bind(d)
      BY <1>2 DEF Bind, TryBind, Typed
<1>3. CASE Probe(d)
      BY <1>3 DEF Probe, Typed, Probes
<1>4. CASE ProbeUnclear(d)
      BY <1>4 DEF ProbeUnclear, Typed, Probes
<1>5. CASE RemoveStale(d)
      BY <1>5 DEF RemoveStale, Typed
<1>6. CASE Rebind(d)
      BY <1>6 DEF Rebind, TryBind, Typed
<1>7. CASE Ready(d)
      BY <1>7 DEF Ready, Typed
<1>8. ASSUME Drop(d) PROVE Typed'
      BY <1>8, ResetTyped DEF Drop, Typed
<1>13. CASE Hang(d)
      BY <1>13 DEF Hang, Typed
<1>9. CASE Killed(d)
      BY <1>9, ResetTyped DEF Killed, Typed, Probes
<1>10. ASSUME NEW s \in Shims, Accept(d, s) PROVE Typed'
      BY <1>10 DEF Accept, Typed, Conns, NoConn
<1>11. ASSUME NEW s \in Shims, Handle(d, s) PROVE Typed'
  <2>1. conn[s] \in Conns
        BY <1>11 DEF Handle, Conns
  <2>2. [conn[s] EXCEPT !.st = "handled"] \in Conns
        BY <2>1 DEF Conns
  <2>3. Answered(s, "foreign") \in Conns \cup {NoConn} /\ Answered(s, "failed") \in Conns \cup {NoConn}
        BY <2>1, AnsweredTyped DEF Stops
  <2>q. QED BY <1>11, <2>2, <2>3 DEF Handle, Typed
<1>12. ASSUME NEW s \in Shims, Reply(d, s) PROVE Typed'
  <2>1. Answered(s, "replied") \in Conns \cup {NoConn} /\ Answered(s, "garbled") \in Conns \cup {NoConn}
        BY <1>12, AnsweredTyped DEF Reply, Conns, Stops
  <2>q. QED BY <1>12, <2>1 DEF Reply, Typed
<1>q. QED BY <1>1, <1>2, <1>3, <1>4, <1>5, <1>6, <1>7, <1>8, <1>9, <1>10, <1>11, <1>12, <1>13
          DEF DaemonStep, StartStep, InitFails, IdleReap, HostEnds

-----------------------------------------------------------------------------
(* The bookkeeping of the shims *)

\* A step leaves the shims it does not touch as they were.
LEMMA OthersBooked ==
    ASSUME NEW t \in Shims, Bookkeeping(t), pc'[t] = pc[t], conn'[t] = conn[t],
           handled'[t] = handled[t], t \in gaveUp' <=> t \in gaveUp
    PROVE  Bookkeeping(t)'
BY DEF Bookkeeping, Before, Writing, During, Leaving

\* Every step of a shim keeps the books, its own and those of the others.
LEMMA BookedShim == ASSUME Typed, Booked, NEW s \in Shims, ShimStep(s) PROVE Booked'
<1> USE DEF Typed, Booked
<1>1. ASSUME NEW t \in Shims, t # s PROVE Bookkeeping(t)'
  <2>1. /\ pc'[t] = pc[t] /\ conn'[t] = conn[t] /\ handled'[t] = handled[t]
        /\ t \in gaveUp' <=> t \in gaveUp
        BY <1>1 DEF ShimStep, ForwardStep, QuickReturn, Begin, Connect, Write, Receive, Timeout, Evict,
                    Miss, Fallback, Goto
  <2>q. QED BY <2>1, OthersBooked
<1>2. Bookkeeping(s)'
  <2> USE DEF Bookkeeping, Goto, Ends
  <2>1. CASE QuickReturn(s)
        BY <2>1, Constants DEF QuickReturn, Before, Leaving
  <2>2. CASE Begin(s)
        BY <2>2, Constants DEF Begin, Before, Leaving
  <2>3. CASE Connect(s)
    <3>1. CASE sock \in Daemons
      <4>1. /\ conn'[s] = [to |-> sock, st |-> "queued"] /\ pc'[s] = "write"
            /\ handled'[s] = handled[s] /\ gaveUp' = gaveUp
            BY <2>3, <3>1 DEF Connect
      <4>2. Writing(s)'
            BY <2>3, <3>1, <4>1 DEF Connect, Before, Writing, Conns
      <4>q. QED BY <4>1, <4>2
    <3>2. CASE sock \notin Daemons
          BY <2>3, <3>2 DEF Connect, Before, Leaving
    <3>q. QED BY <3>1, <3>2
  <2>9. CASE Write(s)
    <3>1. Writing(s) /\ handled'[s] = handled[s] /\ gaveUp' = gaveUp /\ handled[s] \in Nat
          BY <2>9 DEF Write
    <3>2. CASE pc'[s] = "wait"
      <4>1. conn'[s] = conn[s] /\ conn[s].st \in {"queued", "handling"}
            BY <2>9, <3>2 DEF Write
      <4>q. QED BY <3>1, <3>2, <4>1 DEF Writing, During
    <3>3. CASE pc'[s] = "miss"
      <4>1. conn'[s] = NoConn
            BY <2>9, <3>3 DEF Write
      <4>q. QED BY <3>1, <3>3, <4>1 DEF Writing, Leaving
    <3>q. QED BY <2>9, <3>2, <3>3 DEF Write
  <2>4. CASE Receive(s)
    <3>1. conn'[s] = NoConn /\ handled'[s] = handled[s] /\ During(s) /\ handled[s] \in Nat
          BY <2>4 DEF Receive
    <3>2. CASE conn[s].st = "replied"
          BY <2>4, <3>1, <3>2 DEF Receive, During, Leaving
    <3>3. CASE conn[s].st \in {"failed", "foreign"}
          BY <2>4, <3>1, <3>3 DEF Receive, During, Leaving
    <3>4. CASE conn[s].st \in {"garbled", "reset"}
          BY <2>4, <3>1, <3>4 DEF Receive, During, Leaving
    <3>q. QED BY <2>4, <3>2, <3>3, <3>4 DEF Receive
  <2>5. CASE Timeout(s)
    <3>1. pc'[s] = "miss" /\ s \in gaveUp' /\ handled'[s] = handled[s] /\ During(s) /\ handled[s] \in Nat
          BY <2>5 DEF Timeout
    <3>2. CASE conn[s].st \in Pending
          BY <2>5, <3>1, <3>2, Constants DEF Timeout, During, Leaving, Pending
    <3>3. CASE conn[s].st \notin Pending
      <4>1. conn'[s] = NoConn /\ handled[s] <= 1
            BY <2>5, <3>1, <3>3 DEF Timeout, During, Pending, Conns
      <4>q. QED BY <3>1, <4>1 DEF Leaving
    <3>q. QED BY <3>2, <3>3
  <2>6. CASE Evict(s)
        BY <2>6 DEF Evict, Leaving
  <2>7. CASE Miss(s)
    <3>1. /\ pc[s] = "miss" /\ pc'[s] \in {"error", "fallback"} /\ handled'[s] = handled[s]
          /\ conn'[s] = conn[s] /\ gaveUp' = gaveUp /\ handled[s] \in Nat
          BY <2>7 DEF Miss
    <3>q. QED BY <3>1 DEF Leaving
  <2>8. CASE Fallback(s)
    <3>1. /\ pc[s] = "fallback" /\ pc'[s] \in {"output", "noop"} /\ conn'[s] = conn[s]
          /\ gaveUp' = gaveUp /\ handled[s] \in Nat
          /\ handled'[s] = handled[s] + (IF pc'[s] = "output" THEN 1 ELSE 0)
          BY <2>8 DEF Fallback
    <3>q. QED BY <3>1 DEF Leaving
  <2>q. QED BY <2>1, <2>2, <2>3, <2>4, <2>5, <2>6, <2>7, <2>8, <2>9 DEF ShimStep, ForwardStep
<1>q. QED BY <1>1, <1>2

\* The answer to a request, or its reset: a shim that still waits sees it.
LEMMA AnsweredBooked ==
    ASSUME Typed, NEW s \in Shims, Bookkeeping(s), conn[s] \in Conns,
           NEW st \in Stops,
           conn'[s] = Answered(s, st), pc'[s] = pc[s], handled'[s] = handled[s], gaveUp' = gaveUp,
           conn[s].st \in Pending,
           st \in {"replied", "garbled"} => conn[s].st = "handled",
           st \in {"failed", "foreign"} => conn[s].st = "handling",
           st = "foreign" => pc[s] # "write"
    PROVE  Bookkeeping(s)'
<1> USE DEF Bookkeeping
<1>1. pc[s] \in Places /\ handled[s] \in Nat
      BY DEF Typed
<1>2. CASE pc[s] = "wait"
  <2>1. conn'[s].st = st /\ conn'[s] \in Conns
        BY <1>2 DEF Answered, Conns, Stops
  <2>2. During(s)'
        BY <1>1, <1>2, <2>1 DEF During, Pending, Stops
  <2>q. QED BY <1>2, <2>2 DEF Ends
<1>4. CASE pc[s] = "write"
  <2>1. conn'[s].st = st /\ conn'[s] \in Conns
        BY <1>4 DEF Answered, Conns, Stops
  <2>2. Writing(s) /\ conn[s].st \in {"queued", "handling"}
        BY <1>4 DEF Writing, Pending
  <2>3. Writing(s)'
        BY <1>4, <2>1, <2>2 DEF Writing, Stops
  <2>q. QED BY <1>4, <2>3 DEF Ends
<1>3. CASE pc[s] \notin {"write", "wait"}
  <2>1. conn'[s] = NoConn
        BY <1>3 DEF Answered
  <2>2. pc[s] \notin {"start", "connect"}
        BY Constants DEF Before
  <2>q. QED BY <1>1, <1>3, <2>1, <2>2 DEF Leaving, Places
<1>q. QED BY <1>2, <1>3, <1>4

\* A daemon that ends resets its requests, and every book still agrees.
LEMMA ResetBooked ==
    ASSUME Typed, Booked, NEW d \in Daemons, Reset(d), pc' = pc, handled' = handled, gaveUp' = gaveUp
    PROVE  Booked'
<1>1. ASSUME NEW s \in Shims PROVE Bookkeeping(s)'
  <2>1. CASE conn[s].to = d /\ conn[s].st \in Pending
    <3>1. conn[s] \in Conns
          BY <2>1, ForwardAssumption DEF Typed, NoConn
    <3>2. conn'[s] = Answered(s, "reset")
          BY <2>1 DEF Reset, Pending
    <3>q. QED BY <2>1, <3>1, <3>2, AnsweredBooked DEF Booked, Stops
  <2>2. CASE ~(conn[s].to = d /\ conn[s].st \in Pending)
    <3>1. conn'[s] = conn[s]
          BY <2>2 DEF Reset, Pending
    <3>q. QED BY <3>1, OthersBooked DEF Booked
  <2>q. QED BY <2>1, <2>2
<1>q. QED BY <1>1 DEF Booked

\* Every step of a daemon keeps the books of the shims.
LEMMA BookedDaemon == ASSUME Typed, Booked, NEW d \in Daemons, DaemonStep(d) PROVE Booked'
<1>1. ASSUME pc' = pc, conn' = conn, handled' = handled, gaveUp' = gaveUp PROVE Booked'
      BY <1>1, OthersBooked DEF Booked
<1>2. CASE Launch(d) \/ Bind(d) \/ Probe(d) \/ ProbeUnclear(d) \/ RemoveStale(d) \/ Rebind(d) \/ Ready(d) \/ Hang(d)
      BY <1>1, <1>2 DEF Launch, Bind, Probe, ProbeUnclear, RemoveStale, Rebind, Ready, Hang, shimVars
<1>3. ASSUME Drop(d) PROVE Booked'
      BY <1>3, ResetBooked DEF Drop, shimVars
<1>4. CASE Killed(d)
      BY <1>4, ResetBooked DEF Killed, shimVars
<1>5. ASSUME NEW s \in Shims, Accept(d, s) \/ Handle(d, s) \/ Reply(d, s) PROVE Booked'
  <2>1. ASSUME NEW t \in Shims, t # s PROVE Bookkeeping(t)'
    <3>1. /\ pc'[t] = pc[t] /\ conn'[t] = conn[t] /\ handled'[t] = handled[t]
          /\ t \in gaveUp' <=> t \in gaveUp
          BY <1>5, <2>1 DEF Accept, Handle, Reply, Typed, shimVars
    <3>q. QED BY <3>1, OthersBooked DEF Booked
  <2>2. /\ Bookkeeping(s) /\ pc' = pc /\ gaveUp' = gaveUp /\ conn[s] \in Conns /\ conn[s].st \in Pending
        /\ handled[s] \in Nat
        /\ pc[s] \in Places
        BY <1>5 DEF Accept, Handle, Reply, Booked, Typed, Conns, Pending, shimVars
  <2>3. pc[s] \notin {"start", "connect"}
        BY <2>2, Constants DEF Bookkeeping, Before
  <2>4. CASE Accept(d, s)
    <3>1. conn[s].st = "queued" /\ conn'[s] = [to |-> d, st |-> "handling"] /\ handled'[s] = handled[s]
          BY <2>4 DEF Accept, Typed
    <3>2. conn'[s] \in Conns /\ conn'[s].st = "handling"
          BY <3>1 DEF Conns
    <3>3. Bookkeeping(s)'
          BY <2>2, <2>3, <3>1, <3>2, Constants DEF Bookkeeping, Writing, During, Leaving, Pending
    <3>q. QED BY <2>1, <3>3 DEF Booked
  <2>5. CASE Handle(d, s)
    <3>0. conn[s].st = "handling"
          BY <2>5 DEF Handle
    <3>1. CASE pc[s] # "write" /\ conn'[s] = [to |-> d, st |-> "handled"] /\ handled'[s] = handled[s] + 1
      <4>1. conn'[s] \in Conns /\ conn'[s].st = "handled"
            BY <3>1 DEF Conns
      <4>2. Bookkeeping(s)'
            BY <2>2, <2>3, <3>0, <3>1, <4>1, Constants DEF Bookkeeping, During, Leaving, Ends, Pending
      <4>q. QED BY <2>1, <4>2 DEF Booked
    <3>2. CASE pc[s] # "write" /\ conn'[s] = Answered(s, "foreign") /\ handled'[s] = handled[s]
          BY <2>1, <2>2, <3>0, <3>2, AnsweredBooked DEF Booked, Stops
    <3>3. CASE conn'[s] = Answered(s, "failed") /\ handled'[s] = handled[s]
          BY <2>1, <2>2, <3>0, <3>3, AnsweredBooked DEF Booked, Stops
    <3>q. QED BY <2>5, <3>1, <3>2, <3>3 DEF Handle, Typed
  <2>6. CASE Reply(d, s)
    <3>1. conn[s].st = "handled" /\ handled'[s] = handled[s]
          BY <2>6 DEF Reply
    <3>2. PICK st \in {"replied", "garbled"} : conn'[s] = Answered(s, st)
          BY <2>6 DEF Reply, Typed
    <3>q. QED BY <2>1, <2>2, <3>1, <3>2, AnsweredBooked DEF Booked, Stops
  <2>q. QED BY <1>5, <2>4, <2>5, <2>6
<1>q. QED BY <1>2, <1>3, <1>4, <1>5 DEF DaemonStep, StartStep, InitFails, IdleReap, HostEnds

-----------------------------------------------------------------------------
(* The theorems *)

\* The invariant is inductive.
LEMMA StepIInv == IInv /\ [Next]_vars => IInv'
<1> SUFFICES ASSUME IInv, [Next]_vars PROVE IInv'
    OBVIOUS
<1>1. ASSUME NEW s \in Shims, ShimStep(s) PROVE IInv'
      BY <1>1, TypedShim, BookedShim DEF IInv
<1>2. ASSUME NEW d \in Daemons, DaemonStep(d) PROVE IInv'
      BY <1>2, TypedDaemon, BookedDaemon DEF IInv
<1>3. CASE UNCHANGED vars
  <2>1. Typed'
        BY <1>3 DEF vars, IInv, Typed
  <2>2. Booked'
        BY <1>3, OthersBooked DEF vars, IInv, Booked
  <2>q. QED BY <2>1, <2>2 DEF IInv
<1>q. QED BY <1>1, <1>2, <1>3 DEF Next

\* The warm path keeps its types: in particular no event is handled more than
\* twice, by handle_request and fallback_to_runtime together.
THEOREM ForwardTyped == Spec => []TypeOK
<1>1. IInv => TypeOK
      BY InvariantsFollow
<1>q. QED BY <1>1, InitIInv, StepIInv, PTL DEF Spec

\* A shim prints an answer only if the runtime has handled its event to the end,
\* in the daemon or in-process.
THEOREM OutputIsEarned == Spec => []OutputMeansHandled
<1>1. IInv => OutputMeansHandled
      BY InvariantsFollow
<1>q. QED BY <1>1, InitIInv, StepIInv, PTL DEF Spec

\* An event is handled twice only if its shim gave up on a request it had written:
\* ipc_roundtrip_blocking timed out or the daemon went away.
THEOREM HandledOnceOrGivenUp == Spec => []TwiceOnlyAfterGivingUp
<1>1. IInv => TwiceOnlyAfterGivingUp
      BY InvariantsFollow
<1>q. QED BY <1>1, InitIInv, StepIInv, PTL DEF Spec

\* As long as no listener has ended and no shim has evicted one, the path leads to
\* the one listener or is empty, and a start that found it taken finds a live peer
\* there: none gets as far as the removal.
Settled ==
    calm => /\ sock \in {"none"} \cup Listening
            /\ \A d \in Listening : sock = d
            /\ \A d \in Daemons : dpc[d] = "probe" => sock \in Daemons
            /\ \A d \in Daemons : dpc[d] \notin {"unlink", "rebind"}

\* A step of a shim neither binds nor probes; its eviction ends the calm.
LEMMA SettledShim == ASSUME Typed, Settled, NEW s \in Shims, ShimStep(s) PROVE Settled'
<1>1. CASE Miss(s)
  <2>1. sock' = sock /\ calm' = calm
        BY <1>1 DEF Miss
  <2>2. ASSUME NEW d \in Daemons PROVE dpc'[d] = dpc[d] \/ (dpc[d] = "off" /\ dpc'[d] = "bind")
        BY <1>1 DEF Miss, Typed
  <2>3. Listening' = Listening
        BY <2>2 DEF Listening
  <2>q. QED BY <2>1, <2>2, <2>3 DEF Settled
<1>2. CASE Evict(s)
      BY <1>2 DEF Evict, Settled
<1>3. CASE \/ QuickReturn(s) \/ Begin(s) \/ Connect(s) \/ Write(s) \/ Receive(s) \/ Timeout(s)
           \/ Fallback(s)
  <2>1. sock' = sock /\ calm' = calm /\ dpc' = dpc
        BY <1>3 DEF QuickReturn, Begin, Connect, Write, Receive, Timeout, Fallback, daemonVars
  <2>q. QED BY <2>1 DEF Settled, Listening
<1>q. QED BY <1>1, <1>2, <1>3 DEF ShimStep, ForwardStep

\* A start binds only an empty path, where nobody can be listening, and yields to
\* the peer it finds behind a path that is taken.
LEMMA SettledDaemon == ASSUME Typed, Settled, NEW d \in Daemons, DaemonStep(d) PROVE Settled'
<1>1. CASE Bind(d)
  <2>1. CASE sock = "none"
    <3>1. calm => \A e \in Daemons : e \notin Listening /\ dpc[e] # "probe"
          BY <2>1, ForwardAssumption DEF Settled
    <3>2. sock' = d /\ dpc' = [dpc EXCEPT ![d] = "init"] /\ calm' = calm
          BY <1>1, <2>1 DEF Bind, TryBind
    <3>q. QED BY <3>1, <3>2 DEF Settled, Listening, Typed
  <2>2. CASE sock # "none"
    <3>1. sock' = sock /\ dpc[d] = "bind" /\ dpc' = [dpc EXCEPT ![d] = "probe"] /\ calm' = calm
          BY <1>1, <2>2 DEF Bind, TryBind
    <3>2. Listening' = Listening
          BY <3>1 DEF Listening, Typed
    <3>q. QED BY <2>2, <3>1, <3>2 DEF Settled, Typed, Listening
  <2>q. QED BY <2>1, <2>2
<1>2. CASE Probe(d) \/ ProbeUnclear(d)
  <2>1. sock' = sock /\ calm' = calm /\ dpc[d] = "probe"
        BY <1>2 DEF Probe, ProbeUnclear
  <2>2. calm => dpc' = [dpc EXCEPT ![d] = "off"]
        BY <1>2, <2>1 DEF Probe, ProbeUnclear, Settled
  <2>q. QED BY <2>1, <2>2 DEF Settled, Listening, Typed
<1>3. CASE RemoveStale(d) \/ Rebind(d)
      BY <1>3 DEF RemoveStale, Rebind, Settled
<1>4. CASE Launch(d)
  <2>1. sock' = sock /\ calm' = calm /\ dpc[d] = "off" /\ dpc' = [dpc EXCEPT ![d] = "bind"]
        BY <1>4 DEF Launch
  <2>2. Listening' = Listening
        BY <2>1 DEF Listening, Typed
  <2>q. QED BY <2>1, <2>2 DEF Settled, Typed
<1>5. CASE Ready(d) \/ Hang(d)
  <2>1. /\ sock' = sock /\ calm' = calm /\ d \in Listening
        /\ dpc' = [dpc EXCEPT ![d] = "serve"] \/ dpc' = [dpc EXCEPT ![d] = "hung"]
        BY <1>5 DEF Ready, Hang, Listening
  <2>q. QED BY <2>1 DEF Settled, Listening, Typed
<1>6. ASSUME Drop(d) PROVE Settled'
      BY <1>6 DEF Drop, Settled
<1>7. CASE Killed(d)
  <2>1. dpc' = [dpc EXCEPT ![d] = "off"] /\ sock' = (IF sock = d THEN "stale" ELSE sock)
        /\ calm' = (calm /\ d \notin Listening)
        BY <1>7 DEF Killed
  <2>2. CASE sock = d
        BY <2>1, <2>2, ForwardAssumption DEF Settled
  <2>3. CASE sock # d /\ d \notin Listening
        BY <2>1, <2>3 DEF Settled, Listening, Typed
  <2>4. CASE ~calm \/ d \in Listening
        BY <2>1, <2>4 DEF Settled
  <2>q. QED BY <2>2, <2>3, <2>4
<1>8. ASSUME NEW s \in Shims, Accept(d, s) \/ Handle(d, s) \/ Reply(d, s) PROVE Settled'
  <2>1. sock' = sock /\ calm' = calm /\ dpc' = dpc
        BY <1>8 DEF Accept, Handle, Reply, daemonVars
  <2>q. QED BY <2>1 DEF Settled, Listening
<1>q. QED BY <1>1, <1>2, <1>3, <1>4, <1>5, <1>6, <1>7, <1>8
          DEF DaemonStep, StartStep, InitFails, IdleReap, HostEnds

\* However many starts race through bind_or_yield on a path nobody used, one of them
\* ends up listening and is not dislodged: the others probe a live peer and yield,
\* and none reaches the removal that could take the path away.
THEOREM ColdStartIsUnique == Spec => []ColdStartSettlesToOne
<1>1. Init => IInv /\ Settled
  <2>1. Init => Settled
        BY ForwardAssumption DEF Init, Settled, Listening
  <2>q. QED BY <2>1, InitIInv
<1>2. IInv /\ Settled /\ [Next]_vars => (IInv /\ Settled)'
  <2> SUFFICES ASSUME IInv, Settled, [Next]_vars PROVE Settled'
      BY StepIInv
  <2>1. ASSUME NEW s \in Shims, ShimStep(s) PROVE Settled'
        BY <2>1, SettledShim DEF IInv
  <2>2. ASSUME NEW d \in Daemons, DaemonStep(d) PROVE Settled'
        BY <2>2, SettledDaemon DEF IInv
  <2>3. CASE UNCHANGED vars
        BY <2>3 DEF vars, Settled, Listening
  <2>q. QED BY <2>1, <2>2, <2>3 DEF Next
<1>3. Settled => ColdStartSettlesToOne
      BY DEF Settled, ColdStartSettlesToOne
<1>q. QED BY <1>1, <1>2, <1>3, PTL DEF Spec

=============================================================================
