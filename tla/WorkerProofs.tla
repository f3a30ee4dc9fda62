----------------------------- MODULE WorkerProofs -----------------------------
(***************************************************************************)
(* Theorems about Worker, for any set of connections: its state stays      *)
(* typed, and nothing but SIGTERM ends a worker that serves.               *)
(***************************************************************************)
EXTENDS Worker, TLAPS

\* shutdown_signal has returned only after SIGTERM, and the accept loop of a
\* serving worker ends only after shutdown_signal.
DrainStarted ==
    /\ seen => sigterm
    /\ proc = "serving" /\ ~accepting => seen

IInv == TypeOK /\ DrainStarted /\ NoEarlyExit

LEMMA InitEstablishes == Init => IInv
  BY WorkerAssumption DEF Init, IInv, TypeOK, DrainStarted, NoEarlyExit, ConnState

\* What happens outside the worker, and its way up to axum::serve.
LEMMA OutsideStep ==
    ASSUME IInv, CreateExtension \/ PortFreed \/ Sigterm \/ Boot
    PROVE  IInv'
<1> USE DEF IInv, TypeOK, DrainStarted, NoEarlyExit, serving, outside
<1>1. CASE CreateExtension  BY <1>1 DEF CreateExtension
<1>2. CASE PortFreed  BY <1>2 DEF PortFreed
<1>3. CASE Sigterm  BY <1>3 DEF Sigterm
<1>4. CASE Start  BY <1>4 DEF Start
<1>5. CASE ConnectFatal  BY <1>5 DEF ConnectFatal
<1>6. CASE BindFails  BY <1>6 DEF BindFails
<1>7. CASE Serve  BY <1>7 DEF Serve
<1>8. QED  BY <1>1, <1>2, <1>3, <1>4, <1>5, <1>6, <1>7 DEF Boot

\* A connection changes its own state and takes or frees the thread.
LEMMA ConnectionStep ==
    ASSUME IInv, NEW c \in Conns, Connection(c)
    PROVE  IInv'
<1> USE WorkerAssumption DEF IInv, TypeOK, DrainStarted, NoEarlyExit, outside, Free, ConnState
<1>1. CASE Accept(c)  BY <1>1 DEF Accept
<1>2. CASE NextRequest(c)  BY <1>2 DEF NextRequest
<1>3. CASE HandlerStart(c)  BY <1>3 DEF HandlerStart
<1>4. CASE HandlerEnd(c)  BY <1>4 DEF HandlerEnd
<1>5. CASE SseOpen(c)  BY <1>5 DEF SseOpen
<1>6. CASE SsePoll(c)  BY <1>6 DEF SsePoll
<1>7. CASE ConnEnds(c)  BY <1>7 DEF ConnEnds
<1>8. QED  BY <1>1, <1>2, <1>3, <1>4, <1>5, <1>6, <1>7 DEF Connection

\* The drain: both arms of the select end the worker only after drain_tx.
LEMMA ShutdownStep ==
    ASSUME IInv, Shutdown
    PROVE  IInv'
<1> USE WorkerAssumption DEF IInv, TypeOK, DrainStarted, NoEarlyExit, outside, Free, ConnState
<1>1. CASE Observe  BY <1>1 DEF Observe
<1>2. CASE StopAccepting  BY <1>2 DEF StopAccepting
<1>3. CASE DrainDone  BY <1>3 DEF DrainDone, Drained, Exit
<1>4. CASE CapFires  BY <1>4 DEF CapFires, Exit
<1>5. QED  BY <1>1, <1>2, <1>3, <1>4 DEF Shutdown

LEMMA StepPreserves == IInv /\ [Next]_vars => IInv'
<1> SUFFICES ASSUME IInv, [Next]_vars PROVE IInv'
  OBVIOUS
<1>1. CASE CreateExtension \/ PortFreed \/ Sigterm \/ Boot  BY <1>1, OutsideStep
<1>2. CASE Shutdown  BY <1>2, ShutdownStep
<1>3. CASE \E c \in Conns : Connection(c)  BY <1>3, ConnectionStep
<1>4. CASE UNCHANGED vars
  BY <1>4 DEF IInv, TypeOK, DrainStarted, NoEarlyExit, vars, serving, outside
<1>5. QED  BY <1>1, <1>2, <1>3, <1>4 DEF Next, Over

LEMMA Invariance == Spec => []IInv
  BY InitEstablishes, StepPreserves, PTL DEF Spec

\* Type correctness: among others, the thread is held by exactly the connection
\* whose handler runs, and no connection outlives the process.
THEOREM TypeCorrect == Spec => []TypeOK
<1>1. IInv => TypeOK  BY DEF IInv
<1>2. QED  BY <1>1, Invariance, PTL

\* worker.rs:235-285: with any number of connections, neither the drained server
\* nor the drain cap ends the worker before SIGTERM.
THEOREM ServesUntilSigterm == Spec => []NoEarlyExit
<1>1. IInv => NoEarlyExit  BY DEF IInv
<1>2. QED  BY <1>1, Invariance, PTL
=============================================================================
