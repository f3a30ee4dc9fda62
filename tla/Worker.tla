-------------------------------- MODULE Worker ---------------------------------
(***************************************************************************)
(* The life of the background worker: the postmaster starts and restarts   *)
(* it (lib.rs), it connects as the serving role and binds the port, serves *)
(* connections on its one thread, and drains after SIGTERM (worker.rs).    *)
(* SSE streams of livereload.rs wait for ListenRouter::request_shutdown.   *)
(*                                                                         *)
(* Time is left out: a timer that is armed may fire at any moment at which *)
(* the thread is free.  A handler holds the thread until it ends.          *)
(***************************************************************************)
EXTENDS FiniteSets

CONSTANTS Conns,    \* TCP connections of clients
          Nobody    \* the thread is free

ASSUME WorkerAssumption == Nobody \notin Conns

VARIABLES
    installed,  \* CREATE EXTENSION has created the serving role
    portBusy,   \* another process is bound to the HTTP port
    sigterm,    \* the postmaster has sent SIGTERM
    proc,       \* the worker process
    why,        \* why it is gone
    seen,       \* shutdown_signal has returned: drain_tx is sent
    accepting,  \* axum's accept loop runs
    conn,       \* state of each connection
    thread      \* the connection whose handler holds the thread

outside == <<installed, portBusy, sigterm>>
serving == <<seen, accepting, conn, thread>>
vars == <<outside, proc, why, serving>>

\* open: accepted, its request not read; idle: between two requests; stream:
\* an SSE response whose stream was not polled yet; waiting: its stop future
\* is registered with the Notify.
ConnState == {"none", "open", "idle", "handler", "stream", "waiting"}

TypeOK ==
    /\ installed \in BOOLEAN /\ portBusy \in BOOLEAN /\ sigterm \in BOOLEAN
    /\ proc \in {"registered", "starting", "serving", "gone"}
    /\ why \in {"none", "stopped", "bind", "drained", "cap"}
    /\ seen \in BOOLEAN /\ accepting \in BOOLEAN
    /\ conn \in [Conns -> ConnState]
    /\ thread \in Conns \cup {Nobody}
    /\ \A c \in Conns : thread = c <=> conn[c] = "handler"
    /\ accepting => proc = "serving"
    /\ proc # "serving" => \A c \in Conns : conn[c] = "none"

Init ==
    /\ installed \in BOOLEAN
    /\ portBusy \in BOOLEAN
    /\ sigterm = FALSE
    /\ proc = "registered"
    /\ why = "none"
    /\ seen = FALSE
    /\ accepting = FALSE
    /\ conn = [c \in Conns |-> "none"]
    /\ thread = Nobody

-----------------------------------------------------------------------------
(* Outside the worker.                                                     *)

CreateExtension ==
    /\ ~installed /\ installed' = TRUE
    /\ UNCHANGED <<portBusy, sigterm, proc, why, serving>>

PortFreed ==
    /\ portBusy /\ portBusy' = FALSE
    /\ UNCHANGED <<installed, sigterm, proc, why, serving>>

\* The server shuts down; a worker that is not running is not started again.
Sigterm ==
    /\ ~sigterm /\ sigterm' = TRUE
    /\ IF proc = "registered" THEN proc' = "gone" /\ why' = "stopped"
                              ELSE UNCHANGED <<proc, why>>
    /\ UNCHANGED <<installed, portBusy, serving>>

-----------------------------------------------------------------------------
(* pg_web_worker_main up to axum::serve.                                   *)

\* The postmaster forks the worker, the first time or 5 s after it failed.
Start ==
    /\ proc = "registered" /\ proc' = "starting"
    /\ UNCHANGED <<outside, why, serving>>

\* Mutant: the worker returns instead of failing when the role is missing.
ConnectReturns ==
    /\ proc = "starting" /\ ~installed
    /\ proc' = "gone" /\ why' = "stopped"
    /\ UNCHANGED <<outside, serving>>

\* The serving role does not exist: FATAL, a non-zero exit.
ConnectFatal ==
    /\ proc = "starting" /\ ~installed
    /\ IF sigterm THEN proc' = "gone" /\ why' = "stopped"
                  ELSE proc' = "registered" /\ why' = why
    /\ UNCHANGED <<outside, serving>>

\* The bind fails and the worker returns, a clean exit: no restart.
BindFails ==
    /\ proc = "starting" /\ installed /\ portBusy
    /\ proc' = "gone" /\ why' = "bind"
    /\ UNCHANGED <<outside, serving>>

Serve ==
    /\ proc = "starting" /\ installed /\ ~portBusy
    /\ proc' = "serving"
    /\ accepting' = TRUE
    /\ UNCHANGED <<outside, why, seen, conn, thread>>

-----------------------------------------------------------------------------
(* Connections.                                                            *)

Free == proc = "serving" /\ thread = Nobody

Accept(c) ==
    /\ Free /\ accepting /\ conn[c] = "none"
    /\ conn' = [conn EXCEPT ![c] = "open"]
    /\ UNCHANGED <<outside, proc, why, seen, accepting, thread>>

\* The next request on a connection that was kept alive.
NextRequest(c) ==
    /\ Free /\ accepting /\ conn[c] = "idle"
    /\ conn' = [conn EXCEPT ![c] = "open"]
    /\ UNCHANGED <<outside, proc, why, seen, accepting, thread>>

\* http::handle calls router::serve, which blocks the thread ...
HandlerStart(c) ==
    /\ Free /\ conn[c] = "open"
    /\ thread' = c
    /\ conn' = [conn EXCEPT ![c] = "handler"]
    /\ UNCHANGED <<outside, proc, why, seen, accepting>>

\* Mutant: the worker's task yields to another while the handler's statement
\* still runs.
HandlerYields(c) ==
    /\ thread = c
    /\ thread' = Nobody
    /\ UNCHANGED <<outside, proc, why, seen, accepting, conn>>

\* ... until the handler ends; keep-alive is off once accepting stopped.
HandlerEnd(c) ==
    /\ thread = c
    /\ thread' = Nobody
    /\ conn' = [conn EXCEPT ![c] = IF accepting THEN "idle" ELSE "none"]
    /\ UNCHANGED <<outside, proc, why, seen, accepting>>

\* serve_livereload_sse returns a stream.
SseOpen(c) ==
    /\ Free /\ conn[c] = "open"
    /\ conn' = [conn EXCEPT ![c] = "stream"]
    /\ UNCHANGED <<outside, proc, why, seen, accepting, thread>>

\* The stream is polled, and with it the stop future: it waits for the next
\* notify_waiters, and for that one only.
SsePoll(c) ==
    /\ Free /\ conn[c] = "stream"
    /\ conn' = [conn EXCEPT ![c] = "waiting"]
    /\ UNCHANGED <<outside, proc, why, seen, accepting, thread>>

\* The browser leaves, or the stream is two hours old.
ConnEnds(c) ==
    /\ Free /\ conn[c] \in {"open", "idle", "stream", "waiting"}
    /\ conn' = [conn EXCEPT ![c] = "none"]
    /\ UNCHANGED <<outside, proc, why, seen, accepting, thread>>

-----------------------------------------------------------------------------
(* Shutdown.                                                               *)

\* shutdown_signal's poll sees the flag: notify_waiters ends the streams that
\* wait, and drain_tx starts the cap's clock.
Observe ==
    /\ Free /\ sigterm /\ ~seen
    /\ seen' = TRUE
    /\ conn' = [c \in Conns |-> IF conn[c] = "waiting" THEN "none" ELSE conn[c]]
    /\ UNCHANGED <<outside, proc, why, accepting, thread>>

\* axum's accept loop learns of it: idle connections are closed, those with a
\* request in flight finish it.
StopAccepting ==
    /\ Free /\ seen /\ accepting
    /\ accepting' = FALSE
    /\ conn' = [c \in Conns |-> IF conn[c] = "idle" THEN "none" ELSE conn[c]]
    /\ UNCHANGED <<outside, proc, why, seen, thread>>

Drained == ~accepting /\ \A c \in Conns : conn[c] = "none"

\* The worker returns; what was open is closed with it.
Exit(reason) ==
    /\ proc' = "gone" /\ why' = reason
    /\ accepting' = FALSE
    /\ conn' = [c \in Conns |-> "none"]
    /\ UNCHANGED <<outside, seen, thread>>

\* The serve arm of the select.
DrainDone == Free /\ Drained /\ Exit("drained")

\* Mutant: the cap's clock starts with the server (the regression worker.rs
\* describes at 235-245).
CapFromStart == Free /\ ~Drained /\ Exit("cap")

\* Mutant: no cap, the drain waits for every connection.
NoCap == Free /\ ~Drained /\ seen /\ Cardinality(Conns) = 0 /\ Exit("cap")

\* The drain_cap arm, armed by drain_tx; the biased select prefers the other.
CapFires == Free /\ ~Drained /\ seen /\ Exit("cap")

\* Nothing is left to do.
Over == proc = "gone" /\ ~portBusy /\ installed /\ sigterm /\ UNCHANGED vars

Connection(c) ==
    \/ Accept(c) \/ NextRequest(c) \/ HandlerStart(c) \/ HandlerEnd(c)
    \/ SseOpen(c) \/ SsePoll(c) \/ ConnEnds(c)

Boot == Start \/ ConnectFatal \/ BindFails \/ Serve
Shutdown == Observe \/ StopAccepting \/ DrainDone \/ CapFires

Next ==
    \/ CreateExtension \/ PortFreed \/ Sigterm
    \/ Boot \/ Shutdown \/ \E c \in Conns : Connection(c)
    \/ Over

\* The postmaster restarts the worker, the runtime comes back to its timers
\* between two tasks, and streams that are ready are polled.
Scheduling ==
    /\ WF_vars(Boot)
    /\ SF_vars(Observe) /\ SF_vars(StopAccepting) /\ SF_vars(DrainDone \/ CapFires)
    /\ \A c \in Conns : WF_vars(SsePoll(c))

\* request_timeout ends a handler that does not end by itself.
HandlersEnd == \A c \in Conns : WF_vars(HandlerEnd(c))

Spec == Init /\ [][Next]_vars
FairSpec == Spec /\ Scheduling /\ HandlersEnd

-----------------------------------------------------------------------------
(* Properties.                                                             *)

\* A server that nobody stops goes on serving: neither arm of the select ends
\* it before SIGTERM, however long it runs and whatever its connections do.
NoEarlyExit == why \in {"drained", "cap"} => sigterm

\* SIGTERM ends the worker, with any mix of handlers, kept-alive connections
\* and streams, those that missed the shutdown notification included.
ExitsAfterSigterm == sigterm ~> proc = "gone"

\* A worker started before CREATE EXTENSION serves after it, unless the port
\* is taken when it gets there or the server stops.
SelfHeals == installed ~> (proc = "serving" \/ why = "bind" \/ sigterm)
=============================================================================
