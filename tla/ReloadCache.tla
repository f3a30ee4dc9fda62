------------------------------ MODULE ReloadCache ------------------------------
(***************************************************************************)
(* The worker's snapshot of framework metadata (cache.rs), the LISTEN side *)
(* channel that invalidates it (listen_router.rs), the request thread that *)
(* reads and rebuilds it (router.rs, http.rs, livereload.rs) and the two   *)
(* notifications the CLI sends (push.rs, dev.rs).                          *)
(*                                                                         *)
(* A version is the number of the push that committed it: after k commits  *)
(* the tables, the handlers and the env row are all at version k.  The     *)
(* worker runs on one thread, so a request, which has no await between the *)
(* opening of its transaction and its response, excludes every other task  *)
(* of the worker; pushes run in other backends and interleave with it.     *)
(***************************************************************************)
EXTENDS Integers, Sequences

CONSTANTS MaxPush,     \* bound on the number of pushes
          MaxLoss,     \* bound on the failures of the side channel and the worker
          NoSnapshot   \* SNAPSHOT = None

Version == 0 .. MaxPush

\* The version each part of the snapshot was read at (RouteSnapshot).
Snapshot == [routes : Version, templates : Version, env : Version]

ASSUME ReloadAssumption ==
    /\ MaxPush \in Nat
    /\ MaxLoss \in Nat
    /\ NoSnapshot \notin Snapshot

VARIABLES
    db,         \* version of the last committed push
    owes,       \* pushes made by `pg-web dev` whose livereload NOTIFY is due
    session,    \* state of run_listen_loop
    queue,      \* notifications sent to the side channel and not yet pumped
    recvd,      \* how many of them the driver task has put in notif_rx
    losses,     \* failures of the side channel or the worker so far
    cache,      \* SNAPSHOT
    req,        \* the request the worker's thread is executing
    published,  \* versions whose livereload event reached the SSE streams
    lost        \* history: versions whose reload NOTIFY reached no listener

dbVars == <<db, owes>>
channelVars == <<session, queue, recvd, losses, published, lost>>
vars == <<dbVars, channelVars, cache, req>>

Reload(v) == [channel |-> "pgweb_reload", version |-> v]
Livereload(v) == [channel |-> "pgweb_livereload", version |-> v]
Notification == [channel : {"pgweb_reload", "pgweb_livereload"}, version : Version]

Idle == [pc |-> "idle", begun |-> 0, routes |-> 0, handler |-> 0, template |-> 0]
RequestState ==
    [pc : {"idle", "begun", "warm", "called", "rendered", "posttx"},
     begun : Version, routes : Version, handler : Version, template : Version]

ThreadIdle == req.pc = "idle"

\* Mutant: the runtime has other threads to run its tasks on.
MultiThreaded == TRUE

\* new_current_thread: the tasks of the side channel run on the thread that
\* serves requests, between two requests.
TasksRun == ThreadIdle

InTransaction == req.pc \in {"begun", "warm", "called", "rendered"}

\* The versions whose reload NOTIFY is on its way to the pump, and those of
\* them beyond the first n notifications.
QueuedAfter(n) ==
    {v \in Version : \E i \in DOMAIN queue : i > n /\ queue[i] = Reload(v)}
Queued == {v \in Version : \E i \in DOMAIN queue : queue[i] = Reload(v)}

\* A snapshot as recent as push v in every part.
Fresh(s, v) == s.routes >= v /\ s.templates >= v /\ s.env >= v

TypeOK ==
    /\ db \in Version
    /\ owes \subseteq Version
    /\ session \in {"down", "connected", "partial", "subscribed", "listening", "closing"}
    /\ queue \in Seq(Notification)
    /\ recvd \in 0 .. Len(queue)
    /\ losses \in 0 .. MaxLoss
    /\ cache \in Snapshot \cup {NoSnapshot}
    /\ req \in RequestState
    /\ published \subseteq Version
    /\ lost \subseteq Version

Init ==
    /\ db = 0
    /\ owes = {}
    /\ session = "down"
    /\ queue = <<>>
    /\ recvd = 0
    /\ losses = 0
    /\ cache = NoSnapshot
    /\ req = Idle
    /\ published = {}
    /\ lost = {}

-----------------------------------------------------------------------------
(* The CLI.                                                                *)

\* LISTEN on a channel is in force once the server has executed it.
Listens(channel) ==
    session \in (IF channel = "pgweb_livereload"
                   THEN {"partial", "subscribed", "listening"}
                   ELSE {"subscribed", "listening"})

\* A push commits its rows and its NOTIFY together; a NOTIFY nobody listens
\* to is gone.  byDev: the push was made by the file watcher.
Push(byDev) ==
    /\ db < MaxPush
    /\ db' = db + 1
    /\ owes' = IF byDev THEN owes \cup {db + 1} ELSE owes
    /\ IF Listens("pgweb_reload")
         THEN queue' = Append(queue, Reload(db + 1)) /\ lost' = lost
         ELSE queue' = queue /\ lost' = lost \cup {db + 1}
    /\ UNCHANGED <<session, recvd, losses, published, cache, req>>

\* Mutant: the livereload NOTIFY leaves before the push it announces.
DevNotifyEarly(v) ==
    /\ v = db + 1 /\ v <= MaxPush
    /\ queue' = IF Listens("pgweb_livereload") THEN Append(queue, Livereload(v)) ELSE queue
    /\ UNCHANGED <<dbVars, session, recvd, losses, published, lost, cache, req>>

\* notify_livereload on a connection of its own, after the push.
DevNotify(v) ==
    /\ v \in owes
    /\ owes' = owes \ {v}
    /\ queue' = IF Listens("pgweb_livereload") THEN Append(queue, Livereload(v)) ELSE queue
    /\ UNCHANGED <<db, session, recvd, losses, published, lost, cache, req>>

\* The NOTIFY fails; the watcher prints a warning and goes on.
DevNotifyFails(v) ==
    /\ v \in owes
    /\ owes' = owes \ {v}
    /\ UNCHANGED <<db, channelVars, cache, req>>

-----------------------------------------------------------------------------
(* run_listen_loop.                                                        *)

\* A failed connect only sleeps and retries, so only success is a step.
Connect ==
    /\ session = "down" /\ TasksRun
    /\ session' = "connected"
    /\ UNCHANGED <<dbVars, queue, recvd, losses, published, lost, cache, req>>

\* The server executes LISTEN pgweb_livereload, then LISTEN pgweb_reload.
ListenNext ==
    /\ session \in {"connected", "partial"}
    /\ session' = IF session = "connected" THEN "partial" ELSE "subscribed"
    /\ UNCHANGED <<dbVars, queue, recvd, losses, published, lost, cache, req>>

\* The last LISTEN is acknowledged and the forward loop starts.
ListenActive ==
    /\ session = "subscribed" /\ TasksRun
    /\ session' = "listening"
    /\ UNCHANGED <<dbVars, queue, recvd, losses, published, lost, cache, req>>

\* A LISTEN fails: notif_rx is dropped with everything in it.
ListenFails ==
    /\ session \in {"connected", "partial", "subscribed"}
    /\ losses < MaxLoss /\ losses' = losses + 1
    /\ session' = "down"
    /\ queue' = <<>> /\ recvd' = 0
    /\ lost' = lost \cup Queued
    /\ UNCHANGED <<dbVars, published, cache, req>>

\* The connection dies while forwarding: what is on the wire dies with it,
\* what the driver has already received is still pumped.
ConnectionLost ==
    /\ session = "listening"
    /\ losses < MaxLoss /\ losses' = losses + 1
    /\ session' = "closing"
    /\ queue' = SubSeq(queue, 1, recvd)
    /\ lost' = lost \cup QueuedAfter(recvd)
    /\ UNCHANGED <<dbVars, recvd, published, cache, req>>

\* The driver task moves one notification from the socket to notif_rx.
Drive ==
    /\ session \notin {"down", "closing"} /\ TasksRun
    /\ recvd < Len(queue)
    /\ recvd' = recvd + 1
    /\ UNCHANGED <<dbVars, session, queue, losses, published, lost, cache, req>>

\* Mutant: reload notifications are only fanned out, nothing drops the snapshot.
ForwardOnly(n) ==
    /\ published' = IF n.channel = "pgweb_livereload"
                      THEN published \cup {n.version} ELSE published
    /\ cache' = cache

\* What the forward loop does with one notification.
Forward(n) ==
    /\ published' = IF n.channel = "pgweb_livereload"
                      THEN published \cup {n.version} ELSE published
    /\ cache' = IF n.channel = "pgweb_reload" THEN NoSnapshot ELSE cache

\* Mutant: the notification is handled and stays in notif_rx's count.
PumpKeepsCount ==
    /\ session \in {"listening", "closing"} /\ TasksRun
    /\ recvd > 0
    /\ recvd' = recvd
    /\ queue' = Tail(queue)
    /\ Forward(Head(queue))
    /\ UNCHANGED <<dbVars, session, losses, lost, req>>

Pump ==
    /\ session \in {"listening", "closing"} /\ TasksRun
    /\ recvd > 0
    /\ recvd' = recvd - 1
    /\ queue' = Tail(queue)
    /\ Forward(Head(queue))
    /\ UNCHANGED <<dbVars, session, losses, lost, req>>

\* notif_rx is drained and closed: sleep, then reconnect.  The snapshot is
\* left as it is.
Ended ==
    /\ session = "closing" /\ TasksRun
    /\ recvd = 0
    /\ session' = "down"
    /\ UNCHANGED <<dbVars, queue, recvd, losses, published, lost, cache, req>>

-----------------------------------------------------------------------------
(* The request thread.                                                     *)

\* build_snapshot inside a transaction that began at version low: each SELECT
\* sees a version committed since then.
Builds(low) == [routes : low .. db, templates : low .. db, env : low .. db]

\* get_snapshot: a hit leaves SNAPSHOT alone, a miss builds and stores it.
GetSnapshot(low) ==
    \/ cache # NoSnapshot /\ cache' = cache
    \/ cache = NoSnapshot /\ cache' \in Builds(low)

\* BackgroundWorker::transaction opens the request's transaction.
Begin ==
    /\ ThreadIdle
    /\ req' = [Idle EXCEPT !.pc = "begun", !.begun = db]
    /\ UNCHANGED <<dbVars, channelVars, cache>>

\* Mutant: the snapshot is not warmed at the head of the transaction.
WarmSkipped ==
    /\ req.pc = "begun"
    /\ req' = [req EXCEPT !.pc = "warm"]
    /\ UNCHANGED <<dbVars, channelVars, cache>>

\* serve_in_tx warms the snapshot before it looks at the method.
Warm ==
    /\ req.pc = "begun"
    /\ GetSnapshot(req.begun)
    /\ req' = [req EXCEPT !.pc = "warm"]
    /\ UNCHANGED <<dbVars, channelVars>>

\* A route of the snapshot matches; its handler is whatever function the
\* database has under that name now.
CallHandler ==
    /\ req.pc = "warm" /\ cache # NoSnapshot
    /\ req' = [req EXCEPT !.pc = "called", !.routes = cache.routes, !.handler = db]
    /\ UNCHANGED <<dbVars, channelVars, cache>>

\* render_template: the snapshot's compiled template, or on a miss or a
\* render failure the row as the transaction reads it now.
Render ==
    /\ req.pc = "called" /\ cache # NoSnapshot
    /\ \E t \in {cache.templates} \cup (req.begun .. db) :
          req' = [req EXCEPT !.pc = "rendered", !.template = t]
    /\ UNCHANGED <<dbVars, channelVars, cache>>

\* The transaction ends: after a rendered route, after a handler without a
\* template or with an error, or after OPTIONS, an asset or a 404.
EndTransaction ==
    /\ req.pc \in {"warm", "called", "rendered"}
    /\ req' = [Idle EXCEPT !.pc = "posttx"]
    /\ UNCHANGED <<dbVars, channelVars, cache>>

\* http::handle reads the env from the snapshot after the transaction.
Respond ==
    /\ req.pc = "posttx"
    /\ GetSnapshot(db)
    /\ req' = Idle
    /\ UNCHANGED <<dbVars, channelVars>>

\* serve_livereload_sse reads the env from the snapshot, in no transaction.
SseConnect ==
    /\ ThreadIdle
    /\ GetSnapshot(db)
    /\ UNCHANGED <<dbVars, channelVars, req>>

\* The worker dies and the postmaster restarts it: everything in memory and
\* the side channel are gone.
Restart ==
    /\ losses < MaxLoss /\ losses' = losses + 1
    /\ session' = "down"
    /\ queue' = <<>> /\ recvd' = 0
    /\ lost' = lost \cup Queued
    /\ cache' = NoSnapshot
    /\ req' = Idle
    /\ UNCHANGED <<dbVars, published>>

-----------------------------------------------------------------------------
Cli ==
    \/ \E byDev \in BOOLEAN : Push(byDev)
    \/ \E v \in Version : DevNotify(v) \/ DevNotifyFails(v)

ListenLoop ==
    \/ Connect \/ ListenNext \/ ListenActive \/ ListenFails
    \/ ConnectionLost \/ Drive \/ Pump \/ Ended

Request == Begin \/ Warm \/ CallHandler \/ Render \/ EndTransaction \/ Respond

Next == Cli \/ ListenLoop \/ Request \/ SseConnect \/ Restart

\* A request that has begun ends (request_timeout bounds its handler), the
\* server answers LISTEN, and between requests the runtime polls the side
\* channel's tasks, so one that is ready infinitely often runs.
Fairness ==
    /\ WF_vars(Warm \/ EndTransaction \/ Respond)
    /\ WF_vars(ListenNext)
    /\ SF_vars(Connect \/ ListenActive \/ Drive \/ Pump \/ Ended)

Spec == Init /\ [][Next]_vars
FairSpec == Spec /\ Fairness

-----------------------------------------------------------------------------
(* Properties.                                                             *)

\* A snapshot that is older than push v in some part is about to be dropped:
\* the NOTIFY of push v is queued, unless it reached no listener.  The
\* invalidation cannot overtake the build it must undo.
StaleIsOwed ==
    \A v \in 1 .. db :
        (cache # NoSnapshot /\ ~Fresh(cache, v)) => v \in Queued \cup lost

\* A browser told to reload for push v finds push v: once the livereload
\* event of v is published, no snapshot older than v is served, unless the
\* reload NOTIFY of v reached no listener.
ReloadEventSeesPush ==
    \A v \in published \ lost : cache = NoSnapshot \/ Fresh(cache, v)

\* A page may mix pushes, its route and template from the snapshot and its
\* handler from the database, but only while the mix is about to end: of every
\* push that some part of a rendered page misses, the NOTIFY is still queued or
\* reached no listener.
PageIsOwed ==
    req.pc = "rendered" =>
        \A v \in 1 .. db :
            (req.routes < v \/ req.handler < v \/ req.template < v) => v \in Queued \cup lost

\* The env read after the request's transaction is always a hit, whatever the
\* request was (the comment at router.rs:105-116).
PostTxEnvIsHit == req.pc = "posttx" => cache # NoSnapshot

\* A reload NOTIFY that is queued leads to a snapshot at least that recent,
\* or to no snapshot, unless the side channel dies under it.
NotifyInvalidates ==
    \A v \in 1 .. MaxPush :
        v \in Queued ~> (v \in lost \/ cache = NoSnapshot \/ Fresh(cache, v))

\* docs/CACHING.md:12: "eventually consistent within one NOTIFY round-trip".
EventuallyConsistent ==
    \A v \in 1 .. MaxPush :
        db >= v ~> (cache = NoSnapshot \/ Fresh(cache, v))

=============================================================================
