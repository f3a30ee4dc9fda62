-------------------------------- MODULE Request --------------------------------
(***************************************************************************)
(* One HTTP request as http.rs and router.rs serve it: the body read, the  *)
(* request's single transaction with its statement timer, the choice       *)
(* between OPTIONS, page route, asset and fallback, the handler call       *)
(* through pgweb._framework_call_handler, the rendering and the response.  *)
(*                                                                         *)
(* Requests share the worker's one thread: only reading a body awaits, so  *)
(* from the opening of its transaction to its response a request keeps the *)
(* thread.  A Postgres ERROR raised by a statement outside the wrapper's   *)
(* EXCEPTION block unwinds the request's task as a Rust panic: nothing is  *)
(* committed and no response is sent.                                      *)
(*                                                                         *)
(* A statement timer that fires only leaves a note (QueryCancelPending):   *)
(* the statement that is running, or the next one of the worker's session, *)
(* raises the error.  Steps that run no statement pass with the note       *)
(* unread, and the guard that disarms the timer does not withdraw it.      *)
(*                                                                         *)
(* The snapshot of routes, templates and env is modelled in ReloadCache;   *)
(* here only its env can be stale.                                         *)
(***************************************************************************)
EXTENDS Integers, Sequences

CONSTANTS Requests,      \* the requests of a behaviour
          Methods,       \* the HTTP methods a client may use
          Results,       \* what the site's handler may do, see Result
          Timeouts,      \* values of the request_timeout setting, see Timeout
          MaxEnvWrites,  \* bound on the writes to the env setting
          Nobody         \* the thread is free

\* What a handler does: it returns JSON, text that is not JSON, an envelope
\* with a body (setting no status, or a redirect), an envelope with a context
\* and a status that is no HTTP status; it raises; or it does not return.
Result == {"json", "text", "envelope", "redirect", "context", "raises", "blocks"}
Timeout == {"15s", "0", "malformed"}

ASSUME RequestAssumption ==
    /\ Methods \subseteq {"GET", "HEAD", "POST", "OPTIONS"}
    /\ Results \subseteq Result
    /\ Timeouts \subseteq Timeout
    /\ MaxEnvWrites \in Nat
    /\ Nobody \notin Requests

Env == {"development", "production"}

\* What the database holds for the path that is requested.  route: the row
\* whose pattern matches it, "default" being the framework's health route;
\* enabled: its health_enabled flag; renders: whether Tera renders the page.
Site ==
    [route : {"none", "template", "text", "default"}, method : {"GET", "POST"},
     enabled : BOOLEAN, asset : BOOLEAN, fallback : {"none", "template"},
     result : Result, renders : BOOLEAN, timeout : Timeout]

Outcome ==
    [kind : {"none", "response", "asset", "error"}, status : {0, 200, 204, 303, 404, 1000}]

VARIABLES
    site,       \* what the request's path finds; fixed in a behaviour
    env,        \* pgweb.settings.env
    cachedEnv,  \* the env of the worker's snapshot
    envWrites,  \* writes to env so far
    thread,     \* the request that holds the worker's thread
    timer,      \* the request whose statement timer is armed
    pending,    \* QueryCancelPending: the request whose timer raised it
    tx,         \* the worker's transaction
    writes,     \* requests whose handler's writes are in the open transaction
    durable,    \* requests whose handler's writes are committed
    pc,         \* where each request is
    method,     \* its method
    outcome,    \* the ServeOutcome of its serve_in_tx
    shown,      \* the env that render_error has read for the error page
    reply,      \* the HTTP response it was sent
    raised,     \* history: requests whose handler raised
    cancels,    \* history: who was cancelled, where, and by whose timer
    since       \* history: values of env since the holder's transaction ended

dbVars == <<site, env, envWrites>>
txVars == <<tx, writes, durable>>
cancelVars == <<timer, pending>>
reqVars == <<pc, method, outcome, shown, reply>>
history == <<raised, cancels, since>>
vars == <<dbVars, cachedEnv, thread, txVars, cancelVars, reqVars, history>>

NoOutcome == [kind |-> "none", status |-> 0]
Response(status) == [kind |-> "response", status |-> status]
Asset == [kind |-> "asset", status |-> 200]
Error == [kind |-> "error", status |-> 0]

NoReply == [code |-> 0, body |-> "none"]
Reply ==
    [code : {0, 200, 204, 303, 304, 400, 404, 500},
     body : {"none", "page", "asset", "empty", "dev", "plain"}]

Place == {"reading", "begun", "armed", "handler", "rendering", "closing", "posttx",
          "paging", "done", "unwound"}

\* Where the request's timeout guard is alive.
Guarded == {"armed", "handler", "rendering", "closing"}

Cancel == [victim : Requests, overran : Requests, place : Place]

TypeOK ==
    /\ site \in Site
    /\ env \in Env /\ cachedEnv \in Env
    /\ envWrites \in 0 .. MaxEnvWrites
    /\ thread \in Requests \cup {Nobody}
    /\ timer \in Requests \cup {Nobody} /\ pending \in Requests \cup {Nobody}
    /\ tx \in {"none", "open"}
    /\ writes \subseteq Requests /\ durable \subseteq Requests
    /\ pc \in [Requests -> Place]
    /\ method \in [Requests -> Methods]
    /\ outcome \in [Requests -> Outcome]
    /\ shown \in Env \cup {"none"}
    /\ reply \in [Requests -> Reply]
    /\ raised \subseteq Requests /\ cancels \subseteq Cancel /\ since \subseteq Env

\* Sites that differ only in what no request can see are counted once.
Sites ==
    {s \in Site :
        /\ s.result \in Results /\ s.timeout \in Timeouts
        /\ s.route = "default" => s.method = "GET" /\ s.result = "envelope"
        /\ s.route = "none" => s.method = "GET"
        /\ s.route # "default" => s.enabled
        /\ (s.route # "none" /\ s.method = "GET" /\ s.enabled) => ~s.asset
        /\ ("template" \notin {s.route, s.fallback} \/ s.result \notin {"json", "context"})
             => s.renders
        /\ (s.route = "none" /\ s.fallback = "none") => s.result = "json"
        /\ s.timeout # "15s" => s.result \in {"json", "blocks"}}

Init ==
    /\ site \in Sites
    /\ env = "development" /\ cachedEnv = env
    /\ envWrites = 0
    /\ thread = Nobody
    /\ timer = Nobody /\ pending = Nobody
    /\ tx = "none"
    /\ writes = {} /\ durable = {}
    /\ pc = [c \in Requests |-> "reading"]
    /\ method \in [Requests -> Methods]
    /\ outcome = [c \in Requests |-> NoOutcome]
    /\ shown = "none"
    /\ reply = [c \in Requests |-> NoReply]
    /\ raised = {} /\ cancels = {} /\ since = {}

-----------------------------------------------------------------------------
(* Route resolution.                                                       *)

SpiError == "NoAttribute"

\* SpiHeapTupleData::get: ordinals count from 1, any other is an error.
SpiGet(row, ordinal) == IF ordinal \in DOMAIN row THEN row[ordinal] ELSE SpiError

\* The rows SELECT method, path_pattern returns for the requested path.
MethodRows == IF site.route = "none" THEN {} ELSE {<<site.method, "pattern">>}

\* list_allowed_methods reads columns 0 and 1; an error, like an empty list,
\* makes OPTIONS fall through.
ListAllowedMethods ==
    LET found == {SpiGet(row, 0) : row \in MethodRows}
    IN  IF SpiError \in found \/ found = {} THEN {}
        ELSE found \cup {"OPTIONS"} \cup (IF "GET" \in found THEN {"HEAD"} ELSE {})

\* Mutant: HEAD is resolved against routes of its own.
LookupMethodVerbatim(m) == m

LookupMethod(m) == IF m = "HEAD" THEN "GET" ELSE m

\* is_suppressed_default_health_or_readiness.
Suppressed == site.route = "default" /\ ~site.enabled

\* The order in which serve_in_tx looks for an answer: with handler = FALSE
\* the outcome is known, otherwise a handler must be called first.
Answer(o) == [handler |-> FALSE, outcome |-> o, as |-> 0, template |-> FALSE]
Call(status, template) ==
    [handler |-> TRUE, outcome |-> NoOutcome, as |-> status, template |-> template]

Plan(m) ==
    LET lookup == LookupMethod(m)
        routed == site.route # "none" /\ site.method = lookup /\ ~Suppressed
    IN  IF m = "OPTIONS" /\ ListAllowedMethods # {} THEN Answer(Response(204))
        ELSE IF routed THEN Call(200, site.route = "template")
        ELSE IF lookup = "GET" /\ site.asset THEN Answer(Asset)
        ELSE IF site.fallback # "none" THEN Call(404, site.fallback = "template")
        ELSE Answer(Response(404))

\* render_route on what the handler returned: a literal body wins, a context
\* or a bare JSON value is rendered by a template, and a route without a
\* template sends text as it is.  The envelope may set the status.
RenderRoute(c) ==
    LET status == CASE site.result = "redirect" -> 303
                    [] site.result = "context" -> 1000
                    [] OTHER -> Plan(method[c]).as
        failed == /\ Plan(method[c]).template
                  /\ \/ site.result = "text"
                     \/ site.result \in {"json", "context"} /\ ~site.renders
    IN  IF failed THEN Error ELSE Response(status)

-----------------------------------------------------------------------------
(* Serving.  A step that runs a statement first needs the session to have  *)
(* no cancellation pending; otherwise Cancelled takes its place.           *)

\* The lookups of a request of method m run a statement: for OPTIONS, for the
\* flags of a default route, and for the assets when no page answers a GET.
LookupRunsSpi(m) ==
    \/ m = "OPTIONS"
    \/ site.route = "default" /\ site.method = LookupMethod(m)
    \/ LookupMethod(m) = "GET" /\ (site.route = "none" \/ site.method # "GET")

\* render_template looks at the compiled templates.  It reads the source only
\* when they do not render the page: always if it does not render at all, and
\* sometimes because the snapshot does not have it yet.
RendersTemplate(c) ==
    Plan(method[c]).template /\ site.result \in {"json", "context"}
RenderMustRunSpi(c) == RendersTemplate(c) /\ ~site.renders

\* Where request c may be about to run a statement.  The warm-up at "armed"
\* builds the snapshot when it is cold.
MayRunSpi(c) ==
    \/ pc[c] \in {"begun", "armed", "handler"}
    \/ pc[c] = "rendering" /\ RendersTemplate(c)
    \/ pc[c] = "posttx" /\ outcome[c].kind = "error"

\* Request c goes to place p.
Goto(c, p) == pc' = [pc EXCEPT ![c] = p]

\* serve_in_tx has its outcome.
Closes(c, o) ==
    /\ Goto(c, "closing")
    /\ outcome' = [outcome EXCEPT ![c] = o]

\* The response goes out and the thread is free for the next task.
Replies(c, code, body) ==
    /\ Goto(c, "done")
    /\ reply' = [reply EXCEPT ![c] = [code |-> code, body |-> body]]
    /\ thread' = Nobody
    /\ shown' = "none" /\ since' = {}
    /\ UNCHANGED <<dbVars, cachedEnv, txVars, cancelVars, method, outcome, raised, cancels>>

\* to_bytes fails: the body is over the limit or the connection broke.
BodyFails(c) ==
    /\ pc[c] = "reading" /\ thread = Nobody
    /\ Replies(c, 400, "plain")

\* The body is complete; router::serve opens the transaction.
Begin(c) ==
    /\ pc[c] = "reading" /\ thread = Nobody
    /\ Goto(c, "begun")
    /\ thread' = c
    /\ tx' = "open"
    /\ UNCHANGED <<dbVars, cachedEnv, writes, durable, cancelVars, method, outcome, shown, reply, history>>

\* Mutant: SET LOCAL alone, which starts no timer in a background worker.
SetLocalOnly(c) ==
    /\ pc[c] = "begun" /\ pending = Nobody /\ site.timeout # "malformed"
    /\ Goto(c, "armed")
    /\ UNCHANGED <<dbVars, cachedEnv, thread, txVars, cancelVars, method, outcome, shown, reply, history>>

\* The setting is read, SET LOCAL statement_timeout, and Guard::arm: zero
\* disables the timer, and one that still runs is not started again.
ArmTimeout(c) ==
    /\ pc[c] = "begun" /\ pending = Nobody /\ site.timeout # "malformed"
    /\ Goto(c, "armed")
    /\ timer' = IF site.timeout = "0" THEN Nobody ELSE IF timer = Nobody THEN c ELSE timer
    /\ UNCHANGED <<dbVars, cachedEnv, thread, txVars, pending, method, outcome, shown, reply, history>>

\* The lookups find what answers the request: a handler to call ...
CallHandler(c) ==
    /\ pc[c] = "armed" /\ Plan(method[c]).handler
    /\ LookupRunsSpi(method[c]) => pending = Nobody
    /\ Goto(c, "handler")
    /\ UNCHANGED <<dbVars, cachedEnv, thread, txVars, cancelVars, method, outcome, shown, reply, history>>

\* ... or an outcome without one.
AnswerDirectly(c) ==
    /\ pc[c] = "armed" /\ ~Plan(method[c]).handler
    /\ LookupRunsSpi(method[c]) => pending = Nobody
    /\ Closes(c, Plan(method[c]).outcome)
    /\ UNCHANGED <<dbVars, cachedEnv, thread, txVars, cancelVars, method, shown, reply, history>>

HandlerReturns(c) ==
    /\ pc[c] = "handler" /\ pending = Nobody /\ site.result \notin {"raises", "blocks"}
    /\ Goto(c, "rendering")
    /\ writes' = writes \cup {c}
    /\ UNCHANGED <<dbVars, cachedEnv, thread, tx, durable, cancelVars, method, outcome, shown, reply, history>>

\* Mutant: the wrapper reports the exception and keeps the handler's writes.
HandlerRaisesNoSavepoint(c) ==
    /\ pc[c] = "handler" /\ pending = Nobody /\ site.result = "raises"
    /\ Closes(c, Error)
    /\ raised' = raised \cup {c}
    /\ writes' = writes \cup {c}
    /\ UNCHANGED <<dbVars, cachedEnv, thread, tx, durable, cancelVars, method, shown, reply, cancels, since>>

\* The wrapper's EXCEPTION block undoes the handler's writes and returns the
\* diagnostics, which classify_handler_error turns into an error outcome.
HandlerRaises(c) ==
    /\ pc[c] = "handler" /\ pending = Nobody /\ site.result = "raises"
    /\ Closes(c, Error)
    /\ raised' = raised \cup {c}
    /\ UNCHANGED <<dbVars, cachedEnv, thread, txVars, cancelVars, method, shown, reply, cancels, since>>

\* A compiled template renders without a statement.
Render(c) ==
    /\ pc[c] = "rendering"
    /\ RenderMustRunSpi(c) => pending = Nobody
    /\ Closes(c, RenderRoute(c))
    /\ UNCHANGED <<dbVars, cachedEnv, thread, txVars, cancelVars, method, shown, reply, history>>

\* A panic unwinds the request's task; on its way Guard::drop disarms the timer.
Unwind(c) ==
    /\ Goto(c, "unwound")
    /\ tx' = "none" /\ writes' = {}
    /\ timer' = IF pc[c] \in Guarded THEN Nobody ELSE timer
    /\ thread' = Nobody
    /\ since' = {}
    /\ UNCHANGED <<dbVars, cachedEnv, durable, method, outcome, shown, reply, raised>>

\* A malformed setting makes SET LOCAL itself an error.
BadTimeout(c) ==
    /\ pc[c] = "begun" /\ pending = Nobody /\ site.timeout = "malformed"
    /\ Unwind(c)
    /\ UNCHANGED <<pending, cancels>>

\* The timer fires, whatever the worker is doing: the signal handler notes that
\* the session is to be cancelled.
TimerFires ==
    /\ timer # Nobody
    /\ timer' = Nobody /\ pending' = timer
    /\ UNCHANGED <<dbVars, cachedEnv, thread, txVars, reqVars, history>>

\* A statement finds the note and raises query_canceled.  WHEN OTHERS does not
\* catch it, so it leaves the wrapper too and unwinds the request.
Cancelled(c) ==
    /\ pending # Nobody /\ MayRunSpi(c)
    /\ pending' = Nobody
    /\ cancels' = cancels \cup {[victim |-> c, overran |-> pending, place |-> pc[c]]}
    /\ Unwind(c)

\* A health probe between two requests runs a statement as well, and loses it
\* to a note that a request left behind.
ProbeCancelled ==
    /\ thread = Nobody /\ pending # Nobody
    /\ pending' = Nobody
    /\ UNCHANGED <<dbVars, cachedEnv, thread, txVars, timer, reqVars, history>>

\* Mutant: the guard is leaked on the normal return.
CommitArmed(c) ==
    /\ pc[c] = "closing"
    /\ Goto(c, "posttx")
    /\ tx' = "none"
    /\ durable' = durable \cup writes /\ writes' = {}
    /\ since' = {env}
    /\ UNCHANGED <<dbVars, cachedEnv, thread, cancelVars, method, outcome, shown, reply, raised, cancels>>

\* serve_in_tx returns, whatever the outcome: Guard::drop disarms the timer if
\* it still runs, withdraws nothing if it has fired, and
\* BackgroundWorker::transaction commits.
Commit(c) ==
    /\ pc[c] = "closing"
    /\ Goto(c, "posttx")
    /\ timer' = Nobody
    /\ tx' = "none"
    /\ durable' = durable \cup writes /\ writes' = {}
    /\ since' = {env}
    /\ UNCHANGED <<dbVars, cachedEnv, thread, pending, method, outcome, shown, reply, raised, cancels>>

\* Mutant: the envelope's status goes out as it is.
StatusVerbatim(status) == status

\* StatusCode::from_u16, or 200 for what is not a status.
StatusCode(status) == IF status \in 100 .. 999 THEN status ELSE 200

\* http::handle on a Response: HEAD sends the headers alone.
SendResponse(c) ==
    /\ pc[c] = "posttx" /\ outcome[c].kind = "response"
    /\ Replies(c, StatusCode(outcome[c].status),
                  IF method[c] = "HEAD" THEN "empty" ELSE "page")

\* render_asset: 304 when the client's If-None-Match is the stored ETag.
SendAsset(c, matches) ==
    /\ pc[c] = "posttx" /\ outcome[c].kind = "asset"
    /\ Replies(c, IF matches THEN 304 ELSE 200,
                  IF matches \/ method[c] = "HEAD" THEN "empty" ELSE "asset")

\* Mutant: the error page is chosen by the snapshot's env.
ErrorEnvCached == cachedEnv

\* render_error reads the env row in a transaction of its own ...
ErrorEnv == env

ReadErrorEnv(c) ==
    /\ pc[c] = "posttx" /\ outcome[c].kind = "error" /\ pending = Nobody
    /\ Goto(c, "paging")
    /\ shown' = ErrorEnv
    /\ UNCHANGED <<dbVars, cachedEnv, thread, txVars, cancelVars, method, outcome, reply, history>>

\* ... and renders the page by what it has read.
SendError(c) ==
    /\ pc[c] = "paging"
    /\ Replies(c, 500, IF shown = "development" THEN "dev" ELSE "plain")

\* An UPDATE of the env row from another session, which sends no NOTIFY: the
\* snapshot keeps the env it was built with.
WriteEnv ==
    /\ envWrites < MaxEnvWrites
    /\ envWrites' = envWrites + 1
    /\ env' \in Env \ {env}
    /\ since' = IF since = {} THEN {} ELSE since \cup {env'}
    /\ UNCHANGED <<site, cachedEnv, thread, txVars, cancelVars, reqVars, raised, cancels>>

Step(c) ==
    \/ Begin(c) \/ ArmTimeout(c) \/ CallHandler(c) \/ AnswerDirectly(c)
    \/ HandlerReturns(c) \/ HandlerRaises(c) \/ Render(c) \/ BadTimeout(c) \/ Commit(c)
    \/ Cancelled(c) \/ SendResponse(c) \/ ReadErrorEnv(c) \/ SendError(c)
    \/ \E matches \in BOOLEAN : SendAsset(c, matches)

\* Every request is over, or a handler blocks that no timer bounds.
Finished ==
    /\ \/ \A c \in Requests : pc[c] \in {"done", "unwound"}
       \/ /\ site.result = "blocks" /\ timer = Nobody /\ pending = Nobody
          /\ \E c \in Requests : pc[c] = "handler"
    /\ UNCHANGED vars

Next ==
    \/ \E c \in Requests : BodyFails(c) \/ Step(c)
    \/ TimerFires \/ ProbeCancelled \/ WriteEnv
    \/ Finished

\* The thread runs the request it holds, the timer fires when it is due, and
\* the runtime polls a connection whose body has arrived.
Fairness ==
    /\ \A c \in Requests : SF_vars(Step(c))
    /\ WF_vars(TimerFires /\ site.result = "blocks")

Spec == Init /\ [][Next]_vars
FairSpec == Spec /\ Fairness

-----------------------------------------------------------------------------
(* Properties.                                                             *)

\* What is committed was written by a handler that returned: a handler that
\* raised, and one whose transaction was cancelled at any point, leaves nothing
\* behind, even though the transaction of one that raised commits.
FailedHandlersLeaveNothing ==
    durable \cap (raised \cup {x.victim : x \in {y \in cancels : y.place # "posttx"}}) = {}

\* request_timeout.rs: a timer cancels at most one request.  That is the one it
\* was armed for, or, when it fired after that one's last statement and the
\* request was answered all the same, the next one: at its very first
\* statement, before it has called or written anything.
OneCancelPerTimer ==
    \A x \in cancels :
        /\ \A y \in cancels : y.overran = x.overran => y = x
        /\ x.victim # x.overran => x.place = "begun" /\ pc[x.overran] = "done"

\* HEAD has the outcome GET has on the same site, and sends no body.
HeadMirrorsGet ==
    \A c, d \in Requests :
        (/\ method[c] = "HEAD" /\ pc[c] = "done" /\ reply[c].code # 400
         /\ method[d] = "GET" /\ pc[d] = "done" /\ reply[d].code # 400)
          => /\ outcome[c] = outcome[d]
             /\ outcome[c].kind # "error" => reply[c].body = "empty"

\* render_error: a page with internals in it goes out only if env said
\* development at some moment after the request's transaction had ended, however
\* old the snapshot is and whenever the setting is written.
InternalsAreCurrent ==
    [][\A c \in Requests :
         reply'[c].body = "dev" /\ reply[c].body # "dev" => "development" \in since]_vars

\* With a timeout set, no handler keeps the thread: every request that opens
\* its transaction gives the thread up.
ThreadReleased ==
    \A c \in Requests : thread = c /\ site.timeout = "15s" ~> thread # c

\* docs/THREAT-MODEL.md:39: the timeout of a handler surfaces as "clear 500 + log".
TimeoutIsAnswered == \A x \in cancels : x.place = "handler" => pc[x.victim] # "unwound"
=============================================================================
