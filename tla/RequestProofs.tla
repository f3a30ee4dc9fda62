----------------------------- MODULE RequestProofs -----------------------------
(***************************************************************************)
(* Proofs about Request for any number of requests and writes of the env.  *)
(***************************************************************************)
EXTENDS Request, TLAPS

Serving == {"begun", "armed", "handler", "rendering", "closing", "posttx", "paging"}

\* The thread is held by the request that is being served, and by no other.
Holder == \A c \in Requests : thread = c <=> pc[c] \in Serving

\* An armed timer is the one of the request whose guard is alive, and it is
\* armed only while nobody is to be cancelled.
TimerHeld == timer # Nobody => pc[timer] \in Guarded /\ pending = Nobody

\* A cancellation that is pending was raised by a request that is still served
\* or was answered; any other request that is served has run no statement yet.
PendingOwed ==
    pending # Nobody =>
        /\ pc[pending] \in Guarded \cup {"posttx", "done"}
        /\ \A c \in Requests \ {pending} : pc[c] \in Serving => pc[c] = "begun"

\* A timer that has cancelled a request is used up.
Charged ==
    \A x \in cancels :
        /\ pc[x.victim] = "unwound"
        /\ pc[x.overran] \in {"done", "unwound"}
        /\ x.overran # pending

\* Uncommitted writes are those of a handler that returned and is not done.
Uncommitted == \A c \in writes : pc[c] \in {"rendering", "closing"} /\ c \notin raised

\* Committed writes are those of a handler that returned, in a transaction that
\* was not cancelled.
Settled ==
    \A c \in durable :
        /\ pc[c] \in {"posttx", "paging", "done", "unwound"} /\ c \notin raised
        /\ \A x \in cancels : x.place # "posttx" => x.victim # c

\* What a request whose handler raised may still do.
Raised == \A c \in raised : pc[c] \in {"closing", "posttx", "paging", "done", "unwound"}

\* The env that render_error holds was in force since the transaction ended.
ShownSince == \A c \in Requests : pc[c] = "paging" => shown \in since
EnvSince == \A c \in Requests : pc[c] \in {"posttx", "paging"} => env \in since

Places ==
    /\ Holder /\ TimerHeld /\ PendingOwed /\ Charged /\ OneCancelPerTimer
    /\ Uncommitted /\ Settled /\ Raised /\ ShownSince /\ EnvSince

IInv == TypeOK /\ Places

-----------------------------------------------------------------------------
(* Type correctness.                                                       *)

\* A step of Goto moves one request and keeps pc's type.
LEMMA GotoMoves ==
    ASSUME pc \in [Requests -> Place], NEW c \in Requests, NEW p \in Place, Goto(c, p)
    PROVE  /\ pc' \in [Requests -> Place]
           /\ pc'[c] = p
           /\ \A d \in Requests : d # c => pc'[d] = pc[d]
  BY DEF Goto

\* The outcomes the model names are outcomes.
LEMMA Outcomes ==
    /\ Asset \in Outcome /\ NoOutcome \in Outcome /\ Error \in Outcome
    /\ \A s \in {0, 200, 204, 303, 404, 1000} : Response(s) \in Outcome
  BY DEF Asset, NoOutcome, Error, Response, Outcome

\* What serve_in_tx answers without a handler is an outcome, and what it asks
\* render_route to answer with is one of two statuses.
LEMMA PlanTyped ==
    ASSUME NEW m
    PROVE  /\ Plan(m).outcome \in Outcome
           /\ Plan(m).as \in {0, 200, 404}
<1>1. /\ Answer(Response(204)).outcome \in Outcome /\ Answer(Response(204)).as = 0
      /\ Answer(Asset).outcome \in Outcome /\ Answer(Asset).as = 0
      /\ Answer(Response(404)).outcome \in Outcome /\ Answer(Response(404)).as = 0
  BY Outcomes DEF Answer
<1>2. \A s, t : Call(s, t).outcome \in Outcome /\ Call(s, t).as = s
  BY Outcomes DEF Call
<1> QED BY <1>1, <1>2 DEF Plan

\* What render_route returns is an outcome.
LEMMA RenderTyped ==
    ASSUME NEW c \in Requests
    PROVE  RenderRoute(c) \in Outcome
<1>1. Plan(method[c]).as \in {0, 200, 404}
  BY PlanTyped
<1> QED BY <1>1, Outcomes DEF RenderRoute

\* What is sent is a legal reply.
LEMMA RepliesTyped ==
    ASSUME TypeOK, NEW c \in Requests,
           NEW code \in {200, 204, 303, 304, 400, 404, 500},
           NEW body \in {"page", "asset", "empty", "dev", "plain"}, Replies(c, code, body)
    PROVE  TypeOK'
<1>1. [code |-> code, body |-> body] \in Reply
  BY DEF Reply
<1>2. reply' \in [Requests -> Reply]
  BY <1>1 DEF TypeOK, Replies
<1>3. pc' \in [Requests -> Place]
  BY GotoMoves DEF TypeOK, Replies, Place
<1> QED BY <1>2, <1>3 DEF TypeOK, Replies, dbVars, txVars, cancelVars

\* An HTTP status goes out, whatever the handler's envelope said.
LEMMA StatusTyped ==
    ASSUME NEW s \in {0, 200, 204, 303, 404, 1000}
    PROVE  StatusCode(s) \in {200, 204, 303, 404}
  BY DEF StatusCode

\* Cancelling adds a record of the right type.
LEMMA CancelTyped ==
    ASSUME TypeOK, NEW c \in Requests, Cancelled(c)
    PROVE  cancels' \subseteq Cancel /\ pending' \in Requests \cup {Nobody}
  BY DEF TypeOK, Cancelled, Cancel

\* Every action of the specification keeps the types.
LEMMA TypeStep == TypeOK /\ [Next]_vars => TypeOK'
<1> SUFFICES ASSUME TypeOK, [Next]_vars PROVE TypeOK'
  OBVIOUS
<1> USE DEF dbVars, txVars, cancelVars, reqVars, history
<1>0. {"begun", "armed", "handler", "rendering", "closing", "posttx", "paging", "unwound"} \subseteq Place
  BY DEF Place
<1>1. ASSUME NEW c \in Requests, BodyFails(c) PROVE TypeOK'
  BY <1>1, RepliesTyped DEF BodyFails
<1>2. ASSUME NEW c \in Requests, Begin(c) \/ ArmTimeout(c) \/ CallHandler(c) PROVE TypeOK'
  <2>1. pc' \in [Requests -> Place]
    BY <1>0, <1>2, GotoMoves DEF TypeOK, Begin, ArmTimeout, CallHandler
  <2>2. /\ timer' \in Requests \cup {Nobody} /\ tx' \in {"none", "open"}
        /\ thread' \in Requests \cup {Nobody}
    BY <1>2 DEF TypeOK, Begin, ArmTimeout, CallHandler
  <2> QED BY <1>2, <2>1, <2>2 DEF TypeOK, Begin, ArmTimeout, CallHandler
<1>3. ASSUME NEW c \in Requests, HandlerReturns(c) \/ Commit(c) PROVE TypeOK'
  <2>1. pc' \in [Requests -> Place]
    BY <1>0, <1>3, GotoMoves DEF TypeOK, HandlerReturns, Commit
  <2>2. timer' \in Requests \cup {Nobody} /\ since' \subseteq Env
    BY <1>3 DEF TypeOK, HandlerReturns, Commit
  <2> QED BY <1>3, <2>1, <2>2 DEF TypeOK, HandlerReturns, Commit
<1>4. ASSUME NEW c \in Requests, AnswerDirectly(c) \/ HandlerRaises(c) \/ Render(c)
      PROVE  TypeOK'
  <2>1. PICK o \in Outcome : Closes(c, o)
    BY <1>4, PlanTyped, RenderTyped, Outcomes DEF AnswerDirectly, HandlerRaises, Render
  <2>2. pc' \in [Requests -> Place] /\ outcome' \in [Requests -> Outcome]
    BY <1>0, <2>1, GotoMoves DEF TypeOK, Closes
  <2> QED BY <1>4, <2>2 DEF TypeOK, AnswerDirectly, HandlerRaises, Render
<1>5. ASSUME NEW c \in Requests, BadTimeout(c) \/ Cancelled(c) PROVE TypeOK'
  <2>1. Unwind(c) /\ cancels' \subseteq Cancel /\ pending' \in Requests \cup {Nobody}
    BY <1>5, CancelTyped DEF BadTimeout, Cancelled, TypeOK
  <2>2. pc' \in [Requests -> Place]
    BY <1>0, <2>1, GotoMoves DEF TypeOK, Unwind
  <2>3. timer' \in Requests \cup {Nobody}
    BY <2>1 DEF TypeOK, Unwind
  <2> QED BY <2>1, <2>2, <2>3 DEF TypeOK, Unwind
<1>6. ASSUME NEW c \in Requests, SendResponse(c) PROVE TypeOK'
  <2>1. outcome[c].status \in {0, 200, 204, 303, 404, 1000}
    BY DEF TypeOK, Outcome
  <2>2. StatusCode(outcome[c].status) \in {200, 204, 303, 304, 400, 404, 500}
    BY <2>1, StatusTyped
  <2> QED BY <1>6, <2>2, RepliesTyped DEF SendResponse
<1>7. ASSUME NEW c \in Requests, NEW matches \in BOOLEAN, SendAsset(c, matches) PROVE TypeOK'
  BY <1>7, RepliesTyped DEF SendAsset
<1>8. ASSUME NEW c \in Requests, SendError(c) PROVE TypeOK'
  BY <1>8, RepliesTyped DEF SendError
<1>9. ASSUME NEW c \in Requests, ReadErrorEnv(c) PROVE TypeOK'
  <2>1. pc' \in [Requests -> Place]
    BY <1>0, <1>9, GotoMoves DEF TypeOK, ReadErrorEnv
  <2> QED BY <1>9, <2>1 DEF TypeOK, ReadErrorEnv, ErrorEnv
<1>10. CASE WriteEnv
  BY <1>10, RequestAssumption DEF WriteEnv, TypeOK
<1>11. CASE TimerFires \/ ProbeCancelled
  BY <1>11 DEF TimerFires, ProbeCancelled, TypeOK
<1>12. CASE UNCHANGED vars
  BY <1>12 DEF vars, TypeOK
<1> QED
  BY <1>1, <1>2, <1>3, <1>4, <1>5, <1>6, <1>7, <1>8, <1>9, <1>10, <1>11, <1>12
  DEF Next, Step, Finished

\* The initial states are well typed.
LEMMA InitTyped == Init => TypeOK
<1> SUFFICES ASSUME Init PROVE TypeOK
  OBVIOUS
<1>1. site \in Site
  BY DEF Init, Sites
<1>2. NoReply \in Reply
  BY DEF NoReply, Reply
<1>3. /\ pc \in [Requests -> Place] /\ method \in [Requests -> Methods]
      /\ outcome \in [Requests -> Outcome] /\ reply \in [Requests -> Reply]
  BY <1>2, Outcomes DEF Init, Place
<1>4. env \in Env /\ cachedEnv \in Env /\ envWrites \in 0 .. MaxEnvWrites
  BY RequestAssumption DEF Init, Env
<1> QED BY <1>1, <1>3, <1>4 DEF Init, TypeOK

\* Request keeps its types: in particular every reply's code is an HTTP
\* status, whatever status a handler's envelope asks for.
THEOREM TypeCorrect == Spec => []TypeOK
<1>1. Init => TypeOK
  BY InitTyped
<1> QED BY <1>1, TypeStep, PTL DEF Spec

-----------------------------------------------------------------------------
(* Who holds the thread, the timer, the pending cancellation and the       *)
(* writes.                                                                 *)

\* The records of cancellations name requests.
LEMMA CancelParts ==
    ASSUME TypeOK, NEW x \in cancels
    PROVE  x.victim \in Requests /\ x.overran \in Requests
  BY DEF TypeOK, Cancel

\* Every action keeps Places.  Only the holder of the thread moves between
\* Begin and its reply, so what the others hold cannot change.
LEMMA PlacesStep == TypeOK /\ Places /\ [Next]_vars => Places'
<1> SUFFICES ASSUME TypeOK, Places, [Next]_vars PROVE Places'
  OBVIOUS
<1> USE DEF dbVars, txVars, cancelVars, reqVars, history
<1>0. pc \in [Requests -> Place] /\ Serving \cup {"done", "unwound"} \subseteq Place
  BY DEF TypeOK, Place, Serving
<1>s. /\ writes \subseteq Requests /\ durable \subseteq Requests /\ raised \subseteq Requests
      /\ timer \in Requests \cup {Nobody} /\ pending \in Requests \cup {Nobody}
      /\ \A x \in cancels : x.victim \in Requests /\ x.overran \in Requests
  BY CancelParts DEF TypeOK
<1>p. /\ Holder /\ TimerHeld /\ PendingOwed /\ Charged /\ OneCancelPerTimer
      /\ Uncommitted /\ Settled /\ Raised /\ ShownSince /\ EnvSince
  BY DEF Places
<1>n. Nobody \notin Requests
  BY RequestAssumption
<1>1. ASSUME NEW c \in Requests, BodyFails(c) PROVE Places'
  <2>1. /\ pc[c] = "reading" /\ thread = Nobody /\ thread' = Nobody /\ pc'[c] = "done"
        /\ UNCHANGED <<timer, pending, writes, durable, raised, cancels>>
        /\ \A d \in Requests : d # c => pc'[d] = pc[d]
    BY <1>0, <1>1, GotoMoves DEF BodyFails, Replies
  <2>2. Holder' /\ TimerHeld' /\ PendingOwed'
    BY <1>n, <1>s, <1>p, <2>1 DEF Holder, TimerHeld, PendingOwed, Serving, Guarded
  <2>3. Charged' /\ OneCancelPerTimer'
    BY <1>n, <1>s, <1>p, <2>1 DEF Charged, OneCancelPerTimer
  <2>4. Uncommitted' /\ Settled' /\ Raised'
    BY <1>n, <1>s, <1>p, <2>1 DEF Uncommitted, Settled, Raised
  <2>5. ShownSince' /\ EnvSince'
    BY <1>n, <1>p, <2>1 DEF ShownSince, EnvSince, Holder, Serving
  <2> QED BY <2>2, <2>3, <2>4, <2>5 DEF Places
<1>2. ASSUME NEW c \in Requests, Begin(c) PROVE Places'
  <2>1. /\ pc[c] = "reading" /\ thread = Nobody /\ thread' = c /\ pc'[c] = "begun"
        /\ UNCHANGED <<timer, pending, writes, durable, raised, cancels>>
        /\ \A d \in Requests : d # c => pc'[d] = pc[d]
    BY <1>0, <1>2, GotoMoves DEF Begin, Serving
  <2>2. Holder' /\ TimerHeld' /\ PendingOwed'
    BY <1>n, <1>s, <1>p, <2>1 DEF Holder, TimerHeld, PendingOwed, Serving, Guarded
  <2>3. Charged' /\ OneCancelPerTimer'
    BY <1>n, <1>s, <1>p, <2>1 DEF Charged, OneCancelPerTimer
  <2>4. Uncommitted' /\ Settled' /\ Raised'
    BY <1>n, <1>s, <1>p, <2>1 DEF Uncommitted, Settled, Raised
  <2>5. ShownSince' /\ EnvSince'
    BY <1>n, <1>p, <2>1 DEF ShownSince, EnvSince, Holder, Serving
  <2> QED BY <2>2, <2>3, <2>4, <2>5 DEF Places
<1>3. ASSUME NEW c \in Requests, ArmTimeout(c) PROVE Places'
  <2>1. /\ pc[c] = "begun" /\ pending = Nobody /\ pc'[c] = "armed"
        /\ timer' \in {Nobody, c, timer}
        /\ UNCHANGED <<thread, pending, writes, durable, raised, cancels>>
        /\ \A d \in Requests : d # c => pc'[d] = pc[d]
    BY <1>0, <1>3, GotoMoves DEF ArmTimeout, Serving
  <2>2. Holder' /\ TimerHeld' /\ PendingOwed'
    BY <1>n, <1>s, <1>p, <2>1 DEF Holder, TimerHeld, PendingOwed, Serving, Guarded
  <2>3. Charged' /\ OneCancelPerTimer'
    BY <1>n, <1>s, <1>p, <2>1 DEF Charged, OneCancelPerTimer
  <2>4. Uncommitted' /\ Settled' /\ Raised'
    BY <1>n, <1>s, <1>p, <2>1 DEF Uncommitted, Settled, Raised
  <2>5. ShownSince' /\ EnvSince'
    BY <1>n, <1>p, <2>1 DEF ShownSince, EnvSince, Holder, Serving
  <2> QED BY <2>2, <2>3, <2>4, <2>5 DEF Places
<1>4. ASSUME NEW c \in Requests, CallHandler(c) \/ AnswerDirectly(c) \/ Render(c) PROVE Places'
  <2>1. /\ \/ pc[c] = "armed" /\ pc'[c] \in {"handler", "closing"}
           \/ pc[c] = "rendering" /\ pc'[c] = "closing"
        /\ UNCHANGED <<thread, timer, pending, writes, durable, raised, cancels>>
        /\ \A d \in Requests : d # c => pc'[d] = pc[d]
    BY <1>0, <1>4, GotoMoves DEF CallHandler, AnswerDirectly, Render, Closes, Serving
  <2>2. Holder' /\ TimerHeld' /\ PendingOwed'
    BY <1>n, <1>s, <1>p, <2>1 DEF Holder, TimerHeld, PendingOwed, Serving, Guarded
  <2>3. Charged' /\ OneCancelPerTimer'
    BY <1>n, <1>s, <1>p, <2>1 DEF Charged, OneCancelPerTimer
  <2>4. Uncommitted' /\ Settled' /\ Raised'
    BY <1>n, <1>s, <1>p, <2>1 DEF Uncommitted, Settled, Raised
  <2>5. ShownSince' /\ EnvSince'
    BY <1>n, <1>p, <2>1 DEF ShownSince, EnvSince, Holder, Serving
  <2> QED BY <2>2, <2>3, <2>4, <2>5 DEF Places
<1>5. ASSUME NEW c \in Requests, HandlerReturns(c) PROVE Places'
  <2>1. /\ pc[c] = "handler" /\ pc'[c] = "rendering" /\ writes' = writes \cup {c}
        /\ UNCHANGED <<thread, timer, pending, durable, raised, cancels>>
        /\ \A d \in Requests : d # c => pc'[d] = pc[d]
    BY <1>0, <1>5, GotoMoves DEF HandlerReturns, Serving
  <2>2. Holder' /\ TimerHeld' /\ PendingOwed'
    BY <1>n, <1>s, <1>p, <2>1 DEF Holder, TimerHeld, PendingOwed, Serving, Guarded
  <2>3. Charged' /\ OneCancelPerTimer'
    BY <1>n, <1>s, <1>p, <2>1 DEF Charged, OneCancelPerTimer
  <2>4. Uncommitted' /\ Settled' /\ Raised'
    BY <1>n, <1>s, <1>p, <2>1 DEF Uncommitted, Settled, Raised
  <2>5. ShownSince' /\ EnvSince'
    BY <1>n, <1>p, <2>1 DEF ShownSince, EnvSince, Holder, Serving
  <2> QED BY <2>2, <2>3, <2>4, <2>5 DEF Places
<1>6. ASSUME NEW c \in Requests, HandlerRaises(c) PROVE Places'
  <2>1. /\ pc[c] = "handler" /\ pc'[c] = "closing" /\ raised' = raised \cup {c}
        /\ UNCHANGED <<thread, timer, pending, writes, durable, cancels>>
        /\ \A d \in Requests : d # c => pc'[d] = pc[d]
    BY <1>0, <1>6, GotoMoves DEF HandlerRaises, Closes, Serving
  <2>2. Holder' /\ TimerHeld' /\ PendingOwed'
    BY <1>n, <1>s, <1>p, <2>1 DEF Holder, TimerHeld, PendingOwed, Serving, Guarded
  <2>3. Charged' /\ OneCancelPerTimer'
    BY <1>n, <1>s, <1>p, <2>1 DEF Charged, OneCancelPerTimer
  <2>4. Uncommitted' /\ Settled' /\ Raised'
    BY <1>n, <1>s, <1>p, <2>1 DEF Uncommitted, Settled, Raised
  <2>5. ShownSince' /\ EnvSince'
    BY <1>n, <1>p, <2>1 DEF ShownSince, EnvSince, Holder, Serving
  <2> QED BY <2>2, <2>3, <2>4, <2>5 DEF Places
<1>7. ASSUME NEW c \in Requests, BadTimeout(c) PROVE Places'
  <2>1. /\ pc[c] = "begun" /\ pending = Nobody /\ pc'[c] = "unwound"
        /\ thread' = Nobody /\ timer' = timer /\ writes' = {}
        /\ UNCHANGED <<pending, durable, raised, cancels>>
        /\ \A d \in Requests : d # c => pc'[d] = pc[d]
    BY <1>0, <1>7, GotoMoves DEF BadTimeout, Unwind, Guarded, Serving
  <2>2. Holder' /\ TimerHeld' /\ PendingOwed'
    BY <1>n, <1>s, <1>p, <2>1 DEF Holder, TimerHeld, PendingOwed, Serving, Guarded
  <2>3. Charged' /\ OneCancelPerTimer'
    BY <1>n, <1>s, <1>p, <2>1 DEF Charged, OneCancelPerTimer
  <2>4. Uncommitted' /\ Settled' /\ Raised'
    BY <1>n, <1>s, <1>p, <2>1 DEF Uncommitted, Settled, Raised
  <2>5. ShownSince' /\ EnvSince'
    BY <1>n, <1>p, <2>1 DEF ShownSince, EnvSince, Holder, Serving
  <2> QED BY <2>2, <2>3, <2>4, <2>5 DEF Places
<1>8. ASSUME NEW c \in Requests, Commit(c) PROVE Places'
  <2>1. /\ pc[c] = "closing" /\ pc'[c] = "posttx" /\ thread' = thread /\ timer' = Nobody
        /\ durable' = durable \cup writes /\ writes' = {} /\ since' = {env} /\ env' = env
        /\ UNCHANGED <<pending, raised, cancels>>
        /\ \A d \in Requests : d # c => pc'[d] = pc[d]
    BY <1>0, <1>8, GotoMoves DEF Commit, Serving
  <2>2. Holder' /\ TimerHeld' /\ PendingOwed'
    BY <1>n, <1>s, <1>p, <2>1 DEF Holder, TimerHeld, PendingOwed, Serving, Guarded
  <2>3. Charged' /\ OneCancelPerTimer'
    BY <1>n, <1>s, <1>p, <2>1 DEF Charged, OneCancelPerTimer
  <2>w. \A d \in writes : d = c
    BY <1>s, <1>p, <2>1 DEF Uncommitted, Holder, Serving
  <2>4. Uncommitted' /\ Settled' /\ Raised'
    BY <1>n, <1>s, <1>p, <2>1, <2>w DEF Uncommitted, Settled, Raised, Charged
  <2>5. ShownSince' /\ EnvSince'
    BY <1>n, <1>p, <2>1 DEF ShownSince, EnvSince, Holder, Serving
  <2> QED BY <2>2, <2>3, <2>4, <2>5 DEF Places
<1>9. ASSUME NEW c \in Requests, ReadErrorEnv(c) PROVE Places'
  <2>1. /\ pc[c] = "posttx" /\ pending = Nobody /\ pc'[c] = "paging" /\ shown' = env /\ env' = env
        /\ UNCHANGED <<thread, timer, pending, writes, durable, raised, cancels, since>>
        /\ \A d \in Requests : d # c => pc'[d] = pc[d]
    BY <1>0, <1>9, GotoMoves DEF ReadErrorEnv, ErrorEnv, Serving
  <2>2. Holder' /\ TimerHeld' /\ PendingOwed'
    BY <1>n, <1>s, <1>p, <2>1 DEF Holder, TimerHeld, PendingOwed, Serving, Guarded
  <2>3. Charged' /\ OneCancelPerTimer'
    BY <1>n, <1>s, <1>p, <2>1 DEF Charged, OneCancelPerTimer
  <2>4. Uncommitted' /\ Settled' /\ Raised'
    BY <1>n, <1>s, <1>p, <2>1 DEF Uncommitted, Settled, Raised
  <2>5. ShownSince' /\ EnvSince'
    BY <1>n, <1>p, <2>1 DEF ShownSince, EnvSince, Holder, Serving
  <2> QED BY <2>2, <2>3, <2>4, <2>5 DEF Places
<1>10. ASSUME NEW c \in Requests, NEW matches \in BOOLEAN,
              SendResponse(c) \/ SendAsset(c, matches) \/ SendError(c)
       PROVE  Places'
  <2>1. /\ pc[c] \in {"posttx", "paging"} /\ pc'[c] = "done" /\ thread' = Nobody
        /\ UNCHANGED <<timer, pending, writes, durable, raised, cancels>>
        /\ \A d \in Requests : d # c => pc'[d] = pc[d]
    BY <1>0, <1>10, GotoMoves DEF SendResponse, SendAsset, SendError, Replies
  <2>2. Holder' /\ TimerHeld' /\ PendingOwed'
    BY <1>n, <1>s, <1>p, <2>1 DEF Holder, TimerHeld, PendingOwed, Serving, Guarded
  <2>3. Charged' /\ OneCancelPerTimer'
    BY <1>n, <1>s, <1>p, <2>1 DEF Charged, OneCancelPerTimer
  <2>4. Uncommitted' /\ Settled' /\ Raised'
    BY <1>n, <1>s, <1>p, <2>1 DEF Uncommitted, Settled, Raised
  <2>5. ShownSince' /\ EnvSince'
    BY <1>n, <1>p, <2>1 DEF ShownSince, EnvSince, Holder, Serving
  <2> QED BY <2>2, <2>3, <2>4, <2>5 DEF Places
<1>11. ASSUME NEW c \in Requests, Cancelled(c) PROVE Places'
  <2> DEFINE new == [victim |-> c, overran |-> pending, place |-> pc[c]]
  <2>1. /\ pending \in Requests /\ pending' = Nobody
        /\ pc[c] \in {"begun", "armed", "handler", "rendering", "posttx"} /\ pc'[c] = "unwound"
        /\ thread' = Nobody /\ writes' = {} /\ durable' = durable /\ raised' = raised
        /\ timer' \in {Nobody, timer} /\ cancels' = cancels \cup {new}
        /\ \A d \in Requests : d # c => pc'[d] = pc[d]
    BY <1>0, <1>s, <1>11, GotoMoves DEF Cancelled, MayRunSpi, Unwind, Serving
  <2>2. Holder' /\ TimerHeld' /\ PendingOwed'
    BY <1>n, <1>s, <1>p, <2>1 DEF Holder, TimerHeld, PendingOwed, Serving, Guarded
  <2>3. pending # c => pc[c] = "begun" /\ pc[pending] = "done"
    <3> SUFFICES ASSUME pending # c PROVE pc[c] = "begun" /\ pc[pending] = "done"
      OBVIOUS
    <3>1. pc[c] \in Serving
      BY <2>1 DEF Serving
    <3>2. pc[pending] \notin Serving
      BY <1>p, <2>1, <3>1 DEF Holder
    <3>3. pc[c] = "begun" /\ pc[pending] \in Guarded \cup {"posttx", "done"}
      BY <1>n, <1>p, <2>1, <3>1 DEF PendingOwed
    <3> QED BY <3>2, <3>3 DEF Guarded, Serving
  <2>4. new.victim = c /\ new.overran = pending /\ new.place = pc[c]
    OBVIOUS
  <2> HIDE DEF new
  <2>5. Charged'
    BY <1>n, <1>s, <1>p, <2>1, <2>3, <2>4 DEF Charged
  <2>6. OneCancelPerTimer'
    BY <1>s, <1>p, <2>1, <2>3, <2>4 DEF Charged, OneCancelPerTimer
  <2>7. Uncommitted' /\ Settled' /\ Raised'
    BY <1>s, <1>p, <2>1, <2>4 DEF Uncommitted, Settled, Raised
  <2>8. ShownSince' /\ EnvSince'
    BY <1>n, <1>p, <2>1 DEF ShownSince, EnvSince, Holder, Serving
  <2> QED BY <2>2, <2>5, <2>6, <2>7, <2>8 DEF Places
<1>12. CASE TimerFires
  <2>1. /\ timer \in Requests /\ timer' = Nobody /\ pending' = timer
        /\ UNCHANGED <<env, thread, pc, writes, durable, raised, cancels, shown, since>>
    BY <1>s, <1>12 DEF TimerFires
  <2>2. Holder' /\ TimerHeld' /\ PendingOwed'
    BY <1>n, <1>p, <2>1 DEF Holder, TimerHeld, PendingOwed, Serving, Guarded
  <2>3. Charged' /\ OneCancelPerTimer'
    BY <1>n, <1>p, <2>1 DEF Charged, OneCancelPerTimer, TimerHeld, Guarded
  <2> QED BY <1>p, <2>1, <2>2, <2>3
          DEF Places, Uncommitted, Settled, Raised, ShownSince, EnvSince
<1>13. CASE ProbeCancelled
  <2>1. /\ pending' = Nobody
        /\ UNCHANGED <<env, thread, timer, pc, writes, durable, raised, cancels, shown, since>>
    BY <1>13 DEF ProbeCancelled
  <2>2. Holder' /\ TimerHeld' /\ PendingOwed' /\ Charged' /\ OneCancelPerTimer'
    BY <1>n, <1>s, <1>p, <2>1 DEF Holder, TimerHeld, PendingOwed, Charged, OneCancelPerTimer
  <2> QED BY <1>p, <2>1, <2>2 DEF Places, Uncommitted, Settled, Raised, ShownSince, EnvSince
<1>14. CASE WriteEnv
  <2>1. /\ since # {} => since' = since \cup {env'}
        /\ UNCHANGED <<thread, timer, pending, pc, writes, durable, raised, cancels, shown>>
    BY <1>14 DEF WriteEnv
  <2>2. ShownSince' /\ EnvSince'
    BY <1>p, <2>1 DEF ShownSince, EnvSince
  <2> QED BY <1>p, <2>1, <2>2
          DEF Places, Holder, TimerHeld, PendingOwed, Charged, OneCancelPerTimer, Uncommitted,
              Settled, Raised
<1>15. CASE UNCHANGED vars
  BY <1>p, <1>15 DEF vars, Places, Holder, TimerHeld, PendingOwed, Charged, OneCancelPerTimer,
                     Uncommitted, Settled, Raised, ShownSince, EnvSince
<1> QED
  BY <1>1, <1>2, <1>3, <1>4, <1>5, <1>6, <1>7, <1>8, <1>9, <1>10, <1>11, <1>12, <1>13, <1>14, <1>15
  DEF Next, Step, Finished

\* IInv is inductive.
LEMMA Inductive == Spec => []IInv
<1>1. Init => IInv
  <2> SUFFICES ASSUME Init PROVE IInv
    OBVIOUS
  <2>1. Holder /\ TimerHeld /\ PendingOwed /\ Charged /\ OneCancelPerTimer
    BY RequestAssumption
    DEF Init, Holder, TimerHeld, PendingOwed, Charged, OneCancelPerTimer, Serving
  <2>2. Uncommitted /\ Settled /\ Raised /\ ShownSince /\ EnvSince
    BY DEF Init, Uncommitted, Settled, Raised, ShownSince, EnvSince
  <2> QED BY <2>1, <2>2, InitTyped DEF IInv, Places
<1>2. IInv /\ [Next]_vars => IInv'
  BY TypeStep, PlacesStep DEF IInv
<1> QED BY <1>1, <1>2, PTL DEF Spec

\* However requests, exceptions and timeouts follow one another, no write of a
\* handler that raised, or whose transaction was cancelled, is ever committed
\* (router.rs and the wrapper in schema.rs).
THEOREM NothingFromFailedHandlers == Spec => []FailedHandlersLeaveNothing
<1>1. IInv => FailedHandlersLeaveNothing
  BY DEF IInv, Places, Settled, FailedHandlersLeaveNothing
<1> QED BY <1>1, Inductive, PTL

\* However many requests follow one another, a statement timer cancels at most
\* one of them; another one than its own only if its own was answered all the
\* same, and then at that request's first statement (request_timeout.rs).
THEOREM TimersCancelOnce == Spec => []OneCancelPerTimer
<1>1. IInv => OneCancelPerTimer
  BY DEF IInv, Places
<1> QED BY <1>1, Inductive, PTL

\* A reply has the body it is sent with; nobody else's reply changes.
LEMMA ReplyBody ==
    ASSUME TypeOK, NEW c \in Requests, NEW code, NEW body, Replies(c, code, body),
           NEW d \in Requests, reply'[d].body # reply[d].body
    PROVE  d = c /\ reply'[d].body = body
  BY DEF TypeOK, Replies

\* render_error (http.rs): a page with internals is sent only by a step that
\* holds development as the env, which was in force since the transaction ended.
LEMMA InternalsStep ==
    ASSUME IInv, [Next]_vars, NEW c \in Requests,
           reply'[c].body = "dev", reply[c].body # "dev"
    PROVE  "development" \in since
<1>0. TypeOK
  BY DEF IInv
<1>1. ASSUME NEW d \in Requests, BodyFails(d) PROVE FALSE
  BY <1>0, <1>1, ReplyBody DEF BodyFails
<1>2. ASSUME NEW d \in Requests, SendResponse(d) PROVE FALSE
  <2>1. (IF method[d] = "HEAD" THEN "empty" ELSE "page") # "dev"
    OBVIOUS
  <2> QED BY <1>0, <1>2, <2>1, ReplyBody DEF SendResponse
<1>3. ASSUME NEW d \in Requests, NEW matches \in BOOLEAN, SendAsset(d, matches) PROVE FALSE
  <2>1. (IF matches \/ method[d] = "HEAD" THEN "empty" ELSE "asset") # "dev"
    OBVIOUS
  <2> QED BY <1>0, <1>3, <2>1, ReplyBody DEF SendAsset
<1>4. ASSUME NEW d \in Requests, SendError(d) PROVE "development" \in since
  <2>1. (IF shown = "development" THEN "dev" ELSE "plain") = "dev"
    BY <1>0, <1>4, ReplyBody DEF SendError
  <2>2. shown = "development" /\ pc[d] = "paging"
    BY <1>4, <2>1 DEF SendError
  <2> QED BY <2>2 DEF IInv, Places, ShownSince
<1>5. ASSUME reply' = reply PROVE FALSE
  BY <1>5
<1>6. ASSUME NEW d \in Requests,
             \/ Begin(d) \/ ArmTimeout(d) \/ CallHandler(d) \/ AnswerDirectly(d)
             \/ HandlerReturns(d) \/ HandlerRaises(d) \/ Render(d) \/ BadTimeout(d)
             \/ Commit(d) \/ Cancelled(d) \/ ReadErrorEnv(d)
      PROVE  reply' = reply
  BY <1>6 DEF Begin, ArmTimeout, CallHandler, AnswerDirectly, HandlerReturns, HandlerRaises,
              Render, BadTimeout, Unwind, Commit, Cancelled, ReadErrorEnv
<1>7. TimerFires \/ ProbeCancelled \/ WriteEnv \/ UNCHANGED vars => reply' = reply
  BY DEF TimerFires, ProbeCancelled, WriteEnv, vars, reqVars
<1> QED
  BY <1>1, <1>2, <1>3, <1>4, <1>5, <1>6, <1>7 DEF Next, Step, Finished

\* For any set of requests and any number of writes of the setting, an error page
\* shows internals only if env said development since its request's transaction
\* ended.
THEOREM InternalsStayCurrent == Spec => InternalsAreCurrent
<1>1. IInv /\ [Next]_vars =>
        [\A c \in Requests :
           reply'[c].body = "dev" /\ reply[c].body # "dev" => "development" \in since]_vars
  BY InternalsStep
<1> QED BY <1>1, Inductive, PTL DEF Spec, InternalsAreCurrent

-----------------------------------------------------------------------------
(* What a request is answered with.                                        *)

\* render_route on what the handler returns to a request of method m.
Rendered(m) ==
    LET status == CASE site.result = "redirect" -> 303
                    [] site.result = "context" -> 1000
                    [] OTHER -> Plan(m).as
        failed == /\ Plan(m).template
                  /\ \/ site.result = "text"
                     \/ site.result \in {"json", "context"} /\ ~site.renders
    IN  IF failed THEN Error ELSE Response(status)

\* The outcome of a request of method m, as a function of the site alone.
Final(m) ==
    IF ~Plan(m).handler THEN Plan(m).outcome
    ELSE IF site.result = "raises" THEN Error
    ELSE Rendered(m)

\* How far request c has come towards that outcome.
OnCourse(c) ==
    /\ pc[c] \in {"handler", "rendering"} => Plan(method[c]).handler
    /\ pc[c] = "rendering" => site.result # "raises"
    /\ pc[c] \in {"closing", "posttx", "paging"} => outcome[c] = Final(method[c])
    /\ pc[c] = "paging" => outcome[c].kind = "error"
    /\ pc[c] = "done" /\ reply[c].code # 400 =>
         /\ outcome[c] = Final(method[c])
         /\ method[c] = "HEAD" /\ outcome[c].kind # "error" => reply[c].body = "empty"

AllOnCourse == \A c \in Requests : OnCourse(c)

\* The site does not change in a behaviour, so neither does the plan.
LEMMA PlanFixed == ASSUME site' = site, NEW m PROVE Plan(m)' = Plan(m) /\ Final(m)' = Final(m)
<1>1. MethodRows' = MethodRows /\ Suppressed' = Suppressed
  BY DEF MethodRows, Suppressed
<1>2. ListAllowedMethods' = ListAllowedMethods
  BY <1>1 DEF ListAllowedMethods
<1>3. Plan(m)' = Plan(m)
  BY <1>1, <1>2 DEF Plan
<1>4. Rendered(m)' = Rendered(m)
  BY <1>3 DEF Rendered
<1> QED BY <1>3, <1>4 DEF Final

\* The plan for HEAD is the plan for GET: LookupMethod folds them together.
LEMMA HeadIsGet == Plan("HEAD") = Plan("GET") /\ Final("HEAD") = Final("GET")
<1>1. Plan("HEAD") = Plan("GET")
  BY DEF Plan, LookupMethod
<1>2. Rendered("HEAD") = Rendered("GET")
  BY <1>1 DEF Rendered
<1> QED BY <1>1, <1>2 DEF Final

\* A request that a step does not touch stays on course.
LEMMA Untouched ==
    ASSUME TypeOK, site' = site, method' = method, NEW c \in Requests, OnCourse(c),
           pc'[c] = pc[c], outcome'[c] = outcome[c], reply'[c] = reply[c]
    PROVE  OnCourse(c)'
  BY PlanFixed DEF OnCourse

\* What render_route answers to a request is what its method is answered with.
LEMMA RenderIsRendered == ASSUME NEW c PROVE RenderRoute(c) = Rendered(method[c])
  BY DEF RenderRoute, Rendered

\* Every step keeps every request on course.
LEMMA CourseStep == TypeOK /\ AllOnCourse /\ [Next]_vars => AllOnCourse'
<1> SUFFICES ASSUME TypeOK, AllOnCourse, [Next]_vars PROVE AllOnCourse'
  OBVIOUS
<1> USE DEF dbVars, txVars, cancelVars, reqVars, history
<1>0. /\ pc \in [Requests -> Place] /\ outcome \in [Requests -> Outcome]
      /\ reply \in [Requests -> Reply]
      /\ \A c \in Requests : OnCourse(c)
  BY DEF TypeOK, AllOnCourse
<1>p. Serving \cup {"done", "unwound"} \subseteq Place
  BY DEF Place, Serving
<1>1. ASSUME NEW c \in Requests, NEW code, NEW body, Replies(c, code, body),
             code = 400 \/ (pc[c] \in {"posttx", "paging"}
                            /\ (method[c] = "HEAD" /\ outcome[c].kind # "error" => body = "empty"))
      PROVE  AllOnCourse'
  <2>1. /\ site' = site /\ method' = method /\ outcome' = outcome
        /\ pc'[c] = "done" /\ reply'[c] = [code |-> code, body |-> body]
        /\ \A d \in Requests \ {c} : pc'[d] = pc[d] /\ reply'[d] = reply[d]
    BY <1>0, <1>1 DEF Replies, Goto
  <2>2. OnCourse(c)'
    <3>1. reply'[c].code = code /\ reply'[c].body = body
      BY <2>1
    <3>2. Final(method[c])' = Final(method[c])
      BY <2>1, PlanFixed
    <3>3. code # 400 => outcome[c] = Final(method[c])
      BY <1>0, <1>1 DEF OnCourse
    <3> QED BY <1>1, <2>1, <3>1, <3>2, <3>3 DEF OnCourse
  <2>3. ASSUME NEW d \in Requests \ {c} PROVE OnCourse(d)'
    BY <1>0, <2>1, Untouched
  <2> QED BY <2>2, <2>3 DEF AllOnCourse
<1>2. ASSUME NEW c \in Requests, NEW p \in {"begun", "armed", "handler", "rendering", "posttx", "paging", "unwound"},
             Goto(c, p), site' = site, method' = method, outcome' = outcome, reply' = reply,
             p \in {"handler", "rendering"} => Plan(method[c]).handler,
             p = "rendering" => site.result # "raises",
             p \in {"posttx", "paging"} => pc[c] \in {"closing", "posttx"},
             p = "paging" => outcome[c].kind = "error"
      PROVE  AllOnCourse'
  <2>1. pc'[c] = p /\ \A d \in Requests \ {c} : pc'[d] = pc[d]
    BY <1>0, <1>2 DEF Goto
  <2>2. OnCourse(c)'
    <3>1. Final(method[c])' = Final(method[c]) /\ Plan(method[c])' = Plan(method[c])
      BY <1>2, PlanFixed
    <3>2. p \in {"posttx", "paging"} => outcome[c] = Final(method[c])
      BY <1>0, <1>2 DEF OnCourse
    <3> QED BY <1>2, <2>1, <3>1, <3>2 DEF OnCourse
  <2>3. ASSUME NEW d \in Requests \ {c} PROVE OnCourse(d)'
    BY <1>0, <1>2, <2>1, Untouched
  <2> QED BY <2>2, <2>3 DEF AllOnCourse
<1>3. ASSUME NEW c \in Requests, Closes(c, Final(method[c])), site' = site, method' = method,
             reply' = reply
      PROVE  AllOnCourse'
  <2>1. /\ pc'[c] = "closing" /\ outcome'[c] = Final(method[c])
        /\ \A d \in Requests \ {c} : pc'[d] = pc[d] /\ outcome'[d] = outcome[d]
    BY <1>0, <1>3 DEF Closes, Goto
  <2>2. OnCourse(c)'
    <3>1. Final(method[c])' = Final(method[c])
      BY <1>3, PlanFixed
    <3> QED BY <1>3, <2>1, <3>1 DEF OnCourse
  <2>3. ASSUME NEW d \in Requests \ {c} PROVE OnCourse(d)'
    BY <1>0, <1>3, <2>1, Untouched
  <2> QED BY <2>2, <2>3 DEF AllOnCourse
<1>4. ASSUME NEW c \in Requests, BodyFails(c) PROVE AllOnCourse'
  BY <1>1, <1>4 DEF BodyFails
<1>5. ASSUME NEW c \in Requests, Begin(c) \/ ArmTimeout(c) \/ CallHandler(c) PROVE AllOnCourse'
  BY <1>2, <1>5 DEF Begin, ArmTimeout, CallHandler
<1>6. ASSUME NEW c \in Requests, AnswerDirectly(c) PROVE AllOnCourse'
  <2>1. Plan(method[c]).outcome = Final(method[c])
    BY <1>6 DEF AnswerDirectly, Final
  <2> QED BY <1>3, <1>6, <2>1 DEF AnswerDirectly
<1>7. ASSUME NEW c \in Requests, HandlerReturns(c) PROVE AllOnCourse'
  <2>1. Plan(method[c]).handler /\ site.result # "raises"
    BY <1>0, <1>7 DEF HandlerReturns, OnCourse
  <2> QED BY <1>2, <1>7, <2>1 DEF HandlerReturns
<1>8. ASSUME NEW c \in Requests, HandlerRaises(c) PROVE AllOnCourse'
  <2>1. Final(method[c]) = Error
    BY <1>0, <1>8 DEF HandlerRaises, OnCourse, Final
  <2> QED BY <1>3, <1>8, <2>1 DEF HandlerRaises
<1>9. ASSUME NEW c \in Requests, Render(c) PROVE AllOnCourse'
  <2>1. Final(method[c]) = RenderRoute(c)
    BY <1>0, <1>9, RenderIsRendered DEF Render, OnCourse, Final
  <2> QED BY <1>3, <1>9, <2>1 DEF Render
<1>10. ASSUME NEW c \in Requests, BadTimeout(c) \/ Cancelled(c) PROVE AllOnCourse'
  BY <1>2, <1>10 DEF BadTimeout, Cancelled, Unwind
<1>11. ASSUME NEW c \in Requests, Commit(c) PROVE AllOnCourse'
  BY <1>2, <1>11 DEF Commit
<1>12. ASSUME NEW c \in Requests, SendResponse(c) PROVE AllOnCourse'
  BY <1>1, <1>12 DEF SendResponse
<1>13. ASSUME NEW c \in Requests, NEW matches \in BOOLEAN, SendAsset(c, matches) PROVE AllOnCourse'
  BY <1>1, <1>13 DEF SendAsset
<1>14. ASSUME NEW c \in Requests, SendError(c) PROVE AllOnCourse'
  <2>1. outcome[c].kind = "error"
    BY <1>0, <1>14 DEF SendError, OnCourse
  <2> QED BY <1>1, <1>14, <2>1 DEF SendError
<1>15. ASSUME NEW c \in Requests, ReadErrorEnv(c) PROVE AllOnCourse'
  BY <1>2, <1>15 DEF ReadErrorEnv
<1>16. CASE TimerFires \/ ProbeCancelled \/ WriteEnv \/ UNCHANGED vars
  <2>1. UNCHANGED <<site, pc, method, outcome, reply>>
    BY <1>16 DEF TimerFires, ProbeCancelled, WriteEnv, vars
  <2> QED BY <1>0, <2>1, Untouched DEF AllOnCourse
<1> QED
  BY <1>4, <1>5, <1>6, <1>7, <1>8, <1>9, <1>10, <1>11, <1>12, <1>13, <1>14, <1>15, <1>16
  DEF Next, Step, Finished

\* serve_in_tx and http::handle: whatever the site holds for a path, and
\* however other requests interleave, a HEAD that is answered has the outcome a
\* GET has, and no body unless it is an error page.
THEOREM HeadIsAnsweredAsGet == Spec => []HeadMirrorsGet
<1>1. Init => AllOnCourse
  BY DEF Init, AllOnCourse, OnCourse
<1>2. TypeOK /\ AllOnCourse /\ [Next]_vars => AllOnCourse'
  BY CourseStep
<1>3. AllOnCourse => HeadMirrorsGet
  BY HeadIsGet DEF AllOnCourse, OnCourse, HeadMirrorsGet
<1> QED BY <1>1, <1>2, <1>3, TypeCorrect, PTL DEF Spec
=============================================================================
