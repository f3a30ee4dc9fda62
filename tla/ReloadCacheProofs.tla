--------------------------- MODULE ReloadCacheProofs ---------------------------
(***************************************************************************)
(* Proofs about ReloadCache for every number of pushes and failures.       *)
(***************************************************************************)
EXTENDS ReloadCache, TLAPS

\* No version anywhere is ahead of the database.
NoneAhead ==
    /\ \A i \in DOMAIN queue : queue[i].version <= db
    /\ owes \subseteq 0 .. db
    /\ published \subseteq 0 .. db
    /\ req.begun <= db

\* A request past its warm-up has a snapshot to work with.
WarmHasSnapshot == req.pc \notin {"idle", "begun"} => cache # NoSnapshot

\* While a transaction is open, every push committed since it began is still
\* queued (or lost): nothing can have been pumped meanwhile.
OpenTxOwed ==
    InTransaction => \A v \in (req.begun + 1) .. db : v \in Queued \cup lost

\* The reload NOTIFY of a push is ahead of its livereload NOTIFY ...
ReloadFirst ==
    \A i, j \in DOMAIN queue :
        \A v \in Version : queue[i] = Livereload(v) /\ queue[j] = Reload(v) => j < i

\* ... so once the livereload event is out, the reload NOTIFY is too.
PublishedNotQueued == published \cap Queued = {}

\* The parts of a page that a request has chosen miss no push that is not owed.
ChosenOwed ==
    /\ req.pc \in {"called", "rendered"} =>
          \A v \in 1 .. db : (req.routes < v \/ req.handler < v) => v \in Queued \cup lost
    /\ req.pc = "rendered" =>
          \A v \in 1 .. db : req.template < v => v \in Queued \cup lost

IInv ==
    /\ TypeOK
    /\ NoneAhead
    /\ WarmHasSnapshot
    /\ OpenTxOwed
    /\ StaleIsOwed
    /\ ChosenOwed
    /\ ReloadFirst
    /\ PublishedNotQueued

-----------------------------------------------------------------------------
(* Notifications and the queue.                                            *)

\* The two notifications of a version are different messages.
LEMMA Messages ==
    \A v \in Version :
        /\ Reload(v) \in Notification /\ Livereload(v) \in Notification
        /\ Reload(v).version = v /\ Livereload(v).version = v
        /\ \A w \in Version : Reload(v) # Livereload(w)
        /\ \A w \in Version : Reload(v) = Reload(w) => v = w
        /\ \A w \in Version : Livereload(v) = Livereload(w) => v = w
  BY DEF Reload, Livereload, Notification

\* Appending to a queue keeps its messages where they are.
LEMMA AppendKeeps ==
    ASSUME NEW q \in Seq(Notification), NEW m \in Notification
    PROVE  /\ Append(q, m) \in Seq(Notification)
           /\ Len(Append(q, m)) = Len(q) + 1
           /\ DOMAIN Append(q, m) = DOMAIN q \cup {Len(q) + 1}
           /\ \A i \in DOMAIN q : Append(q, m)[i] = q[i] /\ i < Len(q) + 1
           /\ Append(q, m)[Len(q) + 1] = m
  OBVIOUS

\* Taking the head off a queue moves every other message one place forward.
LEMMA TailShifts ==
    ASSUME NEW q \in Seq(Notification), Len(q) > 0
    PROVE  /\ Tail(q) \in Seq(Notification)
           /\ Len(Tail(q)) = Len(q) - 1
           /\ Head(q) = q[1] /\ 1 \in DOMAIN q /\ Head(q) \in Notification
           /\ \A i \in DOMAIN Tail(q) : i + 1 \in DOMAIN q /\ Tail(q)[i] = q[i + 1]
           /\ \A i \in DOMAIN q : i # 1 => i - 1 \in DOMAIN Tail(q) /\ Tail(q)[i - 1] = q[i]
  OBVIOUS

\* Cutting a queue after n messages keeps the first n.
LEMMA CutKeeps ==
    ASSUME NEW q \in Seq(Notification), NEW n \in 0 .. Len(q)
    PROVE  /\ SubSeq(q, 1, n) \in Seq(Notification)
           /\ Len(SubSeq(q, 1, n)) = n
           /\ \A i \in DOMAIN SubSeq(q, 1, n) : i \in DOMAIN q /\ SubSeq(q, 1, n)[i] = q[i]
           /\ \A i \in DOMAIN q : i <= n => i \in DOMAIN SubSeq(q, 1, n)
  OBVIOUS

\* Every message of the queue is a notification of some version.
LEMMA QueueTypes ==
    ASSUME TypeOK
    PROVE  \A i \in DOMAIN queue :
              queue[i] \in Notification /\ queue[i].version \in Version /\ queue[i].version \in Nat
<1>1. \A i \in DOMAIN queue : queue[i] \in Notification
  BY DEF TypeOK
<1>2. \A n \in Notification : n.version \in Version
  BY DEF Notification
<1> QED BY <1>1, <1>2, ReloadAssumption DEF Version

\* What is queued, and what a cut loses, are versions.
LEMMA QueuedVersions == Queued \subseteq Version /\ \A n : QueuedAfter(n) \subseteq Version
  BY DEF Queued, QueuedAfter

\* A reload NOTIFY appended to the queue is the only version added.
LEMMA QueuedAppendReload ==
    ASSUME TypeOK, NEW v \in Version, queue' = Append(queue, Reload(v))
    PROVE  Queued' = Queued \cup {v}
<1>1. Reload(v) \in Notification /\ \A w \in Version : Reload(w) = Reload(v) => w = v
  BY Messages
<1>2. Queued' \subseteq Queued \cup {v}
  BY <1>1, AppendKeeps DEF TypeOK, Queued
<1>3. Queued \cup {v} \subseteq Queued'
  BY <1>1, AppendKeeps DEF TypeOK, Queued
<1> QED BY <1>2, <1>3

\* A livereload NOTIFY appended to the queue leaves the versions as they are.
LEMMA QueuedAppendLivereload ==
    ASSUME TypeOK, NEW v \in Version, queue' = Append(queue, Livereload(v))
    PROVE  Queued' = Queued
<1>1. Livereload(v) \in Notification /\ \A w \in Version : Reload(w) # Livereload(v)
  BY Messages
<1>2. Queued' \subseteq Queued
  BY <1>1, AppendKeeps DEF TypeOK, Queued
<1>3. Queued \subseteq Queued'
  BY <1>1, AppendKeeps DEF TypeOK, Queued
<1> QED BY <1>2, <1>3

\* Only the version at the head of the queue can leave with it.
LEMMA QueuedTail ==
    ASSUME TypeOK, Len(queue) > 0, queue' = Tail(queue)
    PROVE  /\ Queued' \subseteq Queued
           /\ \A v \in Queued : v \in Queued' \/ Head(queue) = Reload(v)
<1>1. Queued' \subseteq Queued
  BY TailShifts DEF TypeOK, Queued
<1>2. ASSUME NEW v \in Queued, Head(queue) # Reload(v)
      PROVE  v \in Queued'
  <2>1. PICK i \in DOMAIN queue : queue[i] = Reload(v)
    BY DEF Queued
  <2>2. i # 1
    BY <1>2, <2>1, TailShifts DEF TypeOK
  <2>3. v \in Version /\ i - 1 \in DOMAIN queue' /\ queue'[i - 1] = Reload(v)
    BY <2>1, <2>2, TailShifts DEF TypeOK, Queued
  <2> QED BY <2>3 DEF Queued
<1> QED BY <1>1, <1>2

\* Cutting the queue after n messages loses what QueuedAfter(n) names.
LEMMA QueuedCut ==
    ASSUME TypeOK, queue' = SubSeq(queue, 1, recvd)
    PROVE  Queued' \subseteq Queued /\ Queued \subseteq Queued' \cup QueuedAfter(recvd)
<1>1. Queued' \subseteq Queued
  BY CutKeeps DEF TypeOK, Queued
<1>2. ASSUME NEW v \in Queued, v \notin QueuedAfter(recvd)
      PROVE  v \in Queued'
  <2>1. PICK i \in DOMAIN queue : queue[i] = Reload(v)
    BY DEF Queued
  <2>2. i <= recvd
    BY <1>2, <2>1 DEF TypeOK, Queued, QueuedAfter
  <2>3. v \in Version /\ i \in DOMAIN queue' /\ queue'[i] = Reload(v)
    BY <2>1, <2>2, CutKeeps DEF TypeOK, Queued
  <2> QED BY <2>3 DEF Queued
<1> QED BY <1>1, <1>2

-----------------------------------------------------------------------------
(* Type correctness.                                                       *)

\* What a build can store is a snapshot.
LEMMA BuildsAreSnapshots ==
    ASSUME NEW low \in Version, db \in Version
    PROVE  Builds(low) \subseteq Snapshot /\ NoSnapshot \notin Builds(low)
  BY ReloadAssumption DEF Builds, Snapshot, Version

\* Every action of the specification keeps the types.
LEMMA TypeStep == TypeOK /\ [Next]_vars => TypeOK'
<1> SUFFICES ASSUME TypeOK, [Next]_vars PROVE TypeOK'
  OBVIOUS
<1> USE ReloadAssumption
<1>v. db \in Nat /\ db <= MaxPush /\ db + 1 \in Nat
  BY DEF TypeOK, Version
<1>0. Idle \in RequestState
  BY DEF Idle, RequestState, Version
<1>1. ASSUME NEW byDev \in BOOLEAN, Push(byDev) PROVE TypeOK'
  <2>1. db + 1 \in Version
    BY <1>1 DEF Push, TypeOK, Version
  <2>2. Reload(db + 1) \in Notification
    BY <2>1, Messages
  <2>3. queue' \in Seq(Notification) /\ recvd' \in 0 .. Len(queue')
    <3>1. queue \in Seq(Notification) /\ Len(queue) \in Nat /\ recvd \in 0 .. Len(queue)
      BY DEF TypeOK
    <3>2. queue' \in {queue, Append(queue, Reload(db + 1))} /\ recvd' = recvd
      BY <1>1 DEF Push
    <3> QED BY <2>2, <3>1, <3>2, AppendKeeps
  <2>4. owes' \subseteq Version /\ lost' \subseteq Version
    BY <1>1, <2>1 DEF Push, TypeOK
  <2> QED BY <1>1, <2>1, <2>3, <2>4 DEF Push, TypeOK
<1>2. ASSUME NEW v \in Version, DevNotify(v) \/ DevNotifyFails(v) PROVE TypeOK'
  <2>1. Livereload(v) \in Notification
    BY Messages
  <2>2. queue' \in Seq(Notification) /\ recvd' \in 0 .. Len(queue')
    BY <1>2, <2>1, AppendKeeps DEF DevNotify, DevNotifyFails, TypeOK, channelVars
  <2> QED BY <1>2, <2>2 DEF DevNotify, DevNotifyFails, TypeOK, channelVars
<1>3. CASE Connect \/ ListenNext \/ ListenActive \/ Ended
  BY <1>3 DEF Connect, ListenNext, ListenActive, Ended, TypeOK, dbVars
<1>4. CASE ListenFails
  BY <1>4, QueuedVersions DEF ListenFails, TypeOK, dbVars
<1>5. CASE ConnectionLost
  <2>1. /\ queue' \in Seq(Notification)
        /\ recvd' \in 0 .. Len(queue')
    BY <1>5, CutKeeps DEF ConnectionLost, TypeOK
  <2> QED BY <1>5, <2>1, QueuedVersions DEF ConnectionLost, TypeOK, dbVars
<1>6. CASE Drive
  BY <1>6 DEF Drive, TypeOK, dbVars
<1>7. CASE Pump
  <2>1. Len(queue) > 0 /\ Head(queue) \in Notification
    BY <1>7, TailShifts DEF Pump, TypeOK
  <2>2. queue' \in Seq(Notification) /\ recvd' \in 0 .. Len(queue')
    BY <1>7, <2>1, TailShifts DEF Pump, TypeOK
  <2>3. published' \subseteq Version /\ cache' \in Snapshot \cup {NoSnapshot}
    BY <1>7, <2>1 DEF Pump, Forward, TypeOK, Notification
  <2> QED BY <1>7, <2>2, <2>3 DEF Pump, TypeOK, dbVars
<1>8. CASE Begin
  <2>1. req' \in RequestState
    BY <1>0, <1>8 DEF Begin, RequestState, TypeOK
  <2> QED BY <1>8, <2>1 DEF Begin, TypeOK, dbVars, channelVars
<1>9. CASE Warm
  <2>1. req.begun \in Version /\ req' \in RequestState
    BY <1>9 DEF Warm, RequestState, TypeOK
  <2> QED BY <1>9, <2>1, BuildsAreSnapshots DEF Warm, GetSnapshot, TypeOK, dbVars, channelVars
<1>10. CASE CallHandler
  BY <1>10 DEF CallHandler, RequestState, Snapshot, TypeOK, dbVars, channelVars
<1>11. CASE Render
  <2>1. PICK t \in {cache.templates} \cup (req.begun .. db) :
           req' = [req EXCEPT !.pc = "rendered", !.template = t]
    BY <1>11 DEF Render
  <2>2. req.begun \in Nat /\ cache.templates \in Version
    BY <1>11 DEF Render, TypeOK, RequestState, Snapshot, Version
  <2>3. t \in Version
    BY <1>v, <2>1, <2>2 DEF Version
  <2>4. req' \in RequestState
    BY <2>1, <2>3 DEF TypeOK, RequestState
  <2> QED BY <1>11, <2>4 DEF Render, TypeOK, dbVars, channelVars
<1>12. CASE EndTransaction
  <2>1. req' \in RequestState
    BY <1>0, <1>12 DEF EndTransaction, RequestState
  <2> QED BY <1>12, <2>1 DEF EndTransaction, TypeOK, dbVars, channelVars
<1>13. CASE Respond
  BY <1>0, <1>13, BuildsAreSnapshots DEF Respond, GetSnapshot, TypeOK, dbVars, channelVars
<1>14. CASE SseConnect
  BY <1>14, BuildsAreSnapshots DEF SseConnect, GetSnapshot, TypeOK, dbVars, channelVars
<1>15. CASE Restart
  <2>1. queue' \in Seq(Notification) /\ recvd' \in 0 .. Len(queue')
    BY <1>15 DEF Restart
  <2>2. losses' \in 0 .. MaxLoss /\ lost' \subseteq Version
    BY <1>15, QueuedVersions DEF Restart, TypeOK
  <2> QED BY <1>0, <1>15, <2>1, <2>2 DEF Restart, TypeOK, dbVars
<1>16. CASE UNCHANGED vars
  BY <1>16 DEF vars, dbVars, channelVars, TypeOK
<1> QED
  BY <1>1, <1>2, <1>3, <1>4, <1>5, <1>6, <1>7, <1>8, <1>9, <1>10, <1>11, <1>12, <1>13,
     <1>14, <1>15, <1>16 DEF Next, Cli, ListenLoop, Request

\* ReloadCache keeps its types whatever the number of pushes and failures.
THEOREM TypeCorrect == Spec => []TypeOK
<1>1. Init => TypeOK
  BY ReloadAssumption DEF Init, TypeOK, Idle, RequestState, Version
<1>2. QED BY <1>1, TypeStep, PTL DEF Spec

-----------------------------------------------------------------------------
(* The parts of the inductive invariant, one lemma each.  In every lemma   *)
(* the actions that touch neither side of the part are one case.           *)

\* The steps that leave the database and the queue alone.
QuietStep ==
    \/ Connect \/ ListenNext \/ ListenActive \/ Drive \/ Ended
    \/ Begin \/ Warm \/ CallHandler \/ Render \/ EndTransaction \/ Respond
    \/ SseConnect \/ UNCHANGED vars

\* Next, as a choice between those steps and the others.
LEMMA NextCases ==
    ASSUME [Next]_vars
    PROVE  \/ QuietStep
           \/ \E byDev \in BOOLEAN : Push(byDev)
           \/ \E v \in Version : DevNotify(v) \/ DevNotifyFails(v)
           \/ ListenFails \/ ConnectionLost \/ Pump \/ Restart
  BY DEF Next, Cli, ListenLoop, Request, QuietStep

\* A quiet step leaves the database, the queue and the histories alone.
LEMMA QuietFrame ==
    ASSUME QuietStep
    PROVE  UNCHANGED <<db, queue, published, lost>> /\ Queued' = Queued /\ owes' = owes
<1>1. UNCHANGED <<db, queue, published, lost, owes>>
  BY DEF QuietStep, Connect, ListenNext, ListenActive, Drive, Ended, Begin, Warm,
         CallHandler, Render, EndTransaction, Respond, SseConnect, vars, dbVars, channelVars
<1> QED BY <1>1 DEF Queued

\* No step takes a version ahead of the database.
LEMMA NoneAheadStep == TypeOK /\ NoneAhead /\ [Next]_vars => NoneAhead'
<1> SUFFICES ASSUME TypeOK, NoneAhead, [Next]_vars PROVE NoneAhead'
  OBVIOUS
<1>0. db \in Nat /\ 0 <= db /\ Idle.begun = 0 /\ req.begun \in Nat
  BY DEF TypeOK, Version, Idle, RequestState
<1>1. CASE QuietStep
  <2>1. CASE Begin
    BY <1>1, <2>1, <1>0, QuietFrame DEF Begin, Idle, NoneAhead
  <2>2. CASE EndTransaction \/ Respond
    BY <1>1, <2>2, <1>0, QuietFrame DEF EndTransaction, Respond, Idle, NoneAhead
  <2>3. CASE Warm \/ CallHandler \/ Render
    <3>1. req'.begun = req.begun
      BY <2>3 DEF Warm, CallHandler, Render, TypeOK, RequestState
    <3> QED BY <1>1, <3>1, QuietFrame DEF NoneAhead
  <2>4. CASE \/ Connect \/ ListenNext \/ ListenActive \/ Drive \/ Ended
             \/ SseConnect \/ UNCHANGED vars
    <3>1. req' = req
      BY <2>4 DEF Connect, ListenNext, ListenActive, Drive, Ended, SseConnect, vars
    <3> QED BY <1>1, <3>1, QuietFrame DEF NoneAhead
  <2> QED BY <1>1, <2>1, <2>2, <2>3, <2>4 DEF QuietStep
<1>2. ASSUME NEW byDev \in BOOLEAN, Push(byDev) PROVE NoneAhead'
  <2>1. db + 1 \in Version
    BY <1>0, <1>2, ReloadAssumption DEF Push, Version
  <2>2. Reload(db + 1) \in Notification /\ Reload(db + 1).version = db + 1
    BY <2>1, Messages
  <2>3. ASSUME NEW i \in DOMAIN queue' PROVE queue'[i].version <= db + 1
    <3>1. CASE i \in DOMAIN queue /\ queue'[i] = queue[i]
      BY <1>0, <3>1, QueueTypes DEF NoneAhead
    <3>2. CASE queue'[i] = Reload(db + 1)
      BY <1>0, <2>2, <3>2
    <3> QED BY <1>2, <2>2, <2>3, <3>1, <3>2, AppendKeeps DEF Push, TypeOK
  <2>4. db' = db + 1 /\ req' = req /\ published' = published
    BY <1>2 DEF Push
  <2>5. 0 .. db \subseteq 0 .. (db + 1) /\ db + 1 \in 0 .. (db + 1)
    BY <1>0
  <2>6. owes' \subseteq 0 .. db'
    BY <1>2, <2>4, <2>5 DEF Push, NoneAhead
  <2> QED BY <1>0, <2>3, <2>4, <2>5, <2>6 DEF NoneAhead
<1>3. ASSUME NEW v \in Version, DevNotify(v) \/ DevNotifyFails(v) PROVE NoneAhead'
  <2>1. Livereload(v) \in Notification /\ Livereload(v).version = v
    BY Messages
  <2>2. v <= db
    <3>1. v \in owes /\ owes \subseteq 0 .. db
      BY <1>3 DEF DevNotify, DevNotifyFails, NoneAhead
    <3> QED BY <1>0, <3>1
  <2>3. ASSUME NEW i \in DOMAIN queue' PROVE queue'[i].version <= db
    <3>1. CASE i \in DOMAIN queue /\ queue'[i] = queue[i]
      BY <3>1 DEF NoneAhead
    <3>2. CASE queue'[i] = Livereload(v)
      BY <2>1, <2>2, <3>2
    <3> QED BY <1>3, <2>1, <2>3, <3>1, <3>2, AppendKeeps
            DEF DevNotify, DevNotifyFails, TypeOK, channelVars
  <2> QED BY <1>3, <2>3 DEF DevNotify, DevNotifyFails, NoneAhead, channelVars
<1>4. CASE ListenFails
  BY <1>4 DEF ListenFails, NoneAhead, dbVars
<1>5. CASE ConnectionLost
  BY <1>5, CutKeeps DEF ConnectionLost, NoneAhead, TypeOK, dbVars
<1>6. CASE Pump
  <2>1. Len(queue) > 0
    BY <1>6 DEF Pump, TypeOK
  <2>2. Head(queue).version \in 0 .. db
    <3>1. Head(queue) \in Notification /\ Head(queue).version <= db
      BY <2>1, TailShifts DEF TypeOK, NoneAhead
    <3>2. Head(queue).version \in Nat
      BY <3>1, ReloadAssumption DEF Notification, Version
    <3> QED BY <1>0, <3>1, <3>2
  <2> QED BY <1>6, <2>1, <2>2, TailShifts DEF Pump, Forward, NoneAhead, TypeOK, dbVars
<1>7. CASE Restart
  BY <1>0, <1>7 DEF Restart, NoneAhead, dbVars
<1> QED BY <1>1, <1>2, <1>3, <1>4, <1>5, <1>6, <1>7, NextCases

\* The snapshot is there from the warm-up to the response.
LEMMA WarmHasSnapshotStep ==
    TypeOK /\ WarmHasSnapshot /\ [Next]_vars => WarmHasSnapshot'
<1> SUFFICES ASSUME TypeOK, WarmHasSnapshot, [Next]_vars PROVE WarmHasSnapshot'
  OBVIOUS
<1>1. CASE Warm
  <2>1. req.begun \in Version /\ db \in Version
    BY DEF TypeOK, RequestState
  <2> QED BY <1>1, <2>1, BuildsAreSnapshots DEF Warm, GetSnapshot, WarmHasSnapshot
<1>2. CASE Begin \/ Respond \/ Restart
  <2>1. Begin => req'.pc = "begun"
    BY DEF Begin, Idle
  <2>2. Respond \/ Restart => req'.pc = "idle"
    BY DEF Respond, Restart, Idle
  <2> QED BY <1>2, <2>1, <2>2 DEF WarmHasSnapshot
<1>3. CASE CallHandler \/ Render \/ EndTransaction
  <2>1. cache' = cache /\ cache # NoSnapshot
    BY <1>3 DEF CallHandler, Render, EndTransaction, WarmHasSnapshot
  <2> QED BY <2>1 DEF WarmHasSnapshot
<1>4. CASE Pump \/ SseConnect
  <2>1. req' = req /\ req.pc = "idle"
    BY <1>4 DEF Pump, SseConnect, TasksRun, ThreadIdle
  <2> QED BY <2>1 DEF WarmHasSnapshot
<1>5. CASE \/ Connect \/ ListenNext \/ ListenActive \/ Drive \/ Ended \/ UNCHANGED vars
           \/ ListenFails \/ ConnectionLost
           \/ \E byDev \in BOOLEAN : Push(byDev)
           \/ \E v \in Version : DevNotify(v) \/ DevNotifyFails(v)
  <2>1. req' = req /\ cache' = cache
    BY <1>5 DEF Connect, ListenNext, ListenActive, Drive, Ended, vars, ListenFails,
                ConnectionLost, Push, DevNotify, DevNotifyFails
  <2> QED BY <2>1 DEF WarmHasSnapshot
<1> QED BY <1>1, <1>2, <1>3, <1>4, <1>5, NextCases DEF QuietStep

\* A step that keeps the queued and the lost versions, bar those of a push
\* that commits in it, keeps what is owed to an open transaction.
LEMMA OpenTxOwedStep ==
    TypeOK /\ NoneAhead /\ OpenTxOwed /\ [Next]_vars => OpenTxOwed'
<1> SUFFICES ASSUME TypeOK, NoneAhead, OpenTxOwed, [Next]_vars PROVE OpenTxOwed'
  OBVIOUS
<1>0. db \in Nat /\ req.begun \in Nat
  BY ReloadAssumption DEF TypeOK, Version, RequestState
<1>1. CASE Begin
  <2>1. req'.begun = db /\ db' = db
    BY <1>1 DEF Begin, Idle, dbVars
  <2> QED BY <1>0, <2>1 DEF OpenTxOwed
<1>2. CASE EndTransaction \/ Respond \/ Restart
  <2>1. req'.pc \in {"posttx", "idle"}
    BY <1>2 DEF EndTransaction, Respond, Restart, Idle
  <2> QED BY <2>1 DEF OpenTxOwed, InTransaction
<1>3. CASE Warm \/ CallHandler \/ Render
  <2>1. req'.begun = req.begun /\ InTransaction
    BY <1>3 DEF Warm, CallHandler, Render, TypeOK, RequestState, InTransaction
  <2>2. db' = db /\ Queued' = Queued /\ lost' = lost
    BY <1>3, QuietFrame DEF QuietStep
  <2> QED BY <2>1, <2>2 DEF OpenTxOwed
<1>4. CASE Pump
  <2>1. req' = req /\ ~InTransaction
    BY <1>4 DEF Pump, TasksRun, ThreadIdle, InTransaction
  <2> QED BY <2>1 DEF OpenTxOwed, InTransaction
<1>5. CASE \/ Connect \/ ListenNext \/ ListenActive \/ Drive \/ Ended \/ SseConnect
           \/ UNCHANGED vars
  <2>1. req' = req
    BY <1>5 DEF Connect, ListenNext, ListenActive, Drive, Ended, SseConnect, vars
  <2>2. db' = db /\ Queued' = Queued /\ lost' = lost
    BY <1>5, QuietFrame DEF QuietStep
  <2> QED BY <2>1, <2>2 DEF OpenTxOwed, InTransaction
<1>6. ASSUME NEW byDev \in BOOLEAN, Push(byDev) PROVE OpenTxOwed'
  <2>1. db + 1 \in Version
    BY <1>0, <1>6, ReloadAssumption DEF Push, Version
  <2>2. \/ Queued' = Queued \cup {db + 1} /\ lost' = lost
        \/ Queued' = Queued /\ lost' = lost \cup {db + 1}
    BY <1>6, <2>1, QueuedAppendReload DEF Push, Queued
  <2>3. req' = req /\ db' = db + 1
    BY <1>6 DEF Push
  <2>4. \A v \in (req.begun + 1) .. (db + 1) : v = db + 1 \/ v \in (req.begun + 1) .. db
    BY <1>0
  <2> QED BY <2>2, <2>3, <2>4 DEF OpenTxOwed, InTransaction
<1>7. ASSUME NEW v \in Version, DevNotify(v) \/ DevNotifyFails(v) PROVE OpenTxOwed'
  <2>1. Queued' = Queued
    BY <1>7, QueuedAppendLivereload DEF DevNotify, DevNotifyFails, Queued, channelVars
  <2>2. req' = req /\ db' = db /\ lost' = lost
    BY <1>7 DEF DevNotify, DevNotifyFails, channelVars
  <2> QED BY <2>1, <2>2 DEF OpenTxOwed, InTransaction
<1>8. CASE ListenFails \/ ConnectionLost
  <2>1. Queued \cup lost \subseteq Queued' \cup lost'
    BY <1>8, QueuedCut DEF ListenFails, ConnectionLost
  <2>2. req' = req /\ db' = db
    BY <1>8 DEF ListenFails, ConnectionLost, dbVars
  <2> QED BY <2>1, <2>2 DEF OpenTxOwed, InTransaction
<1> QED BY <1>1, <1>2, <1>3, <1>4, <1>5, <1>6, <1>7, <1>8, NextCases DEF QuietStep

\* The heart of the argument.  A build inside a transaction reads every part
\* at or after the version the transaction began at, and every push since then
\* is still owed; nothing but the pump takes a version out of the queue, and
\* the pump drops the snapshot with it.
LEMMA StaleIsOwedStep ==
    TypeOK /\ NoneAhead /\ OpenTxOwed /\ StaleIsOwed /\ [Next]_vars => StaleIsOwed'
<1> SUFFICES ASSUME TypeOK, NoneAhead, OpenTxOwed, StaleIsOwed, [Next]_vars
             PROVE  StaleIsOwed'
  OBVIOUS
<1>0. db \in Nat /\ db \in Version /\ req.begun \in Nat /\ req.begun \in Version
  BY ReloadAssumption DEF TypeOK, Version, RequestState
<1>f. \A low \in Nat : \A s \in Builds(low) : \A v \in 1 .. low : Fresh(s, v)
  BY <1>0 DEF Builds, Fresh
<1>1. CASE Warm
  <2>1. db' = db /\ Queued' = Queued /\ lost' = lost
    BY <1>1, QuietFrame DEF QuietStep
  <2>2. CASE cache' = cache
    BY <2>1, <2>2 DEF StaleIsOwed, Fresh
  <2>3. CASE cache' \in Builds(req.begun)
    <3>1. \A v \in 1 .. req.begun : Fresh(cache', v)
      BY <1>0, <1>f, <2>3
    <3>2. \A v \in (req.begun + 1) .. db : v \in Queued \cup lost
      BY <1>1 DEF Warm, InTransaction, OpenTxOwed
    <3>3. \A v \in 1 .. db : v \in 1 .. req.begun \/ v \in (req.begun + 1) .. db
      BY <1>0
    <3> QED BY <2>1, <3>1, <3>2, <3>3 DEF StaleIsOwed, Fresh
  <2> QED BY <1>1, <2>2, <2>3 DEF Warm, GetSnapshot
<1>2. CASE Respond \/ SseConnect
  <2>1. db' = db /\ Queued' = Queued /\ lost' = lost
    BY <1>2, QuietFrame DEF QuietStep
  <2>2. CASE cache' = cache
    BY <2>1, <2>2 DEF StaleIsOwed, Fresh
  <2>3. CASE cache' \in Builds(db)
    <3>1. \A v \in 1 .. db : Fresh(cache', v)
      BY <1>0, <1>f, <2>3
    <3> QED BY <2>1, <3>1 DEF StaleIsOwed, Fresh
  <2> QED BY <1>2, <2>2, <2>3 DEF Respond, SseConnect, GetSnapshot
<1>3. CASE \/ Connect \/ ListenNext \/ ListenActive \/ Drive \/ Ended
           \/ Begin \/ CallHandler \/ Render \/ EndTransaction \/ UNCHANGED vars
  <2>1. db' = db /\ Queued' = Queued /\ lost' = lost
    BY <1>3, QuietFrame DEF QuietStep
  <2>2. cache' = cache
    BY <1>3 DEF Connect, ListenNext, ListenActive, Drive, Ended, Begin, CallHandler,
                Render, EndTransaction, vars
  <2> QED BY <2>1, <2>2 DEF StaleIsOwed, Fresh
<1>4. ASSUME NEW byDev \in BOOLEAN, Push(byDev) PROVE StaleIsOwed'
  <2>1. db + 1 \in Version
    BY <1>0, <1>4, ReloadAssumption DEF Push, Version
  <2>2. \/ Queued' = Queued \cup {db + 1} /\ lost' = lost
        \/ Queued' = Queued /\ lost' = lost \cup {db + 1}
    BY <1>4, <2>1, QueuedAppendReload DEF Push, Queued
  <2>3. cache' = cache /\ db' = db + 1
    BY <1>4 DEF Push
  <2>4. \A v \in 1 .. (db + 1) : v = db + 1 \/ v \in 1 .. db
    BY <1>0
  <2> QED BY <2>2, <2>3, <2>4 DEF StaleIsOwed, Fresh
<1>5. ASSUME NEW v \in Version, DevNotify(v) \/ DevNotifyFails(v) PROVE StaleIsOwed'
  <2>1. Queued' = Queued
    BY <1>5, QueuedAppendLivereload DEF DevNotify, DevNotifyFails, Queued, channelVars
  <2>2. cache' = cache /\ db' = db /\ lost' = lost
    BY <1>5 DEF DevNotify, DevNotifyFails, channelVars
  <2> QED BY <2>1, <2>2 DEF StaleIsOwed, Fresh
<1>6. CASE ListenFails \/ ConnectionLost
  <2>1. Queued \cup lost \subseteq Queued' \cup lost'
    BY <1>6, QueuedCut DEF ListenFails, ConnectionLost
  <2>2. cache' = cache /\ db' = db
    BY <1>6 DEF ListenFails, ConnectionLost, dbVars
  <2> QED BY <2>1, <2>2 DEF StaleIsOwed, Fresh
<1>7. CASE Pump
  <2>1. Len(queue) > 0 /\ queue' = Tail(queue) /\ db' = db /\ lost' = lost
    BY <1>7 DEF Pump, TypeOK, dbVars
  <2>2. CASE Head(queue).channel = "pgweb_reload"
    <3>1. cache' = NoSnapshot
      BY <1>7, <2>2 DEF Pump, Forward
    <3> QED BY <3>1 DEF StaleIsOwed
  <2>3. CASE Head(queue).channel # "pgweb_reload"
    <3>1. cache' = cache
      BY <1>7, <2>3 DEF Pump, Forward
    <3>2. \A v \in Queued : v \in Queued'
      BY <2>1, <2>3, QueuedTail DEF Reload
    <3> QED BY <2>1, <3>1, <3>2 DEF StaleIsOwed, Fresh
  <2> QED BY <2>2, <2>3
<1>8. CASE Restart
  BY <1>8 DEF Restart, StaleIsOwed
<1> QED BY <1>1, <1>2, <1>3, <1>4, <1>5, <1>6, <1>7, <1>8, NextCases DEF QuietStep

\* The route and the cached template are as recent as the snapshot, whose missing
\* pushes are owed; the handler, and a template read from the database, are as
\* recent as the transaction.  No notification is handled before the page is out.
LEMMA ChosenOwedStep ==
    TypeOK /\ NoneAhead /\ OpenTxOwed /\ StaleIsOwed /\ ChosenOwed /\ [Next]_vars => ChosenOwed'
<1> SUFFICES ASSUME TypeOK, NoneAhead, OpenTxOwed, StaleIsOwed, ChosenOwed, [Next]_vars
             PROVE  ChosenOwed'
  OBVIOUS
<1>0. db \in Nat /\ req.begun \in Nat /\ req \in RequestState
  BY ReloadAssumption DEF TypeOK, Version, RequestState
<1>1. CASE CallHandler
  <2>1. db' = db /\ Queued' = Queued /\ lost' = lost
    BY <1>1, QuietFrame DEF QuietStep
  <2>2. req'.pc = "called" /\ req'.routes = cache.routes /\ req'.handler = db
    BY <1>0, <1>1 DEF CallHandler, RequestState
  <2>3. \A v \in 1 .. db : cache.routes < v => v \in Queued \cup lost
    <3>1. \A v \in 1 .. db : cache.routes < v => ~Fresh(cache, v)
      BY <1>0, <1>1, ReloadAssumption DEF CallHandler, TypeOK, Snapshot, Version, Fresh
    <3> QED BY <1>1, <3>1 DEF CallHandler, StaleIsOwed
  <2> QED BY <1>0, <2>1, <2>2, <2>3 DEF ChosenOwed
<1>2. CASE Render
  <2>1. db' = db /\ Queued' = Queued /\ lost' = lost
    BY <1>2, QuietFrame DEF QuietStep
  <2>2. PICK t \in {cache.templates} \cup (req.begun .. db) :
           req' = [req EXCEPT !.pc = "rendered", !.template = t]
    BY <1>2 DEF Render
  <2>3. /\ req'.pc = "rendered" /\ req'.template = t
        /\ req'.routes = req.routes /\ req'.handler = req.handler
    BY <1>0, <2>2 DEF RequestState
  <2>4. \A v \in 1 .. db : t < v => v \in Queued \cup lost
    <3>1. CASE t = cache.templates
      <4>1. \A v \in 1 .. db : t < v => ~Fresh(cache, v)
        BY <1>0, <1>2, <3>1, ReloadAssumption DEF Render, TypeOK, Snapshot, Version, Fresh
      <4> QED BY <1>2, <4>1 DEF Render, StaleIsOwed
    <3>2. CASE t \in req.begun .. db
      <4>1. \A v \in 1 .. db : t < v => v \in (req.begun + 1) .. db
        BY <1>0, <3>2
      <4> QED BY <1>2, <4>1 DEF Render, OpenTxOwed, InTransaction
    <3> QED BY <3>1, <3>2
  <2>5. \A v \in 1 .. db : (req.routes < v \/ req.handler < v) => v \in Queued \cup lost
    BY <1>2 DEF Render, ChosenOwed
  <2> QED BY <2>1, <2>3, <2>4, <2>5 DEF ChosenOwed
<1>3. CASE Begin \/ Warm \/ EndTransaction \/ Respond \/ Restart
  <2>1. CASE Warm
    BY <1>0, <2>1 DEF Warm, RequestState, ChosenOwed
  <2>2. CASE Begin
    BY <2>2 DEF Begin, Idle, ChosenOwed
  <2>3. CASE EndTransaction \/ Respond \/ Restart
    BY <2>3 DEF EndTransaction, Respond, Restart, Idle, ChosenOwed
  <2> QED BY <1>3, <2>1, <2>2, <2>3
<1>4. CASE Pump
  <2>1. req' = req /\ req.pc = "idle"
    BY <1>4 DEF Pump, TasksRun, ThreadIdle
  <2> QED BY <2>1 DEF ChosenOwed
<1>5. CASE \/ Connect \/ ListenNext \/ ListenActive \/ Drive \/ Ended \/ SseConnect
           \/ UNCHANGED vars
  <2>1. req' = req
    BY <1>5 DEF Connect, ListenNext, ListenActive, Drive, Ended, SseConnect, vars
  <2>2. db' = db /\ Queued' = Queued /\ lost' = lost
    BY <1>5, QuietFrame DEF QuietStep
  <2> QED BY <2>1, <2>2 DEF ChosenOwed
<1>6. ASSUME NEW byDev \in BOOLEAN, Push(byDev) PROVE ChosenOwed'
  <2>1. db + 1 \in Version
    BY <1>0, <1>6, ReloadAssumption DEF Push, Version
  <2>2. \/ Queued' = Queued \cup {db + 1} /\ lost' = lost
        \/ Queued' = Queued /\ lost' = lost \cup {db + 1}
    BY <1>6, <2>1, QueuedAppendReload DEF Push, Queued
  <2>3. req' = req /\ db' = db + 1
    BY <1>6 DEF Push
  <2>4. \A v \in 1 .. (db + 1) : v = db + 1 \/ v \in 1 .. db
    BY <1>0
  <2> QED BY <2>2, <2>3, <2>4 DEF ChosenOwed
<1>7. ASSUME NEW v \in Version, DevNotify(v) \/ DevNotifyFails(v) PROVE ChosenOwed'
  <2>1. Queued' = Queued
    BY <1>7, QueuedAppendLivereload DEF DevNotify, DevNotifyFails, Queued, channelVars
  <2>2. req' = req /\ db' = db /\ lost' = lost
    BY <1>7 DEF DevNotify, DevNotifyFails, channelVars
  <2> QED BY <2>1, <2>2 DEF ChosenOwed
<1>8. CASE ListenFails \/ ConnectionLost
  <2>1. Queued \cup lost \subseteq Queued' \cup lost'
    BY <1>8, QueuedCut DEF ListenFails, ConnectionLost
  <2>2. req' = req /\ db' = db
    BY <1>8 DEF ListenFails, ConnectionLost, dbVars
  <2> QED BY <2>1, <2>2 DEF ChosenOwed
<1> QED BY <1>1, <1>2, <1>3, <1>4, <1>5, <1>6, <1>7, <1>8, NextCases DEF QuietStep

\* A livereload NOTIFY is sent after the reload NOTIFY of its push committed,
\* and neither appending, pumping nor cutting reorders a queue.
LEMMA ReloadFirstStep ==
    TypeOK /\ NoneAhead /\ ReloadFirst /\ [Next]_vars => ReloadFirst'
<1> SUFFICES ASSUME TypeOK, NoneAhead, ReloadFirst, [Next]_vars PROVE ReloadFirst'
  OBVIOUS
<1>0. db \in Nat
  BY ReloadAssumption DEF TypeOK, Version
<1>1. CASE QuietStep
  BY <1>1, QuietFrame DEF ReloadFirst
<1>2. ASSUME NEW byDev \in BOOLEAN, Push(byDev) PROVE ReloadFirst'
  <2>1. db + 1 \in Version
    BY <1>0, <1>2, ReloadAssumption DEF Push, Version
  <2>2. CASE queue' = queue
    BY <2>2 DEF ReloadFirst
  <2>3. CASE queue' = Append(queue, Reload(db + 1))
    <3>1. SUFFICES ASSUME NEW i \in DOMAIN queue', NEW j \in DOMAIN queue', NEW v \in Version,
                          queue'[i] = Livereload(v), queue'[j] = Reload(v)
                   PROVE  j < i
      BY DEF ReloadFirst
    <3>2. Reload(db + 1) \in Notification
      BY <2>1, Messages
    <3>3. i \in DOMAIN queue /\ queue[i] = Livereload(v)
      BY <2>1, <2>3, <3>1, <3>2, AppendKeeps, Messages DEF TypeOK
    <3>4. v <= db
      BY <3>3, Messages DEF NoneAhead
    <3>5. v # db + 1
      BY <1>0, <3>4, ReloadAssumption DEF Version
    <3>6. j \in DOMAIN queue /\ queue[j] = Reload(v)
      BY <2>1, <2>3, <3>1, <3>2, <3>5, AppendKeeps, Messages DEF TypeOK
    <3> QED BY <3>3, <3>6 DEF ReloadFirst
  <2> QED BY <1>2, <2>2, <2>3 DEF Push
<1>3. ASSUME NEW w \in Version, DevNotify(w) \/ DevNotifyFails(w) PROVE ReloadFirst'
  <2>1. CASE queue' = queue
    BY <2>1 DEF ReloadFirst
  <2>2. CASE queue' = Append(queue, Livereload(w))
    <3>1. SUFFICES ASSUME NEW i \in DOMAIN queue', NEW j \in DOMAIN queue', NEW v \in Version,
                          queue'[i] = Livereload(v), queue'[j] = Reload(v)
                   PROVE  j < i
      BY DEF ReloadFirst
    <3>2. Livereload(w) \in Notification
      BY Messages
    <3>3. j \in DOMAIN queue /\ queue[j] = Reload(v)
      BY <2>2, <3>1, <3>2, AppendKeeps, Messages DEF TypeOK
    <3>4. (i \in DOMAIN queue /\ queue[i] = Livereload(v)) \/ i = Len(queue) + 1
      BY <2>2, <3>1, <3>2, AppendKeeps DEF TypeOK
    <3>5. j < Len(queue) + 1
      BY <3>2, <3>3, AppendKeeps DEF TypeOK
    <3> QED BY <3>3, <3>4, <3>5 DEF ReloadFirst
  <2> QED BY <1>3, <2>1, <2>2 DEF DevNotify, DevNotifyFails, channelVars
<1>4. CASE ListenFails \/ Restart
  BY <1>4 DEF ListenFails, Restart, ReloadFirst
<1>5. CASE ConnectionLost
  BY <1>5, CutKeeps DEF ConnectionLost, TypeOK, ReloadFirst
<1>6. CASE Pump
  <2>1. Len(queue) > 0 /\ queue' = Tail(queue)
    BY <1>6 DEF Pump, TypeOK
  <2>2. SUFFICES ASSUME NEW i \in DOMAIN queue', NEW j \in DOMAIN queue', NEW v \in Version,
                        queue'[i] = Livereload(v), queue'[j] = Reload(v)
                 PROVE  j < i
    BY DEF ReloadFirst
  <2>3. /\ i + 1 \in DOMAIN queue /\ queue[i + 1] = Livereload(v)
        /\ j + 1 \in DOMAIN queue /\ queue[j + 1] = Reload(v)
    BY <2>1, <2>2, TailShifts DEF TypeOK
  <2>4. j + 1 < i + 1
    BY <2>3 DEF ReloadFirst
  <2>5. i \in Int /\ j \in Int
    BY <2>1, <2>2, TailShifts DEF TypeOK
  <2> QED BY <2>4, <2>5
<1> QED BY <1>1, <1>2, <1>3, <1>4, <1>5, <1>6, NextCases

\* A livereload event is published when it is at the head of the queue, and
\* then its reload NOTIFY, which was ahead of it, is gone.
LEMMA PublishedNotQueuedStep ==
    TypeOK /\ NoneAhead /\ ReloadFirst /\ PublishedNotQueued /\ [Next]_vars
      => PublishedNotQueued'
<1> SUFFICES ASSUME TypeOK, NoneAhead, ReloadFirst, PublishedNotQueued, [Next]_vars
             PROVE  PublishedNotQueued'
  OBVIOUS
<1>0. db \in Nat
  BY ReloadAssumption DEF TypeOK, Version
<1>1. CASE QuietStep
  BY <1>1, QuietFrame DEF PublishedNotQueued
<1>2. ASSUME NEW byDev \in BOOLEAN, Push(byDev) PROVE PublishedNotQueued'
  <2>1. db + 1 \in Version
    BY <1>0, <1>2, ReloadAssumption DEF Push, Version
  <2>2. Queued' \subseteq Queued \cup {db + 1} /\ published' = published
    BY <1>2, <2>1, QueuedAppendReload DEF Push, Queued
  <2>3. db + 1 \notin published
    <3>1. db + 1 \notin 0 .. db
      BY <1>0
    <3> QED BY <3>1 DEF NoneAhead
  <2> QED BY <2>2, <2>3 DEF PublishedNotQueued
<1>3. ASSUME NEW v \in Version, DevNotify(v) \/ DevNotifyFails(v) PROVE PublishedNotQueued'
  <2>1. Queued' = Queued
    BY <1>3, QueuedAppendLivereload DEF DevNotify, DevNotifyFails, Queued, channelVars
  <2> QED BY <1>3, <2>1 DEF DevNotify, DevNotifyFails, channelVars, PublishedNotQueued
<1>4. CASE ListenFails \/ Restart
  <2>1. Queued' = {}
    BY <1>4 DEF ListenFails, Restart, Queued
  <2> QED BY <2>1 DEF PublishedNotQueued
<1>5. CASE ConnectionLost
  BY <1>5, QueuedCut DEF ConnectionLost, PublishedNotQueued
<1>6. CASE Pump
  <2>1. Len(queue) > 0 /\ queue' = Tail(queue)
    BY <1>6 DEF Pump, TypeOK
  <2>2. Queued' \subseteq Queued
    BY <2>1, QueuedTail
  <2>3. CASE Head(queue).channel # "pgweb_livereload"
    BY <1>6, <2>2, <2>3 DEF Pump, Forward, PublishedNotQueued
  <2>4. CASE Head(queue).channel = "pgweb_livereload"
    <3> DEFINE v == Head(queue).version
    <3>1. 1 \in DOMAIN queue /\ queue[1] = Head(queue) /\ Head(queue) \in Notification
      BY <2>1, TailShifts DEF TypeOK
    <3>2. v \in Version /\ queue[1] = Livereload(v)
      BY <2>4, <3>1 DEF Notification, Livereload
    <3>3. v \notin Queued'
      <4>1. SUFFICES ASSUME NEW i \in DOMAIN queue', queue'[i] = Reload(v) PROVE FALSE
        BY DEF Queued
      <4>2. i + 1 \in DOMAIN queue /\ queue[i + 1] = Reload(v) /\ i \in Nat
        BY <2>1, <4>1, TailShifts DEF TypeOK
      <4>3. i + 1 < 1
        BY <3>1, <3>2, <4>2 DEF ReloadFirst
      <4> QED BY <4>2, <4>3
    <3>4. published' = published \cup {v}
      BY <1>6, <2>4 DEF Pump, Forward
    <3> QED BY <2>2, <3>3, <3>4 DEF PublishedNotQueued
  <2> QED BY <2>3, <2>4
<1> QED BY <1>1, <1>2, <1>3, <1>4, <1>5, <1>6, NextCases

-----------------------------------------------------------------------------
(* The theorems.                                                           *)

\* IInv is inductive.
LEMMA Inductive == Spec => []IInv
<1>1. Init => IInv
  <2> SUFFICES ASSUME Init PROVE IInv
    OBVIOUS
  <2>1. TypeOK
    BY ReloadAssumption DEF Init, TypeOK, Idle, RequestState, Version
  <2>2. NoneAhead /\ WarmHasSnapshot /\ OpenTxOwed
    BY DEF Init, NoneAhead, WarmHasSnapshot, OpenTxOwed, InTransaction, Idle
  <2>3. StaleIsOwed /\ ChosenOwed /\ ReloadFirst /\ PublishedNotQueued
    BY DEF Init, StaleIsOwed, ChosenOwed, Idle, ReloadFirst, PublishedNotQueued
  <2> QED BY <2>1, <2>2, <2>3 DEF IInv
<1>2. IInv /\ [Next]_vars => IInv'
  BY TypeStep, NoneAheadStep, WarmHasSnapshotStep, OpenTxOwedStep, StaleIsOwedStep,
     ChosenOwedStep, ReloadFirstStep, PublishedNotQueuedStep DEF IInv
<1> QED BY <1>1, <1>2, PTL DEF Spec

\* Whatever pushes, requests, failures and restarts interleave, a snapshot
\* that misses a push has that push's NOTIFY still coming, or the NOTIFY
\* reached no listener (cache.rs, listen_router.rs).
THEOREM StaleSnapshotIsOwed == Spec => []StaleIsOwed
<1>1. IInv => StaleIsOwed
  BY DEF IInv
<1> QED BY <1>1, Inductive, PTL

\* A livereload event never makes a browser fetch a page older than the push
\* it announces, unless the push's reload NOTIFY was lost (dev.rs, push.rs).
THEOREM LivereloadAfterReload == Spec => []ReloadEventSeesPush
<1>1. IInv => ReloadEventSeesPush
  <2> SUFFICES ASSUME IInv, NEW v \in published \ lost, cache # NoSnapshot
               PROVE  Fresh(cache, v)
    BY DEF ReloadEventSeesPush
  <2>1. v \notin Queued /\ v \in 0 .. db /\ db \in Nat
    BY ReloadAssumption DEF IInv, PublishedNotQueued, NoneAhead, TypeOK, Version
  <2>2. CASE v \in 1 .. db
    BY <2>1, <2>2 DEF IInv, StaleIsOwed
  <2>3. CASE v = 0
    BY <2>3, ReloadAssumption DEF IInv, TypeOK, Snapshot, Version, Fresh
  <2> QED BY <2>1, <2>2, <2>3
<1> QED BY <1>1, Inductive, PTL

\* The env that http::handle reads after a request's transaction is always
\* in the snapshot, so that read never builds one (router.rs, http.rs).
THEOREM PostTxNeverBuilds == Spec => []PostTxEnvIsHit
<1>1. IInv => PostTxEnvIsHit
  BY DEF IInv, WarmHasSnapshot, PostTxEnvIsHit
<1> QED BY <1>1, Inductive, PTL

\* A page mixes pushes only while the NOTIFYs of what it misses are on their way
\* or lost (router.rs lookup_route and call_handler, cache.rs render_template).
THEOREM TornPagesAreOwed == Spec => []PageIsOwed
<1>1. IInv => PageIsOwed
  BY DEF IInv, ChosenOwed, PageIsOwed
<1> QED BY <1>1, Inductive, PTL
=============================================================================
