-------------------------- MODULE ReloadHistoryProofs --------------------------
(***************************************************************************)
(* The request-path cache implements the safety part of Served, for every  *)
(* number of pushes and failures: the initial state maps to the initial    *)
(* state, and every step to a step of Served or to none.                   *)
(***************************************************************************)
EXTENDS ReloadHistory, ReloadCacheProofs

\* What a build may read is never from before the last drop: the open
\* transaction, whose first version bounds the build, began after it.
FloorBelow ==
    /\ floor \in 0 .. db
    /\ InTransaction => floor <= req.begun

HInv == IInv /\ FloorBelow

\* A step of the history specification is one of ReloadCache.
LEMMA HistoryStep == [HNext]_historyVars => [Next]_vars
  BY DEF HNext, historyVars

\* The inductive invariant of ReloadCache holds with the history variable too.
LEMMA IInvStep == IInv /\ [Next]_vars => IInv'
  BY TypeStep, NoneAheadStep, WarmHasSnapshotStep, OpenTxOwedStep, StaleIsOwedStep,
     ChosenOwedStep, ReloadFirstStep, PublishedNotQueuedStep DEF IInv

\* The only steps that drop the snapshot leave no transaction open.
LEMMA DropsOutside ==
    ASSUME TypeOK, [Next]_vars, cache # NoSnapshot, cache' = NoSnapshot
    PROVE  (Pump \/ Restart) /\ ~InTransaction' /\ db' = db
<1>0. db \in Version /\ req.begun \in Version
  BY DEF TypeOK, RequestState
<1>1. CASE Warm \/ Respond \/ SseConnect
  BY <1>0, <1>1, BuildsAreSnapshots DEF Warm, Respond, SseConnect, GetSnapshot
<1>2. CASE \/ Connect \/ ListenNext \/ ListenActive \/ Drive \/ Ended \/ UNCHANGED vars
           \/ Begin \/ CallHandler \/ Render \/ EndTransaction \/ ListenFails \/ ConnectionLost
           \/ \E byDev \in BOOLEAN : Push(byDev)
           \/ \E v \in Version : DevNotify(v) \/ DevNotifyFails(v)
  <2>1. cache' = cache
    BY <1>2 DEF Connect, ListenNext, ListenActive, Drive, Ended, vars, Begin, CallHandler, Render,
                EndTransaction, ListenFails, ConnectionLost, Push, DevNotify, DevNotifyFails
  <2> QED BY <2>1
<1>3. CASE Pump
  BY <1>3 DEF Pump, TasksRun, ThreadIdle, InTransaction, dbVars
<1>4. CASE Restart
  BY <1>4 DEF Restart, Idle, InTransaction, dbVars
<1> QED BY <1>1, <1>2, <1>3, <1>4, NextCases DEF QuietStep

\* A drop moves the floor to the last commit, and a transaction that begins
\* later begins there or above.
LEMMA FloorStep == IInv /\ FloorBelow /\ [HNext]_historyVars => FloorBelow'
<1> SUFFICES ASSUME IInv, FloorBelow, [HNext]_historyVars PROVE FloorBelow'
  OBVIOUS
<1>0. TypeOK /\ [Next]_vars /\ db \in Nat /\ req \in RequestState /\ req.begun \in Nat /\ floor \in Nat
  BY HistoryStep, ReloadAssumption DEF IInv, TypeOK, Version, RequestState, FloorBelow
<1>1. CASE cache # NoSnapshot /\ cache' = NoSnapshot
  <2>1. ~InTransaction' /\ db' = db
    BY <1>0, <1>1, DropsOutside
  <2>2. floor' = db
    BY <1>1 DEF HNext, historyVars, vars
  <2> QED BY <1>0, <2>1, <2>2 DEF FloorBelow
<1>2. CASE ~(cache # NoSnapshot /\ cache' = NoSnapshot)
  <2>1. floor' = floor
    BY <1>2 DEF HNext, historyVars
  <2>2. db' \in Nat /\ db <= db'
    BY <1>0, NextCases, QuietFrame DEF Push, DevNotify, DevNotifyFails, ListenFails, ConnectionLost,
       Pump, Restart, dbVars
  <2>3. floor' \in 0 .. db'
    BY <1>0, <2>1, <2>2 DEF FloorBelow
  <2>4. InTransaction' => floor <= req'.begun
    <3>1. CASE Begin
      BY <1>0, <3>1 DEF Begin, Idle, FloorBelow
    <3>2. CASE Warm \/ CallHandler \/ Render
      <4>1. req'.begun = req.begun /\ InTransaction
        BY <1>0, <3>2 DEF Warm, CallHandler, Render, RequestState, InTransaction
      <4> QED BY <4>1 DEF FloorBelow
    <3>3. CASE EndTransaction \/ Respond \/ Restart
      <4>1. ~InTransaction'
        BY <3>3 DEF EndTransaction, Respond, Restart, Idle, InTransaction
      <4> QED BY <4>1
    <3>4. CASE \/ Connect \/ ListenNext \/ ListenActive \/ Drive \/ Ended \/ UNCHANGED vars
               \/ SseConnect \/ ListenFails \/ ConnectionLost \/ Pump
               \/ \E byDev \in BOOLEAN : Push(byDev)
               \/ \E v \in Version : DevNotify(v) \/ DevNotifyFails(v)
      <4>1. req' = req
        BY <3>4 DEF Connect, ListenNext, ListenActive, Drive, Ended, vars, SseConnect, ListenFails,
                    ConnectionLost, Pump, Push, DevNotify, DevNotifyFails
      <4> QED BY <4>1 DEF FloorBelow, InTransaction
    <3> QED BY <1>0, <3>1, <3>2, <3>3, <3>4, NextCases DEF QuietStep
  <2> QED BY <2>1, <2>3, <2>4 DEF FloorBelow
<1> QED BY <1>1, <1>2

\* A build that begins at or above the floor is a view Served may take.
LEMMA BuildIsTake ==
    ASSUME NEW low \in Nat, floor \in Nat, floor <= low, db \in Nat
    PROVE  Builds(low) \subseteq Abstract!Views(floor, db)
  BY DEF Builds, Abstract!Views

\* Queued versions are committed ones.
LEMMA QueuedCommitted ==
    ASSUME TypeOK, NoneAhead
    PROVE  Queued \subseteq 0 .. db /\ QueuedAfter(recvd) \subseteq 0 .. db
<1>1. \A i \in DOMAIN queue : \A v \in Version : queue[i] = Reload(v) => v \in 0 .. db
  BY ReloadAssumption, Messages DEF NoneAhead, TypeOK, Version
<1> QED BY <1>1 DEF Queued, QueuedAfter

\* Every step of the cache is a step of Served, or leaves its variables alone.
LEMMA StepSimulation == HInv /\ [HNext]_historyVars => [Abstract!Next]_(Abstract!vars)
<1> SUFFICES ASSUME HInv, [HNext]_historyVars PROVE [Abstract!Next]_(Abstract!vars)
  OBVIOUS
<1>0. TypeOK /\ NoneAhead /\ FloorBelow /\ [Next]_vars /\ db \in Nat /\ req.begun \in Nat /\ floor \in Nat
      /\ db \in Version /\ req.begun \in Version /\ floor <= db
  BY HistoryStep, ReloadAssumption DEF HInv, IInv, TypeOK, Version, RequestState, FloorBelow
<1>a. ~(cache # NoSnapshot /\ cache' = NoSnapshot) => floor' = floor
  BY DEF HNext, historyVars
<1>1. CASE Warm \/ Respond \/ SseConnect
  <2>1. db' = db /\ lost' = lost
    BY <1>1, QuietFrame DEF QuietStep
  <2>2. CASE cache' = cache
    BY <1>a, <2>1, <2>2 DEF Abstract!vars
  <2>3. CASE cache = NoSnapshot /\ cache' \in Abstract!Views(floor, db)
    BY <1>a, <2>1, <2>3 DEF Abstract!Next, Abstract!Take
  <2>4. Warm => floor <= req.begun
    BY <1>0 DEF Warm, FloorBelow, InTransaction
  <2> QED BY <1>0, <1>1, <2>2, <2>3, <2>4, BuildIsTake DEF Warm, Respond, SseConnect, GetSnapshot
<1>2. CASE \/ Connect \/ ListenNext \/ ListenActive \/ Drive \/ Ended \/ UNCHANGED vars
           \/ Begin \/ CallHandler \/ Render \/ EndTransaction
           \/ \E v \in Version : DevNotify(v) \/ DevNotifyFails(v)
  <2>1. cache' = cache /\ db' = db /\ lost' = lost
    BY <1>2 DEF Connect, ListenNext, ListenActive, Drive, Ended, vars, Begin, CallHandler, Render,
                EndTransaction, DevNotify, DevNotifyFails, dbVars, channelVars
  <2> QED BY <1>a, <2>1 DEF Abstract!vars
<1>3. ASSUME NEW byDev \in BOOLEAN, Push(byDev) PROVE Abstract!Publish
  <2>1. cache' = cache /\ db < MaxPush /\ db' = db + 1 /\ lost' \in {lost, lost \cup {db + 1}}
    BY <1>3 DEF Push
  <2> QED BY <1>a, <2>1 DEF Abstract!Publish
<1>4. CASE ListenFails \/ ConnectionLost
  <2>1. PICK v \in SUBSET (0 .. db) : lost' = lost \cup v
    BY <1>0, <1>4, QueuedCommitted DEF ListenFails, ConnectionLost
  <2>2. cache' = cache /\ db' = db
    BY <1>4 DEF ListenFails, ConnectionLost, dbVars
  <2> QED BY <1>a, <2>1, <2>2 DEF Abstract!Next, Abstract!Miss
<1>5. CASE Pump \/ Restart
  <2>1. PICK v \in SUBSET (0 .. db) : lost' = lost \cup v
    <3>1. CASE Pump
      <4>1. {} \in SUBSET (0 .. db) /\ lost' = lost \cup {}
        BY <3>1 DEF Pump
      <4> QED BY <4>1
    <3>2. CASE Restart
      BY <1>0, <3>2, QueuedCommitted DEF Restart
    <3> QED BY <1>5, <3>1, <3>2
  <2>2. db' = db /\ (cache' = cache \/ cache' = NoSnapshot)
    BY <1>5 DEF Pump, Forward, Restart, dbVars
  <2>3. CASE cache' = cache
    BY <1>a, <2>1, <2>2, <2>3 DEF Abstract!Next, Abstract!Miss
  <2>4. CASE cache' = NoSnapshot /\ cache # NoSnapshot
    <3>1. floor' = db
      BY <2>4 DEF HNext, historyVars, vars
    <3> QED BY <2>1, <2>2, <2>4, <3>1 DEF Abstract!Next, Abstract!GiveUp
  <2> QED BY <2>2, <2>3, <2>4
<1> QED BY <1>0, <1>1, <1>2, <1>3, <1>4, <1>5, NextCases DEF QuietStep, Abstract!Next

\* The cache, its side channel and the request thread implement Served: no
\* snapshot misses what was committed when its predecessor was dropped, none
\* changes in place, and nothing but a push or a missed NOTIFY happens besides
\* (cache.rs, listen_router.rs, router.rs).
THEOREM CacheImplementsServed == HSafeSpec => Abstract!SafeSpec
<1>1. HInit => HInv /\ Abstract!Init
  <2> SUFFICES ASSUME HInit PROVE HInv /\ Abstract!Init
    OBVIOUS
  <2>1. TypeOK
    BY ReloadAssumption DEF HInit, Init, TypeOK, Idle, RequestState, Version
  <2>2. NoneAhead /\ WarmHasSnapshot /\ OpenTxOwed
    BY DEF HInit, Init, NoneAhead, WarmHasSnapshot, OpenTxOwed, InTransaction, Idle
  <2>3. StaleIsOwed /\ ChosenOwed /\ ReloadFirst /\ PublishedNotQueued
    BY DEF HInit, Init, StaleIsOwed, ChosenOwed, Idle, ReloadFirst, PublishedNotQueued
  <2>4. FloorBelow
    BY DEF HInit, Init, FloorBelow, InTransaction, Idle
  <2> QED BY <2>1, <2>2, <2>3, <2>4 DEF HInit, Init, HInv, IInv, Abstract!Init
<1>2. HInv /\ [HNext]_historyVars => HInv'
  BY IInvStep, FloorStep, HistoryStep DEF HInv
<1>3. QED BY <1>1, <1>2, StepSimulation, PTL DEF HSafeSpec, Abstract!SafeSpec
=============================================================================
