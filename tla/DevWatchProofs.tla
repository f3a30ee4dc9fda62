---------------------------- MODULE DevWatchProofs ----------------------------
(***************************************************************************)
(* Theorems about DevWatch, for any number of edits and failures: its      *)
(* state stays typed, and what is live runs and renders unless a template  *)
(* was saved between the two reads of a push.                              *)
(***************************************************************************)
EXTENDS DevWatch, TLAPS

\* While a push is between its two reads, of the page's files it has only read
\* that they are missing, it has read the assets, and a template it has listed
\* parses, or was saved since.
BetweenReads ==
    pc = "apply" =>
        /\ \A f \in Page : got[f] \in {None, Gone}
        /\ \A f \in Public : got[f] # None
        /\ got["html"] = None /\ ~raced => disk["html"] # "Bad"

\* A batch that is looked at has an event left.
BatchPending == pc = "scan" => batch # <<>>

IInv == TypeOK /\ BatchPending /\ BetweenReads /\ LivePageWorks

LEMMA Files ==
    /\ Live = {"html", "sql", "css"} /\ Page = {"html", "sql"} /\ Public = {"css"}
    /\ File = {"html", "sql", "css", "swap"}
    /\ Content = {"A", "B", "Bad"} /\ Gone = "Gone" /\ None = "None"
  BY DEF Live, Page, Public, File, Content, Gone, None

LEMMA InitEstablishes == Init => IInv
<1> SUFFICES ASSUME Init PROVE IInv
  OBVIOUS
<1>1. disk \in [File -> Content \cup {Gone}]
  BY Files DEF Init
<1>2. db \in [Live -> Content \cup {Gone}] /\ db["sql"] = "A" /\ db["html"] = "A"
  BY <1>1, Files DEF Init
<1>3. TypeOK
  <2>1. events \in Seq(Event) /\ batch \in Seq(Event)
    BY DEF Init
  <2>2. hashes \in [File -> Content \cup {None}] /\ got \in [Live -> Content \cup {Gone, None}]
    BY DEF Init
  <2>3. past \in [File -> SUBSET Content] /\ restored \subseteq File /\ reported \subseteq Live
    BY DEF Init
  <2>4. roots \subseteq {"pages", "public"} /\ changed \subseteq Live /\ preflight \subseteq Page
    BY DEF Init
  <2>5. tab \in [Live -> Content \cup {Gone}]
    BY <1>2 DEF Init
  <2>6. edits \in 0 .. MaxEdits /\ failures \in 0 .. MaxFailures
    BY DevBounds DEF Init
  <2>7. QED
    BY <1>1, <1>2, <2>1, <2>2, <2>3, <2>4, <2>5, <2>6 DEF Init, TypeOK
<1>4. BatchPending /\ BetweenReads /\ LivePageWorks
  BY <1>2 DEF Init, BatchPending, BetweenReads, LivePageWorks
<1>5. QED  BY <1>3, <1>4 DEF IInv

\* The debouncer only ever adds an event of the tree.
LEMMA EventsTyped ==
    ASSUME events \in Seq(Event), NEW f \in File, NEW k \in {"write", "remove", "rename"},
           Notified(f, k)
    PROVE  events' \in Seq(Event)
<1>1. [file |-> f, kind |-> k] \in Event
  BY DEF Event
<1>2. events' = events \/ events' = Append(events, [file |-> f, kind |-> k])
  BY DEF Notified
<1>3. QED  BY <1>1, <1>2

\* An edit is typed and, when it hits a template between the two reads, noted.
LEMMA EditStep ==
    ASSUME IInv, NEW f \in File, NEW c \in Content \cup {Gone}, Edit(f),
           disk' = [disk EXCEPT ![f] = c], events' \in Seq(Event),
           past' \in [File -> SUBSET Content], restored' \subseteq File, reported' \subseteq Live
    PROVE  IInv'
<1> USE Files DEF IInv
<1>1. TypeOK'
  <2>1. edits' \in 0 .. MaxEdits
    BY DevBounds DEF Edit, TypeOK
  <2>2. raced' \in BOOLEAN
    BY DEF Edit, TypeOK
  <2>3. disk' \in [File -> Content \cup {Gone}]
    BY DEF TypeOK
  <2>4. QED  BY <2>1, <2>2, <2>3 DEF Edit, TypeOK
<1>2. raced => raced'
  BY DEF Edit
<1>3. BetweenReads'
  <2>1. CASE f = "html" /\ pc = "apply"
    BY <2>1 DEF Edit, BetweenReads
  <2>2. CASE ~(f = "html" /\ pc = "apply")
    BY <2>2, <1>2 DEF Edit, BetweenReads, TypeOK
  <2>3. QED  BY <2>1, <2>2
<1>4. BatchPending' /\ LivePageWorks'
  BY <1>2 DEF Edit, BatchPending, LivePageWorks
<1>5. QED  BY <1>1, <1>3, <1>4

LEMMA DeveloperStep == ASSUME IInv, Developer PROVE IInv'
<1> USE Files DEF IInv
<1>1. ASSUME NEW f \in File, NEW c \in ContentOf(f), Save(f, c) PROVE IInv'
  <2>1. c \in Content
    BY <1>1 DEF ContentOf
  <2>2. events' \in Seq(Event)
    BY <1>1, EventsTyped DEF Save, TypeOK
  <2>3. past' \in [File -> SUBSET Content] /\ restored' \subseteq File /\ reported' \subseteq Live
    BY <1>1, <2>1 DEF Save, TypeOK
  <2>4. QED  BY <1>1, <2>1, <2>2, <2>3, EditStep DEF Save
<1>2. ASSUME NEW f \in Live, Delete(f) PROVE IInv'
  <2>1. events' \in Seq(Event)
    BY <1>2, EventsTyped DEF Delete, TypeOK
  <2>2. past' \in [File -> SUBSET Content] /\ restored' \subseteq File /\ reported' \subseteq Live
    BY <1>2 DEF Delete, TypeOK
  <2>3. QED  BY <1>2, <2>1, <2>2, EditStep DEF Delete
<1>3. ASSUME NEW f \in Live, MoveAway(f) PROVE IInv'
  <2>1. events' \in Seq(Event)
    BY <1>3, EventsTyped DEF MoveAway, TypeOK
  <2>2. disk[f] \in Content
    BY <1>3 DEF MoveAway, TypeOK
  <2>3. past' \in [File -> SUBSET Content] /\ restored' \subseteq File /\ reported' \subseteq Live
    BY <1>3, <2>2 DEF MoveAway, TypeOK
  <2>4. QED  BY <1>3, <2>1, <2>3, EditStep DEF MoveAway
<1>4. CASE CtrlC
  BY <1>4 DEF CtrlC, TypeOK, BatchPending, BetweenReads, LivePageWorks
<1>5. QED  BY <1>1, <1>2, <1>3, <1>4 DEF Developer

\* An abandoned batch is not between two reads and changes nothing live.
LEMMA AbortStep ==
    ASSUME IInv, Abort, failures' \in 0 .. MaxFailures
    PROVE  IInv'
<1> USE Files DEF IInv
<1>1. TypeOK'
  <2>1. got' \in [Live -> Content \cup {Gone, None}]
    BY DEF Abort
  <2>2. reported' \subseteq Live
    BY DEF Abort, TypeOK
  <2>3. QED  BY <2>1, <2>2 DEF Abort, TypeOK, treeVars
<1>2. BatchPending' /\ BetweenReads' /\ LivePageWorks'
  BY DEF Abort, BatchPending, BetweenReads, LivePageWorks
<1>3. QED  BY <1>1, <1>2

LEMMA FaultTyped == ASSUME TypeOK, Fault PROVE failures' \in 0 .. MaxFailures
  BY DevBounds DEF TypeOK, Fault

\* Starting, receiving a batch or nothing, stopping, and looking at the events.
LEMMA BatchStep ==
    ASSUME IInv, \/ UpFails \/ Watch \/ Stop \/ TimesOut \/ Recv \/ ScanEvent
                 \/ WatcherError \/ Disconnected
    PROVE  IInv'
<1> USE Files DEF IInv, treeVars, loopVars, BatchPending
<1>1. CASE UpFails
  BY <1>1, FaultTyped DEF UpFails, TypeOK, BetweenReads, LivePageWorks
<1>2. CASE Watch
  BY <1>2 DEF Watch, TypeOK, BetweenReads, LivePageWorks
<1>3. CASE Stop \/ TimesOut
  BY <1>3 DEF Stop, TimesOut, TypeOK, BetweenReads, LivePageWorks
<1>4. CASE Recv
  <2>1. batch' \in Seq(Event) /\ events' \in Seq(Event) /\ batch' # <<>>
    <3>1. PICK n \in 1 .. Len(events) :
            /\ batch' = SubSeq(events, 1, n)
            /\ events' = SubSeq(events, n + 1, Len(events))
      BY <1>4 DEF Recv
    <3>2. events \in Seq(Event) /\ Len(events) \in Nat
      BY DEF TypeOK
    <3>3. batch' \in Seq(Event) /\ Len(batch') = n
      BY <3>1, <3>2
    <3>4. events' \in Seq(Event)
      BY <3>1, <3>2
    <3>5. QED  BY <3>1, <3>3, <3>4
  <2>2. QED  BY <1>4, <2>1 DEF Recv, TypeOK, BetweenReads, LivePageWorks
<1>5. CASE ScanEvent
  <2> DEFINE e == Head(batch)
  <2>1. batch # <<>> /\ batch' \in Seq(Event) /\ e \in Event
    BY <1>5 DEF ScanEvent, TypeOK
  <2>2. e.file \in File
    BY <2>1 DEF Event
  <2>3. classify(e.file) = "Push" => e.file \in Live
    BY <2>2 DEF classify
  <2>4. hashes' \in [File -> Content \cup {None}]
    <3>1. hashes' = RecordedHash(e)
      BY <1>5 DEF ScanEvent
    <3>2. CASE Removed(e)
      <4>1. ~Differs(e)
        BY <3>2 DEF Removed, Differs
      <4>2. hashes' = [hashes EXCEPT ![e.file] = None]
        BY <3>1, <3>2, <4>1 DEF RecordedHash
      <4>3. QED  BY <4>2, <2>2 DEF TypeOK
    <3>3. CASE ~Removed(e) /\ Differs(e)
      <4>1. disk[e.file] \in Content
        BY <3>3, <2>2 DEF Differs, TypeOK
      <4>2. hashes' = [hashes EXCEPT ![e.file] = disk[e.file]]
        BY <3>1, <3>3 DEF RecordedHash
      <4>3. QED  BY <4>1, <4>2, <2>2 DEF TypeOK
    <3>4. CASE ~Removed(e) /\ ~Differs(e)
      BY <3>1, <3>4 DEF RecordedHash, TypeOK
    <3>5. QED  BY <3>2, <3>3, <3>4
  <2>5. changed' \subseteq Live
    BY <1>5, <2>3 DEF ScanEvent, TypeOK, Removed, Vanished, Differs
  <2>6. preflight' \subseteq Page
    BY <1>5 DEF ScanEvent, TypeOK, is_pages_sql
  <2>7. pc' \in {"scan", "idle", "preflight", "push"} /\ (pc' = "scan" => batch' # <<>>)
    BY <1>5 DEF ScanEvent
  <2>8. QED
    BY <1>5, <2>1, <2>4, <2>5, <2>6, <2>7 DEF ScanEvent, TypeOK, BetweenReads, LivePageWorks
<1>6. CASE WatcherError \/ Disconnected
  <2>1. failures' \in 0 .. MaxFailures
    BY <1>6, FaultTyped DEF WatcherError, Disconnected
  <2>2. pc' \in {"idle", "exited"} /\ reported' \subseteq Live
    BY <1>6 DEF WatcherError, Disconnected, TypeOK
  <2>3. UNCHANGED <<treeVars, loopVars, db, got, tab, stop, raced>>
    BY <1>6 DEF WatcherError, Disconnected
  <2>4. QED  BY <2>1, <2>2, <2>3 DEF TypeOK, BetweenReads, LivePageWorks
<1>7. QED  BY <1>1, <1>2, <1>3, <1>4, <1>5, <1>6

\* Preflight, the reads and the commit of the push, the livereload NOTIFY.
LEMMA PushStep ==
    ASSUME IInv, Preflight \/ PreflightFails \/ PushReads \/ PushCommits \/ PushAborts
                   \/ NotifyLivereload
    PROVE  IInv'
<1> USE Files DEF IInv, treeVars, loopVars, BatchPending
<1>1. CASE Preflight
  <2>1. CASE Abort /\ UNCHANGED failures
    BY <2>1, AbortStep DEF TypeOK
  <2>2. CASE \E f \in preflight :
               /\ preflight' = preflight \ {f}
               /\ pc' = IF preflight' = {} THEN "push" ELSE "preflight"
               /\ UNCHANGED <<treeVars, roots, batch, hashes, changed, db, got, tab, stop,
                              failures, reported, raced>>
    BY <2>2 DEF TypeOK, BetweenReads, LivePageWorks
  <2>3. QED  BY <1>1, <2>1, <2>2 DEF Preflight
<1>2. CASE PreflightFails
  BY <1>2, FaultTyped, AbortStep DEF PreflightFails
<1>3. CASE PushReads
  <2>1. CASE Abort
    BY <1>3, <2>1, AbortStep DEF PushReads, TypeOK
  <2>2. CASE /\ disk["html"] # "Bad"
             /\ got' = [f \in Live |-> IF f \in Page /\ disk[f] # Gone THEN None ELSE disk[f]]
             /\ pc' = "apply"
             /\ UNCHANGED <<treeVars, loopVars, db, tab, stop, reported, raced, failures>>
    <3>1. got' \in [Live -> Content \cup {Gone, None}]
      BY <2>2 DEF TypeOK
    <3>2. (\A f \in Page : got'[f] \in {None, Gone}) /\ \A f \in Public : got'[f] # None
      BY <2>2 DEF TypeOK
    <3>3. BetweenReads'
      BY <2>2, <3>2 DEF BetweenReads
    <3>4. QED  BY <2>2, <3>1, <3>3 DEF TypeOK, LivePageWorks
  <2>3. QED  BY <1>3, <2>1, <2>2 DEF PushReads, TemplateFails
<1>4. CASE PushCommits
  <2>1. \A f \in Live : Pushed(f) \in Content \cup {Gone}
    BY <1>4 DEF PushCommits, Pushed, Listed, TypeOK, BetweenReads
  <2>2. Pushed("sql") # "Bad"
    BY <1>4 DEF PushCommits, EntryFails, Pushed, Listed, BetweenReads
  <2>3. Pushed("html") = "Bad" => raced
    BY <1>4 DEF PushCommits, Pushed, Listed, BetweenReads
  <2>4. LivePageWorks'
    BY <1>4, <2>2, <2>3 DEF PushCommits, LivePageWorks
  <2>5. QED  BY <1>4, <2>1, <2>4 DEF PushCommits, TypeOK, BetweenReads
<1>5. CASE PushAborts
  BY <1>5, FaultTyped, AbortStep DEF PushAborts, TypeOK
<1>6. CASE NotifyLivereload
  <2>1. tab' \in [Live -> Content \cup {Gone}]
    BY <1>6 DEF NotifyLivereload, Reloaded, TypeOK
  <2>2. failures' \in 0 .. MaxFailures /\ reported' \subseteq Live
    BY <1>6, FaultTyped DEF NotifyLivereload, TypeOK
  <2>3. QED  BY <1>6, <2>1, <2>2 DEF NotifyLivereload, TypeOK, BetweenReads, LivePageWorks
<1>7. QED  BY <1>1, <1>2, <1>3, <1>4, <1>5, <1>6

LEMMA StepPreserves == IInv /\ [Next]_vars => IInv'
<1> SUFFICES ASSUME IInv, [Next]_vars PROVE IInv'
  OBVIOUS
<1>1. CASE Developer  BY <1>1, DeveloperStep
<1>2. CASE Works \/ Faults  BY <1>2, BatchStep, PushStep DEF Works, Faults
<1>3. CASE UNCHANGED vars
  BY <1>3 DEF IInv, TypeOK, BatchPending, BetweenReads, LivePageWorks, vars
<1>4. QED  BY <1>1, <1>2, <1>3 DEF Next, Ended

LEMMA Invariance == Spec => []IInv
  BY InitEstablishes, StepPreserves, PTL DEF Spec

\* Type correctness of the watcher, the running push and the browser tab.
THEOREM TypeCorrect == Spec => []TypeOK
<1>1. IInv => TypeOK  BY DEF IInv
<1>2. QED  BY <1>1, Invariance, PTL

\* dev.rs:289-303 and push.rs:465-491, for any number of edits and failures: a
\* handler that Postgres refuses never goes live, and a template that Tera
\* refuses only when it was saved while it was being pushed.
THEOREM LiveRoutesKeepWorking == Spec => []LivePageWorks
<1>1. IInv => LivePageWorks  BY DEF IInv
<1>2. QED  BY <1>1, Invariance, PTL
=============================================================================
