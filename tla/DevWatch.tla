------------------------------ MODULE DevWatch ------------------------------
(***************************************************************************)
(* `pg-web dev` (crates/pg_web_cli/src/dev.rs): the watcher that pushes    *)
(* the tree after every save, next to a developer who goes on editing      *)
(* while it works.  The tree has one page, a template and a handler that   *)
(* are siblings (one route entry), one stylesheet under public/, and one   *)
(* path the watcher ignores.  A push is followed through every read of the *)
(* disk it makes, because the disk may change between two of them; what    *)
(* the push does in the database is module Push's subject, here it either  *)
(* commits what it has read or leaves the database as it was.              *)
(***************************************************************************)
EXTENDS Naturals, Sequences, FiniteSets

CONSTANTS MaxEdits,       \* bound: edits the developer makes
          MaxFailures     \* bound: failed connections, conflicts, lost NOTIFYs

ASSUME DevBounds == MaxEdits \in Nat /\ MaxFailures \in Nat

(***************************************************************************)
(* "Bad" is content that Tera (template) or Postgres (handler) refuses.    *)
(***************************************************************************)
Gone == "Gone"
None == "None"
Content == {"A", "B", "Bad"}
Page == {"html", "sql"}
Public == {"css"}
File == Page \cup Public \cup {"swap"}
ContentOf(f) ==
  CASE f = "html" -> Content [] f = "sql" -> {"A", "Bad"} [] f = "css" -> {"A", "B"} [] OTHER -> {"A"}
Live == File \ {"swap"}
Event == [file : File, kind : {"write", "remove", "rename"}]

VARIABLES
  disk,        \* what the tree holds
  events,      \* what the debouncer has not delivered yet, in order
  roots,       \* the directories the watcher watches, {} before it starts
  pc,          \* where the watcher's thread is
  batch,       \* events of the delivered batch still to be looked at
  hashes,      \* event_loop's map: content last seen of each path
  changed,     \* changed_all
  preflight,   \* changed_sql, the handlers still to be tried
  got,         \* what the running push has read, None where it has not
  db,          \* the live rows
  tab,         \* what an open browser tab shows
  stop,        \* the Ctrl-C flag
  edits, failures,
  past,        \* history: contents a path had before the one it has
  restored,    \* history: paths given a content they had before
  reported,    \* history: paths whose last change an error message followed
  raced        \* history: the template was saved between a push's two reads

treeVars == <<disk, events, edits, past, restored>>
loopVars == <<roots, batch, hashes, changed, preflight>>
vars == <<disk, events, roots, pc, batch, hashes, changed, preflight, got, db, tab,
          stop, edits, failures, past, restored, reported, raced>>

-----------------------------------------------------------------------------
(* The developer. *)

DirOf(f) == CASE f \in Public -> "public" [] f \in Page -> "pages" [] OTHER -> "pages"

(* The OS watcher reports paths under the directories that existed when it
   was started; the debouncer merges a write into a write of the same path that
   it has not delivered. *)
Notified(f, k) ==
  LET e == [file |-> f, kind |-> k]
      merged == k = "write" /\ \E i \in DOMAIN events :
                   /\ events[i] = e
                   /\ \A j \in i + 1..Len(events) : events[j].file # f
  IN  events' = IF DirOf(f) \notin roots \/ merged THEN events ELSE Append(events, e)

(* Before the watcher runs an edit is another initial tree, after it nothing
   looks at the tree any more. *)
Edit(f) ==
  /\ pc \notin {"up", "exited"}
  /\ edits < MaxEdits
  /\ edits' = edits + 1
  /\ raced' = (raced \/ (f = "html" /\ pc = "apply"))
  /\ UNCHANGED <<roots, pc, batch, hashes, changed, preflight, got, db, tab, stop, failures>>

Save(f, c) ==
  /\ Edit(f)
  /\ disk' = [disk EXCEPT ![f] = c]
  /\ Notified(f, "write")
  /\ past' = [past EXCEPT ![f] = IF disk[f] \in Content THEN @ \cup {disk[f]} ELSE @]
  /\ restored' = IF c # disk[f] /\ c \in past[f] THEN restored \cup {f} ELSE restored
  /\ reported' = IF c # disk[f] THEN reported \ {f} ELSE reported

Delete(f) ==
  /\ disk[f] # Gone
  /\ Edit(f)
  /\ disk' = [disk EXCEPT ![f] = Gone]
  /\ Notified(f, "remove")
  /\ past' = [past EXCEPT ![f] = {}]
  /\ reported' = reported \ {f}
  /\ UNCHANGED restored

(* A file moved out of the tree gives a rename event, not a removal. *)
MoveAway(f) ==
  /\ disk[f] # Gone
  /\ Edit(f)
  /\ disk' = [disk EXCEPT ![f] = Gone]
  /\ Notified(f, "rename")
  /\ past' = [past EXCEPT ![f] = @ \cup {disk[f]}]
  /\ reported' = reported \ {f}
  /\ UNCHANGED restored

CtrlC ==
  /\ ~stop
  /\ stop' = TRUE
  /\ UNCHANGED <<disk, events, roots, pc, batch, hashes, changed, preflight, got, db, tab,
                 edits, failures, past, restored, reported, raced>>

-----------------------------------------------------------------------------
(* dev: the stack is brought up, then the watcher is started. *)

Init ==
  /\ disk \in [File -> {"A", Gone}]
  /\ \A f \in Page : disk[f] = "A"
  /\ disk["swap"] = Gone
  /\ events = <<>> /\ batch = <<>>
  /\ roots = {} /\ changed = {} /\ preflight = {}
  /\ pc = "up"
  /\ hashes = [f \in File |-> None]
  /\ got = [f \in Live |-> None]
  /\ db = [f \in Live |-> disk[f]]        \* the tree was pushed before
  /\ tab = db
  /\ stop = FALSE
  /\ edits = 0 /\ failures = 0
  /\ past = [f \in File |-> {}]
  /\ restored = {} /\ reported = {} /\ raced = FALSE

Fault ==
  /\ failures < MaxFailures
  /\ failures' = failures + 1

(* stack::up fails: dev ends. *)
UpFails ==
  /\ pc = "up"
  /\ Fault
  /\ pc' = "exited"
  /\ UNCHANGED <<treeVars, loopVars, db, got, tab, stop, reported, raced>>

Watch ==
  /\ pc = "up"
  /\ pc' = "idle"
  /\ roots' = {"pages"} \cup {"public" : f \in {g \in Public : disk[g] # Gone}}
  /\ UNCHANGED <<treeVars, batch, hashes, changed, preflight, db, got, tab, stop,
                 failures, reported, raced>>

-----------------------------------------------------------------------------
(* event_loop and handle_batch. *)

(* The flag is looked at before every receive, and only there. *)
Stop ==
  /\ pc = "idle"
  /\ pc' = IF stop THEN "exited" ELSE "recv"
  /\ UNCHANGED <<treeVars, loopVars, db, got, tab, stop, failures, reported, raced>>

(* The debouncer delivers what is older than its window.  Ctrl-C does not keep
   a receive that has begun from taking one more batch. *)
Recv ==
  /\ pc = "recv"
  /\ \E n \in 1..Len(events) :
       /\ batch' = SubSeq(events, 1, n)
       /\ events' = SubSeq(events, n + 1, Len(events))
  /\ pc' = "scan"
  /\ UNCHANGED <<disk, edits, past, restored, roots, hashes, changed, preflight, db, got,
                 tab, stop, failures, reported, raced>>

(* Mutant: recv where recv_timeout stands. *)
WaitsForEvents == pc = "recv" /\ UNCHANGED vars

(* SHUTDOWN_POLL is over.  It is longer than the debouncer's window: an event
   that it still holds came while the receive was running out. *)
TimesOut ==
  /\ pc = "recv" /\ events = <<>>
  /\ pc' = "idle"
  /\ UNCHANGED <<treeVars, loopVars, db, got, tab, stop, failures, reported, raced>>

(* The OS watcher reports an error, which is printed. *)
WatcherError ==
  /\ pc = "recv"
  /\ Fault
  /\ pc' = "idle"
  /\ UNCHANGED <<treeVars, loopVars, db, got, tab, stop, reported, raced>>

(* The debouncer is gone: the loop ends with an error. *)
Disconnected ==
  /\ pc = "recv"
  /\ Fault
  /\ pc' = "exited"
  /\ reported' = Live
  /\ UNCHANGED <<treeVars, loopVars, db, got, tab, stop, raced>>

classify(f) == IF f \in Page \cup Public THEN "Push" ELSE "Ignore"

is_pages_sql(f) == f = "sql"

(* The paths of an event: the file is removed, has vanished or differs from
   what was recorded; otherwise nothing is done. *)
Removed(e) == classify(e.file) = "Push" /\ e.kind = "remove"
Vanished(e) == classify(e.file) = "Push" /\ e.kind # "remove" /\ disk[e.file] = Gone
Differs(e) ==
  /\ classify(e.file) = "Push" /\ e.kind # "remove"
  /\ disk[e.file] \notin {Gone, hashes[e.file]}

(* Mutant: a removal that forgets to drop the hash. *)
KeepsRemovedHash(e) ==
  IF Differs(e) THEN [hashes EXCEPT ![e.file] = disk[e.file]] ELSE hashes

RecordedHash(e) ==
  CASE Removed(e) -> [hashes EXCEPT ![e.file] = None]
    [] Differs(e) -> [hashes EXCEPT ![e.file] = disk[e.file]]
    [] OTHER -> hashes

(* The loop over the batch.  After its last event the batch is dropped, its
   handlers are tried, or it is pushed. *)
ScanEvent ==
  /\ pc = "scan"
  /\ batch' = Tail(batch)
  /\ LET e == Head(batch)
     IN  /\ hashes' = RecordedHash(e)
         /\ changed' = changed \cup (IF Removed(e) \/ Vanished(e) \/ Differs(e) THEN {e.file} ELSE {})
         /\ preflight' = preflight \cup (IF Differs(e) /\ is_pages_sql(e.file) THEN {e.file} ELSE {})
  /\ pc' = CASE batch' # <<>> -> "scan"
             [] batch' = <<>> /\ changed' = {} -> "idle"
             [] batch' = <<>> /\ preflight' # {} -> "preflight"
             [] OTHER -> "push"
  /\ UNCHANGED <<treeVars, roots, db, got, tab, stop, failures, reported, raced>>

(* An error is printed and the batch is over.  A change is reported when no
   event of its path is still to come, or it has been seen already. *)
Abort ==
  /\ pc' = "idle"
  /\ reported' = reported \cup
       {f \in Live : hashes[f] = disk[f] \/ \A i \in DOMAIN events : events[i].file # f}
  /\ got' = [f \in Live |-> None]
  /\ changed' = {} /\ preflight' = {}
  /\ UNCHANGED <<treeVars, roots, batch, hashes, db, tab, stop, raced>>

Unreadable(f) == disk[f] = Gone

(* BEGIN; <file>; ROLLBACK; of a changed handler, read from disk again. *)
Preflight ==
  /\ pc = "preflight"
  /\ \E f \in preflight :
       \/ /\ Unreadable(f) \/ disk[f] = "Bad"
          /\ Abort /\ UNCHANGED failures
       \/ /\ ~Unreadable(f) /\ disk[f] # "Bad"
          /\ preflight' = preflight \ {f}
          /\ pc' = IF preflight' = {} THEN "push" ELSE "preflight"
          /\ UNCHANGED <<treeVars, roots, batch, hashes, changed, db, got, tab, stop,
                         failures, reported, raced>>

PreflightFails ==
  /\ pc = "preflight"
  /\ Fault /\ Abort

-----------------------------------------------------------------------------
(* push::push, as far as it reads the disk.  A file is read at most once in
   each of the two steps, so an edit between two reads of a step is the same
   as one before or after the step. *)

(* Mutant: a push that does not parse its templates. *)
SkipsValidation == FALSE

TemplateFails == disk["html"] = "Bad"

(* paths::scan lists the page's files, validate_templates parses the template
   (Abort: it does not), scan_public reads the assets. *)
PushReads ==
  /\ pc = "push"
  /\ UNCHANGED failures
  /\ \/ TemplateFails /\ Abort
     \/ /\ ~TemplateFails
        /\ got' = [f \in Live |-> IF f \in Page /\ disk[f] # Gone THEN None ELSE disk[f]]
        /\ pc' = "apply"
        /\ UNCHANGED <<treeVars, loopVars, db, tab, stop, reported, raced>>

(* The page's files that are listed, and still to be read. *)
Listed == {f \in Page : got[f] = None}

(* apply_entry executes the handler's file and reads the template again. *)
EntryFails ==
  \/ \E f \in Listed : Unreadable(f)
  \/ "sql" \in Listed /\ disk["sql"] = "Bad"

(* Mutant: a push that does not read the files it has listed. *)
PushesUnread(f) == got[f]

Pushed(f) == IF f \in Listed THEN disk[f] ELSE got[f]

(* What the push has read replaces what was there: upserts, reconcile, COMMIT. *)
PushCommits ==
  /\ pc = "apply" /\ ~EntryFails
  /\ db' = [f \in Live |-> Pushed(f)]
  /\ got' = [f \in Live |-> None]
  /\ pc' = "notify"
  /\ UNCHANGED <<treeVars, loopVars, tab, stop, failures, reported, raced>>

(* An error of an entry, or of the connection.  A conflict that with_retry
   tries again starts over at the listed entries: the same state. *)
PushAborts ==
  /\ pc = "apply"
  /\ \/ EntryFails /\ UNCHANGED failures
     \/ ~EntryFails /\ Fault
  /\ Abort

(* Mutant: one stylesheet among the changes is enough for the quick reload. *)
AnyCss == IF changed \cap Public # {} THEN "Css" ELSE "Full"

livereload_kind == IF changed \subseteq Public THEN "Css" ELSE "Full"

(* A tab reloads its stylesheets, or everything it shows. *)
Reloaded(kind) == [f \in Live |-> IF kind = "Full" \/ f \in Public THEN db[f] ELSE tab[f]]

NotifyLivereload ==
  /\ pc = "notify"
  /\ pc' = "idle"
  /\ \/ tab' = Reloaded(livereload_kind) /\ UNCHANGED <<failures, reported>>
     \/ /\ Fault                        \* a warning, the loop goes on
        /\ reported' = Live
        /\ UNCHANGED tab
  /\ changed' = {}
  /\ UNCHANGED <<treeVars, roots, batch, hashes, preflight, db, got, stop, raced>>

-----------------------------------------------------------------------------
Developer ==
  \/ \E f \in File : \E c \in ContentOf(f) : Save(f, c)
  \/ \E f \in Live : Delete(f) \/ MoveAway(f)
  \/ CtrlC

(* What the watcher's thread does when nothing fails. *)
Works ==
  \/ Watch \/ Stop \/ Recv \/ TimesOut \/ ScanEvent \/ Preflight \/ PushReads \/ PushCommits
  \/ PushAborts \/ NotifyLivereload

Faults == UpFails \/ WatcherError \/ Disconnected \/ PreflightFails

Ended == pc = "exited" /\ UNCHANGED vars

Next == Developer \/ Works \/ Faults \/ Ended

(* The watcher's thread keeps running; nothing makes the developer act. *)
Spec == Init /\ [][Next]_vars /\ WF_vars(Works)

-----------------------------------------------------------------------------
TypeOK ==
  /\ disk \in [File -> Content \cup {Gone}]
  /\ events \in Seq(Event) /\ batch \in Seq(Event)
  /\ roots \subseteq {"pages", "public"}
  /\ pc \in {"up", "idle", "recv", "scan", "preflight", "push", "apply", "notify", "exited"}
  /\ hashes \in [File -> Content \cup {None}]
  /\ changed \subseteq Live /\ preflight \subseteq Page
  /\ got \in [Live -> Content \cup {Gone, None}]
  /\ db \in [Live -> Content \cup {Gone}] /\ tab \in [Live -> Content \cup {Gone}]
  /\ stop \in BOOLEAN
  /\ edits \in 0..MaxEdits /\ failures \in 0..MaxFailures
  /\ past \in [File -> SUBSET Content]
  /\ restored \subseteq File /\ reported \subseteq Live /\ raced \in BOOLEAN

Watched(f) == DirOf(f) \in roots

(* dev.rs:6-12, "native OS watcher -> write-finish debounce -> content-hash
   dedupe -> full push": once the developer stops, every saved change of a
   watched file is live, or an error was printed after it.  Three ways round
   it are left out by name, because the code has them: content put back to what
   it was before (the hash of the earlier save is still recorded), a directory
   that did not exist when the watcher started, and Ctrl-C. *)
EditReachesDb ==
  \A f \in Live :
    <>[](\/ db[f] = disk[f]
         \/ f \in reported \cup restored
         \/ ~Watched(f) \/ stop)

(* dev.rs:311-336 and livereload_kind: an open tab ends up showing what is
   live.  A stylesheet-only reload must never be the last one after another
   file went live, unless an error intervened. *)
TabCatchesUp ==
  \A f \in Live : <>[](tab[f] = db[f] \/ Live \cap reported # {} \/ restored # {} \/ stop)

(* event_loop, dev.rs:211-214: no error, no amount of saving and no lack of it
   keeps the watcher from seeing Ctrl-C. *)
StopEnds == stop ~> pc = "exited"

(* handle_batch, dev.rs:289-303 ("the live route keeps working while the
   developer fixes it") and push.rs:465-468: what is live runs and renders,
   except for a template saved while it was being pushed. *)
LivePageWorks ==
  /\ db["sql"] # "Bad"
  /\ db["html"] = "Bad" => raced

(* push.rs:465-468, validate_templates: "Syntax errors ... surface here -
   before the DB transaction opens - so the live extension can't end up with a
   bad template that 500s every request". *)
TemplatesParse == db["html"] # "Bad"

=============================================================================
