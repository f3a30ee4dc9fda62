---------------------------------- MODULE Push ----------------------------------
(***************************************************************************)
(* `pg-web push` and `pg-web migrate apply` (push.rs, retry.rs, migrate.rs)*)
(* run by several developers against one database.  A push is a gate on    *)
(* the migrations, then one transaction: apply the pages, validate their   *)
(* handlers, reconcile what the tree no longer has, sync the settings,     *)
(* record the deployment, NOTIFY, commit.                                  *)
(*                                                                         *)
(* Postgres is modelled from how push uses it: READ COMMITTED, row locks   *)
(* held to the end of the transaction, a statement on a row that another   *)
(* transaction has written waits for it, a cycle of waits has a victim.    *)
(* INSERT .. ON CONFLICT and DELETE go on with the row as it then is; DDL  *)
(* on pg_proc fails when the row changed under it.                         *)
(*                                                                         *)
(* A row is a table and a key; its value is the pusher that wrote it.      *)
(***************************************************************************)
EXTENDS Integers

CONSTANTS Pushers,      \* CLI processes
          Pages,        \* page routes, numbered in the order of paths::scan
          Health,       \* the page with the path of the framework's own route
          Files,        \* URL paths of static assets
          Migrations,   \* how many migration files exist, named 1, 2, ... in filename order
          Apps,         \* what a pusher may be asked to do, see App
          MaxAttempts,  \* retry.rs: MAX_ATTEMPTS
          MaxAgain,     \* bound on the commands run again
          Base,         \* the writer of what the database holds at first
          Default,      \* the writer of the framework's own route
          Absent,       \* no row
          Untouched     \* not written by this transaction

\* A tree and the command line it is pushed with.  undefined: pages whose
\* .sql file does not create the function its path asks for; migrations: any
\* of the files, as branches that have not been merged have different ones;
\* parses: every file of the tree passes the checks made before the database
\* is touched.
App ==
    [command : {"push", "migrate"}, dry_run : BOOLEAN, with_migrate : BOOLEAN,
     pages : SUBSET Pages, templates : SUBSET Pages, undefined : SUBSET Pages,
     assets : SUBSET Files, env : BOOLEAN, migrations : SUBSET (1 .. Migrations), parses : BOOLEAN]

Row ==
    ({"handler", "template", "route"} \X Pages)
      \cup ({"asset"} \X Files) \cup {<<"setting", 0>>}
      \cup ({"migration"} \X (1 .. Migrations))

Value == Pushers \cup {Base, Default, Absent}
Unwritten == [r \in Row |-> Untouched]

ASSUME PushAssumption ==
    /\ Pages \subseteq Nat /\ Files \subseteq Nat /\ Migrations \in Nat
    /\ Health \in Pages
    /\ Apps \subseteq App
    /\ \A a \in Apps : /\ a.templates \cup a.undefined \subseteq a.pages
                       /\ a.command = "migrate" => a.dry_run = FALSE
    /\ MaxAttempts \in Nat \ {0} /\ MaxAgain \in Nat
    /\ Untouched \notin Value
    /\ Base # Default /\ Base # Absent /\ Default # Absent
    /\ {Base, Default, Absent} \cap Pushers = {}

VARIABLES
    app,        \* what each pusher pushes; fixed in a behaviour
    rows,       \* the committed rows
    reloads,    \* NOTIFY pgweb_reload delivered so far
    deployments,\* rows of pgweb.deployments
    ran,        \* how often each migration's SQL has been committed
    pc,         \* where each pusher is
    todo,       \* rows its current phase has still to write
    own,        \* what its open transaction has written
    wait,       \* the row it waits for, or Untouched
    hit,        \* what the transaction it waited for did to that row
    attempt,    \* attempt number of retry::with_retry
    why,        \* the error it ended with
    again,      \* commands that were run again so far
    commits,    \* history: how often the command has committed its tree
    disturbed,  \* history: another push committed since its transaction began
    tree,       \* history: the last push that committed
    alone       \* history: it committed undisturbed

database == <<rows, reloads, deployments, ran>>
session == <<todo, own, wait, hit, attempt, why>>
history == <<commits, disturbed, tree, alone>>
vars == <<app, database, pc, session, again, history>>

Place == {"start", "gate", "ledger", "files", "recorded", "begin", "apply", "validate",
          "routes", "templates", "handlers", "assets", "stale_assets", "settings",
          "ready", "ok", "failed"}
Conflict == {"none", "updated", "deleted", "exists"}

TypeOK ==
    /\ app \in [Pushers -> Apps]
    /\ rows \in [Row -> Value]
    /\ reloads \in Nat /\ deployments \in Nat
    /\ ran \in [1 .. Migrations -> Nat]
    /\ pc \in [Pushers -> Place]
    /\ todo \in [Pushers -> SUBSET Row]
    /\ own \in [Pushers -> [Row -> Value \cup {Untouched}]]
    /\ wait \in [Pushers -> Row \cup {Untouched}]
    /\ hit \in [Pushers -> Conflict]
    /\ attempt \in [Pushers -> 1 .. MaxAttempts]
    /\ why \in [Pushers -> Conflict \cup {"deadlock", "refused", "crashed"}]
    /\ again \in 0 .. MaxAgain
    /\ commits \in [Pushers -> Nat]
    /\ disturbed \in [Pushers -> BOOLEAN]
    /\ tree \in Pushers \cup {Base} /\ alone \in BOOLEAN

\* Some tree is deployed, and the framework's own route is as CREATE
\* EXTENSION left it.
Init ==
    /\ app \in [Pushers -> Apps]
    /\ \E live \in {{}, Pages} :
         rows = [r \in Row |->
                   IF r[1] = "migration" THEN Absent
                   ELSE IF r[1] = "setting" THEN Base
                   ELSE IF r = <<"route", Health>> THEN Default
                   ELSE IF r = <<"handler", Health>> \/ r = <<"template", Health>> THEN Absent
                   ELSE IF r[1] # "asset" /\ r[2] \in live THEN Base ELSE Absent]
    /\ reloads = 0 /\ deployments = 0
    /\ ran = [m \in 1 .. Migrations |-> 0]
    /\ pc = [p \in Pushers |-> "start"]
    /\ todo = [p \in Pushers |-> {}]
    /\ own = [p \in Pushers |-> Unwritten]
    /\ wait = [p \in Pushers |-> Untouched]
    /\ hit = [p \in Pushers |-> "none"]
    /\ attempt = [p \in Pushers |-> 1]
    /\ why = [p \in Pushers |-> "none"]
    /\ again = 0
    /\ commits = [p \in Pushers |-> 0]
    /\ disturbed = [p \in Pushers |-> FALSE]
    /\ tree = Base /\ alone = TRUE

-----------------------------------------------------------------------------
(* Postgres.                                                               *)

\* What a statement of p sees: its own writes over the committed rows.
View(p, r) == IF own[p][r] = Untouched THEN rows[r] ELSE own[p][r]
Holds(q, r) == own[q][r] # Untouched
Locked(p, r) == \E q \in Pushers \ {p} : Holds(q, r)
WaitsFor(p, q) == wait[p] # Untouched /\ q # p /\ Holds(q, wait[p])

\* p is in a cycle of waits.
Deadlocked(p) ==
    \E S \in SUBSET Pushers :
        /\ p \in S
        /\ \A x \in S : \E y, z \in S : WaitsFor(x, y) /\ WaitsFor(z, x)

\* What q's commit means for the DDL of a transaction waiting for row r.
Outcome(q, r) ==
    CASE rows[r] = Absent -> "exists"
      [] rows[r] # Absent /\ own[q][r] = Absent -> "deleted"
      [] OTHER -> "updated"

\* p's transaction ends with its writes in the tables; who waited for it goes on.
Publish(p) ==
    /\ rows' = [r \in Row |-> View(p, r)]
    /\ own' = [own EXCEPT ![p] = Unwritten]
    /\ hit' = [q \in Pushers |-> IF WaitsFor(q, p) THEN Outcome(p, wait[q]) ELSE hit[q]]

\* p's transaction is rolled back.
Discard(p) ==
    /\ own' = [own EXCEPT ![p] = Unwritten]
    /\ wait' = [wait EXCEPT ![p] = Untouched]
    /\ hit' = [hit EXCEPT ![p] = "none"]
    /\ todo' = [todo EXCEPT ![p] = {}]
    /\ UNCHANGED <<app, database, again, history>>

Goto(p, place) == pc' = [pc EXCEPT ![p] = place]
Ends(p, error) == Goto(p, "failed") /\ why' = [why EXCEPT ![p] = error]

-----------------------------------------------------------------------------
(* retry.rs.                                                               *)

\* is_retryable.
Retryable(error) == error = "updated"

\* Mutant: one attempt too many.
FailsLate(p, error) ==
    /\ Discard(p)
    /\ IF Retryable(error) /\ attempt[p] <= MaxAttempts
         THEN attempt' = [attempt EXCEPT ![p] = @ + 1] /\ Goto(p, "begin") /\ UNCHANGED why
         ELSE Ends(p, error) /\ UNCHANGED attempt

\* Mutant: every error is retried, and the attempts are not counted.
RetryForever(p, error) == Discard(p) /\ Goto(p, "begin") /\ UNCHANGED <<why, attempt>>

\* The closure given to with_retry returns an error.
Fails(p, error) ==
    /\ Discard(p)
    /\ IF Retryable(error) /\ attempt[p] < MaxAttempts
         THEN attempt' = [attempt EXCEPT ![p] = @ + 1] /\ Goto(p, "begin") /\ UNCHANGED why
         ELSE Ends(p, error) /\ UNCHANGED attempt

\* An error outside with_retry.
Bails(p, error) == Discard(p) /\ Ends(p, error) /\ UNCHANGED attempt

-----------------------------------------------------------------------------
(* migrate.rs and the gate of push_with_options.                           *)

\* By set membership: a file may be pending when later ones are applied.
Pending(p) == {m \in app[p].migrations : rows[<<"migration", m>>] = Absent}
Stays(p, place) ==
    Goto(p, place) /\ UNCHANGED <<app, database, session, again, history>>

\* The tree is scanned and its templates parsed.
Scan(p) ==
    /\ pc[p] = "start"
    /\ IF app[p].command = "migrate" THEN Stays(p, "ledger")
       ELSE IF app[p].parses THEN Stays(p, "gate") ELSE Bails(p, "refused")

\* Mutant: a push without --with-migrate goes on over pending migrations.
GateOpen(p) == pc[p] = "gate" /\ Stays(p, "begin")

Gate(p) ==
    /\ pc[p] = "gate"
    /\ IF Pending(p) = {} \/ (app[p].with_migrate /\ app[p].dry_run) THEN Stays(p, "begin")
       ELSE IF app[p].with_migrate THEN Stays(p, "ledger")
       ELSE Bails(p, "refused")

\* migrate::apply reads the ledger once, before the first file.
LoadApplied(p) ==
    /\ pc[p] = "ledger"
    /\ Goto(p, "files")
    /\ todo' = [todo EXCEPT ![p] = {<<"migration", m>> : m \in Pending(p)}]
    /\ UNCHANGED <<app, database, own, wait, hit, attempt, why, again, history>>

\* The row with the least key, and in apply_entry's order of tables.
Rank(table) == CASE table = "handler" -> 0 [] table = "template" -> 1 [] OTHER -> 2
Before(r, s) == r[2] < s[2] \/ (r[2] = s[2] /\ Rank(r[1]) <= Rank(s[1]))

\* Mutant: the files are taken in the opposite order.
Last(S) == CHOOSE r \in S : \A s \in S : Before(s, r)

First(S) == CHOOSE r \in S : \A s \in S : Before(r, s)

\* p writes v into row r and has one row less to do.
Writes(p, r, v) ==
    /\ own' = [own EXCEPT ![p][r] = v]
    /\ todo' = [todo EXCEPT ![p] = @ \ {r}]
    /\ wait' = [wait EXCEPT ![p] = Untouched]
    /\ hit' = [hit EXCEPT ![p] = "none"]
    /\ UNCHANGED <<app, database, attempt, why, again, history>>

\* Mutant: the ledger row is an upsert.
UpsertLedger(p) ==
    LET r == First(todo[p]) IN
    /\ pc[p] = "files" /\ todo[p] # {} /\ ~Locked(p, r)
    /\ Writes(p, r, p) /\ Goto(p, "recorded")

\* One file and its ledger row, whose key must be new.
RunFile(p) ==
    LET r == First(todo[p]) IN
    /\ pc[p] = "files" /\ todo[p] # {} /\ ~Locked(p, r)
    /\ IF rows[r] = Absent THEN Writes(p, r, p) /\ Goto(p, "recorded")
                           ELSE Bails(p, "exists")

CommitFile(p) ==
    /\ pc[p] = "recorded" /\ Goto(p, "files")
    /\ Publish(p)
    /\ ran' = [m \in 1 .. Migrations |-> IF Holds(p, <<"migration", m>>) THEN ran[m] + 1 ELSE ran[m]]
    /\ UNCHANGED <<app, reloads, deployments, todo, wait, attempt, why, again, history>>

FilesDone(p) ==
    /\ pc[p] = "files" /\ todo[p] = {}
    /\ Stays(p, IF app[p].command = "migrate" THEN "ok" ELSE "begin")

-----------------------------------------------------------------------------
(* The push transaction.                                                   *)

Table(p, table) ==
    {table} \X (CASE table = "asset" -> app[p].assets
                  [] table = "template" -> app[p].templates
                  [] table = "setting" -> IF app[p].env THEN {0} ELSE {}
                  [] OTHER -> app[p].pages)

\* p goes to the next phase with the rows that phase writes.
Phase(p, from, to, S) ==
    /\ pc[p] = from /\ todo[p] = {} /\ Goto(p, to)
    /\ todo' = [todo EXCEPT ![p] = S]
    /\ UNCHANGED <<app, database, own, wait, hit, attempt, why, again, history>>

\* A transaction opens.  The file of an undefined page creates some other
\* function, so it writes no row of the tree.
Begin(p) ==
    /\ pc[p] = "begin" /\ Goto(p, "apply")
    /\ todo' = [todo EXCEPT ![p] =
                  ((Table(p, "handler") \ ({"handler"} \X app[p].undefined))
                     \cup Table(p, "template") \cup Table(p, "route"))]
    /\ disturbed' = [disturbed EXCEPT ![p] = FALSE]
    /\ UNCHANGED <<app, database, own, wait, hit, attempt, why, again, commits, tree, alone>>

\* The statement on row r is the next one of p's phase.
Current(p, r) == r \in todo[p] /\ (wait[p] = Untouched \/ wait[p] = r)

\* Another transaction has written the row.
Wait(p, r) ==
    /\ Current(p, r) /\ Locked(p, r) /\ wait[p] = Untouched /\ pc[p] # "recorded"
    /\ pc[p] \in {"files", "apply"} => r = First(todo[p])
    /\ wait' = [wait EXCEPT ![p] = r]
    /\ UNCHANGED <<app, database, pc, todo, own, hit, attempt, why, again, history>>

\* Phase 1, one statement of apply_entry: CREATE OR REPLACE FUNCTION, then
\* the upserts.
ApplyEntry(p) ==
    LET r == First(todo[p]) IN
    /\ pc[p] = "apply" /\ todo[p] # {} /\ ~Locked(p, r)
    /\ IF r[1] = "handler" /\ hit[p] # "none" THEN Fails(p, hit[p])
       ELSE Writes(p, r, p) /\ UNCHANGED pc

\* Phase 2: every handler of the tree is in pg_proc.
Validate(p) ==
    /\ pc[p] = "apply" /\ todo[p] = {}
    /\ IF \A r \in Table(p, "handler") : View(p, r) # Absent
         THEN Phase(p, "apply", "validate", {})
         ELSE Fails(p, "refused")

\* Mutant: the framework's own routes are not spared.
StaleDefaults(p, table) ==
    {r \in Row : r[1] = table /\ View(p, r) # Absent /\ r \notin Table(p, table)}

\* What reconcile finds in a table that the tree does not have; the
\* framework's own routes are kept.
Stale(p, table) ==
    {r \in Row : r[1] = table /\ View(p, r) \notin {Absent, Default} /\ r \notin Table(p, table)}

\* Mutant: handlers are never dropped.
DropNoHandlers(p) == Phase(p, "templates", "handlers", {})

\* Phase 3: each table is listed, with a snapshot of its own, then cleaned.
ListRoutes(p) == Phase(p, "validate", "routes", Stale(p, "route"))
ListTemplates(p) == Phase(p, "routes", "templates", Stale(p, "template"))
ListHandlers(p) == Phase(p, "templates", "handlers", Stale(p, "handler"))
ListAssets(p) == Phase(p, "assets", "stale_assets", Stale(p, "asset"))

\* DELETE of a listed row: none is there when another push deleted it.
Delete(p, r) ==
    /\ pc[p] \in {"routes", "templates", "stale_assets"}
    /\ Current(p, r) /\ ~Locked(p, r)
    /\ Writes(p, r, IF View(p, r) = Absent THEN own[p][r] ELSE Absent)
    /\ UNCHANGED pc

\* DROP FUNCTION of a listed row.
Drop(p, r) ==
    /\ pc[p] = "handlers"
    /\ Current(p, r) /\ ~Locked(p, r)
    /\ IF hit[p] # "none" THEN Fails(p, hit[p])
       ELSE IF View(p, r) = Absent THEN Fails(p, "deleted")
       ELSE Writes(p, r, Absent) /\ UNCHANGED pc

\* Phases 3.5 and 4, the upserts of assets and settings.
PublishAssets(p) == Phase(p, "handlers", "assets", Table(p, "asset"))
SyncSettings(p) == Phase(p, "stale_assets", "settings", Table(p, "setting"))

Upsert(p, r) ==
    /\ pc[p] \in {"assets", "settings"}
    /\ Current(p, r) /\ ~Locked(p, r)
    /\ Writes(p, r, p)
    /\ UNCHANGED pc

\* Phase 5 and the NOTIFY, both part of the transaction.
Deploy(p) == Phase(p, "settings", "ready", {})

\* Mutant: a commit that was not acknowledged is tried again.
CommitAgain(p, acked) ==
    /\ pc[p] = "ready" /\ ~app[p].dry_run
    /\ Publish(p)
    /\ reloads' = reloads + 1 /\ deployments' = deployments + 1
    /\ commits' = [commits EXCEPT ![p] = @ + 1]
    /\ tree' = p /\ alone' = ~disturbed[p]
    /\ disturbed' = [q \in Pushers |-> q # p]
    /\ Goto(p, IF acked THEN "ok" ELSE "begin")
    /\ deployments < 4
    /\ UNCHANGED <<app, again, ran, todo, wait, attempt, why>>

\* COMMIT: rows, ledger row and NOTIFY land together.  acked = FALSE: the
\* connection breaks before the answer, and push reports an error.
Commit(p, acked) ==
    /\ pc[p] = "ready" /\ ~app[p].dry_run
    /\ Publish(p)
    /\ reloads' = reloads + 1 /\ deployments' = deployments + 1
    /\ commits' = [commits EXCEPT ![p] = @ + 1]
    /\ tree' = p /\ alone' = ~disturbed[p]
    /\ disturbed' = [q \in Pushers |-> q # p]
    /\ IF acked THEN Goto(p, "ok") /\ UNCHANGED why ELSE Ends(p, "crashed")
    /\ UNCHANGED <<app, again, ran, todo, wait, attempt>>

\* Mutant: the NOTIFY is sent outside the transaction.
RollbackNotified(p) ==
    /\ pc[p] = "ready" /\ app[p].dry_run
    /\ Goto(p, "ok") /\ reloads' = reloads + 1
    /\ own' = [own EXCEPT ![p] = Unwritten]
    /\ UNCHANGED <<app, rows, deployments, ran, todo, wait, hit, attempt, why, again, history>>

\* A dry run ends here.
Rollback(p) ==
    /\ pc[p] = "ready" /\ app[p].dry_run
    /\ Discard(p) /\ Goto(p, "ok")
    /\ UNCHANGED <<attempt, why>>

\* Postgres breaks a cycle of waits.
Deadlock(p) ==
    /\ Deadlocked(p)
    /\ IF pc[p] = "files" THEN Bails(p, "deadlock") ELSE Fails(p, "deadlock")

\* User SQL raises, the connection breaks or the process is killed.
Crash(p) == pc[p] \notin {"ok", "failed"} /\ Bails(p, "crashed")

\* The same command again, by hand or by the file watcher of `pg-web dev`.
Repeat(p) ==
    /\ pc[p] \in {"ok", "failed"}
    /\ again < MaxAgain /\ again' = again + 1
    /\ Goto(p, "start")
    /\ attempt' = [attempt EXCEPT ![p] = 1]
    /\ why' = [why EXCEPT ![p] = "none"]
    /\ commits' = [commits EXCEPT ![p] = 0]
    /\ UNCHANGED <<app, database, todo, own, wait, hit, disturbed, tree, alone>>

Step(p) ==
    \/ Scan(p) \/ Gate(p) \/ LoadApplied(p) \/ RunFile(p) \/ CommitFile(p) \/ FilesDone(p)
    \/ Begin(p) \/ ApplyEntry(p) \/ Validate(p)
    \/ ListRoutes(p) \/ ListTemplates(p) \/ ListHandlers(p) \/ PublishAssets(p)
    \/ ListAssets(p) \/ SyncSettings(p) \/ Deploy(p)
    \/ \E r \in Row : Delete(p, r) \/ Drop(p, r) \/ Upsert(p, r) \/ Wait(p, r)
    \/ \E acked \in BOOLEAN : Commit(p, acked)
    \/ Rollback(p) \/ Deadlock(p)

Over == (\A p \in Pushers : pc[p] \in {"ok", "failed"}) /\ UNCHANGED vars

Next == (\E p \in Pushers : Step(p) \/ Crash(p) \/ Repeat(p)) \/ Over

Spec == Init /\ [][Next]_vars

\* A process that is not waiting runs, and Postgres finds deadlocks.
FairSpec == Spec /\ \A p \in Pushers : WF_vars(Step(p))

-----------------------------------------------------------------------------
(* Properties.                                                             *)

Committed(table) == {r \in Row : r[1] = table /\ rows[r] # Absent}
Ledger == {m \in 1 .. Migrations : rows[<<"migration", m>>] # Absent}
InTransaction(p) ==
    pc[p] \in {"apply", "validate", "routes", "templates", "handlers", "assets",
               "stale_assets", "settings", "ready"}

\* The filesystem is the source of truth.  After a push every row of its tree
\* is there in its own version, whoever else pushed meanwhile.  When no other
\* push committed during its transaction, the tables hold nothing else:
\* handlers its files did not define are those of an earlier push, and of the
\* routes only the framework's own may be left besides.  (Whether that one is
\* left is FrameworkRouteStays; no push ever brings it back.)
SourceOfTruth ==
    tree # Base =>
        /\ \A table \in {"handler", "template", "route", "asset", "setting"} :
             \A r \in Table(tree, table) :
                rows[r] = tree \/ (table = "handler" /\ r[2] \in app[tree].undefined)
        /\ alone =>
             /\ \A table \in {"handler", "template", "asset"} :
                  Committed(table) = Table(tree, table)
             /\ {r \in Committed("route") : rows[r] # Default} = Table(tree, "route")

\* Reconciling spares the framework's own route: however many trees without
\* that page are pushed, only the commit of one that has it takes its place.
FrameworkRouteStays ==
    [][LET r == <<"route", Health>> IN
         rows[r] = Default /\ rows'[r] # Default =>
            \E p \in Pushers :
               pc[p] = "ready" /\ pc'[p] # "ready" /\ Health \in app[p].pages /\ rows'[r] = p]_vars

\* A migration's SQL is committed at most once, together with its ledger row,
\* whoever else applies the same files at the same time.
MigrationsOnce == \A m \in 1 .. Migrations : ran[m] = (IF m \in Ledger THEN 1 ELSE 0)

\* A file runs after all the files before it in its own tree, also when other
\* processes apply other trees, fail, or overtake it between two files.  Across
\* trees there is no order: a file may be applied after later ones.
MigrationsInOrder ==
    \A p \in Pushers : \A m, n \in app[p].migrations :
        n < m /\ Holds(p, <<"migration", m>>) => n \in Ledger

\* The transaction of a real push runs against a schema with all of its
\* migrations, though the gate looked at the ledger before it began.
PushIsMigrated == \A p \in Pushers : InTransaction(p) /\ ~app[p].dry_run => Pending(p) = {}

\* One deployment, one ledger row, one NOTIFY: retries and commits without
\* an answer never deploy a tree twice, and a push that reports success did.
DeployedOnce ==
    /\ deployments = reloads
    /\ \A p \in Pushers :
         /\ commits[p] <= 1
         /\ (pc[p] = "ok" /\ app[p].command = "push" /\ ~app[p].dry_run) => commits[p] = 1

\* A dry run, with or without --with-migrate, changes nothing that another
\* session can see and wakes no worker.
DryRunIsSilent ==
    [][\A p \in Pushers : app[p].dry_run /\ pc'[p] # pc[p] => UNCHANGED database]_vars

\* Every command ends: waits on row locks are broken by a commit, a rollback
\* or the deadlock detector, and retries are bounded.
PushEnds == \A p \in Pushers : []<>(pc[p] \in {"ok", "failed"})

\* push.rs:10-14: a handler is validated so that no push would "leave a
\* dangling route": every route of a pushed page has its handler.
NoDanglingRoute ==
    \A k \in Pages :
        rows[<<"route", k>>] \notin {Absent, Default} => rows[<<"handler", k>>] # Absent
=============================================================================
