------------------------------- MODULE PushProofs -------------------------------
(***************************************************************************)
(* Theorems about Push, for any number of pushers, pages, files,           *)
(* migrations and attempts.  They are proved in layers, each using the     *)
(* ones before it: types; row locks and the ledger of migrations;          *)
(* deployments; what a push leaves in the tables.  The steps of a pusher   *)
(* are first brought into a few shapes, and each invariant is shown to     *)
(* survive each shape.                                                     *)
(***************************************************************************)
EXTENDS Push, WellFoundedInduction, TLAPS

Tables == {"handler", "template", "route", "asset", "setting"}

LEMMA Bounds ==
    /\ Pages \subseteq Nat /\ Files \subseteq Nat /\ Migrations \in Nat
    /\ MaxAttempts \in Nat \ {0} /\ MaxAgain \in Nat /\ Health \in Pages
  BY PushAssumption

LEMMA Values ==
    /\ Untouched \notin Pushers /\ Base \notin Pushers /\ Default \notin Pushers
    /\ Absent \notin Pushers
    /\ Untouched # Base /\ Untouched # Default /\ Untouched # Absent
    /\ Base # Default /\ Base # Absent /\ Default # Absent
  BY PushAssumption DEF Value

LEMMA RowShape ==
    ASSUME NEW r \in Row
    PROVE  /\ r = <<r[1], r[2]>> /\ r[2] \in Nat
           /\ r[1] = "migration" => r[2] \in 1 .. Migrations
           /\ r[1] \in Tables \cup {"migration"}
<1>1. CASE r \in {"handler", "template", "route"} \X Pages
  <2>1. PICK t \in {"handler", "template", "route"}, k \in Pages : r = <<t, k>>
    BY <1>1
  <2>2. QED  BY <2>1, Bounds DEF Tables
<1>2. CASE r \in {"asset"} \X Files
  <2>1. PICK k \in Files : r = <<"asset", k>>
    BY <1>2
  <2>2. QED  BY <2>1, Bounds DEF Tables
<1>3. CASE r = <<"setting", 0>>
  BY <1>3 DEF Tables
<1>4. CASE r \in {"migration"} \X (1 .. Migrations)
  BY <1>4, Bounds
<1>5. QED  BY <1>1, <1>2, <1>3, <1>4 DEF Row

LEMMA LedgerRow ==
    ASSUME NEW m \in 1 .. Migrations
    PROVE  <<"migration", m>> \in Row
  BY DEF Row

LEMMA AppTyped ==
    ASSUME TypeOK, NEW p \in Pushers
    PROVE  /\ app[p] \in App
           /\ app[p].templates \subseteq app[p].pages /\ app[p].undefined \subseteq app[p].pages
           /\ app[p].migrations \subseteq 1 .. Migrations
           /\ Migrations \in Nat /\ app[p].pages \subseteq Pages /\ app[p].assets \subseteq Files
           /\ app[p].command \in {"push", "migrate"} /\ app[p].dry_run \in BOOLEAN
           /\ app[p].command = "migrate" => app[p].dry_run = FALSE
<1>1. app[p] \in Apps
  BY DEF TypeOK
<1>2. /\ app[p] \in App
      /\ app[p].templates \cup app[p].undefined \subseteq app[p].pages
      /\ app[p].command = "migrate" => app[p].dry_run = FALSE
  BY <1>1, PushAssumption
<1>3. /\ app[p].migrations \subseteq 1 .. Migrations /\ app[p].pages \subseteq Pages
      /\ app[p].assets \subseteq Files
      /\ app[p].command \in {"push", "migrate"} /\ app[p].dry_run \in BOOLEAN
  BY <1>2 DEF App
<1>4. QED  BY <1>2, <1>3, Bounds

LEMMA TableRows ==
    ASSUME TypeOK, NEW p \in Pushers, NEW table \in Tables
    PROVE  /\ Table(p, table) \subseteq Row
           /\ \A r \in Table(p, table) : r[1] = table
<1>1. /\ app[p].templates \subseteq Pages /\ app[p].pages \subseteq Pages
      /\ app[p].assets \subseteq Files
  BY AppTyped
<1>2. CASE table = "asset"
  BY <1>1, <1>2 DEF Table, Row
<1>3. CASE table = "template"
  BY <1>1, <1>3 DEF Table, Row
<1>4. CASE table = "setting"
  BY <1>4 DEF Table, Row
<1>5. CASE table \in {"handler", "route"}
  BY <1>1, <1>5 DEF Table, Row
<1>6. QED  BY <1>2, <1>3, <1>4, <1>5 DEF Tables

\* The next file, or statement of apply_entry, is the least one left.
LEMMA FirstIsLeast ==
    ASSUME NEW S \in SUBSET Row, S # {}
    PROVE  First(S) \in S /\ \A s \in S : Before(First(S), s)
<1> DEFINE Key(r) == 3 * r[2] + Rank(r[1])
           T == {Key(r) : r \in S}
<1>1. \A t : Rank(t) \in 0 .. 2
  BY DEF Rank
<1>2. \A r \in S : r[2] \in Nat /\ Key(r) \in Nat
  BY <1>1, RowShape
<1>3. T \subseteq Nat /\ T # {}
  BY <1>2
<1>4. PICK n \in T : \A k \in T : ~(<<k, n>> \in OpToRel(<, Nat))
  <2> HIDE DEF T
  <2> QED  BY <1>3, WFMin, NatLessThanWellFounded
<1>5. ASSUME NEW k \in T PROVE n <= k
  <2> HIDE DEF T
  <2>1. k \in Nat /\ n \in Nat /\ ~(<<k, n>> \in OpToRel(<, Nat))
    BY <1>3, <1>4
  <2>2. k < n => <<k, n>> \in OpToRel(<, Nat)
    BY <2>1 DEF OpToRel
  <2>3. ~(k < n)
    BY <2>1, <2>2, Zenon
  <2>4. k \in Nat /\ n \in Nat
    BY <2>1, Zenon
  <2>5. QED  BY <2>3, <2>4
<1>6. PICK r \in S : n = Key(r)
  OBVIOUS
<1>7. ASSUME NEW s \in S PROVE Before(r, s)
  <2>1. Key(r) <= Key(s)
    BY <1>5, <1>6
  <2>2. Rank(r[1]) \in 0 .. 2 /\ Rank(s[1]) \in 0 .. 2 /\ r[2] \in Nat /\ s[2] \in Nat
    BY <1>1, <1>2
  <2>3. QED  BY <2>1, <2>2 DEF Before
<1>8. QED  BY <1>7 DEF First

-----------------------------------------------------------------------------
(* Types.                                                                  *)

LEMMA InitTyped == Init => TypeOK
<1> SUFFICES ASSUME Init PROVE TypeOK
  OBVIOUS
<1>1. rows \in [Row -> Value]
  BY DEF Init, Value
<1>2. own \in [Pushers -> [Row -> Value \cup {Untouched}]]
  BY DEF Init, Unwritten
<1>3. attempt \in [Pushers -> 1 .. MaxAttempts] /\ again \in 0 .. MaxAgain
  BY Bounds DEF Init
<1>4. QED  BY <1>1, <1>2, <1>3 DEF Init, TypeOK, Place, Conflict

LEMMA UnwrittenTyped == Unwritten \in [Row -> Value \cup {Untouched}]
  BY DEF Unwritten

\* A rollback keeps the types, wherever the pusher goes then.
LEMMA DiscardTyped ==
    ASSUME TypeOK, NEW p \in Pushers, Discard(p), pc' \in [Pushers -> Place],
           attempt' \in [Pushers -> 1 .. MaxAttempts],
           why' \in [Pushers -> Conflict \cup {"deadlock", "refused", "crashed"}]
    PROVE  TypeOK'
<1>1. own' \in [Pushers -> [Row -> Value \cup {Untouched}]]
  BY UnwrittenTyped DEF TypeOK, Discard
<1>2. QED  BY <1>1 DEF TypeOK, Discard, database, history, Conflict

LEMMA FailsTyped ==
    ASSUME TypeOK, NEW p \in Pushers, NEW error \in Conflict \cup {"deadlock", "refused"},
           Fails(p, error)
    PROVE  TypeOK'
<1>1. attempt' \in [Pushers -> 1 .. MaxAttempts]
  <2>1. CASE attempt[p] < MaxAttempts /\ attempt' = [attempt EXCEPT ![p] = @ + 1]
    BY <2>1, Bounds DEF TypeOK
  <2>2. CASE attempt' = attempt
    BY <2>2 DEF TypeOK
  <2>3. QED  BY <2>1, <2>2 DEF Fails
<1>2. pc' \in [Pushers -> Place]
  BY DEF TypeOK, Fails, Goto, Ends, Place
<1>3. why' \in [Pushers -> Conflict \cup {"deadlock", "refused", "crashed"}]
  BY DEF TypeOK, Fails, Ends
<1>4. QED  BY <1>1, <1>2, <1>3, DiscardTyped DEF Fails

LEMMA BailsTyped ==
    ASSUME TypeOK, NEW p \in Pushers,
           NEW error \in Conflict \cup {"deadlock", "refused", "crashed"}, Bails(p, error)
    PROVE  TypeOK'
<1>1. pc' \in [Pushers -> Place]
  BY DEF TypeOK, Bails, Goto, Ends, Place
<1>2. why' \in [Pushers -> Conflict \cup {"deadlock", "refused", "crashed"}]
  BY DEF TypeOK, Bails, Ends
<1>3. attempt' \in [Pushers -> 1 .. MaxAttempts]
  BY DEF TypeOK, Bails
<1>4. QED  BY <1>1, <1>2, <1>3, DiscardTyped DEF Bails

LEMMA StaysTyped ==
    ASSUME TypeOK, NEW p \in Pushers, NEW place \in Place, Stays(p, place)
    PROVE  TypeOK'
  BY DEF TypeOK, Stays, Goto, database, session, history

LEMMA WritesTyped ==
    ASSUME TypeOK, NEW p \in Pushers, NEW r \in Row, NEW v \in Value \cup {Untouched},
           Writes(p, r, v), pc' \in [Pushers -> Place]
    PROVE  TypeOK'
<1>1. own' \in [Pushers -> [Row -> Value \cup {Untouched}]]
  BY DEF TypeOK, Writes
<1>2. QED  BY <1>1 DEF TypeOK, Writes, database, history, Conflict

LEMMA PhaseTyped ==
    ASSUME TypeOK, NEW p \in Pushers, NEW from, NEW to \in Place, NEW S \in SUBSET Row,
           Phase(p, from, to, S)
    PROVE  TypeOK'
  BY DEF TypeOK, Phase, Goto, database, history

\* The tables after a commit, and what those who waited for it find.
LEMMA PublishTyped ==
    ASSUME TypeOK, NEW p \in Pushers, Publish(p)
    PROVE  /\ rows' \in [Row -> Value]
           /\ own' \in [Pushers -> [Row -> Value \cup {Untouched}]]
           /\ hit' \in [Pushers -> Conflict]
<1>1. \A r \in Row : View(p, r) \in Value
  BY DEF TypeOK, View
<1>2. own' \in [Pushers -> [Row -> Value \cup {Untouched}]]
  BY UnwrittenTyped DEF TypeOK, Publish
<1>3. \A q \in Pushers : \A r : Outcome(q, r) \in Conflict
  BY DEF Outcome, Conflict
<1>4. hit' \in [Pushers -> Conflict]
  BY <1>3 DEF TypeOK, Publish
<1>5. QED  BY <1>1, <1>2, <1>4 DEF Publish

LEMMA StaleRows ==
    ASSUME NEW p \in Pushers, NEW table
    PROVE  Stale(p, table) \subseteq Row
  BY DEF Stale

\* The migrations.
LEMMA MigrateTyped ==
    ASSUME TypeOK, NEW p \in Pushers,
           Scan(p) \/ Gate(p) \/ LoadApplied(p) \/ RunFile(p) \/ CommitFile(p) \/ FilesDone(p)
    PROVE  TypeOK'
<1>1. CASE Scan(p)
  BY <1>1, StaysTyped, BailsTyped DEF Scan, Place
<1>2. CASE Gate(p)
  BY <1>2, StaysTyped, BailsTyped DEF Gate, Place
<1>3. CASE LoadApplied(p)
  <2>1. Pending(p) \subseteq 1 .. Migrations
    BY AppTyped DEF Pending
  <2>2. {<<"migration", m>> : m \in Pending(p)} \subseteq Row
    BY <2>1, LedgerRow
  <2>3. pc' \in [Pushers -> Place] /\ todo' \in [Pushers -> SUBSET Row]
    BY <1>3, <2>2 DEF LoadApplied, Goto, TypeOK, Place
  <2>4. QED  BY <1>3, <2>3 DEF LoadApplied, TypeOK, database, history
<1>4. CASE RunFile(p)
  <2> DEFINE r == First(todo[p])
  <2>1. r \in Row
    BY <1>4, FirstIsLeast DEF RunFile, TypeOK
  <2>2. CASE Writes(p, r, p) /\ Goto(p, "recorded")
    BY <2>1, <2>2, WritesTyped DEF Goto, TypeOK, Place, Value
  <2>3. CASE Bails(p, "exists")
    BY <2>3, BailsTyped DEF Conflict
  <2>4. QED  BY <1>4, <2>2, <2>3 DEF RunFile
<1>5. CASE CommitFile(p)
  <2>1. ran' \in [1 .. Migrations -> Nat]
    BY <1>5 DEF CommitFile, TypeOK
  <2>2. pc' \in [Pushers -> Place]
    BY <1>5 DEF CommitFile, TypeOK, Goto, Place
  <2>3. QED  BY <1>5, <2>1, <2>2, PublishTyped DEF CommitFile, TypeOK, history
<1>6. CASE FilesDone(p)
  BY <1>6, StaysTyped DEF FilesDone, Place
<1>7. QED  BY <1>1, <1>2, <1>3, <1>4, <1>5, <1>6

\* The statements of a push.
LEMMA StatementTyped ==
    ASSUME TypeOK, NEW p \in Pushers,
           ApplyEntry(p) \/ \E r \in Row : Delete(p, r) \/ Drop(p, r) \/ Upsert(p, r) \/ Wait(p, r)
    PROVE  TypeOK'
<1> USE DEF Value
<1>1. CASE ApplyEntry(p)
  <2> DEFINE r == First(todo[p])
  <2>1. r \in Row
    BY <1>1, FirstIsLeast DEF ApplyEntry, TypeOK
  <2>2. CASE Fails(p, hit[p])
    BY <2>2, FailsTyped DEF TypeOK
  <2>3. CASE Writes(p, r, p) /\ UNCHANGED pc
    BY <2>1, <2>3, WritesTyped DEF TypeOK
  <2>4. QED  BY <1>1, <2>2, <2>3 DEF ApplyEntry
<1>2. ASSUME NEW r \in Row, Delete(p, r) PROVE TypeOK'
  <2>1. (IF View(p, r) = Absent THEN own[p][r] ELSE Absent) \in Value \cup {Untouched}
    BY DEF TypeOK
  <2>2. QED  BY <1>2, <2>1, WritesTyped DEF Delete, TypeOK
<1>3. ASSUME NEW r \in Row, Drop(p, r) PROVE TypeOK'
  <2>1. CASE Fails(p, hit[p])
    BY <2>1, FailsTyped DEF TypeOK
  <2>2. CASE Fails(p, "deleted")
    BY <2>2, FailsTyped DEF Conflict
  <2>3. CASE Writes(p, r, Absent) /\ UNCHANGED pc
    BY <2>3, WritesTyped DEF TypeOK
  <2>4. QED  BY <1>3, <2>1, <2>2, <2>3 DEF Drop
<1>4. ASSUME NEW r \in Row, Upsert(p, r) PROVE TypeOK'
  BY <1>4, WritesTyped DEF Upsert, TypeOK
<1>5. ASSUME NEW r \in Row, Wait(p, r) PROVE TypeOK'
  BY <1>5 DEF Wait, TypeOK, database, history
<1>6. QED  BY <1>1, <1>2, <1>3, <1>4, <1>5

\* The phases between them.
LEMMA PhasesTyped ==
    ASSUME TypeOK, NEW p \in Pushers,
           \/ Begin(p) \/ Validate(p) \/ ListRoutes(p) \/ ListTemplates(p) \/ ListHandlers(p)
           \/ PublishAssets(p) \/ ListAssets(p) \/ SyncSettings(p) \/ Deploy(p)
    PROVE  TypeOK'
<1> USE DEF Place
<1>1. CASE Begin(p)
  <2> DEFINE S == (Table(p, "handler") \ ({"handler"} \X app[p].undefined))
                    \cup Table(p, "template") \cup Table(p, "route")
  <2>1. S \subseteq Row
    BY TableRows DEF Tables
  <2>2. todo' \in [Pushers -> SUBSET Row]
    BY <1>1, <2>1 DEF Begin, TypeOK
  <2>3. pc' \in [Pushers -> Place] /\ disturbed' \in [Pushers -> BOOLEAN]
    BY <1>1 DEF Begin, Goto, TypeOK
  <2>4. QED  BY <1>1, <2>2, <2>3 DEF Begin, TypeOK, database
<1>2. CASE Validate(p)
  BY <1>2, PhaseTyped, FailsTyped DEF Validate
<1>3. CASE ListRoutes(p) \/ ListTemplates(p) \/ ListHandlers(p) \/ ListAssets(p)
  BY <1>3, PhaseTyped, StaleRows DEF ListRoutes, ListTemplates, ListHandlers, ListAssets
<1>4. CASE PublishAssets(p) \/ SyncSettings(p)
  BY <1>4, PhaseTyped, TableRows DEF PublishAssets, SyncSettings, Tables
<1>5. CASE Deploy(p)
  BY <1>5, PhaseTyped DEF Deploy
<1>6. QED  BY <1>1, <1>2, <1>3, <1>4, <1>5

\* How a command ends, and starts again.
LEMMA EndTyped ==
    ASSUME TypeOK, NEW p \in Pushers,
           \/ \E acked \in BOOLEAN : Commit(p, acked)
           \/ Rollback(p) \/ Deadlock(p) \/ Crash(p) \/ Repeat(p)
    PROVE  TypeOK'
<1>1. ASSUME NEW acked \in BOOLEAN, Commit(p, acked) PROVE TypeOK'
  <2>1. pc' \in [Pushers -> Place]
    <3>1. PICK to \in {"ok", "failed"} : Goto(p, to)
      BY <1>1 DEF Commit, Ends
    <3>2. to \in Place
      BY DEF Place
    <3>3. QED  BY <3>1, <3>2 DEF Goto, TypeOK
  <2>2. why' \in [Pushers -> Conflict \cup {"deadlock", "refused", "crashed"}]
    BY <1>1 DEF Commit, Ends, TypeOK
  <2>3. commits' \in [Pushers -> Nat] /\ tree' \in Pushers \cup {Base}
    BY <1>1 DEF Commit, TypeOK
  <2>4. disturbed' \in [Pushers -> BOOLEAN]
    BY <1>1 DEF Commit
  <2>5. reloads' \in Nat /\ deployments' \in Nat
    BY <1>1 DEF Commit, TypeOK
  <2>6. QED  BY <1>1, <2>1, <2>2, <2>3, <2>4, <2>5, PublishTyped DEF Commit, TypeOK
<1>2. CASE Rollback(p)
  BY <1>2, DiscardTyped DEF Rollback, Goto, TypeOK, Place
<1>3. CASE Deadlock(p)
  BY <1>3, BailsTyped, FailsTyped DEF Deadlock
<1>4. CASE Crash(p)
  BY <1>4, BailsTyped DEF Crash
<1>5. CASE Repeat(p)
  <2>1. again' \in 0 .. MaxAgain /\ attempt' \in [Pushers -> 1 .. MaxAttempts]
    BY <1>5, Bounds DEF Repeat, TypeOK
  <2>2. pc' \in [Pushers -> Place] /\ commits' \in [Pushers -> Nat]
    BY <1>5 DEF Repeat, Goto, TypeOK, Place
  <2>3. why' \in [Pushers -> Conflict \cup {"deadlock", "refused", "crashed"}]
    BY <1>5 DEF Repeat, TypeOK, Conflict
  <2>4. QED  BY <1>5, <2>1, <2>2, <2>3 DEF Repeat, TypeOK, database
<1>6. QED  BY <1>1, <1>2, <1>3, <1>4, <1>5

\* Every pusher stays at a place of the command, with at most MaxAttempts
\* attempts, rows of the tables left to write and at most one row waited for.
THEOREM TypeCorrect == Spec => []TypeOK
<1>1. TypeOK /\ UNCHANGED vars => TypeOK'
  BY DEF TypeOK, vars, database, session, history
<1>2. ASSUME TypeOK, [Next]_vars PROVE TypeOK'
  <2>1. ASSUME NEW p \in Pushers, Step(p) PROVE TypeOK'
    BY <1>2, <2>1, MigrateTyped, StatementTyped, PhasesTyped, EndTyped DEF Step
  <2>2. ASSUME NEW p \in Pushers, Crash(p) \/ Repeat(p) PROVE TypeOK'
    BY <1>2, <2>2, EndTyped
  <2>3. CASE Over \/ UNCHANGED vars
    BY <1>1, <1>2, <2>3 DEF Over
  <2>4. QED  BY <1>2, <2>1, <2>2, <2>3 DEF Next
<1>3. QED  BY InitTyped, <1>2, PTL DEF Spec

-----------------------------------------------------------------------------
(* The shapes of a step of p.                                              *)

\* Where a pusher has the transaction of its push open.
Open == {"apply", "validate", "routes", "templates", "handlers", "assets",
         "stale_assets", "settings", "ready"}

\* p goes on without having written anything.
Moves(p, to) ==
    /\ Stays(p, to)
    /\ \/ pc[p] = "start" /\ to = "ledger" /\ app[p].command = "migrate"
       \/ pc[p] = "start" /\ to = "gate" /\ app[p].command = "push"
       \/ pc[p] = "gate" /\ to = "begin" /\ (Pending(p) = {} \/ app[p].dry_run)
       \/ pc[p] = "gate" /\ to = "ledger" /\ ~app[p].dry_run
       \/ pc[p] = "files" /\ to = "ok" /\ todo[p] = {} /\ app[p].command = "migrate"
       \/ pc[p] = "files" /\ to = "begin" /\ todo[p] = {} /\ app[p].command = "push"

\* p's transaction, if it has one, is rolled back.
RollsBack(p, to) ==
    /\ Discard(p) /\ Goto(p, to) /\ pc[p] \notin {"ok", "failed"}
    /\ \/ to = "failed"
       \/ to = "begin" /\ pc[p] \in Open
       \/ to = "ok" /\ pc[p] \in Open /\ app[p].dry_run

\* p runs the SQL of the next migration file.
Records(p) ==
    /\ pc[p] = "files" /\ todo[p] # {} /\ ~Locked(p, First(todo[p]))
    /\ rows[First(todo[p])] = Absent
    /\ Writes(p, First(todo[p]), p) /\ Goto(p, "recorded")

\* p upserts or deletes a row of its phase.
Sets(p, r, v) ==
    /\ r \in todo[p] /\ ~Locked(p, r) /\ Writes(p, r, v) /\ UNCHANGED pc
    /\ \/ pc[p] \in {"apply", "assets", "settings"} /\ v = p
       \/ /\ pc[p] \in {"routes", "templates", "handlers", "stale_assets"}
          /\ v = IF View(p, r) = Absent THEN own[p][r] ELSE Absent

\* p enters the next phase of its transaction.
Enters(p, to) ==
    \/ to = "validate" /\ Phase(p, "apply", to, {})
         /\ \A r \in Table(p, "handler") : View(p, r) # Absent
    \/ to = "routes" /\ Phase(p, "validate", to, Stale(p, "route"))
    \/ to = "templates" /\ Phase(p, "routes", to, Stale(p, "template"))
    \/ to = "handlers" /\ Phase(p, "templates", to, Stale(p, "handler"))
    \/ to = "assets" /\ Phase(p, "handlers", to, Table(p, "asset"))
    \/ to = "stale_assets" /\ Phase(p, "assets", to, Stale(p, "asset"))
    \/ to = "settings" /\ Phase(p, "stale_assets", to, Table(p, "setting"))
    \/ to = "ready" /\ Phase(p, "settings", to, {})

Shapes(p) ==
    \/ \E to \in Place : Moves(p, to) \/ RollsBack(p, to) \/ Enters(p, to)
    \/ LoadApplied(p) \/ Records(p) \/ CommitFile(p) \/ Begin(p) \/ Repeat(p)
    \/ \E r \in Row, v \in Value \cup {Untouched} : Sets(p, r, v)
    \/ \E r \in Row : Wait(p, r)
    \/ \E acked \in BOOLEAN : Commit(p, acked)

\* The rows the statements of a place write.
Applied(p) ==
    (Table(p, "handler") \ ({"handler"} \X app[p].undefined))
      \cup Table(p, "template") \cup Table(p, "route")
Gone(p, table) == {r \in Row : r[1] = table /\ r \notin Table(p, table)}
Scope(p) ==
    CASE pc[p] \in {"files", "recorded"} -> {"migration"} \X app[p].migrations
      [] pc[p] = "apply" -> Applied(p)
      [] pc[p] = "routes" -> Gone(p, "route")
      [] pc[p] = "templates" -> Gone(p, "template")
      [] pc[p] = "handlers" -> Gone(p, "handler")
      [] pc[p] = "assets" -> Table(p, "asset")
      [] pc[p] = "stale_assets" -> Gone(p, "asset")
      [] pc[p] = "settings" -> Table(p, "setting")
      [] OTHER -> {}

\* A pusher has only rows of its place left to write, and waits for one of them.
InScope ==
    \A p \in Pushers :
        /\ todo[p] \subseteq Scope(p)
        /\ wait[p] # Untouched => wait[p] \in todo[p] /\ pc[p] # "recorded"

LEMMA ScopeRows ==
    ASSUME TypeOK, NEW p \in Pushers
    PROVE  /\ pc[p] \in Open => \A r \in Scope(p) : r[1] # "migration"
           /\ pc[p] \notin Open \cup {"files", "recorded"} => Scope(p) = {}
           /\ pc[p] \in {"files", "recorded"} =>
                Scope(p) = {"migration"} \X app[p].migrations
<1>1. \A r \in Applied(p) : r[1] # "migration"
  BY TableRows DEF Applied, Tables
<1>2. \A table \in Tables : \A r \in Gone(p, table) \cup Table(p, table) : r[1] # "migration"
  BY TableRows DEF Gone, Tables
<1>3. ASSUME pc[p] \in Open PROVE \A r \in Scope(p) : r[1] # "migration"
  BY <1>1, <1>2, <1>3 DEF Scope, Open, Tables
<1>4. ASSUME pc[p] \notin Open \cup {"files", "recorded"} PROVE Scope(p) = {}
  BY <1>4 DEF Scope, Open
<1>5. QED  BY <1>3, <1>4 DEF Scope

\* Fails is only met inside a transaction.
LEMMA FailsShape ==
    ASSUME TypeOK, NEW p \in Pushers, NEW error, Fails(p, error), pc[p] \in Open
    PROVE  RollsBack(p, "failed") \/ RollsBack(p, "begin")
  BY DEF Fails, Ends, RollsBack, Open

LEMMA BailsShape ==
    ASSUME TypeOK, NEW p \in Pushers, NEW error, Bails(p, error), pc[p] \notin {"ok", "failed"}
    PROVE  RollsBack(p, "failed")
  BY DEF Bails, Ends, RollsBack

LEMMA StepShapes ==
    ASSUME TypeOK, InScope, NEW p \in Pushers, Step(p) \/ Crash(p) \/ Repeat(p)
    PROVE  Shapes(p)
<1> USE DEF Shapes, Place
<1>1. CASE Scan(p)
  BY <1>1, AppTyped, BailsShape DEF Scan, Moves
<1>2. CASE Gate(p)
  BY <1>2, BailsShape DEF Gate, Moves
<1>3. CASE RunFile(p)
  BY <1>3, BailsShape DEF RunFile, Records
<1>4. CASE FilesDone(p)
  BY <1>4, AppTyped DEF FilesDone, Moves
<1>5. CASE ApplyEntry(p)
  <2>1. First(todo[p]) \in todo[p] /\ First(todo[p]) \in Row
    BY <1>5, FirstIsLeast DEF ApplyEntry, TypeOK
  <2>2. pc[p] \in Open /\ pc[p] = "apply"
    BY <1>5 DEF ApplyEntry, Open
  <2>3. CASE Fails(p, hit[p])
    BY <2>2, <2>3, FailsShape
  <2>4. CASE Writes(p, First(todo[p]), p) /\ UNCHANGED pc
    <3>1. Sets(p, First(todo[p]), p) /\ p \in Value
      BY <1>5, <2>1, <2>2, <2>4 DEF Sets, ApplyEntry, Value
    <3>2. QED  BY <2>1, <3>1
  <2>5. QED  BY <1>5, <2>3, <2>4 DEF ApplyEntry
<1>6. CASE Validate(p)
  <2>1. pc[p] \in Open
    BY <1>6 DEF Validate, Open
  <2>2. Fails(p, "refused") \/ Enters(p, "validate")
    BY <1>6 DEF Validate, Enters
  <2>3. QED  BY <2>1, <2>2, FailsShape
<1>7. CASE \/ ListRoutes(p) \/ ListTemplates(p) \/ ListHandlers(p) \/ PublishAssets(p)
          \/ ListAssets(p) \/ SyncSettings(p) \/ Deploy(p)
  BY <1>7 DEF ListRoutes, ListTemplates, ListHandlers, PublishAssets, ListAssets,
              SyncSettings, Deploy, Enters
<1>8. ASSUME NEW r \in Row, Delete(p, r) \/ Upsert(p, r) PROVE Shapes(p)
  <2> DEFINE d == IF View(p, r) = Absent THEN own[p][r] ELSE Absent
  <2>1. d \in Value \cup {Untouched} /\ p \in Value
    BY DEF TypeOK, Value
  <2>2. Sets(p, r, d) \/ Sets(p, r, p)
    BY <1>8 DEF Delete, Upsert, Current, Sets
  <2>3. QED  BY <2>1, <2>2
<1>9. ASSUME NEW r \in Row, Drop(p, r) PROVE Shapes(p)
  <2>1. pc[p] \in Open /\ pc[p] = "handlers"
    BY <1>9 DEF Drop, Open
  <2>2. CASE Fails(p, hit[p]) \/ Fails(p, "deleted")
    BY <2>1, <2>2, FailsShape
  <2>3. CASE Writes(p, r, Absent) /\ UNCHANGED pc /\ View(p, r) # Absent
    <3>1. Sets(p, r, Absent) /\ Absent \in Value
      BY <1>9, <2>1, <2>3 DEF Drop, Current, Sets, Value
    <3>2. QED  BY <3>1
  <2>4. QED  BY <1>9, <2>2, <2>3 DEF Drop
<1>10. CASE Rollback(p)
  BY <1>10 DEF Rollback, RollsBack, Open
<1>11. CASE Deadlock(p)
  <2>1. wait[p] # Untouched
    BY <1>11 DEF Deadlock, Deadlocked, WaitsFor
  <2>2. todo[p] # {} /\ pc[p] # "recorded"
    BY <2>1 DEF InScope
  <2>3. pc[p] \in Open \cup {"files"}
    BY <2>2, ScopeRows DEF InScope
  <2>4. CASE pc[p] = "files" /\ Bails(p, "deadlock")
    BY <2>4, BailsShape
  <2>5. CASE pc[p] \in Open /\ Fails(p, "deadlock")
    BY <2>5, FailsShape
  <2>6. QED  BY <1>11, <2>3, <2>4, <2>5 DEF Deadlock, Open
<1>12. CASE Crash(p)
  BY <1>12, BailsShape DEF Crash
<1>13. QED
  BY <1>1, <1>2, <1>3, <1>4, <1>5, <1>6, <1>7, <1>8, <1>9, <1>10, <1>11, <1>12 DEF Step

-----------------------------------------------------------------------------
(* Row locks and the ledger of migrations.                                 *)

\* A row is written by one open transaction at a time, as its own or as
\* deleted; only a migration writes the ledger, only a push the rest.
Locks ==
    /\ \A p, q \in Pushers : p # q => \A r \in Row : ~(Holds(p, r) /\ Holds(q, r))
    /\ \A p \in Pushers : \A r \in Row :
         Holds(p, r) => /\ own[p][r] \in {p, Absent}
                        /\ IF r[1] = "migration" THEN pc[p] = "recorded" ELSE pc[p] \in Open

\* The file that p has run and not committed is missing from the ledger, and
\* is the first such file of p's tree.
RunsNext(p, m) ==
    /\ m \notin Ledger
    /\ \A n \in app[p].migrations : n < m => n \in Ledger
    /\ \A n \in 1 .. Migrations : own[p][<<"migration", n>>] = IF n = m THEN p ELSE Untouched
Recorded ==
    \A p \in Pushers : pc[p] = "recorded" =>
        \E m \in app[p].migrations : RunsNext(p, m)

\* A file that is missing from the ledger is still to be run.
Applying ==
    \A p \in Pushers : pc[p] \in {"files", "recorded"} =>
        \A m \in Pending(p) : <<"migration", m>> \in todo[p] \/ Holds(p, <<"migration", m>>)

\* A retry, too, starts with all of the migrations in place.
Migrated ==
    \A p \in Pushers : pc[p] \in Open \cup {"begin"} /\ ~app[p].dry_run => Pending(p) = {}

LInv == InScope /\ Locks /\ Recorded /\ Applying /\ Migrated

LEMMA DiscardsAll ==
    ASSUME TypeOK, NEW p \in Pushers, own' = [own EXCEPT ![p] = Unwritten]
    PROVE  \A q \in Pushers : \A s \in Row :
              own'[q][s] = IF q = p THEN Untouched ELSE own[q][s]
  BY DEF TypeOK, Unwritten

LEMMA GotoPlace ==
    ASSUME TypeOK, NEW p \in Pushers, NEW place, Goto(p, place)
    PROVE  \A q \in Pushers : pc'[q] = IF q = p THEN place ELSE pc[q]
  BY DEF TypeOK, Goto

\* Locks are kept when p lets go of all of its rows, and when it writes one.
LEMMA LocksReleased ==
    ASSUME Locks, NEW p \in Pushers,
           \A q \in Pushers : q # p => pc'[q] = pc[q],
           \A q \in Pushers : \A s \in Row : own'[q][s] = IF q = p THEN Untouched ELSE own[q][s]
    PROVE  Locks'
<1>1. ASSUME NEW q \in Pushers, NEW s \in Row, Holds(q, s)'
      PROVE  q # p /\ Holds(q, s) /\ own'[q][s] = own[q][s] /\ pc'[q] = pc[q]
  BY <1>1 DEF Holds
<1>2. QED  BY <1>1 DEF Locks

LEMMA LocksWritten ==
    ASSUME Locks, NEW p \in Pushers, NEW r \in Row, NEW v \in {p, Absent, own[p][r]},
           ~Locked(p, r),
           \A q \in Pushers : q # p => pc'[q] = pc[q],
           \A q \in Pushers : \A s \in Row :
              own'[q][s] = IF q = p /\ s = r THEN v ELSE own[q][s],
           IF r[1] = "migration" THEN pc'[p] = "recorded" ELSE pc'[p] \in Open,
           pc'[p] = pc[p] \/ \A s \in Row : ~Holds(p, s)
    PROVE  Locks'
<1>1. ASSUME NEW q \in Pushers, NEW s \in Row, Holds(q, s)'
      PROVE  /\ Holds(q, s) \/ (q = p /\ s = r)
             /\ own'[q][s] \in {q, Absent}
             /\ IF s[1] = "migration" THEN pc'[q] = "recorded" ELSE pc'[q] \in Open
  <2>1. CASE q = p /\ s = r
    BY <1>1, <2>1 DEF Locks, Holds
  <2>2. CASE ~(q = p /\ s = r)
    <3>1. Holds(q, s) /\ own'[q][s] = own[q][s]
      BY <1>1, <2>2 DEF Holds
    <3>2. pc'[q] = pc[q]
      BY <3>1
    <3>3. QED  BY <3>1, <3>2 DEF Locks
  <2>3. QED  BY <2>1, <2>2
<1>2. \A q \in Pushers : q # p => ~Holds(q, r)
  BY DEF Locked
<1>3. ASSUME NEW q1 \in Pushers, NEW q2 \in Pushers, q1 # q2, NEW s \in Row,
             Holds(q1, s)', Holds(q2, s)'
      PROVE  FALSE
  <2>1. s # r \/ q1 # p => Holds(q1, s)
    BY <1>1, <1>3
  <2>2. s # r \/ q2 # p => Holds(q2, s)
    BY <1>1, <1>3
  <2>3. QED  BY <1>2, <1>3, <2>1, <2>2 DEF Locks
<1>4. QED  BY <1>1, <1>3 DEF Locks

LEMMA LocksKept ==
    ASSUME TypeOK, InScope, Locks, NEW p \in Pushers, Shapes(p)
    PROVE  Locks'
<1>1. ASSUME NEW to \in Place, Moves(p, to) PROVE Locks'
  <2>1. \A r \in Row : own[p][r] = Untouched
    BY <1>1 DEF Moves, Open, Locks, Holds
  <2>2. own' = own
    BY <1>1 DEF Moves, Stays, session
  <2>3. QED  BY <1>1, <2>1, <2>2, GotoPlace DEF Moves, Stays, Locks, Holds
<1>2. ASSUME NEW to \in Place, RollsBack(p, to) PROVE Locks'
  BY <1>2, GotoPlace, DiscardsAll, LocksReleased DEF RollsBack, Discard
<1>3. ASSUME NEW to \in Place, Enters(p, to) PROVE Locks'
  <2>1. pc[p] \in Open /\ to \in Open /\ Goto(p, to) /\ own' = own
    BY <1>3 DEF Enters, Phase, Open
  <2>2. pc[p] # "recorded"
    BY <2>1 DEF Open
  <2>3. QED  BY <2>1, <2>2, GotoPlace DEF Locks, Holds
<1>4. CASE LoadApplied(p)
  <2>1. \A r \in Row : own[p][r] = Untouched
    BY <1>4 DEF LoadApplied, Open, Locks, Holds
  <2>2. QED  BY <1>4, <2>1, GotoPlace DEF LoadApplied, Locks, Holds
<1>5. CASE Records(p)
  <2> DEFINE r == First(todo[p])
  <2>1. r \in todo[p] /\ r \in Row
    BY <1>5, FirstIsLeast DEF Records, TypeOK
  <2>2. r[1] = "migration"
    BY <1>5, <2>1, ScopeRows DEF Records, InScope
  <2>3. \A s \in Row : own[p][s] = Untouched
    BY <1>5 DEF Records, Open, Locks, Holds
  <2>5. Writes(p, r, p) /\ Goto(p, "recorded") /\ ~Locked(p, r)
    BY <1>5 DEF Records
  <2>6. \A q \in Pushers : pc'[q] = IF q = p THEN "recorded" ELSE pc[q]
    BY <2>5, GotoPlace
  <2>7. \A q \in Pushers : \A s \in Row : own'[q][s] = IF q = p /\ s = r THEN p ELSE own[q][s]
    BY <2>1, <2>5 DEF TypeOK, Writes
  <2> HIDE DEF r
  <2>8. QED  BY <2>1, <2>2, <2>3, <2>5, <2>6, <2>7, LocksWritten DEF Holds
<1>6. CASE CommitFile(p)
  BY <1>6, GotoPlace, DiscardsAll, LocksReleased DEF CommitFile, Publish
<1>7. CASE Begin(p)
  <2>1. \A r \in Row : own[p][r] = Untouched
    BY <1>7 DEF Begin, Open, Locks, Holds
  <2>2. QED  BY <1>7, <2>1, GotoPlace DEF Begin, Locks, Holds
<1>8. CASE Repeat(p)
  <2>1. \A r \in Row : own[p][r] = Untouched
    BY <1>8 DEF Repeat, Open, Locks, Holds
  <2>2. QED  BY <1>8, <2>1, GotoPlace DEF Repeat, Locks, Holds
<1>9. ASSUME NEW r \in Row, NEW v \in Value \cup {Untouched}, Sets(p, r, v) PROVE Locks'
  <2>1. pc[p] \in Open /\ pc[p] # "recorded" /\ pc' = pc
    BY <1>9 DEF Sets, Open
  <2>2. r[1] # "migration"
    BY <1>9, <2>1, ScopeRows DEF Sets, InScope
  <2>3. ~Locked(p, r) /\ v \in {p, Absent, own[p][r]}
    BY <1>9 DEF Sets
  <2>4. \A q \in Pushers : \A s \in Row : own'[q][s] = IF q = p /\ s = r THEN v ELSE own[q][s]
    BY <1>9 DEF TypeOK, Sets, Writes
  <2>5. QED  BY <2>1, <2>2, <2>3, <2>4, LocksWritten
<1>10. ASSUME NEW r \in Row, Wait(p, r) PROVE Locks'
  BY <1>10 DEF Wait, Locks, Holds
<1>11. ASSUME NEW acked \in BOOLEAN, Commit(p, acked) PROVE Locks'
  <2>1. own' = [own EXCEPT ![p] = Unwritten]
    BY <1>11 DEF Commit, Publish
  <2>2. PICK to \in {"ok", "failed"} : Goto(p, to)
    BY <1>11 DEF Commit, Ends
  <2>3. \A q \in Pushers : q # p => pc'[q] = pc[q]
    BY <2>2, GotoPlace
  <2>4. QED  BY <2>1, <2>3, DiscardsAll, LocksReleased
<1>12. QED
  BY <1>1, <1>2, <1>3, <1>4, <1>5, <1>6, <1>7, <1>8, <1>9, <1>10, <1>11 DEF Shapes

\* Scope(q) depends on q's place and tree only.
LEMMA ScopeKept ==
    ASSUME NEW q \in Pushers, app' = app, pc'[q] = pc[q]
    PROVE  Scope(q)' = Scope(q)
  BY DEF Scope, Applied, Gone, Table

LEMMA OthersInScope ==
    ASSUME InScope, NEW p \in Pushers, app' = app,
           \A q \in Pushers : q # p => pc'[q] = pc[q] /\ todo'[q] = todo[q] /\ wait'[q] = wait[q],
           todo'[p] \subseteq Scope(p)', wait'[p] = Untouched
    PROVE  InScope'
  BY ScopeKept DEF InScope

\* A pusher that is not at a statement of its phase waits for no row.
LEMMA NotWaiting ==
    ASSUME TypeOK, InScope, NEW p \in Pushers,
           todo[p] = {} \/ pc[p] = "recorded" \/ pc[p] \notin Open \cup {"files"}
    PROVE  wait[p] = Untouched
  BY ScopeRows DEF InScope

LEMMA InScopeKept ==
    ASSUME TypeOK, TypeOK', InScope, Locks, NEW p \in Pushers, Shapes(p)
    PROVE  InScope'
<1>1. ASSUME NEW to \in Place, Moves(p, to) PROVE InScope'
  <2>1. todo[p] = {} /\ wait[p] = Untouched
    BY <1>1, NotWaiting, ScopeRows DEF Moves, InScope, Open
  <2>2. QED  BY <1>1, <2>1, GotoPlace, OthersInScope DEF Moves, Stays, session
<1>2. ASSUME NEW to \in Place, RollsBack(p, to) PROVE InScope'
  <2>1. /\ app' = app /\ todo'[p] = {} /\ wait'[p] = Untouched
        /\ \A q \in Pushers : q # p => todo'[q] = todo[q] /\ wait'[q] = wait[q]
    BY <1>2 DEF RollsBack, Discard, TypeOK
  <2>2. \A q \in Pushers : q # p => pc'[q] = pc[q]
    BY <1>2, GotoPlace DEF RollsBack
  <2>3. QED  BY <2>1, <2>2, OthersInScope
<1>3. ASSUME NEW to \in Place, Enters(p, to) PROVE InScope'
  <2>1. Goto(p, to) /\ todo[p] = {} /\ wait' = wait /\ app' = app
    BY <1>3 DEF Enters, Phase
  <2>2. \A q \in Pushers : pc'[q] = IF q = p THEN to ELSE pc[q]
    BY <2>1, GotoPlace
  <2>3. wait[p] = Untouched
    BY <2>1, NotWaiting
  <2>4. \A table \in Tables : Stale(p, table) \subseteq Gone(p, table)'
    BY <2>1 DEF Stale, Gone, Table
  <2>5. \A table \in Tables : Table(p, table)' = Table(p, table)
    BY <2>1 DEF Table
  <2>6. PICK S : todo' = [todo EXCEPT ![p] = S] /\ S \subseteq Scope(p)'
    BY <1>3, <2>2, <2>4, <2>5 DEF Enters, Phase, Scope, Tables
  <2>7. QED  BY <2>1, <2>2, <2>3, <2>6, OthersInScope DEF TypeOK
<1>4. CASE LoadApplied(p)
  <2>1. pc[p] = "ledger" /\ app' = app /\ wait' = wait /\ Goto(p, "files")
    BY <1>4 DEF LoadApplied
  <2>2. wait[p] = Untouched
    BY <2>1, NotWaiting DEF Open
  <2>3. \A q \in Pushers : pc'[q] = IF q = p THEN "files" ELSE pc[q]
    BY <2>1, GotoPlace
  <2>4. Scope(p)' = {"migration"} \X app[p].migrations
    BY <2>1, <2>3 DEF Scope
  <2>5. {<<"migration", m>> : m \in Pending(p)} \subseteq Scope(p)'
    BY <2>4 DEF Pending
  <2>6. QED  BY <1>4, <2>1, <2>2, <2>3, <2>5, OthersInScope DEF LoadApplied, TypeOK
<1>5. CASE Records(p)
  <2>1. pc[p] = "files" /\ app' = app /\ Goto(p, "recorded")
    BY <1>5 DEF Records, Writes
  <2>2. \A q \in Pushers : pc'[q] = IF q = p THEN "recorded" ELSE pc[q]
    BY <2>1, GotoPlace
  <2>3. Scope(p)' = Scope(p)
    BY <2>1, <2>2 DEF Scope
  <2>4. /\ \A q \in Pushers : q # p => todo'[q] = todo[q] /\ wait'[q] = wait[q]
        /\ todo'[p] \subseteq todo[p] /\ wait'[p] = Untouched
    BY <1>5 DEF Records, Writes, TypeOK
  <2>5. todo'[p] \subseteq Scope(p)'
    BY <2>3, <2>4 DEF InScope
  <2>6. QED  BY <2>1, <2>2, <2>4, <2>5, OthersInScope
<1>6. CASE CommitFile(p)
  <2>1. pc[p] = "recorded" /\ app' = app /\ Goto(p, "files") /\ todo' = todo /\ wait' = wait
    BY <1>6 DEF CommitFile
  <2>2. \A q \in Pushers : pc'[q] = IF q = p THEN "files" ELSE pc[q]
    BY <2>1, GotoPlace
  <2>3. Scope(p)' = Scope(p)
    BY <2>1, <2>2 DEF Scope
  <2>4. wait[p] = Untouched
    BY <2>1, NotWaiting
  <2>5. QED  BY <2>1, <2>2, <2>3, <2>4, OthersInScope DEF InScope
<1>7. CASE Begin(p)
  <2>1. pc[p] = "begin" /\ app' = app /\ Goto(p, "apply") /\ wait' = wait
    BY <1>7 DEF Begin
  <2>2. \A q \in Pushers : pc'[q] = IF q = p THEN "apply" ELSE pc[q]
    BY <2>1, GotoPlace
  <2>3. Scope(p)' = Applied(p)
    BY <2>1, <2>2 DEF Scope, Applied, Table
  <2>4. wait[p] = Untouched
    BY <2>1, NotWaiting DEF Open
  <2>5. \A q \in Pushers : todo'[q] = IF q = p THEN Applied(p) ELSE todo[q]
    BY <1>7 DEF Begin, TypeOK, Applied
  <2>6. QED  BY <2>1, <2>2, <2>3, <2>4, <2>5, OthersInScope
<1>8. CASE Repeat(p)
  <2>1. pc[p] \in {"ok", "failed"} /\ app' = app /\ Goto(p, "start")
        /\ wait' = wait /\ todo' = todo
    BY <1>8 DEF Repeat
  <2>2. \A q \in Pushers : pc'[q] = IF q = p THEN "start" ELSE pc[q]
    BY <2>1, GotoPlace
  <2>3. wait[p] = Untouched /\ todo[p] = {}
    BY <2>1, NotWaiting, ScopeRows DEF Open, InScope
  <2>4. QED  BY <2>1, <2>2, <2>3, OthersInScope
<1>9. ASSUME NEW r \in Row, NEW v \in Value \cup {Untouched}, Sets(p, r, v) PROVE InScope'
  <2>1. app' = app /\ pc' = pc
    BY <1>9 DEF Sets, Writes
  <2>2. \A q \in Pushers : todo'[q] = IF q = p THEN todo[p] \ {r} ELSE todo[q]
    BY <1>9 DEF Sets, Writes, TypeOK
  <2>3. \A q \in Pushers : wait'[q] = IF q = p THEN Untouched ELSE wait[q]
    BY <1>9 DEF Sets, Writes, TypeOK
  <2>4. QED  BY <2>1, <2>2, <2>3, ScopeKept, OthersInScope DEF InScope
<1>10. ASSUME NEW r \in Row, Wait(p, r) PROVE InScope'
  <2>1. app' = app /\ pc' = pc /\ todo' = todo /\ r \in todo[p] /\ Locked(p, r)
    BY <1>10 DEF Wait, Current
  <2>2. pc[p] # "recorded"
    BY <1>10 DEF Wait
  <2>3. \A q \in Pushers : wait'[q] = IF q = p THEN r ELSE wait[q]
    BY <1>10 DEF Wait, TypeOK
  <2>4. QED  BY <2>1, <2>2, <2>3, ScopeKept DEF InScope
<1>11. ASSUME NEW acked \in BOOLEAN, Commit(p, acked) PROVE InScope'
  <2>1. /\ pc[p] = "ready" /\ app' = app /\ todo' = todo /\ wait' = wait
        /\ \E to \in {"ok", "failed"} : Goto(p, to)
    BY <1>11 DEF Commit, Ends
  <2>2. todo[p] = {}
    BY <2>1 DEF InScope, Scope
  <2>3. wait[p] = Untouched
    BY <2>2, NotWaiting
  <2>4. QED  BY <2>1, <2>2, <2>3, GotoPlace, OthersInScope
<1>12. QED
  BY <1>1, <1>2, <1>3, <1>4, <1>5, <1>6, <1>7, <1>8, <1>9, <1>10, <1>11 DEF Shapes

\* A commit of p leaves the rows that p has not written.
LEMMA Published ==
    ASSUME TypeOK, NEW p \in Pushers, Publish(p)
    PROVE  \A r \in Row : rows'[r] = IF Holds(p, r) THEN own[p][r] ELSE rows[r]
  BY DEF TypeOK, Publish, View, Holds

\* The ledger changes when a file is committed, by that file.
LEMMA LedgerKept ==
    ASSUME TypeOK, Locks, NEW p \in Pushers, Shapes(p), ~CommitFile(p)
    PROVE  /\ \A m \in 1 .. Migrations : rows'[<<"migration", m>>] = rows[<<"migration", m>>]
           /\ Ledger' = Ledger /\ ran' = ran
<1>1. CASE rows' = rows /\ ran' = ran
  BY <1>1 DEF Ledger
<1>2. ASSUME NEW acked \in BOOLEAN, Commit(p, acked)
      PROVE  /\ ran' = ran
             /\ \A m \in 1 .. Migrations : rows'[<<"migration", m>>] = rows[<<"migration", m>>]
  <2>1. pc[p] # "recorded" /\ Publish(p) /\ ran' = ran
    BY <1>2 DEF Commit
  <2>2. \A m \in 1 .. Migrations : ~Holds(p, <<"migration", m>>)
    BY <2>1, LedgerRow DEF Locks
  <2>3. QED  BY <2>1, <2>2, Published, LedgerRow
<1>3. CASE \E acked \in BOOLEAN : Commit(p, acked)
  BY <1>2, <1>3 DEF Ledger
<1>4. CASE ~(\E acked \in BOOLEAN : Commit(p, acked))
  <2>1. rows' = rows /\ ran' = ran
    BY <1>4 DEF Shapes, Moves, Stays, RollsBack, Discard, Enters, Phase, LoadApplied, Records,
                Writes, Begin, Repeat, Sets, Wait, database
  <2>2. QED  BY <1>1, <2>1
<1>5. QED  BY <1>3, <1>4

LEMMA FileCommitted ==
    ASSUME TypeOK, Locks, Recorded, NEW p \in Pushers, CommitFile(p)
    PROVE  \E m \in 1 .. Migrations :
              /\ m \notin Ledger /\ Ledger' = Ledger \cup {m}
              /\ ran' = [n \in 1 .. Migrations |-> IF n = m THEN ran[n] + 1 ELSE ran[n]]
              /\ \A n \in 1 .. Migrations : Holds(p, <<"migration", n>>) <=> n = m
<1> USE DEF RunsNext
<1>1. PICK m \in app[p].migrations : RunsNext(p, m)
  BY DEF Recorded, CommitFile
<1>2. m \in 1 .. Migrations
  BY AppTyped
<1>3. \A n \in 1 .. Migrations : Holds(p, <<"migration", n>>) <=> n = m
  BY <1>1, Values DEF Holds
<1>4. \A n \in 1 .. Migrations :
         rows'[<<"migration", n>>] = IF n = m THEN p ELSE rows[<<"migration", n>>]
  BY <1>1, <1>3, Published, LedgerRow DEF CommitFile
<1>5. Ledger' = Ledger \cup {m}
  BY <1>2, <1>4, Values DEF Ledger
<1>6. ran' = [n \in 1 .. Migrations |-> IF n = m THEN ran[n] + 1 ELSE ran[n]]
  BY <1>3 DEF CommitFile
<1>7. QED  BY <1>1, <1>2, <1>3, <1>5, <1>6

LEMMA AppKept == ASSUME NEW p \in Pushers, Shapes(p) PROVE app' = app
  BY DEF Shapes, Moves, Stays, RollsBack, Discard, Enters, Phase, LoadApplied, Records,
         Writes, Begin, Repeat, Sets, Wait, CommitFile, Commit

\* The ledger only grows.
LEMMA LedgerGrows ==
    ASSUME TypeOK, Locks, Recorded, NEW p \in Pushers, Shapes(p)
    PROVE  /\ Ledger \subseteq Ledger'
           /\ ~CommitFile(p) => Ledger' = Ledger
           /\ app' = app
<1>1. app' = app
  BY AppKept
<1>2. QED  BY <1>1, LedgerKept, FileCommitted

\* What is pending stays pending at most.
LEMMA PendingShrinks ==
    ASSUME TypeOK, NEW q \in Pushers, app' = app, Ledger \subseteq Ledger'
    PROVE  Pending(q)' \subseteq {m \in Pending(q) : m \notin Ledger' /\ m \in 1 .. Migrations}
<1>1. app[q].migrations \subseteq 1 .. Migrations
  BY AppTyped
<1>2. QED  BY <1>1 DEF Pending, Ledger

\* A step of p leaves the place, the work and the writes of the others.
LEMMA OthersKept ==
    ASSUME TypeOK, NEW p \in Pushers, Shapes(p), NEW q \in Pushers, q # p
    PROVE  /\ pc'[q] = pc[q] /\ todo'[q] = todo[q] /\ own'[q] = own[q]
           /\ commits'[q] = commits[q]
<1> USE DEF TypeOK, Goto
<1>1. ASSUME NEW to \in Place, Moves(p, to) \/ RollsBack(p, to) \/ Enters(p, to)
      PROVE  /\ pc'[q] = pc[q] /\ todo'[q] = todo[q] /\ own'[q] = own[q]
             /\ commits'[q] = commits[q]
  BY <1>1 DEF Moves, Stays, RollsBack, Discard, Enters, Phase, session, history
<1>2. CASE LoadApplied(p) \/ Records(p) \/ CommitFile(p) \/ Begin(p) \/ Repeat(p)
  BY <1>2 DEF LoadApplied, Records, Writes, CommitFile, Publish, Begin, Repeat, history
<1>3. ASSUME NEW r \in Row, NEW v \in Value \cup {Untouched}, Sets(p, r, v)
      PROVE  /\ pc'[q] = pc[q] /\ todo'[q] = todo[q] /\ own'[q] = own[q]
             /\ commits'[q] = commits[q]
  BY <1>3 DEF Sets, Writes, history
<1>4. ASSUME NEW r \in Row, Wait(p, r)
      PROVE  /\ pc'[q] = pc[q] /\ todo'[q] = todo[q] /\ own'[q] = own[q]
             /\ commits'[q] = commits[q]
  BY <1>4 DEF Wait, history
<1>5. ASSUME NEW acked \in BOOLEAN, Commit(p, acked)
      PROVE  /\ pc'[q] = pc[q] /\ todo'[q] = todo[q] /\ own'[q] = own[q]
             /\ commits'[q] = commits[q]
  BY <1>5 DEF Commit, Publish, Ends
<1>6. QED  BY <1>1, <1>2, <1>3, <1>4, <1>5 DEF Shapes

\* How p comes to apply migrations, and into its transaction.
LEMMA Arrivals ==
    ASSUME TypeOK, NEW p \in Pushers, Shapes(p)
    PROVE  /\ pc'[p] = "recorded" =>
                Records(p) \/ (pc[p] = "recorded" /\ own' = own /\ todo' = todo)
           /\ pc'[p] = "files" =>
                LoadApplied(p) \/ CommitFile(p) \/ (pc[p] = "files" /\ own' = own /\ todo' = todo)
           /\ pc'[p] \in Open \cup {"begin"} =>
                pc[p] \in Open \cup {"begin"} \/ Moves(p, "begin")
<1> DEFINE A == /\ pc'[p] = "recorded" =>
                     Records(p) \/ (pc[p] = "recorded" /\ own' = own /\ todo' = todo)
                /\ pc'[p] = "files" => LoadApplied(p) \/ CommitFile(p)
                                         \/ (pc[p] = "files" /\ own' = own /\ todo' = todo)
                /\ pc'[p] \in Open \cup {"begin"} =>
                     pc[p] \in Open \cup {"begin"} \/ Moves(p, "begin")
<1>1. ASSUME NEW to \in Place, Moves(p, to) PROVE A
  <2>1. pc'[p] = to /\ to \notin Open \cup {"recorded", "files"}
    BY <1>1, GotoPlace DEF Moves, Stays, Open
  <2>2. QED  BY <1>1, <2>1
<1>2. ASSUME NEW to \in Place, RollsBack(p, to) PROVE A
  <2>1. pc'[p] = to /\ to \in {"failed", "ok", "begin"} /\ (to = "begin" => pc[p] \in Open)
    BY <1>2, GotoPlace DEF RollsBack
  <2>2. QED  BY <2>1 DEF Open
<1>3. ASSUME NEW to \in Place, Enters(p, to) PROVE A
  <2>1. pc'[p] = to /\ to \in Open /\ pc[p] \in Open
    BY <1>3, GotoPlace DEF Enters, Phase, Open
  <2>2. QED  BY <2>1 DEF Open
<1>4. CASE LoadApplied(p) \/ CommitFile(p)
  <2>1. pc'[p] = "files"
    BY <1>4, GotoPlace DEF LoadApplied, CommitFile
  <2>2. QED  BY <1>4, <2>1 DEF Open
<1>5. CASE Records(p)
  <2>1. pc'[p] = "recorded"
    BY <1>5, GotoPlace DEF Records
  <2>2. QED  BY <1>5, <2>1 DEF Open
<1>6. CASE Begin(p)
  <2>1. pc'[p] = "apply" /\ pc[p] = "begin"
    BY <1>6, GotoPlace DEF Begin
  <2>2. QED  BY <2>1
<1>7. CASE Repeat(p)
  <2>1. pc'[p] = "start"
    BY <1>7, GotoPlace DEF Repeat
  <2>2. QED  BY <2>1 DEF Open
<1>8. ASSUME NEW r \in Row, NEW v \in Value \cup {Untouched}, Sets(p, r, v) PROVE A
  <2>1. pc'[p] = pc[p] /\ pc[p] \in Open
    BY <1>8 DEF Sets, Open
  <2>2. QED  BY <2>1 DEF Open
<1>9. ASSUME NEW r \in Row, Wait(p, r) PROVE A
  BY <1>9 DEF Wait
<1>10. ASSUME NEW acked \in BOOLEAN, Commit(p, acked) PROVE A
  <2>1. pc'[p] \in {"ok", "failed"}
    BY <1>10, GotoPlace DEF Commit, Ends
  <2>2. QED  BY <2>1 DEF Open
<1>11. QED
  BY <1>1, <1>2, <1>3, <1>4, <1>5, <1>6, <1>7, <1>8, <1>9, <1>10 DEF Shapes

LEMMA RecordedKept ==
    ASSUME TypeOK, InScope, Locks, Recorded, Applying, NEW p \in Pushers, Shapes(p)
    PROVE  Recorded'
<1>1. SUFFICES ASSUME NEW q \in Pushers, pc'[q] = "recorded"
               PROVE  \E m \in app'[q].migrations : RunsNext(q, m)'
  BY DEF Recorded
<1>2. app' = app /\ Ledger \subseteq Ledger'
  BY LedgerGrows
<1>3. CASE pc[q] = "recorded" /\ own'[q] = own[q]
  <2>1. PICK m \in app[q].migrations : RunsNext(q, m)
    BY <1>3 DEF Recorded
  <2>2. m \in 1 .. Migrations
    BY AppTyped
  <2>3. Holds(q, <<"migration", m>>)
    BY <2>1, <2>2, Values DEF RunsNext, Holds
  <2>4. m \notin Ledger'
    <3>1. CASE CommitFile(p)
      <4>1. p # q
        BY <1>1, <3>1, GotoPlace DEF CommitFile
      <4>2. PICK k \in 1 .. Migrations :
               /\ Ledger' = Ledger \cup {k}
               /\ \A n \in 1 .. Migrations : Holds(p, <<"migration", n>>) <=> n = k
        BY <3>1, FileCommitted
      <4>3. ~Holds(p, <<"migration", m>>)
        BY <2>2, <2>3, <4>1, LedgerRow DEF Locks
      <4>4. QED  BY <2>1, <2>2, <4>2, <4>3 DEF RunsNext
    <3>2. CASE ~CommitFile(p)
      BY <2>1, <3>2, LedgerGrows DEF RunsNext
    <3>3. QED  BY <3>1, <3>2
  <2>5. RunsNext(q, m)'
    BY <1>2, <1>3, <2>1, <2>4 DEF RunsNext
  <2>6. QED  BY <1>2, <2>5
<1>4. CASE q = p /\ Records(p)
  <2> DEFINE r == First(todo[p])
  <2>1. r \in todo[p] /\ r \in Row /\ \A s \in todo[p] : Before(r, s)
    BY <1>4, FirstIsLeast DEF Records, TypeOK
  <2>2. pc[p] = "files"
    BY <1>4 DEF Records
  <2>3. PICK m \in app[p].migrations : r = <<"migration", m>>
    BY <2>1, <2>2, ScopeRows DEF InScope
  <2>4. m \in 1 .. Migrations /\ Migrations \in Nat
    BY AppTyped
  <2>5. rows[<<"migration", m>>] = Absent
    BY <1>4, <2>3 DEF Records
  <2>6. Ledger' = Ledger
    BY <1>4, LedgerGrows DEF Records, CommitFile
  <2>7. \A n \in 1 .. Migrations : ~Holds(p, <<"migration", n>>)
    BY <2>2, LedgerRow DEF Locks
  <2>8. ASSUME NEW n \in app[p].migrations, n < m, n \notin Ledger PROVE FALSE
    <3>1. n \in 1 .. Migrations
      BY AppTyped
    <3>2. n \in Pending(p)
      BY <2>8, <3>1 DEF Pending, Ledger
    <3>3. <<"migration", n>> \in todo[p]
      BY <2>2, <2>7, <3>1, <3>2 DEF Applying
    <3>4. Before(<<"migration", m>>, <<"migration", n>>)
      BY <2>1, <2>3, <3>3
    <3>5. QED  BY <2>8, <3>1, <3>4, <2>4 DEF Before
  <2>9. \A n \in 1 .. Migrations :
           own'[p][<<"migration", n>>] = IF n = m THEN p ELSE Untouched
    <3>1. own' = [own EXCEPT ![p][<<"migration", m>>] = p]
      BY <1>4, <2>3 DEF Records, Writes
    <3>2. \A n \in 1 .. Migrations : own[p][<<"migration", n>>] = Untouched
      BY <2>7 DEF Holds
    <3>3. QED  BY <2>4, <3>1, <3>2, LedgerRow DEF TypeOK
  <2>10. m \notin Ledger
    BY <2>5 DEF Ledger
  <2>11. RunsNext(p, m)'
    BY <1>2, <2>6, <2>8, <2>9, <2>10 DEF RunsNext
  <2>12. QED  BY <1>2, <1>4, <2>11
<1>5. QED
  <2>1. CASE q = p
    BY <1>1, <1>3, <1>4, <2>1, Arrivals
  <2>2. CASE q # p
    BY <1>1, <1>3, <2>2, OthersKept
  <2>3. QED  BY <2>1, <2>2

LEMMA ApplyingKept ==
    ASSUME TypeOK, TypeOK', InScope, Locks, Recorded, Applying, NEW p \in Pushers, Shapes(p)
    PROVE  Applying'
<1>1. SUFFICES ASSUME NEW q \in Pushers, pc'[q] \in {"files", "recorded"}, NEW m \in Pending(q)'
               PROVE  <<"migration", m>> \in todo'[q] \/ own'[q][<<"migration", m>>] # Untouched
  BY DEF Applying, Holds
<1>2. app' = app /\ Ledger \subseteq Ledger'
  BY LedgerGrows
<1>3. m \in Pending(q) /\ m \in 1 .. Migrations /\ m \notin Ledger'
  BY <1>1, <1>2, PendingShrinks
<1>4. CASE pc[q] \in {"files", "recorded"} /\ own'[q] = own[q] /\ todo'[q] = todo[q]
  BY <1>3, <1>4 DEF Applying, Holds
<1>5. CASE q = p /\ LoadApplied(p)
  <2>1. todo'[p] = {<<"migration", n>> : n \in Pending(p)}
    BY <1>5 DEF LoadApplied, TypeOK
  <2>2. QED  BY <1>3, <1>5, <2>1
<1>6. CASE q = p /\ Records(p)
  <2> DEFINE r == First(todo[p])
  <2>1. pc[p] = "files"
    BY <1>6 DEF Records
  <2>2. r \in Row /\ r \in todo[p]
    BY <1>6, FirstIsLeast DEF Records, TypeOK
  <2>3. <<"migration", m>> \in todo[p]
    <3>1. ~Holds(p, <<"migration", m>>)
      BY <1>3, <2>1, LedgerRow DEF Locks
    <3>2. QED  BY <1>3, <1>6, <2>1, <3>1 DEF Applying
  <2>4. CASE r = <<"migration", m>>
    <3>1. own'[p][r] = p
      BY <1>6, <2>2 DEF Records, Writes, TypeOK
    <3>2. QED  BY <1>6, <2>4, <3>1, Values
  <2>5. CASE r # <<"migration", m>>
    <3>1. todo'[p] = todo[p] \ {r}
      BY <1>6 DEF Records, Writes, TypeOK
    <3>2. QED  BY <1>6, <2>3, <2>5, <3>1
  <2>6. QED  BY <2>4, <2>5
<1>7. CASE q = p /\ CommitFile(p)
  <2>1. PICK k \in 1 .. Migrations :
           /\ Ledger' = Ledger \cup {k}
           /\ \A n \in 1 .. Migrations : Holds(p, <<"migration", n>>) <=> n = k
    BY <1>7, FileCommitted
  <2>2. m # k
    BY <1>3, <2>1
  <2>3. <<"migration", m>> \in todo[p]
    BY <1>3, <1>7, <2>1, <2>2 DEF Applying, CommitFile
  <2>4. todo' = todo
    BY <1>7 DEF CommitFile
  <2>5. QED  BY <1>7, <2>3, <2>4
<1>8. QED
  <2>1. CASE q = p
    BY <1>1, <1>4, <1>5, <1>6, <1>7, <2>1, Arrivals
  <2>2. CASE q # p
    BY <1>1, <1>4, <2>2, OthersKept
  <2>3. QED  BY <2>1, <2>2

LEMMA MigratedKept ==
    ASSUME TypeOK, TypeOK', Locks, Recorded, Applying, Migrated, NEW p \in Pushers, Shapes(p)
    PROVE  Migrated'
<1>1. SUFFICES ASSUME NEW q \in Pushers, pc'[q] \in Open \cup {"begin"}, ~app'[q].dry_run
               PROVE  Pending(q)' = {}
  BY DEF Migrated
<1>2. app' = app /\ Ledger \subseteq Ledger'
  BY LedgerGrows
<1>3. Pending(q)' \subseteq Pending(q)
  BY <1>2, PendingShrinks
<1>4. CASE pc[q] \in Open \cup {"begin"}
  BY <1>1, <1>2, <1>3, <1>4 DEF Migrated
<1>5. CASE q = p /\ Moves(p, "begin")
  <2>1. CASE pc[p] = "files" /\ todo[p] = {}
    <3>1. \A m \in 1 .. Migrations : ~Holds(p, <<"migration", m>>)
      BY <2>1, LedgerRow DEF Locks
    <3>2. \A m \in Pending(p) : m \in 1 .. Migrations
      BY AppTyped DEF Pending
    <3>3. Pending(p) = {}
      BY <2>1, <3>1, <3>2 DEF Applying
    <3>4. QED  BY <1>3, <1>5, <3>3
  <2>2. CASE Pending(p) = {}
    BY <1>3, <1>5, <2>2
  <2>3. QED  BY <1>1, <1>2, <1>5, <2>1, <2>2 DEF Moves
<1>6. QED
  <2>1. CASE q = p
    BY <1>1, <1>4, <1>5, <2>1, Arrivals
  <2>2. CASE q # p
    BY <1>1, <1>4, <2>2, OthersKept
  <2>3. QED  BY <2>1, <2>2

\* The ledger is what has run.
LEMMA LedgerExact ==
    ASSUME TypeOK, Locks, Recorded, MigrationsOnce, NEW p \in Pushers, Shapes(p)
    PROVE  MigrationsOnce'
<1>1. CASE ~CommitFile(p)
  BY <1>1, LedgerKept DEF MigrationsOnce
<1>2. CASE CommitFile(p)
  <2>1. PICK m \in 1 .. Migrations :
           /\ m \notin Ledger /\ Ledger' = Ledger \cup {m}
           /\ ran' = [n \in 1 .. Migrations |-> IF n = m THEN ran[n] + 1 ELSE ran[n]]
    BY <1>2, FileCommitted
  <2>2. QED  BY <2>1 DEF MigrationsOnce
<1>3. QED  BY <1>1, <1>2

LEMMA InitLocks == Init => LInv /\ MigrationsOnce
<1> SUFFICES ASSUME Init PROVE LInv /\ MigrationsOnce
  OBVIOUS
<1>1. \A p \in Pushers : pc[p] = "start" /\ todo[p] = {} /\ wait[p] = Untouched
  BY DEF Init
<1>2. \A p \in Pushers : \A r \in Row : own[p][r] = Untouched
  BY DEF Init, Unwritten
<1>3. InScope /\ Locks /\ Recorded /\ Applying /\ Migrated
  BY <1>1, <1>2 DEF InScope, Locks, Recorded, Applying, Migrated, Holds, Open
<1>4. Ledger = {}
  <2>1. \A m \in 1 .. Migrations : rows[<<"migration", m>>] = Absent
    BY LedgerRow DEF Init
  <2>2. QED  BY <2>1 DEF Ledger
<1>5. MigrationsOnce
  BY <1>4 DEF MigrationsOnce, Init
<1>6. QED  BY <1>3, <1>5 DEF LInv

LEMMA StepOf ==
    ASSUME TypeOK, InScope, [Next]_vars
    PROVE  (\E p \in Pushers : Shapes(p)) \/ UNCHANGED vars
  BY StepShapes DEF Next, Over

LEMMA LocksInvariant == Spec => [](LInv /\ MigrationsOnce)
<1> DEFINE I == LInv /\ MigrationsOnce
<1>1. ASSUME I, UNCHANGED vars PROVE I'
  <2> USE DEF vars, database, session, history
  <2>1. InScope'
    BY <1>1, ScopeKept DEF LInv, InScope
  <2>2. Locks'
    BY <1>1 DEF LInv, Locks, Holds
  <2>3. Recorded'
    <3>1. app' = app /\ pc' = pc /\ own' = own /\ rows' = rows
      BY <1>1
    <3>2. Ledger' = Ledger
      BY <3>1 DEF Ledger
    <3>3. SUFFICES ASSUME NEW q \in Pushers, pc'[q] = "recorded"
                   PROVE  \E m \in app'[q].migrations : RunsNext(q, m)'
      BY DEF Recorded
    <3>4. PICK m \in app[q].migrations : RunsNext(q, m)
      BY <1>1, <3>1, <3>3 DEF LInv, Recorded
    <3>5. RunsNext(q, m)'
      BY <3>1, <3>2, <3>4 DEF RunsNext
    <3>6. QED  BY <3>1, <3>5
  <2>6. Applying' /\ Migrated'
    BY <1>1 DEF LInv, Applying, Migrated, Pending, Holds
  <2>4. MigrationsOnce'
    BY <1>1 DEF MigrationsOnce, Ledger
  <2>5. QED  BY <2>1, <2>2, <2>3, <2>4, <2>6 DEF LInv
<1>2. ASSUME TypeOK, TypeOK', I, [Next]_vars PROVE I'
  <2>1. ASSUME NEW p \in Pushers, Shapes(p) PROVE I'
    BY <1>2, <2>1, InScopeKept, LocksKept, RecordedKept, ApplyingKept, MigratedKept,
       LedgerExact DEF LInv
  <2>2. QED  BY <1>1, <1>2, <2>1, StepOf DEF LInv
<1>3. QED  BY InitLocks, TypeCorrect, <1>2, PTL DEF Spec

\* migrate.rs: the SQL of a file is committed once, with its ledger row, for any
\* number of processes that apply the same files at the same time.
THEOREM OneRun == Spec => []MigrationsOnce
  BY LocksInvariant, PTL

\* migrate.rs: whatever files the trees have and however the processes that apply
\* them fail or overtake each other, a file runs only when the ledger has all the
\* files before it in its own tree.
THEOREM FilesInOrder == Spec => []MigrationsInOrder
<1>1. TypeOK /\ LInv => MigrationsInOrder
  <2>1. SUFFICES ASSUME TypeOK, LInv, NEW p \in Pushers,
                        NEW m \in app[p].migrations, NEW n \in app[p].migrations,
                        n < m, Holds(p, <<"migration", m>>)
                 PROVE  n \in Ledger
    BY DEF MigrationsInOrder
  <2>2. m \in 1 .. Migrations
    BY <2>1, AppTyped
  <2>3. pc[p] = "recorded"
    BY <2>1, <2>2, LedgerRow DEF LInv, Locks
  <2>4. PICK k \in app[p].migrations : RunsNext(p, k)
    BY <2>1, <2>3 DEF LInv, Recorded
  <2>5. m = k
    BY <2>1, <2>2, <2>4 DEF RunsNext, Holds
  <2>6. QED  BY <2>1, <2>4, <2>5 DEF RunsNext
<1>2. QED  BY <1>1, TypeCorrect, LocksInvariant, PTL

\* push.rs: the transaction of a real push, retries included, runs with all of
\* its tree's migrations in the ledger, though the gate read it before BEGIN.
THEOREM SchemaIsReady == Spec => []PushIsMigrated
<1>1. LInv => PushIsMigrated
  BY DEF LInv, Migrated, PushIsMigrated, InTransaction, Open
<1>2. QED  BY <1>1, LocksInvariant, PTL

-----------------------------------------------------------------------------
(* Deployments.                                                            *)

\* Only a command that may write applies migrations, only a push opens a
\* transaction, and a command has committed its tree only once it is over.
Course ==
    \A p \in Pushers :
        /\ pc[p] \in {"ledger", "files", "recorded"} => ~app[p].dry_run
        /\ pc[p] \in Open \cup {"gate", "begin"} => app[p].command = "push"
        /\ pc[p] \notin {"ok", "failed"} => commits[p] = 0

LEMMA CourseKept ==
    ASSUME TypeOK, Course, DeployedOnce, NEW p \in Pushers, Shapes(p)
    PROVE  Course' /\ DeployedOnce'
<1> DEFINE Of(q) ==
             /\ pc[q] \in {"ledger", "files", "recorded"} => ~app[q].dry_run
             /\ pc[q] \in Open \cup {"gate", "begin"} => app[q].command = "push"
             /\ pc[q] \notin {"ok", "failed"} => commits[q] = 0
             /\ commits[q] <= 1
             /\ (pc[q] = "ok" /\ app[q].command = "push" /\ ~app[q].dry_run) => commits[q] = 1
<1>1. \A q \in Pushers : Of(q)
  BY DEF Course, DeployedOnce
<1>2. app' = app
  BY AppKept
<1>3. ASSUME NEW q \in Pushers, q # p PROVE Of(q)'
  <2>1. pc'[q] = pc[q] /\ commits'[q] = commits[q]
    BY <1>3, OthersKept
  <2>2. QED  BY <1>1, <1>2, <2>1
<1>4. ASSUME commits' = commits, deployments' = deployments, reloads' = reloads, Of(p)'
      PROVE  Course' /\ DeployedOnce'
  BY <1>3, <1>4 DEF Course, DeployedOnce
<1>5. ASSUME NEW to \in Place, Moves(p, to) PROVE Course' /\ DeployedOnce'
  <2>1. pc'[p] = to /\ commits' = commits /\ deployments' = deployments /\ reloads' = reloads
    BY <1>5, GotoPlace DEF Moves, Stays, history, database
  <2>2. app[p].command = "migrate" => ~app[p].dry_run
    BY AppTyped
  <2>3. Of(p)'
    BY <1>1, <1>2, <1>5, <2>1, <2>2 DEF Moves, Open
  <2>4. QED  BY <1>4, <2>1, <2>3
<1>6. ASSUME NEW to \in Place, RollsBack(p, to) PROVE Course' /\ DeployedOnce'
  <2>1. pc'[p] = to /\ commits' = commits /\ deployments' = deployments /\ reloads' = reloads
    BY <1>6, GotoPlace DEF RollsBack, Discard, history, database
  <2>2. Of(p)'
    BY <1>1, <1>2, <1>6, <2>1 DEF RollsBack, Open
  <2>3. QED  BY <1>4, <2>1, <2>2
<1>7. ASSUME NEW to \in Place, Enters(p, to) PROVE Course' /\ DeployedOnce'
  <2>1. pc'[p] = to /\ commits' = commits /\ deployments' = deployments /\ reloads' = reloads
    BY <1>7, GotoPlace DEF Enters, Phase, history, database
  <2>2. pc[p] \in Open /\ to \in Open
    BY <1>7 DEF Enters, Phase, Open
  <2>3. Of(p)'
    BY <1>1, <1>2, <2>1, <2>2 DEF Open
  <2>4. QED  BY <1>4, <2>1, <2>3
<1>8. CASE LoadApplied(p) \/ Records(p) \/ CommitFile(p) \/ Begin(p)
  <2>1. commits' = commits /\ deployments' = deployments /\ reloads' = reloads
    BY <1>8 DEF LoadApplied, Records, Writes, CommitFile, Begin, history, database
  <2>2. /\ pc[p] = "begin" /\ pc'[p] = "apply"
        \/ /\ pc[p] \in {"ledger", "files", "recorded"}
           /\ pc'[p] \in {"ledger", "files", "recorded"}
    BY <1>8, GotoPlace DEF LoadApplied, Records, CommitFile, Begin
  <2>3. Of(p)'
    BY <1>1, <1>2, <2>1, <2>2 DEF Open
  <2>4. QED  BY <1>4, <2>1, <2>3
<1>9. CASE Repeat(p)
  <2>1. deployments' = deployments /\ reloads' = reloads /\ pc'[p] = "start" /\ commits'[p] = 0
    BY <1>9, GotoPlace DEF Repeat, database, TypeOK
  <2>2. Of(p)'
    BY <2>1 DEF Open
  <2>3. QED  BY <1>3, <2>1, <2>2 DEF Course, DeployedOnce
<1>10. ASSUME NEW r \in Row, NEW v \in Value \cup {Untouched}, Sets(p, r, v)
       PROVE  Course' /\ DeployedOnce'
  <2>1. /\ pc' = pc /\ commits' = commits /\ deployments' = deployments
        /\ reloads' = reloads
    BY <1>10 DEF Sets, Writes, history, database
  <2>2. QED  BY <1>1, <1>2, <1>4, <2>1
<1>11. ASSUME NEW r \in Row, Wait(p, r) PROVE Course' /\ DeployedOnce'
  <2>1. /\ pc' = pc /\ commits' = commits /\ deployments' = deployments
        /\ reloads' = reloads
    BY <1>11 DEF Wait, history, database
  <2>2. QED  BY <1>1, <1>2, <1>4, <2>1
<1>12. ASSUME NEW acked \in BOOLEAN, Commit(p, acked) PROVE Course' /\ DeployedOnce'
  <2>1. commits[p] = 0
    BY <1>1, <1>12 DEF Commit
  <2>2. commits'[p] = 1 /\ deployments' = deployments + 1 /\ reloads' = reloads + 1
    BY <1>12, <2>1 DEF Commit, TypeOK
  <2>3. pc'[p] \in {"ok", "failed"}
    BY <1>12, GotoPlace DEF Commit, Ends
  <2>4. Of(p)'
    BY <2>2, <2>3 DEF Open
  <2>5. deployments' = reloads'
    BY <2>2 DEF DeployedOnce
  <2>6. QED  BY <1>3, <2>4, <2>5 DEF Course, DeployedOnce
<1>13. QED
  BY <1>5, <1>6, <1>7, <1>8, <1>9, <1>10, <1>11, <1>12 DEF Shapes

LEMMA CourseInvariant == Spec => [](Course /\ DeployedOnce)
<1>1. Init => Course /\ DeployedOnce
  BY DEF Init, Course, DeployedOnce, Open
<1>2. ASSUME TypeOK, LInv, Course /\ DeployedOnce, [Next]_vars PROVE (Course /\ DeployedOnce)'
  <2>1. CASE UNCHANGED vars
    BY <1>2, <2>1 DEF Course, DeployedOnce, vars, database, history
  <2>2. QED  BY <1>2, <2>1, StepOf, CourseKept DEF LInv
<1>3. QED  BY <1>1, <1>2, TypeCorrect, LocksInvariant, PTL DEF Spec

\* push.rs, retry.rs: a command commits its tree at most once, with one ledger
\* row and one NOTIFY, and exactly once when a real push reports success.
THEOREM DeploysOnce == Spec => []DeployedOnce
  BY CourseInvariant, PTL

\* push.rs: a step of a --dry-run changes no row, no ledger and sends no NOTIFY.
THEOREM DryRunsAreSilent == Spec => DryRunIsSilent
<1> DEFINE A == \A p \in Pushers : app[p].dry_run /\ pc'[p] # pc[p] => UNCHANGED database
<1>1. ASSUME TypeOK, LInv, Course, [Next]_vars PROVE [A]_vars
  <2>1. SUFFICES ASSUME NEW q \in Pushers, Shapes(q), NEW p \in Pushers,
                        app[p].dry_run, pc'[p] # pc[p]
                 PROVE  UNCHANGED database
    BY <1>1, StepOf DEF LInv
  <2>2. p = q
    BY <1>1, <2>1, OthersKept
  <2>3. ~CommitFile(p)
    BY <1>1, <2>1 DEF CommitFile, Course
  <2>4. ~(\E acked \in BOOLEAN : Commit(p, acked))
    BY <2>1 DEF Commit
  <2>5. QED
    BY <2>1, <2>2, <2>3, <2>4 DEF Shapes, Moves, Stays, RollsBack, Discard, Enters, Phase,
       LoadApplied, Records, Writes, Begin, Repeat, Sets, Wait
<1>2. QED  BY <1>1, TypeCorrect, LocksInvariant, CourseInvariant, PTL DEF Spec, DryRunIsSilent

-----------------------------------------------------------------------------
(* What a push leaves in the tables.                                       *)

\* The places of a transaction from one on.
From(place) ==
    CASE place = "assets" -> {"assets", "stale_assets", "settings", "ready"}
      [] place = "stale_assets" -> {"stale_assets", "settings", "ready"}
      [] place = "settings" -> {"settings", "ready"}
      [] place = "handlers" -> {"handlers", "assets", "stale_assets", "settings", "ready"}
      [] place = "templates" -> Open \ {"apply", "validate", "routes"}
      [] place = "routes" -> Open \ {"apply", "validate"}
      [] place = "validate" -> Open \ {"apply"}

\* p has written the rows of its tree, or has them still to write.
UpsertedBy(p) ==
    /\ pc[p] \in Open =>
         \A r \in Applied(p) : own[p][r] = p \/ (pc[p] = "apply" /\ r \in todo[p])
    /\ pc[p] \in From("assets") =>
         \A r \in Table(p, "asset") : own[p][r] = p \/ (pc[p] = "assets" /\ r \in todo[p])
    /\ pc[p] \in From("settings") =>
         \A r \in Table(p, "setting") : own[p][r] = p \/ (pc[p] = "settings" /\ r \in todo[p])
Upserted == \A p \in Pushers : UpsertedBy(p)

\* While no other push commits, what p has found and cleaned stays so.
Cleared(p, table) == \A r \in Gone(p, table) : r \in todo[p] \/ View(p, r) \in {Absent, Default}
ReconciledBy(p) ==
    /\ pc[p] \in From("validate") => \A r \in Table(p, "handler") : View(p, r) # Absent
    /\ pc[p] \in From("routes") => Cleared(p, "route")
    /\ pc[p] \in From("templates") => Cleared(p, "template")
    /\ pc[p] \in From("handlers") => Cleared(p, "handler")
    /\ pc[p] \in From("stale_assets") => Cleared(p, "asset")
Reconciled == \A p \in Pushers : ~disturbed[p] => ReconciledBy(p)

\* The framework's own rows are routes.
DefaultRoute == \A r \in Row : rows[r] = Default => r[1] = "route"

\* A statement of a phase touches no row an earlier one has settled.
LEMMA ScopesApart ==
    ASSUME TypeOK, NEW p \in Pushers, NEW r \in Scope(p), pc[p] \in Open
    PROVE  /\ pc[p] \in {"routes", "templates", "handlers", "stale_assets"} =>
                /\ r \notin Applied(p) /\ r \notin Table(p, "handler")
                /\ r \notin Table(p, "asset") /\ r \notin Table(p, "setting")
           /\ pc[p] \in {"assets", "settings"} =>
                /\ r \notin Applied(p) /\ r \notin Table(p, "handler")
                /\ r[1] \notin {"route", "template", "handler"}
           /\ pc[p] = "settings" => r[1] = "setting"
<1>1. \A table \in Tables : \A s \in Table(p, table) : s[1] = table
  BY TableRows
<1>2. \A s \in Applied(p) : s[1] \in {"handler", "template", "route"} /\ s \in Table(p, s[1])
  BY <1>1 DEF Applied, Tables
<1>3. ASSUME pc[p] \in {"routes", "templates", "handlers", "stale_assets"}
      PROVE  /\ r \notin Applied(p) /\ r \notin Table(p, "handler")
             /\ r \notin Table(p, "asset") /\ r \notin Table(p, "setting")
  <2>1. PICK table \in {"route", "template", "handler", "asset"} : r \in Gone(p, table)
    BY <1>3 DEF Scope, Open
  <2>2. r[1] = table /\ r \notin Table(p, table)
    BY <2>1 DEF Gone
  <2>3. QED  BY <1>1, <1>2, <2>2 DEF Tables
<1>4. ASSUME pc[p] \in {"assets", "settings"} PROVE r[1] \in {"asset", "setting"}
  BY <1>1, <1>4 DEF Scope, Tables
<1>5. ASSUME pc[p] = "settings" PROVE r[1] = "setting"
  BY <1>1, <1>5 DEF Scope, Tables
<1>6. QED  BY <1>1, <1>2, <1>3, <1>4, <1>5 DEF Tables

\* Until p commits, the rows of the tables stay as they are.
LEMMA RowsKept ==
    ASSUME TypeOK, Locks, NEW p \in Pushers, Shapes(p), ~(\E acked \in BOOLEAN : Commit(p, acked))
    PROVE  /\ \A r \in Row : r[1] # "migration" => rows'[r] = rows[r]
           /\ \A r \in Row : rows'[r] = Default => rows[r] = Default
           /\ tree' = tree /\ alone' = alone
           /\ \A q \in Pushers : disturbed'[q] = disturbed[q] \/ (q = p /\ Begin(p))
<1>1. CASE CommitFile(p)
  <2>1. /\ pc[p] = "recorded" /\ Publish(p) /\ tree' = tree /\ alone' = alone
        /\ disturbed' = disturbed
    BY <1>1 DEF CommitFile, history
  <2>2. \A r \in Row : r[1] # "migration" => ~Holds(p, r)
    BY <2>1 DEF Locks, Open
  <2>3. \A r \in Row : Holds(p, r) => own[p][r] \in {p, Absent}
    BY DEF Locks
  <2>4. QED  BY <2>1, <2>2, <2>3, Published, Values
<1>2. CASE ~CommitFile(p)
  <2>1. rows' = rows /\ tree' = tree /\ alone' = alone
    BY <1>2 DEF Shapes, Moves, Stays, RollsBack, Discard, Enters, Phase, LoadApplied, Records,
       Writes, Begin, Repeat, Sets, Wait, database, history
  <2>2. disturbed' = disturbed \/ Begin(p)
    BY <1>2 DEF Shapes, Moves, Stays, RollsBack, Discard, Enters, Phase, LoadApplied, Records,
       Writes, Repeat, Sets, Wait, history
  <2>3. \A q \in Pushers : q # p /\ Begin(p) => disturbed'[q] = disturbed[q]
    BY DEF Begin, TypeOK
  <2>4. QED  BY <2>1, <2>2, <2>3
<1>3. QED  BY <1>1, <1>2

\* The steps inside of a transaction, the one that opens it included.
LEMMA OpenSteps ==
    ASSUME TypeOK, NEW p \in Pushers, Shapes(p), pc'[p] \in Open
    PROVE  \/ Begin(p) \/ \E to \in Place : Enters(p, to)
           \/ \E r \in Row, v \in Value \cup {Untouched} : Sets(p, r, v)
           \/ \E r \in Row : Wait(p, r)
<1>1. ASSUME NEW to \in Place, Moves(p, to) \/ RollsBack(p, to) PROVE FALSE
  BY <1>1, GotoPlace DEF Moves, Stays, RollsBack, Open
<1>2. ASSUME LoadApplied(p) \/ Records(p) \/ CommitFile(p) \/ Repeat(p) PROVE FALSE
  BY <1>2, GotoPlace DEF LoadApplied, Records, CommitFile, Repeat, Open
<1>3. ASSUME NEW acked \in BOOLEAN, Commit(p, acked) PROVE FALSE
  BY <1>3, GotoPlace DEF Commit, Ends, Open
<1>4. QED  BY <1>1, <1>2, <1>3 DEF Shapes

\* What p's statements and phases do to its own writes.
LEMMA UpsertedKept ==
    ASSUME TypeOK, InScope, Upserted, NEW p \in Pushers, Shapes(p)
    PROVE  Upserted'
<1>1. app' = app
  BY AppKept
<1>2. \A q \in Pushers : /\ Applied(q)' = Applied(q) /\ Table(q, "asset")' = Table(q, "asset")
                         /\ Table(q, "setting")' = Table(q, "setting")
  BY <1>1 DEF Applied, Table
<1>3. ASSUME NEW q \in Pushers, q # p PROVE UpsertedBy(q)'
  <2>1. pc'[q] = pc[q] /\ todo'[q] = todo[q] /\ own'[q] = own[q]
    BY <1>3, OthersKept
  <2>2. QED  BY <1>2, <2>1 DEF Upserted, UpsertedBy
<1>4. SUFFICES UpsertedBy(p)'
  BY <1>3 DEF Upserted
<1>5. CASE pc'[p] \notin Open
  BY <1>5 DEF UpsertedBy, Open, From
<1>6. CASE Begin(p)
  <2>1. pc'[p] = "apply" /\ todo'[p] = Applied(p)
    BY <1>6, GotoPlace DEF Begin, Applied, TypeOK
  <2>2. QED  BY <1>2, <2>1 DEF UpsertedBy, From
<1>7. ASSUME NEW to \in Place, Enters(p, to) PROVE UpsertedBy(p)'
  <2>1. todo[p] = {} /\ own' = own /\ pc[p] \in Open /\ pc'[p] = to /\ to \in Open \ {"apply"}
    BY <1>7, GotoPlace DEF Enters, Phase, Open
  <2>2. \A r \in Applied(p) : own[p][r] = p
    BY <2>1 DEF Upserted, UpsertedBy
  <2>3. \A r \in Applied(p)' : own'[p][r] = p
    BY <1>2, <2>1, <2>2
  <2>4. ASSUME to \in From("assets"), NEW r \in Table(p, "asset")
        PROVE  own'[p][r] = p \/ (to = "assets" /\ r \in todo'[p])
    <3>1. to = "assets" \/ pc[p] \in From("assets") \ {"assets"} \/ (pc[p] = "assets" /\ todo[p] = {})
      BY <1>7, <2>4 DEF Enters, Phase, From
    <3>2. to = "assets" => todo'[p] = Table(p, "asset")
      BY <1>7 DEF Enters, Phase, TypeOK
    <3>3. pc[p] \in From("assets") => own[p][r] = p
      BY <2>1, <2>4 DEF Upserted, UpsertedBy
    <3>4. "assets" \in From("assets")
      BY DEF From
    <3>5. QED  BY <2>1, <2>4, <3>1, <3>2, <3>3, <3>4
  <2>5. ASSUME to \in From("settings"), NEW r \in Table(p, "setting")
        PROVE  own'[p][r] = p \/ (to = "settings" /\ r \in todo'[p])
    <3>1. to = "settings" \/ pc[p] \in From("settings")
      BY <1>7, <2>5 DEF Enters, Phase, From
    <3>2. to = "settings" => todo'[p] = Table(p, "setting")
      BY <1>7 DEF Enters, Phase, TypeOK
    <3>3. pc[p] \in From("settings") => own[p][r] = p
      BY <2>1, <2>5 DEF Upserted, UpsertedBy
    <3>4. QED  BY <2>1, <2>5, <3>1, <3>2, <3>3
  <2>6. QED  BY <1>2, <2>1, <2>3, <2>4, <2>5 DEF UpsertedBy
<1>8. ASSUME NEW r \in Row, NEW v \in Value \cup {Untouched}, Sets(p, r, v) PROVE UpsertedBy(p)'
  <2>1. /\ pc[p] \in Open /\ pc' = pc /\ todo'[p] = todo[p] \ {r} /\ r \in Scope(p)
        /\ \A s \in Row : own'[p][s] = IF s = r THEN v ELSE own[p][s]
    BY <1>8 DEF Sets, Writes, TypeOK, Open, InScope
  <2>2. /\ Applied(p) \subseteq Row /\ Table(p, "asset") \subseteq Row
        /\ Table(p, "setting") \subseteq Row
    BY TableRows DEF Applied, Tables
  <2>3. CASE v = p
    BY <1>2, <2>1, <2>2, <2>3 DEF Upserted, UpsertedBy
  <2>4. CASE pc[p] \in {"routes", "templates", "handlers", "stale_assets"}
    <3>1. r \notin Applied(p) /\ r \notin Table(p, "asset") /\ r \notin Table(p, "setting")
      BY <2>1, <2>4, ScopesApart
    <3>2. QED  BY <1>2, <2>1, <2>2, <3>1 DEF Upserted, UpsertedBy
  <2>5. QED  BY <1>8, <2>3, <2>4 DEF Sets
<1>9. ASSUME NEW r \in Row, Wait(p, r) PROVE UpsertedBy(p)'
  <2>1. pc' = pc /\ own' = own /\ todo' = todo
    BY <1>9 DEF Wait
  <2>2. QED  BY <1>2, <2>1 DEF Upserted, UpsertedBy
<1>10. QED  BY <1>5, <1>6, <1>7, <1>8, <1>9, OpenSteps


LEMMA ReconciledKept ==
    ASSUME TypeOK, InScope, Locks, Reconciled, NEW p \in Pushers, Shapes(p)
    PROVE  Reconciled'
<1>1. app' = app
  BY AppKept
<1>2. \A q \in Pushers : \A table \in Tables :
         Table(q, table)' = Table(q, table) /\ Gone(q, table)' = Gone(q, table)
  BY <1>1 DEF Gone, Table
<1>3. \A q \in Pushers : \A table \in Tables :
         /\ \A r \in Table(q, table) : r \in Row /\ r[1] # "migration"
         /\ \A r \in Gone(q, table) : r \in Row /\ r[1] # "migration"
  BY TableRows DEF Gone, Tables
<1>4. CASE \E acked \in BOOLEAN : Commit(p, acked)
  <2>1. \A q \in Pushers : q # p => disturbed'[q]
    <3>1. disturbed' = [q \in Pushers |-> q # p]
      BY <1>4, Zenon DEF Commit
    <3>2. QED  BY <3>1
  <2>2. pc'[p] \in {"ok", "failed"}
    BY <1>4, GotoPlace DEF Commit, Ends
  <2>3. ReconciledBy(p)'
    BY <2>2 DEF ReconciledBy, From, Open
  <2>4. QED  BY <2>1, <2>3 DEF Reconciled
<1>5. CASE ~(\E acked \in BOOLEAN : Commit(p, acked))
  <2>1. \A r \in Row : r[1] # "migration" => rows'[r] = rows[r]
    BY <1>5, RowsKept
  <2>2. ASSUME NEW q \in Pushers, ~disturbed[q], pc'[q] = pc[q], todo'[q] = todo[q], own'[q] = own[q]
        PROVE  ReconciledBy(q)'
    <3>1. \A r \in Row : r[1] # "migration" => View(q, r)' = View(q, r)
      BY <2>1, <2>2 DEF View
    <3>2. ReconciledBy(q)
      BY <2>2 DEF Reconciled
    <3>3. \A table \in Tables : Cleared(q, table) => Cleared(q, table)'
      BY <1>2, <1>3, <2>2, <3>1 DEF Cleared
    <3>4. (\A r \in Table(q, "handler") : View(q, r) # Absent)
             => (\A r \in Table(q, "handler")' : View(q, r)' # Absent)
      BY <1>2, <1>3, <3>1 DEF Tables
    <3>5. QED  BY <2>2, <3>2, <3>3, <3>4 DEF ReconciledBy, Tables
  <2>3. ASSUME NEW q \in Pushers, q # p, ~disturbed'[q] PROVE ReconciledBy(q)'
    <3>1. pc'[q] = pc[q] /\ todo'[q] = todo[q] /\ own'[q] = own[q]
      BY <2>3, OthersKept
    <3>2. ~disturbed[q]
      BY <1>5, <2>3, RowsKept
    <3>3. QED  BY <2>2, <3>1, <3>2
  <2>4. SUFFICES ASSUME ~disturbed'[p] PROVE ReconciledBy(p)'
    BY <2>3 DEF Reconciled
  <2>5. CASE pc'[p] \notin Open
    BY <2>5 DEF ReconciledBy, Open, From
  <2>6. CASE Begin(p)
    <3>1. pc'[p] = "apply"
      BY <2>6, GotoPlace DEF Begin
    <3>2. QED  BY <3>1 DEF ReconciledBy, From
  <2>7. ASSUME ~Begin(p) PROVE ReconciledBy(p) /\ ~disturbed[p]
    BY <1>5, <2>4, <2>7, RowsKept DEF Reconciled
  <2>8. ASSUME NEW to \in Place, Enters(p, to) PROVE ReconciledBy(p)'
    <3>1. /\ todo[p] = {} /\ own' = own /\ rows' = rows /\ pc'[p] = to /\ pc[p] # "begin"
      BY <2>8, GotoPlace DEF Enters, Phase, database
    <3>2. ReconciledBy(p)
      BY <2>7, <3>1 DEF Begin
    <3>3. \A r : View(p, r)' = View(p, r)
      BY <3>1 DEF View
    <3>4. \A table \in Tables : Cleared(p, table) => Cleared(p, table)'
      BY <1>2, <3>1, <3>3 DEF Cleared
    <3>5. ASSUME NEW table \in Tables, todo'[p] = Stale(p, table) PROVE Cleared(p, table)'
      BY <1>2, <3>3, <3>5 DEF Cleared, Stale, Gone
    <3>6. (\A r \in Table(p, "handler") : View(p, r) # Absent)
             => (\A r \in Table(p, "handler")' : View(p, r)' # Absent)
      BY <1>2, <3>3 DEF Tables
    <3>7. /\ to \in From("routes") => to = "routes" \/ pc[p] \in From("routes")
          /\ to \in From("templates") => to = "templates" \/ pc[p] \in From("templates")
          /\ to \in From("handlers") => to = "handlers" \/ pc[p] \in From("handlers")
          /\ to \in From("stale_assets") => to = "stale_assets" \/ pc[p] \in From("stale_assets")
          /\ to \in From("validate") => to = "validate" \/ pc[p] \in From("validate")
      BY <2>8 DEF Enters, Phase, From, Open
    <3>8. /\ to = "routes" => todo'[p] = Stale(p, "route")
          /\ to = "templates" => todo'[p] = Stale(p, "template")
          /\ to = "handlers" => todo'[p] = Stale(p, "handler")
          /\ to = "stale_assets" => todo'[p] = Stale(p, "asset")
          /\ to = "validate" => \A r \in Table(p, "handler") : View(p, r) # Absent
      BY <2>8 DEF Enters, Phase, TypeOK
    <3>9. QED  BY <3>1, <3>2, <3>4, <3>5, <3>6, <3>7, <3>8 DEF ReconciledBy, Tables
  <2>9. ASSUME NEW r \in Row, NEW v \in Value \cup {Untouched}, Sets(p, r, v)
        PROVE  ReconciledBy(p)'
    <3>1. /\ pc[p] \in Open /\ pc' = pc /\ todo'[p] = todo[p] \ {r} /\ r \in Scope(p)
          /\ \A s \in Row : own'[p][s] = IF s = r THEN v ELSE own[p][s]
          /\ rows' = rows
      BY <2>9 DEF Sets, Writes, TypeOK, Open, InScope, database
    <3>2. ReconciledBy(p)
      BY <2>7, <3>1 DEF Begin, Open
    <3>3. \A s \in Row : s # r => View(p, s)' = View(p, s)
      BY <3>1 DEF View
    <3>4. ASSUME NEW table \in Tables, r[1] # table \/ View(p, r)' = Absent
          PROVE  Cleared(p, table) => Cleared(p, table)'
      BY <1>2, <3>1, <3>3, <3>4 DEF Cleared, Gone
    <3>5. ASSUME r \notin Table(p, "handler")
          PROVE  (\A s \in Table(p, "handler") : View(p, s) # Absent)
                   => (\A s \in Table(p, "handler")' : View(p, s)' # Absent)
      BY <1>2, <1>3, <3>3, <3>5 DEF Tables
    <3>6. CASE pc[p] \in {"routes", "templates", "handlers", "stale_assets"}
      <4>1. r \notin Table(p, "handler")
        BY <3>1, <3>6, ScopesApart
      <4>2. View(p, r)' = Absent
        BY <2>9, <3>1, <3>6, Values DEF Sets, View
      <4>3. \A table \in Tables : Cleared(p, table) => Cleared(p, table)'
        BY <3>4, <4>2
      <4>4. QED  BY <3>1, <3>2, <3>5, <4>1, <4>3 DEF ReconciledBy, Tables
    <3>7. CASE pc[p] \in {"assets", "settings"}
      <4>1. r \notin Table(p, "handler") /\ r[1] \notin {"route", "template", "handler"}
        BY <3>1, <3>7, ScopesApart
      <4>2. pc[p] = "settings" => r[1] # "asset"
        BY <3>1, ScopesApart
      <4>3. pc[p] \in From("stale_assets") => pc[p] = "settings"
        BY <3>7 DEF From
      <4>4. \A table \in {"route", "template", "handler"} :
               Cleared(p, table) => Cleared(p, table)'
        BY <3>4, <4>1 DEF Tables
      <4>5. pc[p] = "settings" => (Cleared(p, "asset") => Cleared(p, "asset")')
        BY <3>4, <4>2 DEF Tables
      <4>6. QED  BY <3>1, <3>2, <3>5, <4>1, <4>3, <4>4, <4>5 DEF ReconciledBy
    <3>8. CASE pc[p] = "apply"
      BY <3>1, <3>8 DEF ReconciledBy, From
    <3>9. QED  BY <2>9, <3>6, <3>7, <3>8 DEF Sets
  <2>10. ASSUME NEW r \in Row, Wait(p, r) PROVE ReconciledBy(p)'
    <3>1. CASE pc[p] = "begin"
      BY <2>10, <3>1 DEF Wait, ReconciledBy, From, Open
    <3>2. CASE pc[p] # "begin"
      BY <2>2, <2>7, <2>10, <3>2 DEF Wait, Begin
    <3>3. QED  BY <3>1, <3>2
  <2>11. QED  BY <2>5, <2>6, <2>8, <2>9, <2>10, OpenSteps
<1>6. QED  BY <1>4, <1>5

LEMMA DefaultRouteKept ==
    ASSUME TypeOK, Locks, DefaultRoute, NEW p \in Pushers, Shapes(p)
    PROVE  DefaultRoute'
<1>1. CASE \E acked \in BOOLEAN : Commit(p, acked)
  <2>1. Publish(p)
    BY <1>1 DEF Commit
  <2>2. \A r \in Row : Holds(p, r) => own[p][r] \in {p, Absent}
    BY DEF Locks
  <2>3. QED  BY <2>1, <2>2, Published, Values DEF DefaultRoute
<1>2. CASE ~(\E acked \in BOOLEAN : Commit(p, acked))
  BY <1>2, RowsKept DEF DefaultRoute
<1>3. QED  BY <1>1, <1>2

\* A commit leaves every row of p's tree in p's version, and no other rows
\* when it is undisturbed.
LEMMA CommitExact ==
    ASSUME TypeOK, InScope, Locks, Upserted, Reconciled, DefaultRoute,
           NEW p \in Pushers, NEW acked \in BOOLEAN, Commit(p, acked)
    PROVE  SourceOfTruth'
<1>1. /\ pc[p] = "ready" /\ tree' = p /\ app' = app /\ Publish(p)
      /\ alone' = ~disturbed[p]
  BY DEF Commit
<1>2. \A table \in Tables : Table(p, table)' = Table(p, table)
  BY <1>1 DEF Table
<1>3. todo[p] = {}
  BY <1>1 DEF InScope, Scope
<1>4. \A r \in Row : rows'[r] = View(p, r)
  BY <1>1 DEF Publish
<1>5. /\ \A r \in Applied(p) : own[p][r] = p
      /\ \A r \in Table(p, "asset") : own[p][r] = p
      /\ \A r \in Table(p, "setting") : own[p][r] = p
  BY <1>1, <1>3 DEF Upserted, UpsertedBy, Open, From
<1>6. \A table \in Tables : \A r \in Table(p, table) : r \in Row /\ r[1] = table
  BY TableRows
<1>7. \A r \in Applied(p) \cup Table(p, "asset") \cup Table(p, "setting") :
         r \in Row /\ rows'[r] = p
  BY <1>4, <1>5, <1>6, Values DEF View, Applied, Tables
<1>8. Table(p, "template") \cup Table(p, "route") \subseteq Applied(p)
  BY DEF Applied
<1>9. ASSUME NEW r \in Table(p, "handler") PROVE r \in Applied(p) \/ r[2] \in app[p].undefined
  BY <1>6, RowShape DEF Applied, Tables
<1>10. \A table \in Tables : \A r \in Table(p, table) :
          rows'[r] = p \/ (table = "handler" /\ r[2] \in app[p].undefined)
  BY <1>7, <1>8, <1>9 DEF Tables
<1>11. ASSUME ~disturbed[p]
       PROVE  /\ \A table \in {"handler", "template", "asset"} :
                    Committed(table)' = Table(p, table)
              /\ {r \in Committed("route")' : rows'[r] # Default} = Table(p, "route")
  <2>1. ReconciledBy(p)
    BY <1>11 DEF Reconciled
  <2>2. \A table \in {"handler", "template", "route", "asset"} : \A r \in Gone(p, table) :
           View(p, r) \in {Absent, Default}
    BY <1>1, <1>3, <2>1 DEF ReconciledBy, Cleared, From, Open
  <2>3. \A r \in Row : View(p, r) = Default => r[1] = "route"
    BY Values DEF View, DefaultRoute, Locks, Holds
  <2>4. \A r \in Table(p, "handler") : rows'[r] # Absent
    BY <1>1, <1>4, <1>6, <2>1 DEF ReconciledBy, From, Open, Tables
  <2>5. \A table \in {"handler", "template", "asset"} :
           \A r \in Row : r[1] = table /\ r \notin Table(p, table) => rows'[r] = Absent
    BY <1>4, <2>2, <2>3 DEF Gone
  <2>6. \A r \in Row : r[1] = "route" /\ r \notin Table(p, "route") => rows'[r] \in {Absent, Default}
    BY <1>4, <2>2 DEF Gone
  <2>7. Committed("handler")' = Table(p, "handler")
    BY <1>6, <2>4, <2>5 DEF Committed, Tables
  <2>8. Committed("template")' = Table(p, "template") /\ Committed("asset")' = Table(p, "asset")
    BY <1>6, <1>7, <1>8, <2>5, Values DEF Committed, Tables
  <2>9. {r \in Committed("route")' : rows'[r] # Default} = Table(p, "route")
    BY <1>6, <1>7, <1>8, <2>6, Values DEF Committed, Tables
  <2>10. QED  BY <2>7, <2>8, <2>9
<1>12. QED  BY <1>1, <1>2, <1>10, <1>11 DEF SourceOfTruth, Tables

LEMMA TruthKept ==
    ASSUME TypeOK, InScope, Locks, Upserted, Reconciled, DefaultRoute, SourceOfTruth,
           NEW p \in Pushers, Shapes(p)
    PROVE  SourceOfTruth'
<1>1. ASSUME NEW acked \in BOOLEAN, Commit(p, acked) PROVE SourceOfTruth'
  BY <1>1, CommitExact
<1>2. CASE ~(\E acked \in BOOLEAN : Commit(p, acked))
  <2>1. /\ tree' = tree /\ alone' = alone
        /\ \A r \in Row : r[1] # "migration" => rows'[r] = rows[r]
    BY <1>2, RowsKept
  <2>2. app' = app
    BY AppKept
  <2>3. SUFFICES ASSUME tree # Base PROVE SourceOfTruth'
    BY <2>1 DEF SourceOfTruth
  <2>4. \A table \in Tables : Table(tree, table)' = Table(tree, table)
    BY <2>1, <2>2 DEF Table
  <2>5. \A table \in Tables : Committed(table)' = Committed(table)
    BY <2>1 DEF Committed, Tables
  <2>6. tree \in Pushers
    BY <2>3 DEF TypeOK
  <2>7. \A table \in Tables : \A r \in Table(tree, table) : r \in Row /\ r[1] = table
    BY <2>6, TableRows
  <2>8. \A table \in Tables : \A r \in Table(tree, table) :
           rows'[r] = tree \/ (table = "handler" /\ r[2] \in app[tree].undefined)
    BY <2>1, <2>3, <2>7 DEF SourceOfTruth, Tables
  <2>9. {r \in Committed("route")' : rows'[r] # Default}
          = {r \in Committed("route") : rows[r] # Default}
    <3>1. \A r \in Committed("route") : r \in Row /\ r[1] = "route" /\ rows'[r] = rows[r]
      BY <2>1 DEF Committed
    <3>2. QED  BY <2>5, <3>1 DEF Tables
  <2>10. alone => /\ \A table \in {"handler", "template", "asset"} :
                       Committed(table)' = Table(tree, table)
                 /\ {r \in Committed("route")' : rows'[r] # Default} = Table(tree, "route")
    BY <2>3, <2>5, <2>9 DEF SourceOfTruth, Tables
  <2>11. QED  BY <2>1, <2>2, <2>4, <2>8, <2>10 DEF SourceOfTruth, Tables
<1>3. QED  BY <1>1, <1>2

LEMMA InitTruth == Init => Upserted /\ Reconciled /\ DefaultRoute /\ SourceOfTruth
<1> SUFFICES ASSUME Init PROVE Upserted /\ Reconciled /\ DefaultRoute /\ SourceOfTruth
  OBVIOUS
<1>1. \A p \in Pushers : pc[p] = "start"
  BY DEF Init
<1>2. Upserted /\ Reconciled
  BY <1>1 DEF Upserted, UpsertedBy, Reconciled, ReconciledBy, From, Open
<1>3. DefaultRoute
  BY Values DEF Init, DefaultRoute
<1>4. SourceOfTruth
  BY DEF Init, SourceOfTruth
<1>5. QED  BY <1>2, <1>3, <1>4

\* push.rs: after a push every row of its tree is there in its version, and when
\* no other push committed in its transaction, nothing else but the framework's
\* own route, for any number of pushers, pages and files.
THEOREM FilesystemIsTruth == Spec => []SourceOfTruth
<1> DEFINE I == Upserted /\ Reconciled /\ DefaultRoute /\ SourceOfTruth
<1>1. ASSUME I, UNCHANGED vars PROVE I'
  <2>1. /\ app' = app /\ rows' = rows /\ pc' = pc /\ todo' = todo /\ own' = own
        /\ disturbed' = disturbed /\ tree' = tree /\ alone' = alone
    BY <1>1 DEF vars, database, session, history
  <2>2. \A q, table : Table(q, table)' = Table(q, table) /\ Gone(q, table)' = Gone(q, table)
    BY <2>1 DEF Gone, Table
  <2>3. Upserted'
    BY <1>1, <2>1, <2>2 DEF Upserted, UpsertedBy, Applied
  <2>4. Reconciled'
    BY <1>1, <2>1, <2>2 DEF Reconciled, ReconciledBy, Cleared, View
  <2>5. DefaultRoute' /\ SourceOfTruth'
    BY <1>1, <2>1, <2>2 DEF DefaultRoute, SourceOfTruth, Committed
  <2>6. QED  BY <2>3, <2>4, <2>5
<1>2. ASSUME TypeOK, LInv, I, [Next]_vars PROVE I'
  <2>1. ASSUME NEW p \in Pushers, Shapes(p) PROVE I'
    BY <1>2, <2>1, UpsertedKept, ReconciledKept, DefaultRouteKept, TruthKept DEF LInv
  <2>2. QED  BY <1>1, <1>2, <2>1, StepOf DEF LInv
<1>3. QED  BY InitTruth, <1>2, TypeCorrect, LocksInvariant, PTL DEF Spec

\* While the framework's route is there, only a push that has the page has written
\* it, and none is about to delete it.
SparesBy(p) ==
    rows[<<"route", Health>>] = Default =>
        /\ Holds(p, <<"route", Health>>) =>
             own[p][<<"route", Health>>] = p /\ Health \in app[p].pages
        /\ pc[p] = "routes" => <<"route", Health>> \notin todo[p]
SparesDefault == \A p \in Pushers : SparesBy(p)

LEMMA HealthRow ==
    /\ <<"route", Health>> \in Row
    /\ \A p : <<"route", Health>> \in Table(p, "route") <=> Health \in app[p].pages
  BY PushAssumption DEF Row, Table

LEMMA DefaultsShrink ==
    ASSUME TypeOK, Locks, NEW p \in Pushers, Shapes(p), NEW r \in Row, rows'[r] = Default
    PROVE  rows[r] = Default
<1>1. CASE \E acked \in BOOLEAN : Commit(p, acked)
  <2>1. Publish(p)
    BY <1>1 DEF Commit
  <2>2. Holds(p, r) => own[p][r] \in {p, Absent}
    BY DEF Locks
  <2>3. QED  BY <2>1, <2>2, Published, Values
<1>2. CASE ~(\E acked \in BOOLEAN : Commit(p, acked))
  BY <1>2, RowsKept
<1>3. QED  BY <1>1, <1>2

LEMMA SparesKept ==
    ASSUME TypeOK, InScope, Locks, Locks', SparesDefault, NEW p \in Pushers, Shapes(p)
    PROVE  SparesDefault'
<1> DEFINE h == <<"route", Health>>
<1>1. app' = app
  BY AppKept
<1>2. SUFFICES ASSUME rows'[h] = Default PROVE SparesDefault'
  BY DEF SparesDefault, SparesBy
<1>3. rows[h] = Default /\ h \in Row
  BY <1>2, HealthRow, DefaultsShrink
<1>4. \A q \in Pushers : /\ Holds(q, h) => own[q][h] = q /\ Health \in app[q].pages
                         /\ pc[q] = "routes" => h \notin todo[q]
  BY <1>3 DEF SparesDefault, SparesBy
<1>5. ASSUME NEW q \in Pushers, q # p PROVE SparesBy(q)'
  <2>1. pc'[q] = pc[q] /\ todo'[q] = todo[q] /\ own'[q] = own[q]
    BY <1>5, OthersKept
  <2>2. QED  BY <1>1, <1>4, <2>1 DEF SparesBy, Holds
<1>6. SUFFICES SparesBy(p)'
  BY <1>5 DEF SparesDefault
<1>7. CASE pc'[p] \notin Open
  <2>1. ~Holds(p, h)'
    BY <1>3, <1>7 DEF Locks
  <2>2. QED  BY <1>7, <2>1 DEF SparesBy, Open
<1>8. CASE Begin(p)
  <2>1. pc'[p] = "apply" /\ own' = own
    BY <1>8, GotoPlace DEF Begin
  <2>2. QED  BY <1>1, <1>4, <2>1 DEF SparesBy, Holds
<1>9. ASSUME NEW to \in Place, Enters(p, to) PROVE SparesBy(p)'
  <2>1. pc'[p] = to /\ own' = own /\ (to = "routes" => todo'[p] = Stale(p, "route"))
    BY <1>9, GotoPlace DEF Enters, Phase, TypeOK
  <2>2. h \notin Stale(p, "route")
    <3>1. CASE Holds(p, h)
      BY <1>4, <3>1, HealthRow DEF Stale
    <3>2. CASE ~Holds(p, h)
      BY <1>3, <3>2 DEF Stale, View, Holds
    <3>3. QED  BY <3>1, <3>2
  <2>3. QED  BY <1>1, <1>4, <2>1, <2>2 DEF SparesBy, Holds
<1>10. ASSUME NEW r \in Row, NEW v \in Value \cup {Untouched}, Sets(p, r, v) PROVE SparesBy(p)'
  <2>1. /\ pc[p] \in Open /\ pc' = pc /\ todo'[p] = todo[p] \ {r} /\ r \in todo[p] /\ r \in Scope(p)
        /\ \A s \in Row : own'[p][s] = IF s = r THEN v ELSE own[p][s]
    BY <1>10 DEF Sets, Writes, TypeOK, Open, InScope
  <2>2. CASE r # h
    BY <1>1, <1>3, <1>4, <2>1, <2>2 DEF SparesBy, Holds
  <2>3. CASE r = h
    <3>1. pc[p] = "apply" /\ v = p /\ h \in Applied(p)
      <4>1. r[1] = "route"
        BY <2>3
      <4>2. pc[p] \notin {"assets", "settings"}
        BY <2>1, <4>1, ScopesApart
      <4>3. pc[p] # "routes"
        BY <1>4, <2>1, <2>3
      <4>4. pc[p] \notin {"templates", "handlers", "stale_assets"}
        BY <2>1, <4>1 DEF Scope, Gone
      <4>5. pc[p] = "apply" /\ v = p
        BY <1>10, <4>2, <4>3, <4>4 DEF Sets
      <4>6. QED  BY <2>1, <2>3, <4>5 DEF Scope
    <3>2. h \in Table(p, "route")
      BY <3>1, TableRows DEF Applied, Tables
    <3>3. Health \in app[p].pages
      BY <3>2, HealthRow
    <3>4. QED  BY <1>1, <1>3, <2>1, <2>3, <3>1, <3>3 DEF SparesBy
  <2>4. QED  BY <2>2, <2>3
<1>11. ASSUME NEW r \in Row, Wait(p, r) PROVE SparesBy(p)'
  <2>1. pc' = pc /\ own' = own /\ todo' = todo
    BY <1>11 DEF Wait
  <2>2. QED  BY <1>1, <1>4, <2>1 DEF SparesBy, Holds
<1>12. QED  BY <1>7, <1>8, <1>9, <1>10, <1>11, OpenSteps

\* push.rs: however many trees without the page are pushed at the same time, their
\* reconciling leaves the framework's route: only a push of a tree that has the
\* page replaces it.
THEOREM OnlyAPageReplacesDefault == Spec => FrameworkRouteStays
<1> DEFINE h == <<"route", Health>>
           A == rows[h] = Default /\ rows'[h] # Default =>
                  \E p \in Pushers :
                     pc[p] = "ready" /\ pc'[p] # "ready" /\ Health \in app[p].pages /\ rows'[h] = p
<1>1. ASSUME Init PROVE SparesDefault
  <2>1. \A p \in Pushers : pc[p] = "start" /\ own[p][h] = Untouched
    BY <1>1, HealthRow DEF Init, Unwritten
  <2>2. QED  BY <2>1 DEF SparesDefault, SparesBy, Holds
<1>2. ASSUME SparesDefault, UNCHANGED vars PROVE SparesDefault'
  BY <1>2 DEF SparesDefault, SparesBy, Holds, vars, database, session
<1>3. ASSUME TypeOK, LInv, LInv', SparesDefault, [Next]_vars PROVE SparesDefault'
  <2>1. ASSUME NEW p \in Pushers, Shapes(p) PROVE SparesDefault'
    BY <1>3, <2>1, SparesKept DEF LInv
  <2>2. QED  BY <1>2, <1>3, <2>1, StepOf DEF LInv
<1>4. ASSUME TypeOK, LInv, SparesDefault, [Next]_vars PROVE [A]_vars
  <2>1. SUFFICES ASSUME NEW p \in Pushers, Shapes(p), rows[h] = Default, rows'[h] # Default
                 PROVE  /\ pc[p] = "ready" /\ pc'[p] # "ready"
                        /\ Health \in app[p].pages /\ rows'[h] = p
    BY <1>4, StepOf DEF LInv
  <2>2. h \in Row /\ h[1] # "migration"
    BY HealthRow
  <2>3. PICK acked \in BOOLEAN : Commit(p, acked)
    BY <1>4, <2>1, <2>2, RowsKept DEF LInv
  <2>4. pc[p] = "ready" /\ Publish(p)
    BY <2>3 DEF Commit
  <2>5. pc'[p] \in {"ok", "failed"}
    BY <1>4, <2>3, GotoPlace DEF Commit, Ends
  <2>6. rows'[h] = IF Holds(p, h) THEN own[p][h] ELSE rows[h]
    BY <1>4, <2>2, <2>4, Published
  <2>7. Holds(p, h) => own[p][h] = p /\ Health \in app[p].pages
    BY <1>4, <2>1 DEF SparesDefault, SparesBy
  <2>8. QED  BY <2>1, <2>4, <2>5, <2>6, <2>7
<1>5. QED
  BY <1>1, <1>3, <1>4, TypeCorrect, LocksInvariant, PTL DEF Spec, FrameworkRouteStays
=================================================================================
