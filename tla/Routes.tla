-------------------------------- MODULE Routes --------------------------------
(***************************************************************************)
(* From a directory to an answer: the naming rules of paths.rs, the rows   *)
(* and functions a push makes of them (push.rs apply_entry and             *)
(* validate_handler), the route table the worker sorts (cache.rs) and the  *)
(* pattern it picks for a request (router.rs).                             *)
(*                                                                         *)
(* A name is a sequence of characters, "us" being the underscore, "eacute" *)
(* any letter beyond ASCII, "-" any character Postgres takes only quoted;  *)
(* the last character of a handler's name is its method stem, "index" and  *)
(* so on, as one character.  A route is the sequence of its segments.      *)
(*                                                                         *)
(* Left out: a file that creates another page's function, handlers that an *)
(* earlier push left in the database (Push has those), and names longer    *)
(* than the 63 bytes Postgres keeps, which fail validation.                *)
(***************************************************************************)
EXTENDS Naturals, Sequences, FiniteSets, SequencesExt

CONSTANTS Projects,     \* the trees that are pushed, each a set of files
          Paths,        \* the request paths, each a sequence of names
          MaxCapture,   \* longest capture name, 63 in the code
          None

Letter == {"a", "b", "A"}
Digit == {"1"}
Special == {"us", "$", ":", "-", "[", "]"}
NonAscii == {"eacute"}
Char == Letter \cup Digit \cup Special \cup NonAscii

Stem == {"index", "post", "put", "patch", "delete", "_404", "get", "about"}
Method == {"GET", "POST", "PUT", "PATCH", "DELETE", "404"}

\* spelling: how a handler file writes the name of the function it creates,
\* as it is, in double quotes, or not at all; args and returns: the function's
\* argument list, as Postgres prints it, and return type.
File == [dir : Seq(Seq(Char) \ {<<>>}), stem : Stem, ext : {"html", "sql", "md"},
         spelling : {"plain", "quoted", "other"}, args : {"req json", "id bigint"},
         returns : {"json", "text"}]

ASSUME RoutesAssumption ==
    /\ \A p \in Projects : p \subseteq File
    /\ \A path \in Paths : path \in Seq(Seq(Char))
    /\ MaxCapture \in Nat \ {0}
    /\ None \notin File
    /\ None \notin [method : Method, route : Seq(Seq(Char)), handler : Seq(Char \cup Stem),
                    template : BOOLEAN]

VARIABLES
    project,    \* the tree
    pc,         \* "scan", "apply", "build" or "serving"
    entries,    \* what scan returned
    todo,       \* entries the push has not applied yet
    tx,         \* the push's view: routes and functions
    db,         \* what is committed
    snapshot,   \* the worker's table: for each method its patterns in order
    asked,      \* the request being answered
    reply       \* and its answer

pushVars == <<project, entries, todo, tx, db>>
vars == <<pushVars, pc, snapshot, asked, reply>>

-----------------------------------------------------------------------------
(* paths.rs.                                                               *)

ValidStem(f) ==
    \/ f.stem \in {"index", "post", "put", "patch", "delete"}
    \/ f.stem = "_404" /\ f.dir = <<>>

MethodForStem(s) ==
    CASE s = "index" -> "GET" [] s = "post" -> "POST" [] s = "put" -> "PUT"
      [] s = "patch" -> "PATCH" [] s = "delete" -> "DELETE" [] OTHER -> "404"

Bracketed(name) == \E i \in DOMAIN name : name[i] \in {"[", "]"}
Inner(name) == SubSeq(name, 2, Len(name) - 1)

ValidCaptureName(name) ==
    /\ name # <<>> /\ Len(name) <= MaxCapture
    /\ name[1] \in Letter \cup {"us"}
    /\ \A i \in DOMAIN name : name[i] \in Letter \cup Digit \cup {"us"}

\* parse_segment: brackets around the whole name, or none at all.
ValidSegment(name) ==
    Bracketed(name) =>
        name[1] = "[" /\ name[Len(name)] = "]" /\ ValidCaptureName(Inner(name))

\* A capture is written with a mark before its name, a literal as it is.
Marked(name, mark) == IF Bracketed(name) THEN <<mark>> \o Inner(name) ELSE name

BuildRoute(dir) == [i \in DOMAIN dir |-> Marked(dir[i], ":")]

\* Mutant: captures are not marked in handler names.
UnmarkedHandlerName(dir, stem) ==
    FlattenSeq([i \in DOMAIN dir |->
        (IF Bracketed(dir[i]) THEN Inner(dir[i]) ELSE dir[i]) \o <<"us", "us">>]) \o <<stem>>

BuildHandlerName(dir, stem) ==
    FlattenSeq([i \in DOMAIN dir |-> Marked(dir[i], "$") \o <<"us", "us">>]) \o <<stem>>

PageFiles == {f \in project : f.ext \in {"html", "sql"}}

\* One entry per directory and stem, from a template, a handler or both.
Entry(dir, stem) ==
    LET files(ext) == {f \in PageFiles : f.dir = dir /\ f.stem = stem /\ f.ext = ext}
    IN  [dir |-> dir, stem |-> stem,
         method |-> MethodForStem(stem), route |-> BuildRoute(dir),
         handler |-> BuildHandlerName(dir, stem),
         template |-> files("html") # {},
         sql |-> IF files("sql") = {} THEN None ELSE CHOOSE f \in files("sql") : TRUE]

Scannable ==
    \A f \in PageFiles : ValidStem(f) /\ \A i \in DOMAIN f.dir : ValidSegment(f.dir[i])

Scan ==
    /\ pc = "scan" /\ Scannable
    /\ entries' = {Entry(f.dir, f.stem) : f \in PageFiles}
    /\ todo' = entries'
    /\ pc' = "apply"
    /\ UNCHANGED <<project, tx, db, snapshot, asked, reply>>

\* The first file or directory that breaks a rule ends the push.
ScanFails ==
    /\ pc = "scan" /\ ~Scannable
    /\ pc' = "build"
    /\ UNCHANGED <<pushVars, snapshot, asked, reply>>

-----------------------------------------------------------------------------
(* push.rs.                                                                *)

\* Postgres: what an unquoted name may hold, letters beyond ASCII included,
\* and the name it stands for.
PlainIdentifier(name) == \A i \in DOMAIN name : name[i] \notin {":", "-"}
Folded(name) == [i \in DOMAIN name |-> IF name[i] = "A" THEN "a" ELSE name[i]]

\* The handler of a page without one is synthesized, its name unquoted.
Spelling(e) == IF e.sql = None THEN "plain" ELSE e.sql.spelling
Args(e) == IF e.sql = None THEN "req json" ELSE e.sql.args
Returns(e) == IF e.sql = None THEN "json" ELSE e.sql.returns

Created(e) ==
    CASE Spelling(e) = "plain" -> {Folded(e.handler)}
      [] Spelling(e) = "quoted" -> {e.handler}
      [] OTHER -> {}

\* The functions CREATE OR REPLACE would replace: with other arguments it
\* makes an overload.
Replaced(e) == {g \in tx.functions : g.name \in Created(e) /\ g.args = Args(e)}

\* CREATE OR REPLACE FUNCTION is a syntax error, or changes a return type.
Refused(e) ==
    \/ Spelling(e) = "plain" /\ ~PlainIdentifier(e.handler)
    \/ \E g \in Replaced(e) : g.returns # Returns(e)

Row(e) == [method |-> e.method, route |-> e.route, handler |-> e.handler, template |-> e.template]

\* apply_entry.  scan sorts the entries; which of them comes first is left
\* open here, it shows only where two write the same row or function.
ApplyEntry(e) ==
    /\ pc = "apply" /\ e \in todo /\ ~Refused(e)
    /\ todo' = todo \ {e}
    /\ tx' = [functions |->
                (tx.functions \ Replaced(e))
                  \cup {[name |-> n, args |-> Args(e), returns |-> Returns(e), by |-> e] :
                          n \in Created(e)},
              routes |->
                {r \in tx.routes : <<r.method, r.route>> # <<e.method, e.route>>} \cup {Row(e)}]
    /\ UNCHANGED <<project, entries, db, pc, snapshot, asked, reply>>

Rollback ==
    /\ tx' = db
    /\ todo' = {}
    /\ pc' = "build"
    /\ UNCHANGED <<project, entries, db, snapshot, asked, reply>>

ApplyFails(e) == pc = "apply" /\ e \in todo /\ Refused(e) /\ Rollback

\* Mutant: only a function that exists is looked at.
ValidIfFound(e) ==
    \A g \in tx.functions :
        g.name = e.handler => g.returns \in (IF e.template THEN {"json"} ELSE {"json", "text"})

\* validate_handler: exactly one function of exactly that name (query_opt
\* fails on two), with the right arguments and a fitting type.
ValidHandler(e) ==
    \E g \in tx.functions :
        /\ {f \in tx.functions : f.name = e.handler} = {g}
        /\ g.args = "req json"
        /\ g.returns \in (IF e.template THEN {"json"} ELSE {"json", "text"})

\* Reconciling removes nothing here: the database had no pages before, and a
\* function that is not a page's handler has failed validation.
Commit ==
    /\ pc = "apply" /\ todo = {} /\ \A e \in entries : ValidHandler(e)
    /\ db' = tx
    /\ pc' = "build"
    /\ UNCHANGED <<project, entries, todo, tx, snapshot, asked, reply>>

ValidateFails ==
    pc = "apply" /\ todo = {} /\ (\E e \in entries : ~ValidHandler(e)) /\ Rollback

-----------------------------------------------------------------------------
(* cache.rs and router.rs.                                                 *)

IsCapture(seg) == seg[1] = ":"

\* Mutant: a segment that is only a colon is a capture too.
ParsesLoosely(route) ==
    \A i \in DOMAIN route :
        ~IsCapture(route[i]) => \A k \in DOMAIN route[i] : route[i][k] # ":"

\* ParsedPattern::parse; build_snapshot leaves out what does not parse.
Parses(route) ==
    \A i \in DOMAIN route :
        IF IsCapture(route[i]) THEN Len(route[i]) > 1
        ELSE \A k \in DOMAIN route[i] : route[i][k] # ":"

StaticCount(route) == Cardinality({i \in DOMAIN route : ~IsCapture(route[i])})
CaptureCount(route) == Len(route) - StaticCount(route)

\* Mutant: the table stays in the order of the SELECT.
AsSelected(r, s) == TRUE

\* The comparison of sort_by: not after.
InOrder(r, s) ==
    \/ StaticCount(r) > StaticCount(s)
    \/ /\ StaticCount(r) = StaticCount(s)
       /\ \/ CaptureCount(r) < CaptureCount(s)
          \/ CaptureCount(r) = CaptureCount(s) /\ Len(r) >= Len(s)

\* The SELECT has no ORDER BY and the sort is stable: any order that the
\* comparison allows.
Sorted(rows) ==
    {t \in SetToSeqs(rows) :
        \A i, j \in DOMAIN t : i < j => InOrder(t[i].route, t[j].route)}

BuildSnapshot ==
    LET rows(m) == {r \in db.routes : r.method = m /\ Parses(r.route)}
    IN  /\ pc = "build"
        /\ \E get \in Sorted(rows("GET")), post \in Sorted(rows("POST")) :
             snapshot' = [m \in Method |->
                CASE m = "GET" -> get [] m = "POST" -> post
                  [] OTHER -> SetToSeq(rows(m))]
        /\ pc' = "serving"
        /\ UNCHANGED <<pushVars, asked, reply>>

RequestSegments(path) == SelectSeq(path, LAMBDA seg : seg # <<>>)

Matches(route, segs) ==
    /\ Len(route) = Len(segs)
    /\ \A i \in DOMAIN route : IsCapture(route[i]) \/ route[i] = segs[i]

\* Mutant: the first capture gets the first segment, and so on.
CapturesInOrder(route, segs) ==
    LET captures == SelectSeq(route, IsCapture)
    IN  [n \in {Tail(captures[i]) : i \in DOMAIN captures} |->
            segs[CHOOSE i \in DOMAIN captures : Tail(captures[i]) = n]]

\* Of two captures of one name the later one is kept.
Captures(route, segs) ==
    LET named(n) == {i \in DOMAIN route : IsCapture(route[i]) /\ Tail(route[i]) = n}
    IN  [n \in {Tail(route[i]) : i \in {j \in DOMAIN route : IsCapture(route[j])}} |->
            segs[CHOOSE i \in named(n) : \A j \in named(n) : j <= i]]

\* lookup_route: the first pattern of the method's table that matches.
LookupRoute(method, segs) ==
    LET table == snapshot[method]
        found == {i \in DOMAIN table : Matches(table[i].route, segs)}
    IN  IF found = {} THEN None
        ELSE table[CHOOSE i \in found : \A j \in found : i <= j]

\* ASCII letters and digits, the underscore and the capture mark.
IsSafeIdent(name) ==
    \A i \in DOMAIN name : name[i] \notin {":", "-", "[", "]"} \cup NonAscii

NoReply == [status |-> 0, row |-> None, by |-> None, params |-> <<>>]

\* call_handler through the wrapper, which writes the name unquoted and passes
\* one json.
CallHandler(row, params, status) ==
    LET called == {g \in db.functions : g.name = Folded(row.handler) /\ g.args = "req json"}
    IN  IF IsSafeIdent(row.handler) /\ called # {}
          THEN [status |-> status, row |-> row, by |-> (CHOOSE g \in called : TRUE).by,
                params |-> params]
          ELSE [NoReply EXCEPT !.status = 500, !.row = row]

\* The page route, or the fallback, or a bare 404.
AnswerTo(method, path) ==
    LET segs == RequestSegments(path)
        row == LookupRoute(method, segs)
        fallback == LookupRoute("404", <<>>)
    IN  IF row # None THEN CallHandler(row, Captures(row.route, segs), 200)
        ELSE IF fallback # None THEN CallHandler(fallback, <<>>, 404)
        ELSE [NoReply EXCEPT !.status = 404]

Serve(method, path) ==
    /\ pc = "serving" /\ reply = NoReply
    /\ asked' = [method |-> method, path |-> path]
    /\ reply' = AnswerTo(method, path)
    /\ UNCHANGED <<pushVars, pc, snapshot>>

NextRequest ==
    /\ reply # NoReply
    /\ reply' = NoReply /\ asked' = None
    /\ UNCHANGED <<pushVars, pc, snapshot>>

-----------------------------------------------------------------------------
Init ==
    /\ project \in Projects
    /\ pc = "scan"
    /\ entries = {} /\ todo = {}
    /\ db = [routes |-> {}, functions |-> {}]
    /\ tx = db
    /\ snapshot = [m \in Method |-> <<>>]
    /\ asked = None
    /\ reply = NoReply

Next ==
    \/ Scan \/ ScanFails \/ Commit \/ ValidateFails \/ BuildSnapshot \/ NextRequest
    \/ \E e \in todo : ApplyEntry(e) \/ ApplyFails(e)
    \/ \E m \in {"GET", "POST"}, path \in Paths : Serve(m, path)

Spec == Init /\ [][Next]_vars

-----------------------------------------------------------------------------
(* Properties.                                                             *)

TypeOK ==
    /\ project \subseteq File
    /\ pc \in {"scan", "apply", "build", "serving"}
    /\ todo \subseteq entries
    /\ \A e \in entries : e.method \in Method /\ e.route \in Seq(Seq(Char))
    /\ \A g \in tx.functions \cup db.functions :
          g.by \in entries /\ g.returns \in {"json", "text"} /\ g.name # <<>>
    /\ tx.routes \cup db.routes \subseteq {Row(e) : e \in entries}
    /\ \A m \in Method : \A i \in DOMAIN snapshot[m] :
          LET r == snapshot[m][i]
          IN  r \in db.routes /\ r.method = m /\ \A k \in DOMAIN r.route : r.route[k] # <<":">>
    /\ asked = None \/ asked \in [method : Method, path : Seq(Seq(Char))]
    /\ reply.status \in {0, 200, 404, 500}

Answered == reply # NoReply
Deployed == db.routes # {}

\* No directory's name holds a colon: one that begins with it becomes a
\* capture, any other is dropped from the table.
NoColons == \A f \in PageFiles : \A i \in DOMAIN f.dir : ":" \notin Range(f.dir[i])

\* The directories a request names.
Named == SelectSeq(asked.path, LAMBDA seg : seg # <<>>)

\* The pages of the tree that a request names, read off the directories: a
\* bracketed directory stands for any segment.
Candidates ==
    {e \in entries :
        /\ e.method = asked.method /\ Len(e.dir) = Len(Named)
        /\ \A i \in DOMAIN e.dir : Bracketed(e.dir[i]) \/ e.dir[i] = Named[i]}

LiteralDirs(e) == Cardinality({i \in DOMAIN e.dir : ~Bracketed(e.dir[i])})

\* docs/APP-LAYOUT.md:154, "static beats dynamic", through every stage from the
\* directory to the sorted table: a request is answered by a page of the tree
\* that it names, by none that has fewer literal directories than another, and
\* by the fallback exactly when the tree has no such page, whatever order the
\* rows were selected in.
MostSpecificPage ==
    Answered /\ Deployed /\ NoColons =>
        IF Candidates = {} THEN reply.row = None \/ reply.row.method = "404"
        ELSE \E e \in Candidates :
                /\ reply.row = Row(e)
                /\ \A f \in Candidates : LiteralDirs(f) <= LiteralDirs(e)

\* A name in which the separator of handler names cannot be mistaken.
ClearName(name) ==
    /\ "$" \notin Range(name)
    /\ name[1] # "us" /\ name[Len(name)] # "us"
    /\ \A i \in 1 .. Len(name) - 1 : ~(name[i] = "us" /\ name[i + 1] = "us")

ClearNames == \A f \in PageFiles : \A i \in DOMAIN f.dir : ClearName(f.dir[i])
AllPlain == \A e \in entries : Spelling(e) # "quoted"

\* paths.rs:300-305: the name "cleanly disambiguates" pages.  With clear names
\* and unquoted handlers, the function a route calls was made by the route's
\* own files and not by those of another page.
OwnHandler ==
    Answered /\ NoColons /\ ClearNames /\ AllPlain /\ reply.by # None =>
        reply.row = Row(reply.by)

\* push.rs:9-13: a handler is validated so that no route can "surface as a 500
\* at request time".  Of what was pushed with unquoted handlers, every route
\* can be called but those whose handler's name has a letter beyond ASCII:
\* there, and there only, the name passes CREATE FUNCTION and validate_handler
\* and is refused by is_safe_ident.
PushedIsCallable ==
    Answered /\ AllPlain =>
        (reply.status = 500 <=>
            reply.row # None /\ \E i \in DOMAIN reply.row.handler : reply.row.handler[i] \in NonAscii)

\* The handler finds each captured segment under its directory's name.
CapturesBound ==
    Answered /\ NoColons /\ reply.status = 200 =>
        \E e \in Candidates :
            /\ reply.row = Row(e)
            /\ DOMAIN reply.params = {Inner(e.dir[i]) : i \in {j \in DOMAIN e.dir : Bracketed(e.dir[j])}}
            /\ \A i \in DOMAIN e.dir :
                  (Bracketed(e.dir[i]) /\ \A j \in DOMAIN e.dir : j > i => e.dir[j] # e.dir[i])
                    => reply.params[Inner(e.dir[i])] = Named[i]
=============================================================================
