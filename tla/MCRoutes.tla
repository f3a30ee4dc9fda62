------------------------------- MODULE MCRoutes -------------------------------
(***************************************************************************)
(* Trees of one file or two out of everything paths.rs tells apart, and of *)
(* three out of those whose patterns or names compete.                     *)
(***************************************************************************)
EXTENDS Routes

a == <<"a">>
b == <<"b">>
ca == <<"[", "a", "]">>
cb == <<"[", "b", "]">>
aabb == <<"a", "us", "us", "b">>
ab == <<"a", "us", "b">>
caf == <<"a", "eacute">>

Sql(dir, stem) == [dir |-> dir, stem |-> stem, ext |-> "sql", spelling |-> "plain",
                    args |-> "req json", returns |-> "json"]
Html(dir, stem) == [Sql(dir, stem) EXCEPT !.ext = "html"]

\* Patterns that compete.
Competing ==
    {Sql(d, "index") : d \in {<<a, b>>, <<a, cb>>, <<ca, b>>, <<ca, cb>>, <<cb, ca>>, <<ca, ca>>,
                              <<a>>, <<ca>>, <<cb>>, <<>>}}
      \cup {Html(<<>>, "_404"), Sql(<<ca>>, "post")}

\* Names the rules accept, change or refuse.
Spelled ==
    {Html(<<n>>, "index") :
        n \in {a, <<"$", "a">>, aabb, ab, <<"A">>, <<"a", "-", "b">>, <<":", "a">>, <<"a", ":", "b">>,
               caf, <<"[", "eacute", "]">>, <<":">>, <<"[", "]">>, <<"[", "a">>, <<"[", "1", "]">>, <<"[", "a", "a", "a", "a", "]">>}}

\* Handlers as authors write them.
Written ==
    {[Sql(<<n>>, "index") EXCEPT !.spelling = s, !.returns = r] :
        n \in {a, <<"A">>, caf, <<"a", "-", "b">>, <<":">>}, s \in {"plain", "quoted", "other"}, r \in {"json", "text"}}
      \cup {[Sql(d, "index") EXCEPT !.args = "id bigint"] : d \in {<<a>>, <<aabb>>, <<a, b>>}}

Stems == {Sql(<<>>, s) : s \in Stem} \cup {Sql(<<a>>, "_404"), [Sql(<<a>>, "about") EXCEPT !.ext = "md"]}

Pool == Competing \cup Spelled \cup Written \cup Stems
SamePath(f, g) == f.dir = g.dir /\ f.stem = g.stem /\ f.ext = g.ext

MCProjects ==
    {p \in {{f, g} : f, g \in Pool} \cup {{f, g, h} : f, g, h \in Competing \cup Spelled} :
        \A f, g \in p : SamePath(f, g) => f = g}

MCPaths ==
    {<<>>} \cup {<<n>> : n \in {a, b, aabb, ab, caf, <<"A">>, <<"a", ":", "b">>}}
      \cup {<<m, n>> : m, n \in {a, b}} \cup {<<a, <<>>, b>>}
=============================================================================
