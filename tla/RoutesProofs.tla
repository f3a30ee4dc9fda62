----------------------------- MODULE RoutesProofs -----------------------------
(***************************************************************************)
(* Proofs about Routes for every finite or infinite set of trees and paths *)
(* and names of any length.                                                *)
(***************************************************************************)
EXTENDS Routes, SequenceTheorems, FiniteSetTheorems, TLAPS

-----------------------------------------------------------------------------
(* Numbers and sequences.                                                  *)

\* A set of natural numbers has a least element.
LEMMA LeastExists ==
    ASSUME NEW S \in SUBSET Nat, S # {}
    PROVE  \E n \in S : \A k \in S : n <= k
<1>1. PICK n \in S : \A k \in S : ~(<<k, n>> \in OpToRel(<, Nat))
  BY WFMin, NatLessThanWellFounded
<1>2. ASSUME NEW k \in S PROVE n <= k
  <2>1. k \in Nat /\ n \in Nat
    OBVIOUS
  <2>2. k < n => <<k, n>> \in OpToRel(<, Nat)
    BY <2>1 DEF OpToRel
  <2>3. ~(k < n)
    BY <1>1, <2>2, Zenon
  <2> QED BY <2>1, <2>3
<1> QED BY <1>2

\* A set of numbers with a bound has a greatest element.
LEMMA GreatestExists ==
    ASSUME NEW n \in Nat, NEW S \in SUBSET (1..n), S # {}
    PROVE  \E m \in S : \A k \in S : k <= m
<1> DEFINE T == {n - k : k \in S}
<1>0. \A k \in S : n - k \in Nat
  OBVIOUS
<1>1. T \in SUBSET Nat /\ T # {}
  BY <1>0
<1>2. PICK t \in T : \A u \in T : t <= u
  <2> HIDE DEF T
  <2> QED BY <1>1, LeastExists
<1>3. PICK m \in S : t = n - m
  OBVIOUS
<1>4. ASSUME NEW k \in S PROVE k <= m
  <2>1. n - m <= n - k
    BY <1>2, <1>3
  <2> QED BY <2>1
<1> QED BY <1>4

\* What holds of 0 and of the successor of each number it holds of, up to n,
\* holds of n: induction, with the set of the numbers it holds of.
LEMMA CountingUp ==
    ASSUME NEW n \in Nat, NEW H, 0 \in H, \A m \in 0..n - 1 : m \in H => m + 1 \in H
    PROVE  n \in H
<1> DEFINE S == {m \in 0..n : m \notin H}
<1> SUFFICES ASSUME n \notin H PROVE FALSE
  OBVIOUS
<1>1. S \in SUBSET Nat /\ S # {}
  OBVIOUS
<1>2. PICK m \in S : \A k \in S : m <= k
  <2> HIDE DEF S
  <2> QED BY <1>1, LeastExists
<1>3. m # 0 /\ m - 1 \in 0..n - 1
  OBVIOUS
<1>4. m - 1 \in H
  BY <1>2, <1>3
<1> QED BY <1>3, <1>4

\* The function FlattenSeq is defined with: what has been written after each
\* of the sequences.
Flattens(f, ss, n) ==
    \A i \in 1..n : f[i] = IF i = 1 THEN ss[1] ELSE f[i - 1] \o ss[i]

LEMMA FlattensTyped ==
    ASSUME NEW S, NEW ss \in Seq(Seq(S)), NEW n \in 0..Len(ss), NEW f, Flattens(f, ss, n)
    PROVE  \A i \in 1..n : f[i] \in Seq(S)
<1> DEFINE H == {m \in Nat : \A i \in 1..m : i <= n => f[i] \in Seq(S)}
<1>1. 0 \in H
  OBVIOUS
<1>2. ASSUME NEW m \in 0..n - 1, m \in H PROVE m + 1 \in H
  <2>1. m + 1 \in 1..n /\ m + 1 \in 1..Len(ss) /\ 1 \in 1..Len(ss)
    OBVIOUS
  <2>2. ss[m + 1] \in Seq(S) /\ ss[1] \in Seq(S)
    BY <2>1
  <2>3. f[m + 1] = IF m + 1 = 1 THEN ss[1] ELSE f[m] \o ss[m + 1]
    BY <2>1 DEF Flattens
  <2>4. m + 1 # 1 => f[m] \in Seq(S)
    BY <1>2
  <2>5. f[m + 1] \in Seq(S)
    BY <2>2, <2>3, <2>4, ConcatProperties
  <2>6. \A i \in 1..m + 1 : i <= m \/ i = m + 1
    OBVIOUS
  <2>7. \A i \in 1..m : i <= n => f[i] \in Seq(S)
    BY <1>2
  <2>8. \A i \in 1..m + 1 : i <= m => i \in 1..m
    OBVIOUS
  <2>9. \A i \in 1..m + 1 : i <= n => f[i] \in Seq(S)
    BY <2>5, <2>6, <2>7, <2>8
  <2> QED BY <2>9
<1>3. n \in H
  <2> HIDE DEF H
  <2> QED BY <1>1, <1>2, CountingUp
<1> QED BY <1>3

LEMMA FlattensExists ==
    ASSUME NEW S, NEW ss \in Seq(Seq(S)), NEW n \in 0..Len(ss)
    PROVE  \E f \in [1..n -> Seq(S)] : Flattens(f, ss, n)
<1> DEFINE H == {m \in Nat : \E f \in [1..m -> Seq(S)] : Flattens(f, ss, m)}
<1>1. 0 \in H
  <2>1. [i \in 1..0 |-> <<>>] \in [1..0 -> Seq(S)] /\ 1..0 = {}
    OBVIOUS
  <2> QED BY <2>1 DEF Flattens
<1>2. ASSUME NEW m \in 0..n - 1, m \in H PROVE m + 1 \in H
  <2>1. PICK f \in [1..m -> Seq(S)] : Flattens(f, ss, m)
    BY <1>2
  <2> DEFINE last == IF m = 0 THEN ss[1] ELSE f[m] \o ss[m + 1]
             g == [i \in 1..m + 1 |-> IF i = m + 1 THEN last ELSE f[i]]
  <2>2. m + 1 \in 1..Len(ss) /\ 1 \in 1..Len(ss)
    OBVIOUS
  <2>3. ss[m + 1] \in Seq(S) /\ ss[1] \in Seq(S)
    BY <2>2
  <2>4. last \in Seq(S)
    BY <2>3, ConcatProperties
  <2> HIDE DEF last
  <2>5. g \in [1..m + 1 -> Seq(S)]
    BY <2>4
  <2>6. ASSUME NEW i \in 1..m + 1
        PROVE  g[i] = IF i = 1 THEN ss[1] ELSE g[i - 1] \o ss[i]
    <3>1. CASE i = m + 1
      <4>1. g[i] = last
        BY <3>1
      <4>2. i # 1 => g[i - 1] = f[m]
        BY <3>1
      <4> HIDE DEF g
      <4> QED BY <3>1, <4>1, <4>2 DEF last
    <3>2. CASE i # m + 1
      <4>1. i \in 1..m /\ g[i] = f[i]
        BY <3>2
      <4>2. i # 1 => g[i - 1] = f[i - 1]
        BY <4>1
      <4>3. f[i] = IF i = 1 THEN ss[1] ELSE f[i - 1] \o ss[i]
        BY <2>1, <4>1 DEF Flattens
      <4> HIDE DEF g
      <4> QED BY <4>1, <4>2, <4>3
    <3> QED BY <3>1, <3>2
  <2> HIDE DEF g
  <2>7. Flattens(g, ss, m + 1)
    BY <2>6 DEF Flattens
  <2> QED BY <2>5, <2>7
<1>3. n \in H
  <2> HIDE DEF H
  <2> QED BY <1>1, <1>2, CountingUp
<1> QED BY <1>3

\* Flattening sequences over S gives a sequence over S.
LEMMA FlattenSeqTyped ==
    ASSUME NEW S, NEW ss \in Seq(Seq(S))
    PROVE  /\ FlattenSeq(ss) \in Seq(S)
           /\ ss # <<>> => \E f \in [1..Len(ss) -> Seq(S)] :
                             Flattens(f, ss, Len(ss)) /\ FlattenSeq(ss) = f[Len(ss)]
<1> DEFINE n == Len(ss)
           IsFlatten(f) == f = [i \in 1..n |-> IF i = 1 THEN ss[i] ELSE f[i - 1] \o ss[i]]
           F == CHOOSE f : IsFlatten(f)
<1>0. n \in Nat
  OBVIOUS
<1>1. CASE n = 0
  <2>1. ss = <<>> /\ FlattenSeq(ss) = ss
    BY <1>1, EmptySeq DEF FlattenSeq
  <2> QED BY <2>1, EmptySeq
<1>2. CASE n # 0
  <2>1. PICK f \in [1..n -> Seq(S)] : Flattens(f, ss, n)
    <3>1. n \in 0..Len(ss)
      BY <1>0
    <3> HIDE DEF n
    <3> QED BY <3>1, FlattensExists
  <2>2. IsFlatten(f)
    BY <1>0, <2>1 DEF Flattens
  <2>3. IsFlatten(F)
    <3> HIDE DEF IsFlatten
    <3> QED BY <2>2
  <2>4. FlattenSeq(ss) = F[n]
    BY <1>2 DEF FlattenSeq
  <2> HIDE DEF F
  <2>5. DOMAIN F = 1..n /\ F = [i \in 1..n |-> F[i]] /\ Flattens(F, ss, n)
    BY <1>0, <2>3 DEF Flattens
  <2>6. \A i \in 1..n : F[i] \in Seq(S)
    <3>1. n \in 0..Len(ss)
      BY <1>0
    <3> HIDE DEF n
    <3> QED BY <2>5, <3>1, FlattensTyped
  <2>7. F \in [1..n -> Seq(S)]
    BY <2>5, <2>6
  <2>8. F[n] \in Seq(S)
    BY <1>0, <1>2, <2>6
  <2> QED BY <2>4, <2>5, <2>7, <2>8
<1> QED BY <1>1, <1>2

-----------------------------------------------------------------------------
(* Names and patterns.                                                     *)

Name == Seq(Char) \ {<<>>}
Symbol == Char \cup Stem
TableRow == [method : Method, route : Seq(Seq(Char)), handler : Seq(Symbol), template : BOOLEAN]

\* A bracketed directory that parse_segment accepts.
LEMMA CaptureShape ==
    ASSUME NEW d \in Name, Bracketed(d), ValidSegment(d)
    PROVE  /\ Len(d) \in Nat /\ Len(d) >= 3 /\ d[1] = "[" /\ d[Len(d)] = "]"
           /\ Inner(d) \in Seq(Letter \cup Digit \cup {"us"}) /\ Inner(d) \in Seq(Char)
           /\ Len(Inner(d)) = Len(d) - 2
           /\ \A i \in 1..Len(d) - 2 : Inner(d)[i] = d[i + 1]
<1>1. d \in Seq(Char) /\ Len(d) \in Nat /\ Len(d) # 0
  BY EmptySeq DEF Name
<1>2. d[1] = "[" /\ d[Len(d)] = "]" /\ ValidCaptureName(Inner(d))
  BY DEF ValidSegment
<1>3. Len(d) >= 2
  <2>1. Len(d) # 1
    BY <1>2
  <2>2. \A n \in Nat : n # 0 /\ n # 1 => n >= 2
    OBVIOUS
  <2> QED BY <1>1, <2>1, <2>2, Zenon
<1>4. /\ Inner(d) \in Seq(Char) /\ Len(Inner(d)) = Len(d) - 2
      /\ \A i \in 1..Len(d) - 2 : Inner(d)[i] = d[i + 1]
  <2>1. \A i \in 2..Len(d) - 1 : d[i] \in Char
    BY <1>1
  <2> DEFINE n == Len(d) - 1
  <2>2. n \in Int /\ 2 \in Int /\ n >= 1 /\ n - 2 + 1 = Len(d) - 2
    BY <1>1, <1>3
  <2> HIDE DEF n
  <2>3. /\ SubSeq(d, 2, n) \in Seq(Char)
        /\ Len(SubSeq(d, 2, n)) = IF 2 <= n THEN n - 2 + 1 ELSE 0
        /\ \A i \in 1..n - 2 + 1 : SubSeq(d, 2, n)[i] = d[2 + i - 1]
    BY <2>1, <2>2, SubSeqProperties DEF n
  <2>4. /\ Len(SubSeq(d, 2, n)) = Len(d) - 2
        /\ \A i \in 1..Len(d) - 2 : SubSeq(d, 2, n)[i] = d[i + 1]
    BY <2>2, <2>3
  <2> QED BY <2>3, <2>4 DEF Inner, n
<1>5. Inner(d) # <<>> /\ \A i \in DOMAIN Inner(d) : Inner(d)[i] \in Letter \cup Digit \cup {"us"}
  BY <1>2 DEF ValidCaptureName
<1>6. Len(d) >= 3
  <2>1. Len(Inner(d)) # 0
    BY <1>4, <1>5, EmptySeq
  <2> QED BY <1>1, <1>3, <1>4, <2>1
<1>7. Inner(d) \in Seq(Letter \cup Digit \cup {"us"})
  <2> DEFINE s == Inner(d)
             A == Letter \cup Digit \cup {"us"}
  <2>1. s \in Seq(Char) /\ \A i \in 1..Len(s) : s[i] \in A
    BY <1>4, <1>5
  <2> HIDE DEF s, A
  <2>2. s \in Seq(A)
    BY <2>1
  <2> QED BY <2>2 DEF s, A
<1> QED BY <1>1, <1>2, <1>4, <1>6, <1>7

\* Two captures of one name are one directory.
LEMMA InnerInjective ==
    ASSUME NEW c \in Name, Bracketed(c), ValidSegment(c),
           NEW d \in Name, Bracketed(d), ValidSegment(d), Inner(c) = Inner(d)
    PROVE  c = d
<1>1. /\ Len(c) \in Nat /\ Len(c) >= 3 /\ Len(d) = Len(c)
      /\ c[1] = d[1] /\ c[Len(c)] = d[Len(c)]
  BY CaptureShape
<1>2. ASSUME NEW i \in 1..Len(c) PROVE c[i] = d[i]
  <2>1. CASE i \in {1, Len(c)}
    BY <1>1, <2>1
  <2>2. CASE i \notin {1, Len(c)}
    <3>1. i - 1 \in 1..Len(c) - 2 /\ (i - 1) + 1 = i
      BY <1>1, <2>2
    <3>2. Inner(c)[i - 1] = c[i] /\ Inner(d)[i - 1] = d[i]
      BY <1>1, <3>1, CaptureShape
    <3> QED BY <3>2
  <2> QED BY <2>1, <2>2
<1>3. c \in Seq(Char) /\ d \in Seq(Char)
  BY DEF Name
<1> QED BY <1>1, <1>2, <1>3

\* A directory as a segment of a pattern or of a handler's name.
LEMMA MarkedShape ==
    ASSUME NEW d \in Name, ValidSegment(d), NEW mark \in Char
    PROVE  /\ Marked(d, mark) \in Name
           /\ Bracketed(d) => /\ Marked(d, mark)[1] = mark
                              /\ Len(Marked(d, mark)) > 1
                              /\ Tail(Marked(d, mark)) = Inner(d)
           /\ ~Bracketed(d) => Marked(d, mark) = d
           /\ mark \notin {"[", "]"} =>
                \A i \in 1..Len(Marked(d, mark)) : Marked(d, mark)[i] \notin {"[", "]"}
<1>1. CASE ~Bracketed(d)
  <2>1. Marked(d, mark) = d
    BY <1>1 DEF Marked
  <2>2. \A i \in 1..Len(d) : d[i] \notin {"[", "]"}
    BY <1>1 DEF Bracketed, Name
  <2> QED BY <1>1, <2>1, <2>2
<1>2. CASE Bracketed(d)
  <2> DEFINE s == Inner(d)
  <2>1. /\ s \in Seq(Char) /\ s \in Seq(Letter \cup Digit \cup {"us"}) /\ Len(s) \in Nat
        /\ Len(s) >= 1
    BY <1>2, CaptureShape
  <2>2. Marked(d, mark) = <<mark>> \o s
    BY <1>2 DEF Marked
  <2>3. \A i \in 1..Len(s) : s[i] \notin {"[", "]"}
    BY <2>1 DEF Letter, Digit
  <2> HIDE DEF s
  <2> DEFINE t == <<mark>> \o s
  <2>4. /\ t \in Seq(Char) /\ Len(t) = 1 + Len(s) /\ t[1] = mark
        /\ \A i \in 2..1 + Len(s) : t[i] = s[i - 1]
    <3>1. <<mark>> \in Seq(Char) /\ Len(<<mark>>) = 1 /\ <<mark>>[1] = mark
      OBVIOUS
    <3> QED BY <2>1, <3>1, ConcatProperties
  <2>5. Tail(t) = s
    <3> HIDE DEF t
    <3>1. Tail(t) \in Seq(Char) /\ Len(Tail(t)) = Len(s)
          /\ \A i \in 1..Len(s) : Tail(t)[i] = t[i + 1]
      BY <2>1, <2>4
    <3>2. ASSUME NEW i \in 1..Len(s) PROVE Tail(t)[i] = s[i]
      <4>1. i + 1 \in 2..1 + Len(s) /\ (i + 1) - 1 = i
        BY <2>1
      <4> QED BY <2>4, <3>1, <4>1
    <3> QED BY <2>1, <3>1, <3>2
  <2> HIDE DEF t
  <2>6. t # <<>>
    BY <2>1, <2>4
  <2>7. ASSUME mark \notin {"[", "]"}, NEW i \in 1..Len(t) PROVE t[i] \notin {"[", "]"}
    <3>1. CASE i = 1
      BY <2>4, <2>7, <3>1
    <3>2. CASE i # 1
      <4>1. i \in 2..1 + Len(s) /\ i - 1 \in 1..Len(s)
        BY <2>1, <2>4, <3>2
      <4> QED BY <2>3, <2>4, <4>1
    <3> QED BY <3>1, <3>2
  <2>8. Marked(d, mark) = t
    BY <2>2 DEF t
  <2> QED BY <1>2, <2>1, <2>4, <2>5, <2>6, <2>7, <2>8 DEF Name, s
<1> QED BY <1>1, <1>2

-----------------------------------------------------------------------------
(* Entries.                                                                *)

\* What scan makes of the tree, if it makes anything.
Pages == {Entry(f.dir, f.stem) : f \in PageFiles}
Scanned == entries = {} \/ (entries = Pages /\ Scannable)

\* The directories of an entry are those of a file of the tree.
LEMMA EntryOrigin ==
    ASSUME project \in Projects, Scanned, NEW e \in entries
    PROVE  \E f \in PageFiles :
             /\ f \in File /\ e = Entry(f.dir, f.stem) /\ ValidStem(f)
             /\ e.dir = f.dir /\ e.stem = f.stem
             /\ f.dir \in Seq(Name) /\ \A i \in DOMAIN f.dir : ValidSegment(f.dir[i])
<1>1. PICK f \in PageFiles : e = Entry(f.dir, f.stem)
  BY DEF Scanned, Pages
<1>2. Scannable
  BY DEF Scanned
<1>3. f \in File
  BY RoutesAssumption DEF PageFiles
<1>4. f.dir \in Seq(Name)
  BY <1>3 DEF File, Name
<1>5. ValidStem(f) /\ \A i \in DOMAIN f.dir : ValidSegment(f.dir[i])
  BY <1>2 DEF Scannable
<1>6. e.dir = f.dir /\ e.stem = f.stem
  BY <1>1 DEF Entry
<1> QED BY <1>1, <1>3, <1>4, <1>5, <1>6

\* The pattern of a directory.
LEMMA BuildRouteShape ==
    ASSUME NEW dir \in Seq(Name), \A i \in DOMAIN dir : ValidSegment(dir[i])
    PROVE  /\ BuildRoute(dir) \in Seq(Seq(Char)) /\ Len(BuildRoute(dir)) = Len(dir)
           /\ DOMAIN BuildRoute(dir) = 1..Len(dir) /\ DOMAIN dir = 1..Len(dir)
           /\ \A i \in 1..Len(dir) : BuildRoute(dir)[i] = Marked(dir[i], ":")
<1>1. DOMAIN dir = 1..Len(dir) /\ Len(dir) \in Nat
  OBVIOUS
<1>2. BuildRoute(dir) = [i \in 1..Len(dir) |-> Marked(dir[i], ":")]
  BY <1>1 DEF BuildRoute
<1>3. ASSUME NEW i \in 1..Len(dir) PROVE Marked(dir[i], ":") \in Seq(Char)
  <2>1. dir[i] \in Name /\ ValidSegment(dir[i]) /\ ":" \in Char
    BY <1>1 DEF Char, Special
  <2> QED BY <2>1, MarkedShape DEF Name
<1> QED BY <1>1, <1>2, <1>3

\* The name of a handler: no brackets, and never empty.
NameSymbol == Symbol \ {"[", "]"}

LEMMA HandlerNameShape ==
    ASSUME NEW dir \in Seq(Name), \A i \in DOMAIN dir : ValidSegment(dir[i]), NEW stem \in Stem
    PROVE  /\ BuildHandlerName(dir, stem) \in Seq(NameSymbol)
           /\ BuildHandlerName(dir, stem) # <<>>
<1> DEFINE ss == [i \in DOMAIN dir |-> Marked(dir[i], "$") \o <<"us", "us">>]
<1>1. DOMAIN dir = 1..Len(dir) /\ Len(dir) \in Nat
  OBVIOUS
<1>2. ASSUME NEW i \in 1..Len(dir) PROVE Marked(dir[i], "$") \o <<"us", "us">> \in Seq(NameSymbol)
  <2> DEFINE s == Marked(dir[i], "$")
  <2>1. dir[i] \in Name /\ ValidSegment(dir[i]) /\ "$" \in Char /\ "$" \notin {"[", "]"}
    BY <1>1 DEF Char, Special
  <2>2. s \in Seq(Char) /\ \A k \in 1..Len(s) : s[k] \notin {"[", "]"}
    BY <2>1, MarkedShape DEF Name
  <2> HIDE DEF s
  <2>3. s \in Seq(NameSymbol)
    <3>1. \A k \in 1..Len(s) : s[k] \in NameSymbol
      BY <2>2 DEF NameSymbol, Symbol
    <3> QED BY <2>2, <3>1
  <2>4. <<"us", "us">> \in Seq(NameSymbol)
    <3>1. "us" \in NameSymbol
      BY DEF NameSymbol, Symbol, Char, Special
    <3> QED BY <3>1
  <2>5. s \o <<"us", "us">> \in Seq(NameSymbol)
    BY <2>3, <2>4, ConcatProperties
  <2> QED BY <2>5 DEF s
<1>3. ss \in Seq(Seq(NameSymbol))
  BY <1>1, <1>2
<1>4. stem \in NameSymbol
  BY DEF NameSymbol, Symbol, Stem
<1> HIDE DEF ss
<1> DEFINE h == FlattenSeq(ss)
<1>5. h \in Seq(NameSymbol)
  BY <1>3, FlattenSeqTyped
<1>6. <<stem>> \in Seq(NameSymbol) /\ Len(<<stem>>) = 1
  BY <1>4
<1> HIDE DEF h
<1>7. h \o <<stem>> \in Seq(NameSymbol) /\ Len(h \o <<stem>>) = Len(h) + 1
  BY <1>5, <1>6, ConcatProperties
<1>8. h \o <<stem>> # <<>>
  <2>1. Len(h) \in Nat /\ Len(<<>>) = 0
    BY <1>5
  <2> QED BY <1>7, <2>1
<1>9. BuildHandlerName(dir, stem) = h \o <<stem>>
  BY DEF BuildHandlerName, h, ss
<1> QED BY <1>7, <1>8, <1>9

\* What is known of an entry.
EntryOK(e) ==
    /\ e.dir \in Seq(Name) /\ \A i \in DOMAIN e.dir : ValidSegment(e.dir[i])
    /\ e.stem \in Stem /\ e.method \in Method
    /\ e.route = BuildRoute(e.dir) /\ e.route \in Seq(Seq(Char))
    /\ e.handler \in Seq(NameSymbol) /\ e.handler # <<>>
    /\ e.template \in BOOLEAN
    /\ e.sql = None \/ e.sql \in File

LEMMA EntryTyped ==
    ASSUME project \in Projects, Scanned, NEW e \in entries
    PROVE  EntryOK(e)
<1>1. PICK f \in PageFiles :
        /\ f \in File /\ e = Entry(f.dir, f.stem) /\ f.dir \in Seq(Name)
        /\ \A i \in DOMAIN f.dir : ValidSegment(f.dir[i])
  BY EntryOrigin
<1>2. f.stem \in Stem
  BY <1>1 DEF File
<1>3. MethodForStem(f.stem) \in Method
  BY <1>2 DEF MethodForStem, Stem, Method
<1>4. BuildRoute(f.dir) \in Seq(Seq(Char))
  BY <1>1, BuildRouteShape
<1>5. BuildHandlerName(f.dir, f.stem) \in Seq(NameSymbol) /\ BuildHandlerName(f.dir, f.stem) # <<>>
  BY <1>1, <1>2, HandlerNameShape
<1>6. e.sql = None \/ e.sql \in File
  <2> DEFINE sql == {g \in PageFiles : g.dir = f.dir /\ g.stem = f.stem /\ g.ext = "sql"}
  <2>1. e.sql = IF sql = {} THEN None ELSE CHOOSE g \in sql : TRUE
    BY <1>1 DEF Entry
  <2>2. sql \subseteq File
    BY RoutesAssumption DEF PageFiles
  <2> HIDE DEF sql
  <2> QED BY <2>1, <2>2
<1>7. /\ e.dir = f.dir /\ e.stem = f.stem /\ e.method = MethodForStem(f.stem)
      /\ e.route = BuildRoute(f.dir) /\ e.handler = BuildHandlerName(f.dir, f.stem)
      /\ e.template \in BOOLEAN
  BY <1>1 DEF Entry
<1> QED BY <1>1, <1>2, <1>3, <1>4, <1>5, <1>6, <1>7 DEF EntryOK

LEMMA RowTyped ==
    ASSUME NEW e, EntryOK(e)
    PROVE  /\ Row(e) \in TableRow /\ Row(e) # None /\ Returns(e) \in {"json", "text"}
           /\ Row(e).method = e.method /\ Row(e).route = e.route
           /\ Row(e).handler = e.handler /\ Row(e).template = e.template
<1>1. e.handler \in Seq(Symbol)
  BY DEF EntryOK, NameSymbol
<1>2. Row(e) \in TableRow
  BY <1>1 DEF Row, TableRow, EntryOK
<1>3. None \notin TableRow
  BY RoutesAssumption DEF TableRow, Symbol
<1>4. Returns(e) \in {"json", "text"}
  BY DEF Returns, EntryOK, File
<1> QED BY <1>2, <1>3, <1>4 DEF Row

-----------------------------------------------------------------------------
(* The push.                                                               *)

\* Where a function of view v comes from.
FunctionsOK(v) ==
    \A g \in v.functions :
        /\ g.by \in entries /\ g.name \in Created(g.by) /\ g.returns = Returns(g.by)
        /\ Spelling(g.by) = "plain" => PlainIdentifier(g.by.handler)

\* The rows of view v are rows of entries.
RowsOK(v) == IsFiniteSet(v.routes) /\ v.routes \subseteq {Row(e) : e \in entries}

\* Each entry of es has a row in view v, its own or that of an entry with the
\* same method and route.
Complete(v, es) ==
    \A e \in es : \E r \in v.routes : r.method = e.method /\ r.route = e.route

\* Each entry has a function of its handler's name that takes a request in
\* view v.
Validated(v) ==
    \A e \in entries : \E g \in v.functions : g.name = e.handler /\ g.args = "req json"

Pushing ==
    /\ project \in Projects /\ Scanned
    /\ pc \in {"scan", "apply", "build", "serving"}
    /\ todo \subseteq entries
    /\ FunctionsOK(tx) /\ FunctionsOK(db) /\ RowsOK(tx) /\ RowsOK(db)
    /\ pc = "scan" => tx.routes = {} /\ tx.functions = {}
    /\ pc \in {"scan", "apply"} => db.routes = {} /\ db.functions = {}
    /\ pc = "apply" => Complete(tx, entries \ todo)
    /\ db.routes # {} => Complete(db, entries) /\ Validated(db)

\* apply_entry writes the entry's function and its row.
LEMMA ApplyKeeps == ASSUME Pushing, NEW e \in todo, ApplyEntry(e) PROVE Pushing'
<1> DEFINE kept == {r \in tx.routes : <<r.method, r.route>> # <<e.method, e.route>>}
           others == tx.functions \ Replaced(e)
           made == {[name |-> n, args |-> Args(e), returns |-> Returns(e), by |-> e] : n \in Created(e)}
<1>1. /\ tx'.routes = kept \cup {Row(e)} /\ tx'.functions = others \cup made
      /\ todo' = todo \ {e} /\ pc = "apply" /\ ~Refused(e)
      /\ UNCHANGED <<project, entries, db, pc>>
  BY DEF ApplyEntry
<1>2. /\ project \in Projects /\ Scanned /\ todo \subseteq entries /\ e \in entries
      /\ FunctionsOK(tx) /\ RowsOK(tx) /\ Complete(tx, entries \ todo)
  BY <1>1 DEF Pushing
<1>3. EntryOK(e)
  BY <1>2, EntryTyped
<1>4. FunctionsOK(tx)'
  <2>1. ASSUME NEW g \in made
        PROVE  /\ g.by \in entries /\ g.name \in Created(g.by) /\ g.returns = Returns(g.by)
               /\ Spelling(g.by) = "plain" => PlainIdentifier(g.by.handler)
    <3>1. g.by = e /\ g.name \in Created(e) /\ g.returns = Returns(e)
      OBVIOUS
    <3>2. Spelling(e) = "plain" => PlainIdentifier(e.handler)
      BY <1>1 DEF Refused
    <3> HIDE DEF made
    <3> QED BY <1>2, <3>1, <3>2
  <2>2. others \subseteq tx.functions
    OBVIOUS
  <2> HIDE DEF others, made
  <2> QED BY <1>1, <1>2, <2>1, <2>2 DEF FunctionsOK
<1>5. RowsOK(tx)'
  <2>1. kept \in SUBSET tx.routes /\ IsFiniteSet(tx.routes)
    BY <1>2 DEF RowsOK
  <2>2. IsFiniteSet(kept)
    <3> HIDE DEF kept
    <3> QED BY <2>1, FS_Subset
  <2>3. IsFiniteSet(kept \cup {Row(e)})
    <3> HIDE DEF kept
    <3> QED BY <2>2, FS_AddElement
  <2> HIDE DEF kept
  <2> QED BY <1>1, <1>2, <2>1, <2>3 DEF RowsOK
<1>6. Complete(tx, entries \ todo)'
  <2> SUFFICES ASSUME NEW f \in entries \ todo'
               PROVE  \E r \in tx'.routes : r.method = f.method /\ r.route = f.route
    BY <1>1 DEF Complete
  <2>1. Row(e).method = e.method /\ Row(e).route = e.route /\ Row(e) \in tx'.routes
    BY <1>1, <1>3, RowTyped
  <2>2. CASE f.method = e.method /\ f.route = e.route
    BY <2>1, <2>2
  <2>3. CASE ~(f.method = e.method /\ f.route = e.route)
    <3>1. f \in entries \ todo
      BY <1>1, <2>3
    <3>2. PICK r \in tx.routes : r.method = f.method /\ r.route = f.route
      BY <1>2, <3>1 DEF Complete
    <3>3. r \in kept
      BY <2>3, <3>2
    <3> QED BY <1>1, <3>2, <3>3
  <2> QED BY <2>2, <2>3
<1>7. Scanned' /\ FunctionsOK(db)' /\ RowsOK(db)'
  <2>1. PageFiles' = PageFiles
    BY <1>1 DEF PageFiles
  <2>2. Pages' = Pages /\ Scannable' = Scannable
    BY <2>1 DEF Pages, Scannable, Entry
  <2> QED BY <1>1, <1>2, <2>2 DEF Scanned, Pushing, FunctionsOK, RowsOK
<1> HIDE DEF kept, others, made
<1> QED BY <1>1, <1>2, <1>4, <1>5, <1>6, <1>7 DEF Pushing

\* Every other step of the push.
LEMMA PushingKeeps == Pushing /\ [Next]_vars => Pushing'
<1> SUFFICES ASSUME Pushing, [Next]_vars PROVE Pushing'
  OBVIOUS
<1> USE DEF pushVars
<1>0. project' = project => (PageFiles' = PageFiles /\ Pages' = Pages /\ Scannable' = Scannable)
  <2> SUFFICES ASSUME project' = project
               PROVE  PageFiles' = PageFiles /\ Pages' = Pages /\ Scannable' = Scannable
    OBVIOUS
  <2>1. PageFiles' = PageFiles
    BY DEF PageFiles
  <2> QED BY <2>1 DEF Pages, Scannable, Entry
<1>1. CASE Scan
  <2>1. /\ UNCHANGED <<project, tx, db>> /\ entries' = Pages /\ Scannable /\ todo' = entries'
        /\ pc = "scan" /\ pc' = "apply"
    BY <1>1 DEF Scan, Pages
  <2>2. /\ tx.routes = {} /\ tx.functions = {} /\ db.routes = {} /\ db.functions = {}
        /\ project \in Projects
    BY <2>1 DEF Pushing
  <2>3. Scanned'
    BY <1>0, <2>1 DEF Scanned
  <2>4. FunctionsOK(tx)' /\ FunctionsOK(db)'
    BY <2>1, <2>2 DEF FunctionsOK
  <2>5. RowsOK(tx)' /\ RowsOK(db)'
    BY <2>1, <2>2, FS_EmptySet DEF RowsOK
  <2>6. Complete(tx, entries \ todo)'
    BY <2>1 DEF Complete
  <2> QED BY <2>1, <2>2, <2>3, <2>4, <2>5, <2>6 DEF Pushing
<1>2. ASSUME UNCHANGED <<project, entries, tx, db>>, todo' \subseteq todo,
             (pc' = pc /\ todo' = todo) \/ pc' \in {"build", "serving"}
      PROVE  Pushing'
  <2>1. Scanned'
    BY <1>0, <1>2 DEF Scanned, Pushing
  <2>2. FunctionsOK(tx)' /\ FunctionsOK(db)' /\ RowsOK(tx)' /\ RowsOK(db)'
    BY <1>2 DEF Pushing, FunctionsOK, RowsOK
  <2>3. Complete(db, entries)' = Complete(db, entries) /\ Validated(db)' = Validated(db)
    BY <1>2 DEF Complete, Validated
  <2>4. pc' = "apply" => Complete(tx, entries \ todo)'
    BY <1>2 DEF Complete, Pushing
  <2> QED BY <1>2, <2>1, <2>2, <2>3, <2>4 DEF Pushing
<1>3. CASE ScanFails \/ BuildSnapshot \/ NextRequest \/ UNCHANGED vars
           \/ \E m \in {"GET", "POST"}, path \in Paths : Serve(m, path)
  BY <1>2, <1>3 DEF ScanFails, BuildSnapshot, NextRequest, vars, Serve
<1>4. CASE Rollback
  <2>1. tx' = db /\ UNCHANGED <<project, entries, db>> /\ pc' = "build" /\ todo' = {}
    BY <1>4 DEF Rollback
  <2>2. Scanned'
    BY <1>0, <2>1 DEF Scanned, Pushing
  <2>3. FunctionsOK(tx)' /\ FunctionsOK(db)' /\ RowsOK(tx)' /\ RowsOK(db)'
    BY <2>1 DEF Pushing, FunctionsOK, RowsOK
  <2>4. Complete(db, entries)' = Complete(db, entries) /\ Validated(db)' = Validated(db)
    BY <2>1 DEF Complete, Validated
  <2> QED BY <2>1, <2>2, <2>3, <2>4 DEF Pushing
<1>5. CASE Commit
  <2>1. /\ db' = tx /\ UNCHANGED <<project, entries, tx, todo>> /\ pc' = "build"
        /\ pc = "apply" /\ todo = {} /\ \A e \in entries : ValidHandler(e)
    BY <1>5 DEF Commit
  <2>2. Scanned'
    BY <1>0, <2>1 DEF Scanned, Pushing
  <2>3. FunctionsOK(tx)' /\ FunctionsOK(db)' /\ RowsOK(tx)' /\ RowsOK(db)'
    BY <2>1 DEF Pushing, FunctionsOK, RowsOK
  <2>4. Complete(db, entries)'
    BY <2>1 DEF Complete, Pushing
  <2>5. Validated(db)'
    BY <2>1 DEF Validated, ValidHandler
  <2> QED BY <2>1, <2>2, <2>3, <2>4, <2>5 DEF Pushing
<1>6. ASSUME NEW e \in todo, ApplyEntry(e) PROVE Pushing'
  BY <1>6, ApplyKeeps
<1> QED
  BY <1>1, <1>3, <1>4, <1>5, <1>6 DEF Next, ApplyFails, ValidateFails

-----------------------------------------------------------------------------
(* The worker's table.                                                     *)

\* The rows of a method that build_snapshot keeps.
Rows(m) == {r \in db.routes : r.method = m /\ Parses(r.route)}

\* t lists the rows of m, each of them.
Lists(t, m) ==
    /\ t \in [1..Cardinality(Rows(m)) -> Rows(m)] /\ Cardinality(Rows(m)) \in Nat
    /\ \A r \in Rows(m) : \E i \in 1..Cardinality(Rows(m)) : t[i] = r

InOrderTable(t) == \A i, j \in DOMAIN t : i < j => InOrder(t[i].route, t[j].route)

TableOK ==
    IF pc = "serving"
      THEN \A m \in Method : /\ Lists(snapshot[m], m)
                             /\ m \in {"GET", "POST"} => InOrderTable(snapshot[m])
      ELSE snapshot = [m \in Method |-> <<>>]

\* A sequence of as many different members as a finite set has lists them all.
LEMMA ListsAll ==
    ASSUME NEW S, IsFiniteSet(S), NEW t \in [1..Cardinality(S) -> S],
           \A i, j \in 1..Cardinality(S) : i # j => t[i] # t[j]
    PROVE  Cardinality(S) \in Nat /\ \A r \in S : \E i \in 1..Cardinality(S) : t[i] = r
<1> DEFINE n == Cardinality(S)
<1>1. n \in Nat
  BY FS_CardinalityType
<1> HIDE DEF n
<1>2. IsFiniteSet(1..n) /\ Cardinality(1..n) = n
  BY <1>1, FS_Interval
<1>3. t \in Injection(1..n, S)
  BY DEF Injection, IsInjective, n
<1>4. t \in Surjection(1..n, S)
  BY <1>2, <1>3, FS_Injection DEF n
<1> QED BY <1>1, <1>4 DEF Surjection, n

\* A finite set can be listed.
LEMMA SetToSeqLists ==
    ASSUME NEW S, IsFiniteSet(S)
    PROVE  /\ SetToSeq(S) \in [1..Cardinality(S) -> S]
           /\ \A i, j \in 1..Cardinality(S) : i # j => SetToSeq(S)[i] # SetToSeq(S)[j]
<1>1. PICK f : f \in Bijection(1..Cardinality(S), S)
  BY FS_CardinalityType DEF ExistsBijection
<1>2. f \in [1..Cardinality(S) -> S] /\ IsInjective(f)
  BY <1>1 DEF Bijection, Injection
<1>3. SetToSeq(S) \in [1..Cardinality(S) -> S] /\ IsInjective(SetToSeq(S))
  BY <1>2 DEF SetToSeq
<1>4. DOMAIN SetToSeq(S) = 1..Cardinality(S)
  BY <1>3
<1> QED BY <1>3, <1>4 DEF IsInjective

LEMMA TableKeeps == Pushing /\ TableOK /\ [Next]_vars => TableOK'
<1> SUFFICES ASSUME Pushing, TableOK, [Next]_vars PROVE TableOK'
  OBVIOUS
<1> USE DEF pushVars
<1>1. CASE BuildSnapshot
  <2>1. PICK get \in Sorted(Rows("GET")), post \in Sorted(Rows("POST")) :
          snapshot' = [m \in Method |->
             CASE m = "GET" -> get [] m = "POST" -> post [] OTHER -> SetToSeq(Rows(m))]
    BY <1>1 DEF BuildSnapshot, Rows
  <2>2. pc' = "serving" /\ db' = db
    BY <1>1 DEF BuildSnapshot
  <2>3. \A m : Rows(m)' = Rows(m)
    BY <2>2 DEF Rows
  <2>4. ASSUME NEW m PROVE IsFiniteSet(Rows(m))
    <3>1. IsFiniteSet(db.routes) /\ Rows(m) \in SUBSET db.routes
      BY DEF Pushing, RowsOK, Rows
    <3> QED BY <3>1, FS_Subset
  <2>5. ASSUME NEW m, NEW t, t \in Sorted(Rows(m)) PROVE Lists(t, m) /\ InOrderTable(t)
    <3>1. /\ t \in [1..Cardinality(Rows(m)) -> Rows(m)]
          /\ \A i, j \in 1..Cardinality(Rows(m)) : i # j => t[i] # t[j]
          /\ \A i, j \in DOMAIN t : i < j => InOrder(t[i].route, t[j].route)
      BY <2>5 DEF Sorted, SetToSeqs
    <3> QED BY <2>4, <3>1, ListsAll DEF Lists, InOrderTable
  <2>6. ASSUME NEW m \in Method
        PROVE  /\ Lists(snapshot'[m], m)
               /\ m \in {"GET", "POST"} => InOrderTable(snapshot'[m])
    <3>1. CASE m = "GET"
      <4>1. snapshot'[m] = get
        BY <2>1, <3>1
      <4> QED BY <2>1, <2>5, <3>1, <4>1
    <3>2. CASE m = "POST"
      <4>1. snapshot'[m] = post
        BY <2>1, <3>2
      <4> QED BY <2>1, <2>5, <3>2, <4>1
    <3>3. CASE m \notin {"GET", "POST"}
      <4>1. snapshot'[m] = SetToSeq(Rows(m))
        BY <2>1, <3>3
      <4>2. Lists(SetToSeq(Rows(m)), m)
        BY <2>4, ListsAll, SetToSeqLists DEF Lists
      <4> QED BY <3>3, <4>1, <4>2
    <3> QED BY <3>1, <3>2, <3>3
  <2>7. \A t, m : Lists(t, m)' = Lists(t, m)
    BY <2>3 DEF Lists
  <2> QED BY <2>2, <2>6, <2>7 DEF TableOK, Lists, InOrderTable
<1>2. ASSUME UNCHANGED <<snapshot, db, pc>> PROVE TableOK'
  <2>1. \A m : Rows(m)' = Rows(m)
    BY <1>2 DEF Rows
  <2> QED BY <1>2, <2>1 DEF TableOK, Lists, InOrderTable
<1>3. ASSUME UNCHANGED snapshot, pc # "serving", pc' # "serving" PROVE TableOK'
  BY <1>3 DEF TableOK
<1>4. CASE Scan \/ ScanFails \/ Commit \/ ValidateFails
  BY <1>3, <1>4 DEF Scan, ScanFails, Commit, ValidateFails, Rollback
<1>5. ASSUME NEW e \in todo, ApplyEntry(e) \/ ApplyFails(e) PROVE TableOK'
  BY <1>3, <1>5 DEF ApplyEntry, ApplyFails, Rollback
<1>6. CASE NextRequest \/ UNCHANGED vars
           \/ \E m \in {"GET", "POST"}, path \in Paths : Serve(m, path)
  BY <1>2, <1>6 DEF NextRequest, vars, Serve
<1> QED BY <1>1, <1>4, <1>5, <1>6 DEF Next

-----------------------------------------------------------------------------
(* Requests.                                                               *)

\* A reply is the answer to what was asked, of the table and the functions
\* that are still there.
ReplyOK ==
    \/ reply = NoReply /\ asked = None
    \/ /\ pc = "serving" /\ asked \in [method : {"GET", "POST"}, path : Paths]
       /\ reply = AnswerTo(asked.method, asked.path)

LEMMA ReplyKeeps == ReplyOK /\ [Next]_vars => ReplyOK'
<1> SUFFICES ASSUME ReplyOK, [Next]_vars PROVE ReplyOK'
  OBVIOUS
<1> USE DEF pushVars
<1>1. ASSUME UNCHANGED <<snapshot, db>>, NEW m, NEW path
      PROVE  AnswerTo(m, path)' = AnswerTo(m, path)
  <2>1. \A n, segs : LookupRoute(n, segs)' = LookupRoute(n, segs)
    BY <1>1 DEF LookupRoute
  <2>2. \A row, params, status : CallHandler(row, params, status)' = CallHandler(row, params, status)
    BY <1>1 DEF CallHandler
  <2> QED BY <2>1, <2>2 DEF AnswerTo
<1>2. ASSUME NEW m \in {"GET", "POST"}, NEW path \in Paths, Serve(m, path) PROVE ReplyOK'
  <2>1. /\ pc' = "serving" /\ UNCHANGED <<snapshot, db>>
        /\ asked' = [method |-> m, path |-> path] /\ reply' = AnswerTo(m, path)
    BY <1>2 DEF Serve
  <2>2. AnswerTo(m, path)' = AnswerTo(m, path)
    BY <1>1, <2>1
  <2>3. asked' \in [method : {"GET", "POST"}, path : Paths] /\ asked'.method = m /\ asked'.path = path
    BY <2>1
  <2> QED BY <2>1, <2>2, <2>3 DEF ReplyOK
<1>3. CASE NextRequest
  BY <1>3 DEF NextRequest, ReplyOK
<1>4. ASSUME UNCHANGED <<asked, reply>>, pc # "serving" PROVE ReplyOK'
  BY <1>4 DEF ReplyOK
<1>5. CASE UNCHANGED vars
  <2>1. UNCHANGED <<pc, asked, reply, snapshot, db>>
    BY <1>5 DEF vars
  <2>2. AnswerTo(asked.method, asked.path)' = AnswerTo(asked.method, asked.path)
    BY <1>1, <2>1
  <2> QED BY <2>1, <2>2 DEF ReplyOK
<1>6. CASE Scan \/ ScanFails \/ Commit \/ ValidateFails \/ BuildSnapshot
  BY <1>4, <1>6 DEF Scan, ScanFails, Commit, ValidateFails, BuildSnapshot, Rollback
<1>7. ASSUME NEW e \in todo, ApplyEntry(e) \/ ApplyFails(e) PROVE ReplyOK'
  BY <1>4, <1>7 DEF ApplyEntry, ApplyFails, Rollback
<1> QED BY <1>2, <1>3, <1>5, <1>6, <1>7 DEF Next

IInv == Pushing /\ TableOK /\ ReplyOK

LEMMA Inductive == Spec => []IInv
<1>1. Init => IInv
  <2> SUFFICES ASSUME Init PROVE IInv
    OBVIOUS
  <2>1. /\ tx.routes = {} /\ tx.functions = {} /\ db.routes = {} /\ db.functions = {}
        /\ pc = "scan" /\ entries = {} /\ todo = {} /\ project \in Projects
    BY DEF Init
  <2>2. FunctionsOK(tx) /\ FunctionsOK(db) /\ RowsOK(tx) /\ RowsOK(db) /\ Scanned
    BY <2>1, FS_EmptySet DEF FunctionsOK, RowsOK, Scanned
  <2>3. Pushing
    BY <2>1, <2>2 DEF Pushing
  <2>4. TableOK /\ ReplyOK
    BY DEF Init, TableOK, ReplyOK
  <2> QED BY <2>3, <2>4 DEF IInv
<1>2. IInv /\ [Next]_vars => IInv'
  BY PushingKeeps, TableKeeps, ReplyKeeps DEF IInv
<1> QED BY <1>1, <1>2, PTL DEF Spec

-----------------------------------------------------------------------------
(* What is looked up.                                                      *)

LEMMA CountTyped == ASSUME NEW s \in Seq(Seq(Char)) PROVE StaticCount(s) \in Nat
<1>1. IsFiniteSet(1..Len(s)) /\ DOMAIN s = 1..Len(s)
  BY FS_Interval
<1>2. {i \in DOMAIN s : ~IsCapture(s[i])} \in SUBSET (1..Len(s))
  BY <1>1
<1> QED BY <1>1, <1>2, FS_Subset, FS_CardinalityType DEF StaticCount

\* A row of the table is that of an entry.
LEMMA RowOrigin ==
    ASSUME Pushing, NEW r \in db.routes
    PROVE  \E e \in entries : r = Row(e) /\ EntryOK(e)
<1>1. PICK e \in entries : r = Row(e)
  BY DEF Pushing, RowsOK
<1> QED BY <1>1, EntryTyped DEF Pushing

\* lookup_route: the first row of the table that matches, and so one that no
\* other matching row is more specific than.
LEMMA Lookup ==
    ASSUME IInv, pc = "serving", NEW m \in Method, NEW segs
    PROVE  \/ LookupRoute(m, segs) = None /\ \A r \in Rows(m) : ~Matches(r.route, segs)
           \/ /\ LookupRoute(m, segs) \in Rows(m) /\ LookupRoute(m, segs) # None
              /\ Matches(LookupRoute(m, segs).route, segs)
              /\ m \in {"GET", "POST"} =>
                   \A r \in Rows(m) : Matches(r.route, segs) =>
                     StaticCount(r.route) <= StaticCount(LookupRoute(m, segs).route)
<1> DEFINE t == snapshot[m]
           n == Cardinality(Rows(m))
           found == {i \in DOMAIN t : Matches(t[i].route, segs)}
<1>1. /\ t \in [1..n -> Rows(m)] /\ n \in Nat /\ \A r \in Rows(m) : \E i \in 1..n : t[i] = r
      /\ m \in {"GET", "POST"} => \A i, j \in 1..n : i < j => InOrder(t[i].route, t[j].route)
  BY DEF IInv, TableOK, Lists, InOrderTable
<1>2. LookupRoute(m, segs) = IF found = {} THEN None
                             ELSE t[CHOOSE i \in found : \A j \in found : i <= j]
  BY DEF LookupRoute
<1>3. \A i \in 1..n : i \in found <=> Matches(t[i].route, segs)
  BY <1>1
<1>4. found \subseteq 1..n
  BY <1>1
<1> HIDE DEF found, t, n
<1>5. CASE found = {}
  <2>1. \A r \in Rows(m) : ~Matches(r.route, segs)
    BY <1>1, <1>3, <1>5
  <2> QED BY <1>2, <1>5, <2>1
<1>6. CASE found # {}
  <2> DEFINE i == CHOOSE i \in found : \A j \in found : i <= j
  <2>1. i \in found /\ \A j \in found : i <= j
    <3>1. found \in SUBSET Nat
      BY <1>1, <1>4
    <3> QED BY <1>6, <3>1, LeastExists
  <2>2. LookupRoute(m, segs) = t[i]
    BY <1>2, <1>6
  <2> HIDE DEF i
  <2>3. i \in 1..n /\ t[i] \in Rows(m) /\ Matches(t[i].route, segs)
    BY <1>1, <1>3, <1>4, <2>1
  <2>4. ASSUME NEW r \in Rows(m) PROVE r # None /\ StaticCount(r.route) \in Nat
    <3>1. PICK e \in entries : r = Row(e) /\ EntryOK(e)
      BY RowOrigin DEF IInv, Rows
    <3>2. Row(e) # None /\ Row(e).route \in Seq(Seq(Char))
      BY <3>1, RowTyped DEF EntryOK
    <3> QED BY <3>1, <3>2, CountTyped
  <2>5. ASSUME m \in {"GET", "POST"}, NEW r \in Rows(m), Matches(r.route, segs)
        PROVE  StaticCount(r.route) <= StaticCount(t[i].route)
    <3>1. PICK j \in 1..n : t[j] = r
      BY <1>1
    <3>2. i <= j
      BY <1>3, <2>1, <2>5, <3>1
    <3>3. CASE i = j
      BY <2>4, <3>1, <3>3
    <3>4. CASE i < j
      <4>1. InOrder(t[i].route, r.route)
        BY <1>1, <2>3, <2>5, <3>1, <3>4
      <4>2. StaticCount(t[i].route) \in Nat /\ StaticCount(r.route) \in Nat
        BY <2>3, <2>4
      <4>3. \/ StaticCount(t[i].route) > StaticCount(r.route)
            \/ StaticCount(t[i].route) = StaticCount(r.route)
        BY <4>1 DEF InOrder
      <4> QED BY <4>2, <4>3
    <3>5. i = j \/ i < j
      BY <1>1, <2>3, <3>2
    <3> QED BY <3>3, <3>4, <3>5
  <2> QED BY <2>2, <2>3, <2>4, <2>5
<1> QED BY <1>5, <1>6

-----------------------------------------------------------------------------
(* Directories and patterns, where no name holds a colon.                  *)

LEMMA PatternOf ==
    ASSUME Pushing, NoColons, NEW e \in entries
    PROVE  /\ EntryOK(e) /\ DOMAIN e.dir = 1..Len(e.dir) /\ DOMAIN e.route = 1..Len(e.dir)
           /\ Len(e.route) = Len(e.dir) /\ Len(e.dir) \in Nat
           /\ \A i \in 1..Len(e.dir) :
                /\ e.route[i] = Marked(e.dir[i], ":")
                /\ e.dir[i] \in Name /\ ValidSegment(e.dir[i])
                /\ IsCapture(e.route[i]) <=> Bracketed(e.dir[i])
                /\ ~Bracketed(e.dir[i]) => e.route[i] = e.dir[i]
           /\ Parses(e.route)
           /\ StaticCount(e.route) = LiteralDirs(e)
<1>1. EntryOK(e)
  BY EntryTyped DEF Pushing
<1>2. /\ e.dir \in Seq(Name) /\ \A i \in DOMAIN e.dir : ValidSegment(e.dir[i])
      /\ e.route = BuildRoute(e.dir)
  BY <1>1 DEF EntryOK
<1>3. /\ Len(e.route) = Len(e.dir) /\ DOMAIN e.route = 1..Len(e.dir)
      /\ DOMAIN e.dir = 1..Len(e.dir) /\ Len(e.dir) \in Nat
      /\ \A i \in 1..Len(e.dir) : e.route[i] = Marked(e.dir[i], ":")
  BY <1>2, BuildRouteShape
<1>4. PICK f \in PageFiles : e.dir = f.dir
  BY EntryOrigin DEF Pushing
<1>5. ASSUME NEW i \in 1..Len(e.dir)
      PROVE  /\ e.dir[i] \in Name /\ ValidSegment(e.dir[i])
             /\ IsCapture(e.route[i]) <=> Bracketed(e.dir[i])
             /\ ~Bracketed(e.dir[i]) => e.route[i] = e.dir[i]
             /\ IF IsCapture(e.route[i]) THEN Len(e.route[i]) > 1
                ELSE \A k \in DOMAIN e.route[i] : e.route[i][k] # ":"
  <2> DEFINE d == e.dir[i]
  <2>1. d \in Name /\ ValidSegment(d) /\ e.route[i] = Marked(d, ":")
    BY <1>2, <1>3
  <2>2. ":" \notin Range(d)
    BY <1>3, <1>4 DEF NoColons
  <2> HIDE DEF d
  <2>3. \A k \in DOMAIN d : d[k] # ":"
    BY <2>2 DEF Range
  <2>4. 1 \in DOMAIN d
    <3>1. d \in Seq(Char) /\ d # <<>>
      BY <2>1 DEF Name
    <3>2. Len(d) \in Nat \ {0} /\ DOMAIN d = 1..Len(d)
      BY <3>1, EmptySeq
    <3> QED BY <3>2
  <2>5. ":" \in Char
    BY DEF Char, Special
  <2>6. CASE Bracketed(d)
    <3>1. e.route[i][1] = ":" /\ Len(e.route[i]) > 1
      BY <2>1, <2>5, <2>6, MarkedShape
    <3> QED BY <2>1, <2>6, <3>1 DEF IsCapture, d
  <2>7. CASE ~Bracketed(d)
    <3>1. e.route[i] = d
      BY <2>1, <2>5, <2>7, MarkedShape
    <3> QED BY <2>1, <2>3, <2>4, <2>7, <3>1 DEF IsCapture, d
  <2> QED BY <2>6, <2>7
<1>6. Parses(e.route)
  BY <1>3, <1>5 DEF Parses
<1>7. StaticCount(e.route) = LiteralDirs(e)
  <2>1. {i \in DOMAIN e.route : ~IsCapture(e.route[i])} = {i \in DOMAIN e.dir : ~Bracketed(e.dir[i])}
    BY <1>3, <1>5
  <2> QED BY <2>1 DEF StaticCount, LiteralDirs
<1> QED BY <1>1, <1>3, <1>5, <1>6, <1>7

\* The pages a request names are those whose pattern it matches.
LEMMA CandidateMatches ==
    ASSUME Pushing, NoColons, NEW e \in entries
    PROVE  e \in Candidates <=> e.method = asked.method /\ Matches(e.route, Named)
<1>1. /\ DOMAIN e.dir = 1..Len(e.dir) /\ DOMAIN e.route = 1..Len(e.dir)
      /\ Len(e.route) = Len(e.dir)
      /\ \A i \in 1..Len(e.dir) : /\ IsCapture(e.route[i]) <=> Bracketed(e.dir[i])
                                  /\ ~Bracketed(e.dir[i]) => e.route[i] = e.dir[i]
  BY PatternOf
<1>2. Matches(e.route, Named) <=>
        /\ Len(e.dir) = Len(Named)
        /\ \A i \in DOMAIN e.dir : Bracketed(e.dir[i]) \/ e.dir[i] = Named[i]
  BY <1>1 DEF Matches
<1> QED BY <1>2 DEF Candidates

LEMMA NamedSegments == Named = RequestSegments(asked.path)
  BY DEF Named, RequestSegments

\* What a reply says of the row it was looked up with.
LEMMA CalledRow ==
    ASSUME NEW row, NEW params, NEW status
    PROVE  /\ CallHandler(row, params, status).row = row
           /\ CallHandler(row, params, status).status \in {status, 500}
           /\ CallHandler(row, params, status).status # 500 =>
                CallHandler(row, params, status).params = params
  BY DEF CallHandler, NoReply

\* The three ways a request ends: at a page of the tree that it names, at the
\* fallback when there is none, or at a bare 404.
LEMMA AnswerCases ==
    ASSUME IInv, Answered
    PROVE  /\ pc = "serving" /\ asked.method \in {"GET", "POST"} /\ asked.path \in Paths
           /\ \/ \E row \in Rows(asked.method) :
                   /\ Matches(row.route, Named)
                   /\ \A r \in Rows(asked.method) :
                        Matches(r.route, Named) => StaticCount(r.route) <= StaticCount(row.route)
                   /\ reply = CallHandler(row, Captures(row.route, Named), 200)
              \/ /\ \A r \in Rows(asked.method) : ~Matches(r.route, Named)
                 /\ \/ \E row \in Rows("404") : reply = CallHandler(row, <<>>, 404)
                    \/ reply.row = None /\ reply.by = None /\ reply.status = 404
<1>1. /\ pc = "serving" /\ asked \in [method : {"GET", "POST"}, path : Paths]
      /\ reply = AnswerTo(asked.method, asked.path)
  BY DEF IInv, ReplyOK, Answered
<1> DEFINE m == asked.method
           row == LookupRoute(m, Named)
           fallback == LookupRoute("404", <<>>)
<1>2. m \in {"GET", "POST"} /\ asked.path \in Paths /\ m \in Method /\ "404" \in Method
  BY <1>1 DEF Method
<1>3. reply = IF row # None THEN CallHandler(row, Captures(row.route, Named), 200)
              ELSE IF fallback # None THEN CallHandler(fallback, <<>>, 404)
              ELSE [NoReply EXCEPT !.status = 404]
  BY <1>1, NamedSegments DEF AnswerTo
<1>4. \/ row = None /\ \A r \in Rows(m) : ~Matches(r.route, Named)
      \/ /\ row \in Rows(m) /\ row # None /\ Matches(row.route, Named)
         /\ \A r \in Rows(m) : Matches(r.route, Named) => StaticCount(r.route) <= StaticCount(row.route)
  BY <1>1, <1>2, Lookup
<1>5. fallback = None \/ (fallback \in Rows("404") /\ fallback # None)
  BY <1>1, <1>2, Lookup
<1>6. /\ [NoReply EXCEPT !.status = 404].row = None /\ [NoReply EXCEPT !.status = 404].by = None
      /\ [NoReply EXCEPT !.status = 404].status = 404
  BY DEF NoReply
<1> HIDE DEF m, row, fallback
<1>7. CASE row # None
  BY <1>1, <1>2, <1>3, <1>4, <1>7 DEF m
<1>8. CASE row = None
  BY <1>1, <1>2, <1>3, <1>4, <1>5, <1>6, <1>8 DEF m
<1> QED BY <1>7, <1>8

-----------------------------------------------------------------------------
(* The theorems.                                                           *)

\* An unquoted name as Postgres reads it.
LEMMA FoldedShape ==
    ASSUME NEW h \in Seq(NameSymbol), h # <<>>
    PROVE  /\ Folded(h) \in Seq(NameSymbol) /\ Folded(h) # <<>> /\ Len(Folded(h)) = Len(h)
           /\ DOMAIN Folded(h) = 1..Len(h) /\ DOMAIN h = 1..Len(h)
           /\ \A i \in 1..Len(h) : Folded(h)[i] = IF h[i] = "A" THEN "a" ELSE h[i]
           /\ Folded(Folded(h)) = Folded(h)
<1>1. DOMAIN h = 1..Len(h) /\ Len(h) \in Nat /\ \A i \in 1..Len(h) : h[i] \in NameSymbol
  OBVIOUS
<1>2. "a" \in NameSymbol
  BY DEF NameSymbol, Symbol, Char, Letter
<1>3. Folded(h) = [i \in 1..Len(h) |-> IF h[i] = "A" THEN "a" ELSE h[i]]
  BY <1>1 DEF Folded
<1> DEFINE k == Folded(h)
<1>4. k \in Seq(NameSymbol) /\ Len(k) = Len(h) /\ DOMAIN k = 1..Len(h)
      /\ \A i \in 1..Len(h) : k[i] = IF h[i] = "A" THEN "a" ELSE h[i]
  BY <1>1, <1>2, <1>3
<1>5. k # <<>>
  <2>1. Len(h) # 0
    BY EmptySeq
  <2> HIDE DEF k
  <2> QED BY <1>4, <2>1
<1>6. Folded(k) = k
  <2> HIDE DEF k
  <2>1. \A i \in 1..Len(h) : k[i] # "A"
    BY <1>4
  <2>2. Folded(k) = [i \in 1..Len(h) |-> k[i]]
    BY <1>4, <2>1 DEF Folded
  <2>3. k = [i \in 1..Len(h) |-> k[i]]
    BY <1>4
  <2> QED BY <2>2, <2>3
<1> QED BY <1>1, <1>4, <1>5, <1>6

LEMMA CreatedName ==
    ASSUME Pushing, NEW e \in entries, NEW n \in Created(e) PROVE n # <<>>
<1>1. EntryOK(e)
  BY EntryTyped DEF Pushing
<1>2. n \in {Folded(e.handler), e.handler}
  BY DEF Created
<1> QED BY <1>1, <1>2, FoldedShape DEF EntryOK

\* From the tree to the reply everything has its type; in particular every row
\* the worker sorts has a pattern that parses (paths.rs, push.rs, cache.rs).
THEOREM TypeCorrect == Spec => []TypeOK
<1>1. IInv => TypeOK
  <2> SUFFICES ASSUME IInv PROVE TypeOK
    OBVIOUS
  <2>0. Pushing /\ TableOK /\ ReplyOK
    BY DEF IInv
  <2>1. project \subseteq File /\ pc \in {"scan", "apply", "build", "serving"} /\ todo \subseteq entries
    BY <2>0, RoutesAssumption DEF Pushing
  <2>2. \A e \in entries : e.method \in Method /\ e.route \in Seq(Seq(Char))
    BY <2>0, EntryTyped DEF Pushing, EntryOK
  <2>3. ASSUME NEW g \in tx.functions \cup db.functions
        PROVE  g.by \in entries /\ g.returns \in {"json", "text"} /\ g.name # <<>>
    <3>1. g.by \in entries /\ g.name \in Created(g.by) /\ g.returns = Returns(g.by)
      BY <2>0 DEF Pushing, FunctionsOK
    <3>2. EntryOK(g.by)
      BY <2>0, <3>1, EntryTyped DEF Pushing
    <3> QED BY <2>0, <3>1, <3>2, RowTyped, CreatedName
  <2>4. tx.routes \cup db.routes \subseteq {Row(e) : e \in entries}
    BY <2>0 DEF Pushing, RowsOK
  <2>5. ASSUME NEW m \in Method, NEW i \in DOMAIN snapshot[m]
        PROVE  /\ snapshot[m][i] \in db.routes /\ snapshot[m][i].method = m
               /\ \A k \in DOMAIN snapshot[m][i].route : snapshot[m][i].route[k] # <<":">>
    <3>1. pc = "serving"
      <4>1. DOMAIN <<>> = {}
        OBVIOUS
      <4> QED BY <2>0, <2>5, <4>1 DEF TableOK
    <3>2. snapshot[m][i] \in Rows(m)
      BY <2>0, <2>5, <3>1 DEF TableOK, Lists
    <3> DEFINE r == snapshot[m][i]
    <3>3. r \in db.routes /\ r.method = m /\ Parses(r.route)
      BY <3>2 DEF Rows
    <3> HIDE DEF r
    <3>4. ASSUME NEW k \in DOMAIN r.route, r.route[k] = <<":">> PROVE FALSE
      <4>1. <<":">>[1] = ":" /\ ~(Len(<<":">>) > 1)
        OBVIOUS
      <4> QED BY <3>3, <3>4, <4>1 DEF Parses, IsCapture
    <3> QED BY <3>3, <3>4 DEF r
  <2>6. asked = None \/ asked \in [method : Method, path : Seq(Seq(Char))]
    BY <2>0, RoutesAssumption DEF ReplyOK, Method
  <2>7. reply.status \in {0, 200, 404, 500}
    <3>1. CASE reply = NoReply
      BY <3>1 DEF NoReply
    <3>2. CASE Answered
      BY <3>2, AnswerCases, CalledRow
    <3> QED BY <3>1, <3>2 DEF Answered
  <2> QED BY <2>1, <2>2, <2>3, <2>4, <2>5, <2>6, <2>7 DEF TypeOK
<1> QED BY <1>1, Inductive, PTL

\* Static beats dynamic (cache.rs sort_by, router.rs lookup_route): for every
\* tree without colons, every request and every order the rows are selected in,
\* the answer is a page that the request names and that no other such page has
\* more literal directories than, or the fallback if there is none.
THEOREM StaticBeatsDynamic == Spec => []MostSpecificPage
<1>1. IInv => MostSpecificPage
  <2> SUFFICES ASSUME IInv, Answered, Deployed, NoColons
               PROVE  IF Candidates = {} THEN reply.row = None \/ reply.row.method = "404"
                      ELSE \E e \in Candidates :
                              /\ reply.row = Row(e)
                              /\ \A f \in Candidates : LiteralDirs(f) <= LiteralDirs(e)
    BY DEF MostSpecificPage
  <2>0. Pushing
    BY DEF IInv
  <2>1. ASSUME NEW f \in Candidates
        PROVE  \E r \in Rows(asked.method) :
                 Matches(r.route, Named) /\ StaticCount(r.route) = LiteralDirs(f)
    <3>1. f \in entries /\ f.method = asked.method /\ Matches(f.route, Named)
      BY <2>0, CandidateMatches DEF Candidates
    <3>2. PICK r \in db.routes : r.method = f.method /\ r.route = f.route
      BY <2>0, <3>1 DEF Pushing, Complete, Deployed
    <3>3. Parses(f.route) /\ StaticCount(f.route) = LiteralDirs(f)
      BY <2>0, <3>1, PatternOf
    <3> QED BY <3>1, <3>2, <3>3 DEF Rows
  <2>2. ASSUME NEW row \in Rows(asked.method), Matches(row.route, Named)
        PROVE  \E e \in Candidates : row = Row(e) /\ StaticCount(row.route) = LiteralDirs(e)
    <3>1. PICK e \in entries : row = Row(e) /\ EntryOK(e)
      BY <2>0, RowOrigin DEF Rows
    <3>2. e.method = row.method /\ e.route = row.route
      BY <3>1, RowTyped
    <3>3. e \in Candidates
      BY <2>0, <2>2, <3>2, CandidateMatches DEF Rows
    <3> QED BY <2>0, <3>1, <3>2, <3>3, PatternOf
  <2>3. CASE \E row \in Rows(asked.method) :
               /\ Matches(row.route, Named)
               /\ \A r \in Rows(asked.method) :
                    Matches(r.route, Named) => StaticCount(r.route) <= StaticCount(row.route)
               /\ reply = CallHandler(row, Captures(row.route, Named), 200)
    <3>1. PICK row \in Rows(asked.method) :
               /\ Matches(row.route, Named)
               /\ \A r \in Rows(asked.method) :
                    Matches(r.route, Named) => StaticCount(r.route) <= StaticCount(row.route)
               /\ reply = CallHandler(row, Captures(row.route, Named), 200)
      BY <2>3
    <3>2. PICK e \in Candidates : row = Row(e) /\ StaticCount(row.route) = LiteralDirs(e)
      BY <2>2, <3>1
    <3>3. reply.row = Row(e)
      BY <3>1, <3>2, CalledRow
    <3>4. \A f \in Candidates : LiteralDirs(f) <= LiteralDirs(e)
      BY <2>1, <3>1, <3>2
    <3> QED BY <3>2, <3>3, <3>4
  <2>4. CASE /\ \A r \in Rows(asked.method) : ~Matches(r.route, Named)
             /\ \/ \E row \in Rows("404") : reply = CallHandler(row, <<>>, 404)
                \/ reply.row = None /\ reply.by = None /\ reply.status = 404
    <3>1. Candidates = {}
      BY <2>1, <2>4
    <3>2. reply.row = None \/ reply.row.method = "404"
      BY <2>4, CalledRow DEF Rows
    <3> QED BY <3>1, <3>2
  <2> QED BY <2>3, <2>4, AnswerCases
<1> QED BY <1>1, Inductive, PTL

\* A validated handler can be called exactly when its name is ASCII.
LEMMA CalledIfAscii ==
    ASSUME Pushing, AllPlain, NEW m, NEW row \in Rows(m), NEW params, NEW status, status # 500
    PROVE  CallHandler(row, params, status).status = 500
             <=> \E i \in DOMAIN row.handler : row.handler[i] \in NonAscii
<1>1. row \in db.routes /\ db.routes # {}
  BY DEF Rows
<1>2. PICK e \in entries : row = Row(e) /\ EntryOK(e)
  BY <1>1, RowOrigin
<1>3. row.handler = e.handler /\ e.handler \in Seq(NameSymbol) /\ e.handler # <<>>
  BY <1>2, RowTyped DEF EntryOK
<1>4. PICK g \in db.functions : g.name = e.handler /\ g.args = "req json"
  BY <1>1 DEF Pushing, Validated
<1>5. /\ g.by \in entries /\ g.name \in Created(g.by)
      /\ Spelling(g.by) = "plain" => PlainIdentifier(g.by.handler)
  BY DEF Pushing, FunctionsOK
<1> DEFINE h == g.by.handler
<1>6. Spelling(g.by) = "plain" /\ e.handler = Folded(h) /\ PlainIdentifier(h)
  BY <1>4, <1>5 DEF AllPlain, Created
<1>7. h \in Seq(NameSymbol) /\ h # <<>>
  BY <1>5, EntryTyped DEF Pushing, EntryOK
<1> HIDE DEF h
<1>8. Folded(e.handler) = e.handler /\ DOMAIN e.handler = 1..Len(h)
  BY <1>6, <1>7, FoldedShape
<1>9. ASSUME NEW i \in 1..Len(h) PROVE e.handler[i] \notin {":", "-", "[", "]"}
  <2>1. h[i] \notin {":", "-"}
    BY <1>6, <1>7, FoldedShape DEF PlainIdentifier
  <2>2. h[i] \notin {"[", "]"}
    BY <1>7 DEF NameSymbol
  <2>3. e.handler[i] = IF h[i] = "A" THEN "a" ELSE h[i]
    BY <1>6, <1>7, FoldedShape
  <2> QED BY <2>1, <2>2, <2>3
<1>10. IsSafeIdent(e.handler) <=> \A i \in DOMAIN e.handler : e.handler[i] \notin NonAscii
  BY <1>8, <1>9 DEF IsSafeIdent
<1> DEFINE called == {f \in db.functions : f.name = Folded(row.handler) /\ f.args = "req json"}
<1>11. called # {}
  BY <1>3, <1>4, <1>8
<1>12. CallHandler(row, params, status).status = IF IsSafeIdent(row.handler) THEN status ELSE 500
  <2>1. CallHandler(row, params, status)
          = IF IsSafeIdent(row.handler) /\ called # {}
              THEN [status |-> status, row |-> row, by |-> (CHOOSE f \in called : TRUE).by,
                    params |-> params]
              ELSE [NoReply EXCEPT !.status = 500, !.row = row]
    BY DEF CallHandler
  <2> HIDE DEF called
  <2> QED BY <1>11, <2>1 DEF NoReply
<1> QED BY <1>3, <1>10, <1>12

\* validate_handler and call_handler agree but for letters beyond ASCII
\* (push.rs:9-13, router.rs:560-577): where every handler is written unquoted,
\* a request is answered with a 500 because its handler cannot be called
\* exactly when that handler's name has such a letter, whatever else the
\* directories' names hold.
THEOREM PushedRoutesAreCallable == Spec => []PushedIsCallable
<1>1. IInv => PushedIsCallable
  <2> SUFFICES ASSUME IInv, Answered, AllPlain
               PROVE  reply.status = 500 <=>
                        /\ reply.row # None
                        /\ \E i \in DOMAIN reply.row.handler : reply.row.handler[i] \in NonAscii
    BY DEF PushedIsCallable
  <2>0. Pushing
    BY DEF IInv
  <2>1. ASSUME NEW m, NEW row \in Rows(m), NEW params, NEW status, status # 500,
               reply = CallHandler(row, params, status)
        PROVE  reply.status = 500 <=>
                 /\ reply.row # None
                 /\ \E i \in DOMAIN reply.row.handler : reply.row.handler[i] \in NonAscii
    <3>1. row # None
      BY <2>0, RowOrigin, RowTyped DEF Rows
    <3>2. reply.row = row
      BY <2>1, CalledRow
    <3>3. reply.status = 500 <=> \E i \in DOMAIN row.handler : row.handler[i] \in NonAscii
      BY <2>0, <2>1, CalledIfAscii
    <3> QED BY <3>1, <3>2, <3>3
  <2>2. CASE reply.row = None /\ reply.status = 404
    BY <2>2
  <2> QED BY <2>1, <2>2, AnswerCases
<1> QED BY <1>1, Inductive, PTL

\* The parameters are the captured segments, by the names of the directories:
\* of two directories with one name the later one counts.
BindsAs(e, params, segs) ==
    /\ DOMAIN params = {Inner(e.dir[i]) : i \in {j \in DOMAIN e.dir : Bracketed(e.dir[j])}}
    /\ \A i \in DOMAIN e.dir :
          (Bracketed(e.dir[i]) /\ \A j \in DOMAIN e.dir : j > i => e.dir[j] # e.dir[i])
            => params[Inner(e.dir[i])] = segs[i]

LEMMA CapturesShape ==
    ASSUME Pushing, NoColons, NEW e \in entries, NEW segs
    PROVE  BindsAs(e, Captures(e.route, segs), segs)
<1> DEFINE n == Len(e.dir)
           named(x) == {i \in DOMAIN e.route : IsCapture(e.route[i]) /\ Tail(e.route[i]) = x}
           names == {Tail(e.route[i]) : i \in {j \in DOMAIN e.route : IsCapture(e.route[j])}}
<1>1. DOMAIN e.dir = 1..n /\ DOMAIN e.route = 1..n /\ n \in Nat
  BY PatternOf
<1>2. ASSUME NEW i \in 1..n
      PROVE  /\ IsCapture(e.route[i]) <=> Bracketed(e.dir[i])
             /\ Bracketed(e.dir[i]) => Tail(e.route[i]) = Inner(e.dir[i])
             /\ e.dir[i] \in Name /\ ValidSegment(e.dir[i])
  <2>1. /\ e.dir[i] \in Name /\ ValidSegment(e.dir[i]) /\ e.route[i] = Marked(e.dir[i], ":")
        /\ IsCapture(e.route[i]) <=> Bracketed(e.dir[i])
    BY PatternOf
  <2>2. ":" \in Char
    BY DEF Char, Special
  <2>3. Bracketed(e.dir[i]) => Tail(e.route[i]) = Inner(e.dir[i])
    BY <2>1, <2>2, MarkedShape
  <2> QED BY <2>1, <2>3
<1>3. names = {Inner(e.dir[i]) : i \in {j \in DOMAIN e.dir : Bracketed(e.dir[j])}}
  BY <1>1, <1>2
<1>4. Captures(e.route, segs) =
        [x \in names |-> segs[CHOOSE i \in named(x) : \A j \in named(x) : j <= i]]
  BY DEF Captures
<1>5. ASSUME NEW i \in 1..n, Bracketed(e.dir[i]), \A j \in 1..n : j > i => e.dir[j] # e.dir[i]
      PROVE  Captures(e.route, segs)[Inner(e.dir[i])] = segs[i]
  <2> DEFINE x == Inner(e.dir[i])
             N == named(x)
  <2>1. x \in names
    BY <1>1, <1>3, <1>5
  <2>2. i \in N
    BY <1>1, <1>2, <1>5
  <2>3. ASSUME NEW k \in N PROVE k <= i /\ k \in 1..n
    <3>1. k \in 1..n /\ IsCapture(e.route[k]) /\ Tail(e.route[k]) = x
      BY <1>1
    <3>2. Bracketed(e.dir[k]) /\ Inner(e.dir[k]) = x
      BY <1>2, <3>1
    <3>3. e.dir[k] = e.dir[i]
      BY <1>2, <1>5, <3>1, <3>2, InnerInjective
    <3>4. ~(k > i)
      BY <1>5, <3>1, <3>3
    <3> QED BY <1>1, <3>1, <3>4
  <2>4. Captures(e.route, segs)[x] = segs[CHOOSE k \in N : \A j \in N : j <= k]
    BY <1>4, <2>1
  <2> HIDE DEF N, x
  <2>5. (CHOOSE k \in N : \A j \in N : j <= k) = i
    <3> DEFINE c == CHOOSE k \in N : \A j \in N : j <= k
    <3>1. c \in N /\ \A j \in N : j <= c
      BY <2>2, <2>3
    <3> HIDE DEF c
    <3>2. c <= i /\ i <= c /\ c \in 1..n
      BY <2>2, <2>3, <3>1
    <3>3. c = i
      BY <1>1, <3>2
    <3> QED BY <3>3 DEF c
  <2> QED BY <2>4, <2>5 DEF x
<1> HIDE DEF names, named
<1>6. DOMAIN Captures(e.route, segs) = names
  BY <1>4
<1> QED BY <1>1, <1>3, <1>5, <1>6 DEF BindsAs

\* ParsedPattern::matches: for every tree without colons and every request that
\* is answered by a page, the handler finds each segment that a bracketed
\* directory stands for under that directory's name, and nothing else.
THEOREM EveryCaptureIsBound == Spec => []CapturesBound
<1>1. IInv => CapturesBound
  <2> SUFFICES ASSUME IInv, Answered, NoColons, reply.status = 200
               PROVE  \E e \in Candidates : reply.row = Row(e) /\ BindsAs(e, reply.params, Named)
    BY DEF CapturesBound, BindsAs
  <2>0. Pushing
    BY DEF IInv
  <2>1. PICK row \in Rows(asked.method) :
          Matches(row.route, Named) /\ reply = CallHandler(row, Captures(row.route, Named), 200)
    <3>1. ASSUME NEW row, reply = CallHandler(row, <<>>, 404) PROVE FALSE
      <4>1. reply.status \in {404, 500}
        BY <3>1, CalledRow
      <4> QED BY <4>1
    <3> QED BY <3>1, AnswerCases
  <2>2. PICK e \in entries : row = Row(e) /\ EntryOK(e)
    BY <2>0, RowOrigin DEF Rows
  <2>3. e.method = row.method /\ e.route = row.route /\ row.method = asked.method
    BY <2>2, RowTyped DEF Rows
  <2>4. e \in Candidates
    BY <2>0, <2>1, <2>3, CandidateMatches
  <2>5. reply.row = Row(e) /\ reply.params = Captures(e.route, Named)
    BY <2>1, <2>2, <2>3, CalledRow
  <2>6. BindsAs(e, Captures(e.route, Named), Named)
    BY <2>0, CapturesShape
  <2> QED BY <2>4, <2>5, <2>6
<1> QED BY <1>1, Inductive, PTL

-----------------------------------------------------------------------------
(* Handler names can be read back.                                         *)

\* A segment that the separator cannot be mistaken in.
ClearSegment ==
    {s \in Seq(NameSymbol) :
        /\ s # <<>> /\ s[1] # "us"
        /\ \A i \in 1..Len(s) - 1 : ~(s[i] = "us" /\ s[i + 1] = "us")}

LEMMA ClearMarked ==
    ASSUME NEW d \in Name, ValidSegment(d), ClearName(d)
    PROVE  Marked(d, "$") \in ClearSegment
<1> DEFINE s == Marked(d, "$")
<1>1. "$" \in Char /\ "$" \notin {"[", "]"}
  BY DEF Char, Special
<1>2. /\ s \in Name /\ \A i \in 1..Len(s) : s[i] \notin {"[", "]"}
      /\ ~Bracketed(d) => s = d
      /\ Bracketed(d) => s[1] = "$" /\ Tail(s) = Inner(d)
  BY <1>1, MarkedShape
<1>3. d[1] # "us" /\ \A i \in 1..Len(d) - 1 : ~(d[i] = "us" /\ d[i + 1] = "us")
  BY DEF ClearName
<1> HIDE DEF s
<1>4. s \in Seq(Char) /\ s # <<>> /\ Len(s) \in Nat
  BY <1>2 DEF Name
<1>5. s \in Seq(NameSymbol)
  <2>1. \A i \in 1..Len(s) : s[i] \in NameSymbol
    BY <1>2, <1>4 DEF NameSymbol, Symbol
  <2> QED BY <1>4, <2>1
<1>6. CASE ~Bracketed(d)
  BY <1>2, <1>3, <1>4, <1>5, <1>6 DEF ClearSegment, s
<1>7. CASE Bracketed(d)
  <2>1. s[1] = "$" /\ Tail(s) = Inner(d)
    BY <1>2, <1>7
  <2>2. /\ Len(d) \in Nat /\ Len(d) >= 3 /\ Len(Inner(d)) = Len(d) - 2
        /\ \A i \in 1..Len(d) - 2 : Inner(d)[i] = d[i + 1]
    BY <1>7, CaptureShape
  <2>3. Len(Tail(s)) = Len(s) - 1 /\ \A i \in 1..Len(s) - 1 : Tail(s)[i] = s[i + 1]
    BY <1>4, HeadTailProperties
  <2>4. Len(s) = Len(d) - 1
    BY <1>4, <2>1, <2>2, <2>3
  <2>5. ASSUME NEW i \in 2..Len(s) PROVE s[i] = d[i]
    <3>1. i - 1 \in 1..Len(s) - 1 /\ i - 1 \in 1..Len(d) - 2 /\ (i - 1) + 1 = i
      BY <1>4, <2>2, <2>4
    <3> QED BY <2>1, <2>2, <2>3, <3>1
  <2>6. ASSUME NEW i \in 1..Len(s) - 1, s[i] = "us", s[i + 1] = "us" PROVE FALSE
    <3>1. i # 1
      BY <2>1, <2>6
    <3>2. i \in 2..Len(s) /\ i + 1 \in 2..Len(s) /\ i \in 1..Len(d) - 1
      BY <1>4, <2>2, <2>4, <3>1
    <3> QED BY <1>3, <2>5, <2>6, <3>2
  <2> QED BY <1>4, <1>5, <2>1, <2>6 DEF ClearSegment, s
<1> QED BY <1>6, <1>7

\* F[k] is what has been written after k segments, each with a separator.
Separator == <<"us", "us">>

Writes(F, segs, n) ==
    /\ F \in [0..n -> Seq(NameSymbol)] /\ F[0] = <<>>
    /\ \A i \in 1..n : segs[i] \in ClearSegment /\ F[i] = F[i - 1] \o (segs[i] \o Separator)

\* Text t is p, a segment s and a separator.
EndsIn(t, p, s) ==
    /\ t \in Seq(NameSymbol) /\ Len(t) = Len(p) + Len(s) + 2
    /\ Len(p) \in Nat /\ Len(s) \in Nat /\ Len(s) >= 1
    /\ \A i \in 1..Len(p) : t[i] = p[i]
    /\ \A i \in 1..Len(s) : t[Len(p) + i] = s[i]
    /\ t[Len(t)] = "us" /\ t[Len(t) - 1] = "us"

LEMMA LastSegment ==
    ASSUME NEW p \in Seq(NameSymbol), NEW s \in ClearSegment, NEW t, t = p \o (s \o Separator)
    PROVE  EndsIn(t, p, s)
<1>1. s \in Seq(NameSymbol) /\ Len(s) \in Nat /\ Len(s) # 0 /\ Len(p) \in Nat
  BY EmptySeq DEF ClearSegment
<1>2. Separator \in Seq(NameSymbol) /\ Len(Separator) = 2 /\ Separator[1] = "us" /\ Separator[2] = "us"
  BY DEF Separator, NameSymbol, Symbol, Char, Special
<1> HIDE DEF Separator
<1> DEFINE u == s \o Separator
<1>3. /\ u \in Seq(NameSymbol) /\ Len(u) = Len(s) + 2
      /\ \A i \in 1..Len(s) + 2 : u[i] = IF i <= Len(s) THEN s[i] ELSE Separator[i - Len(s)]
  <2>1. /\ u \in Seq(NameSymbol) /\ Len(u) = Len(s) + Len(Separator)
        /\ \A i \in 1..Len(s) + Len(Separator) :
              u[i] = IF i <= Len(s) THEN s[i] ELSE Separator[i - Len(s)]
    BY <1>1, <1>2, ConcatProperties, Zenon
  <2> HIDE DEF u
  <2> QED BY <1>2, <2>1
<1> HIDE DEF u
<1>4. /\ t \in Seq(NameSymbol) /\ Len(t) = Len(p) + Len(u)
      /\ \A i \in 1..Len(p) + Len(u) : t[i] = IF i <= Len(p) THEN p[i] ELSE u[i - Len(p)]
  BY <1>3, ConcatProperties DEF u
<1>5. Len(t) = Len(p) + Len(s) + 2
  BY <1>1, <1>3, <1>4
<1>6. \A i \in 1..Len(p) : t[i] = p[i]
  BY <1>1, <1>3, <1>4
<1>7. ASSUME NEW i \in 1..Len(u) PROVE t[Len(p) + i] = u[i]
  <2>1. Len(p) + i \in 1..Len(p) + Len(u) /\ ~(Len(p) + i <= Len(p)) /\ (Len(p) + i) - Len(p) = i
    BY <1>1, <1>3
  <2> QED BY <1>4, <2>1
<1>8. ASSUME NEW i \in 1..Len(s) PROVE t[Len(p) + i] = s[i]
  <2>1. i \in 1..Len(u) /\ i \in 1..Len(s) + 2 /\ i <= Len(s)
    BY <1>1, <1>3
  <2> QED BY <1>3, <1>7, <2>1
<1>9. t[Len(t)] = "us" /\ t[Len(t) - 1] = "us"
  <2>1. /\ Len(s) + 2 \in 1..Len(u) /\ Len(s) + 1 \in 1..Len(u)
        /\ Len(t) = Len(p) + (Len(s) + 2) /\ Len(t) - 1 = Len(p) + (Len(s) + 1)
    BY <1>1, <1>3, <1>5
  <2>2. u[Len(s) + 2] = Separator[2] /\ u[Len(s) + 1] = Separator[1]
    <3>1. /\ Len(s) + 2 \in 1..Len(s) + 2 /\ ~(Len(s) + 2 <= Len(s)) /\ (Len(s) + 2) - Len(s) = 2
          /\ Len(s) + 1 \in 1..Len(s) + 2 /\ ~(Len(s) + 1 <= Len(s)) /\ (Len(s) + 1) - Len(s) = 1
      BY <1>1
    <3> QED BY <1>3, <3>1
  <2> QED BY <1>2, <1>7, <2>1, <2>2
<1>10. Len(s) >= 1
  BY <1>1
<1> QED BY <1>1, <1>4, <1>5, <1>6, <1>8, <1>9, <1>10 DEF EndsIn

\* What is written is nothing, or ends in a separator.
LEMMA WrittenEnds ==
    ASSUME NEW n \in Nat, NEW F, NEW segs, Writes(F, segs, n), NEW k \in 0..n
    PROVE  /\ F[k] \in Seq(NameSymbol) /\ Len(F[k]) \in Nat
           /\ k = 0 => Len(F[k]) = 0
           /\ k # 0 => /\ Len(F[k]) >= 3
                       /\ F[k][Len(F[k])] = "us" /\ F[k][Len(F[k]) - 1] = "us"
<1>1. F[k] \in Seq(NameSymbol) /\ Len(F[k]) \in Nat
  BY DEF Writes
<1>2. CASE k = 0
  BY <1>1, <1>2, EmptySeq DEF Writes
<1>3. CASE k # 0
  <2>1. k \in 1..n /\ k - 1 \in 0..n
    BY <1>3
  <2>2. F[k] = F[k - 1] \o (segs[k] \o Separator) /\ segs[k] \in ClearSegment /\ F[k - 1] \in Seq(NameSymbol)
    BY <2>1 DEF Writes
  <2> DEFINE p == F[k - 1]
             s == segs[k]
             t == F[k]
  <2>3. p \in Seq(NameSymbol) /\ s \in ClearSegment /\ t = p \o (s \o Separator)
    BY <2>2
  <2> HIDE DEF p, s, t
  <2>4. /\ Len(t) = Len(p) + Len(s) + 2 /\ Len(p) \in Nat /\ Len(s) \in Nat /\ Len(s) >= 1
        /\ t[Len(t)] = "us" /\ t[Len(t) - 1] = "us"
    <3>1. EndsIn(t, p, s)
      BY <2>3, LastSegment, Zenon
    <3> QED BY <3>1 DEF EndsIn
  <2>5. Len(t) >= 3
    BY <2>4
  <2> QED BY <1>1, <1>3, <2>4, <2>5 DEF t
<1> QED BY <1>2, <1>3

\* One text has one last segment: if the two began at different places, the
\* longer one would begin with an underscore or hold two in a row.
LEMMA LastSegmentUnique ==
    ASSUME NEW p \in Seq(NameSymbol), NEW s \in ClearSegment,
           NEW q \in Seq(NameSymbol), NEW r \in ClearSegment,
           p \o (s \o Separator) = q \o (r \o Separator),
           Len(p) = 0 \/ (Len(p) >= 2 /\ p[Len(p)] = "us" /\ p[Len(p) - 1] = "us")
    PROVE  Len(p) <= Len(q)
<1> DEFINE t == p \o (s \o Separator)
<1> SUFFICES ASSUME ~(Len(p) <= Len(q)) PROVE FALSE
  OBVIOUS
<1>1. t = p \o (s \o Separator) /\ t = q \o (r \o Separator)
  OBVIOUS
<1> HIDE DEF t
<1>b. EndsIn(t, p, s) /\ EndsIn(t, q, r)
  BY <1>1, LastSegment, Zenon
<1>2. /\ Len(t) = Len(p) + Len(s) + 2 /\ Len(p) \in Nat /\ Len(s) \in Nat /\ Len(s) >= 1
      /\ \A i \in 1..Len(p) : t[i] = p[i]
  BY <1>b DEF EndsIn
<1>3. /\ Len(t) = Len(q) + Len(r) + 2 /\ Len(q) \in Nat /\ Len(r) \in Nat /\ Len(r) >= 1
      /\ \A i \in 1..Len(r) : t[Len(q) + i] = r[i]
  BY <1>b DEF EndsIn
<1> DEFINE j == Len(p) - Len(q)
<1>4. j \in 1..Len(r) /\ Len(p) >= 2 /\ Len(q) + j = Len(p) /\ Len(p) \in 1..Len(p)
      /\ Len(p) - 1 \in 1..Len(p)
  BY <1>2, <1>3
<1>5. t[Len(p)] = "us" /\ t[Len(p) - 1] = "us"
  BY <1>2, <1>4
<1>6. r[j] = "us"
  BY <1>3, <1>4, <1>5
<1> HIDE DEF j
<1>7. j # 1
  BY <1>6 DEF ClearSegment
<1>8. j - 1 \in 1..Len(r) /\ Len(q) + (j - 1) = Len(p) - 1 /\ j - 1 \in 1..Len(r) - 1
      /\ (j - 1) + 1 = j
  <2>1. j \in Nat /\ j >= 2 /\ j <= Len(r)
    BY <1>3, <1>4, <1>7
  <2> QED BY <1>2, <1>3, <1>4, <2>1
<1>9. r[j - 1] = "us"
  BY <1>3, <1>5, <1>8
<1>10. \A i \in 1..Len(r) - 1 : ~(r[i] = "us" /\ r[i + 1] = "us")
  BY DEF ClearSegment
<1> QED BY <1>6, <1>8, <1>9, <1>10

\* A text that was written one way was not written another way.
LEMMA WrittenOnce ==
    ASSUME NEW n \in Nat, NEW F, NEW segs, Writes(F, segs, n),
           NEW m \in Nat, NEW G, NEW others, Writes(G, others, m), F[n] = G[m]
    PROVE  n = m /\ \A i \in 1..n : segs[i] = others[i]
<1> DEFINE H == {k \in Nat : k <= n =>
                   \A l \in 0..m : F[k] = G[l] => k = l /\ \A i \in 1..k : segs[i] = others[i]}
<1>1. 0 \in H
  <2>1. ASSUME NEW l \in 0..m, F[0] = G[l] PROVE l = 0
    <3>1. 0 \in 0..n
      OBVIOUS
    <3>2. Len(F[0]) = 0 /\ (l # 0 => Len(G[l]) >= 3)
      BY <3>1, WrittenEnds
    <3> QED BY <2>1, <3>2
  <2>2. 1..0 = {}
    OBVIOUS
  <2> QED BY <2>1, <2>2
<1>2. ASSUME NEW k \in 0..n - 1, k \in H PROVE k + 1 \in H
  <2> SUFFICES ASSUME NEW l \in 0..m, F[k + 1] = G[l]
               PROVE  k + 1 = l /\ \A i \in 1..k + 1 : segs[i] = others[i]
    OBVIOUS
  <2>1. k + 1 \in 1..n /\ k + 1 \in 0..n /\ (k + 1) - 1 = k /\ k \in 0..n /\ k + 1 # 0 /\ k <= n
    OBVIOUS
  <2>2. l # 0
    <3>1. Len(F[k + 1]) >= 3 /\ (l = 0 => Len(G[l]) = 0)
      BY <2>1, WrittenEnds
    <3> QED BY <3>1
  <2>3. l \in 1..m /\ l - 1 \in 0..m
    BY <2>2
  <2> DEFINE p == F[k]
             s == segs[k + 1]
             q == G[l - 1]
             r == others[l]
  <2>4. /\ F[k + 1] = p \o (s \o Separator) /\ s \in ClearSegment /\ p \in Seq(NameSymbol)
        /\ G[l] = q \o (r \o Separator) /\ r \in ClearSegment /\ q \in Seq(NameSymbol)
    BY <2>1, <2>3 DEF Writes
  <2>5. /\ Len(p) = 0 \/ (Len(p) >= 2 /\ p[Len(p)] = "us" /\ p[Len(p) - 1] = "us")
        /\ Len(q) = 0 \/ (Len(q) >= 2 /\ q[Len(q)] = "us" /\ q[Len(q) - 1] = "us")
    <3>1. \A x \in Nat : x >= 3 => x >= 2
      OBVIOUS
    <3>2. /\ Len(p) \in Nat /\ (k = 0 => Len(p) = 0)
          /\ k # 0 => Len(p) >= 3 /\ p[Len(p)] = "us" /\ p[Len(p) - 1] = "us"
      BY <2>1, WrittenEnds
    <3>3. /\ Len(q) \in Nat /\ (l - 1 = 0 => Len(q) = 0)
          /\ l - 1 # 0 => Len(q) >= 3 /\ q[Len(q)] = "us" /\ q[Len(q) - 1] = "us"
      BY <2>3, WrittenEnds
    <3> HIDE DEF p, q
    <3> QED BY <3>1, <3>2, <3>3
  <2> HIDE DEF p, q, r, s
  <2> DEFINE t == F[k + 1]
  <2>6. t = p \o (s \o Separator) /\ t = q \o (r \o Separator)
    BY <2>4
  <2> HIDE DEF t
  <2>7. Len(p) <= Len(q) /\ Len(q) <= Len(p)
    BY <2>4, <2>5, <2>6, LastSegmentUnique
  <2>b. EndsIn(t, p, s) /\ EndsIn(t, q, r)
    BY <2>4, <2>6, LastSegment, Zenon
  <2>8. /\ Len(t) = Len(p) + Len(s) + 2 /\ Len(p) \in Nat /\ Len(s) \in Nat
        /\ \A i \in 1..Len(p) : t[i] = p[i]
        /\ \A i \in 1..Len(s) : t[Len(p) + i] = s[i]
    BY <2>b DEF EndsIn
  <2>9. /\ Len(t) = Len(q) + Len(r) + 2 /\ Len(q) \in Nat /\ Len(r) \in Nat
        /\ \A i \in 1..Len(q) : t[i] = q[i]
        /\ \A i \in 1..Len(r) : t[Len(q) + i] = r[i]
    BY <2>b DEF EndsIn
  <2>10. Len(p) = Len(q) /\ Len(s) = Len(r)
    BY <2>7, <2>8, <2>9
  <2>11. s \in Seq(NameSymbol) /\ r \in Seq(NameSymbol)
    BY <2>4 DEF ClearSegment
  <2>12. p = q
    <3>1. \A i \in 1..Len(p) : p[i] = q[i]
      BY <2>8, <2>9, <2>10
    <3> QED BY <2>4, <2>10, <3>1
  <2>13. s = r
    <3>1. \A i \in 1..Len(s) : s[i] = r[i]
      BY <2>8, <2>9, <2>10
    <3> QED BY <2>10, <2>11, <3>1
  <2>14. k = l - 1 /\ \A i \in 1..k : segs[i] = others[i]
    BY <1>2, <2>1, <2>3, <2>12 DEF p, q
  <2>15. k + 1 = l /\ segs[k + 1] = others[k + 1]
    BY <2>3, <2>13, <2>14 DEF s, r
  <2>16. \A i \in 1..k + 1 : i \in 1..k \/ i = k + 1
    OBVIOUS
  <2> QED BY <2>14, <2>15, <2>16
<1>3. n \in H
  <2> HIDE DEF H
  <2> QED BY <1>1, <1>2, CountingUp
<1>4. m \in 0..m
  OBVIOUS
<1> QED BY <1>3, <1>4

\* A handler's name is written by its directories, then the stem.
LEMMA HandlerWritten ==
    ASSUME NEW dir \in Seq(Name), NEW stem \in Stem,
           \A i \in DOMAIN dir : ValidSegment(dir[i]) /\ ClearName(dir[i])
    PROVE  \E F : /\ Writes(F, [i \in DOMAIN dir |-> Marked(dir[i], "$")], Len(dir))
                  /\ BuildHandlerName(dir, stem) = Append(F[Len(dir)], stem)
<1> DEFINE n == Len(dir)
           segs == [i \in DOMAIN dir |-> Marked(dir[i], "$")]
           ss == [i \in DOMAIN dir |-> Marked(dir[i], "$") \o <<"us", "us">>]
<1>1. DOMAIN dir = 1..n /\ n \in Nat
  OBVIOUS
<1>2. ASSUME NEW i \in 1..n PROVE segs[i] \in ClearSegment /\ ss[i] = segs[i] \o Separator
  <2>1. dir[i] \in Name /\ ValidSegment(dir[i]) /\ ClearName(dir[i])
    BY <1>1
  <2>2. Marked(dir[i], "$") \in ClearSegment
    BY <2>1, ClearMarked
  <2> QED BY <1>1, <2>2 DEF Separator
<1>3. ASSUME NEW i \in 1..n PROVE segs[i] \in Seq(NameSymbol) /\ ss[i] \in Seq(NameSymbol)
  <2>1. segs[i] \in Seq(NameSymbol) /\ ss[i] = segs[i] \o Separator
    BY <1>2 DEF ClearSegment
  <2>2. Separator \in Seq(NameSymbol)
    BY DEF Separator, NameSymbol, Symbol, Char, Special
  <2> HIDE DEF segs, ss
  <2> QED BY <2>1, <2>2, ConcatProperties
<1>4. DOMAIN ss = 1..n /\ ss = [i \in 1..n |-> ss[i]]
  BY <1>1
<1>5. ss \in Seq(Seq(NameSymbol)) /\ Len(ss) = n
  <2> HIDE DEF ss
  <2> QED BY <1>1, <1>3, <1>4
<1>6. BuildHandlerName(dir, stem) = FlattenSeq(ss) \o <<stem>>
  BY DEF BuildHandlerName
<1>7. stem \in NameSymbol
  BY DEF NameSymbol, Symbol, Stem
<1> HIDE DEF ss, segs, n
<1>8. CASE n = 0
  <2> DEFINE F == [k \in 0..0 |-> <<>>]
  <2>1. ss = <<>> /\ FlattenSeq(ss) = <<>>
    <3>1. ss = <<>>
      BY <1>5, <1>8, EmptySeq
    <3> QED BY <3>1 DEF FlattenSeq
  <2>2. <<>> \in Seq(NameSymbol) /\ 0..0 = {0} /\ 1..0 = {}
    BY EmptySeq
  <2>3. Writes(F, segs, n)
    BY <1>8, <2>2 DEF Writes
  <2>4. F[n] = FlattenSeq(ss)
    BY <1>8, <2>1, <2>2
  <2>5. Append(FlattenSeq(ss), stem) = FlattenSeq(ss) \o <<stem>>
    BY <1>7, <2>1, <2>2, AppendIsConcat
  <2> QED BY <1>6, <2>3, <2>4, <2>5 DEF n, segs
<1>9. CASE n # 0
  <2>1. PICK f \in [1..n -> Seq(NameSymbol)] : Flattens(f, ss, n) /\ FlattenSeq(ss) = f[n]
    <3>1. ss # <<>>
      BY <1>5, <1>9
    <3> QED BY <1>5, <3>1, FlattenSeqTyped
  <2> DEFINE F == [k \in 0..n |-> IF k = 0 THEN <<>> ELSE f[k]]
  <2>2. F \in [0..n -> Seq(NameSymbol)] /\ F[0] = <<>>
    <3>1. <<>> \in Seq(NameSymbol) /\ 0 \in 0..n
      BY <1>1, EmptySeq
    <3>2. \A k \in 0..n : k # 0 => k \in 1..n
      BY <1>1
    <3> QED BY <3>1, <3>2
  <2>3. ASSUME NEW i \in 1..n PROVE F[i] = F[i - 1] \o (segs[i] \o Separator)
    <3>1. F[i] = f[i] /\ f[i] = IF i = 1 THEN ss[1] ELSE f[i - 1] \o ss[i]
      <4>1. f[i] = IF i = 1 THEN ss[1] ELSE f[i - 1] \o ss[i]
        BY <2>1 DEF Flattens
      <4>2. i \in 0..n /\ i # 0
        BY <1>1
      <4>3. F[i] = f[i]
        BY <4>2
      <4> HIDE DEF F
      <4> QED BY <4>1, <4>3
    <3>2. ss[i] = segs[i] \o Separator /\ ss[i] \in Seq(NameSymbol)
      BY <1>2, <1>3
    <3>3. CASE i = 1
      <4>1. F[i - 1] = <<>>
        BY <2>2, <3>3
      <4>2. <<>> \o ss[i] = ss[i]
        BY <3>2, ConcatEmptySeq
      <4> HIDE DEF F
      <4> QED BY <3>1, <3>2, <3>3, <4>1, <4>2
    <3>4. CASE i # 1
      <4>1. F[i - 1] = f[i - 1]
        BY <1>1, <3>4
      <4> HIDE DEF F
      <4> QED BY <3>1, <3>2, <3>4, <4>1
    <3> QED BY <3>3, <3>4
  <2>4. F[n] = f[n]
    BY <1>1, <1>9
  <2> HIDE DEF F
  <2>5. Writes(F, segs, n)
    BY <1>2, <2>2, <2>3 DEF Writes
  <2>6. f[n] \in Seq(NameSymbol)
    BY <1>1, <1>9, <2>1
  <2>7. Append(f[n], stem) = f[n] \o <<stem>>
    BY <1>7, <2>6, AppendIsConcat
  <2> QED BY <1>6, <2>1, <2>4, <2>5, <2>7 DEF n, segs
<1> QED BY <1>8, <1>9

\* A clear directory can be read off its segment: only a capture's has a $.
LEMMA MarkedInjective ==
    ASSUME NEW c \in Name, ValidSegment(c), ClearName(c),
           NEW d \in Name, ValidSegment(d), ClearName(d), Marked(c, "$") = Marked(d, "$")
    PROVE  c = d
<1>1. "$" \in Char
  BY DEF Char, Special
<1>2. ASSUME NEW x \in Name, ClearName(x) PROVE x[1] # "$"
  <2>1. x \in Seq(Char) /\ x # <<>>
    BY DEF Name
  <2>2. Len(x) \in Nat \ {0} /\ DOMAIN x = 1..Len(x)
    BY <2>1, EmptySeq
  <2>3. 1 \in DOMAIN x
    BY <2>2
  <2> QED BY <1>2, <2>3 DEF ClearName, Range
<1>3. /\ Bracketed(c) => Marked(c, "$")[1] = "$" /\ Tail(Marked(c, "$")) = Inner(c)
      /\ Bracketed(d) => Marked(d, "$")[1] = "$" /\ Tail(Marked(d, "$")) = Inner(d)
      /\ ~Bracketed(c) => Marked(c, "$") = c
      /\ ~Bracketed(d) => Marked(d, "$") = d
  BY <1>1, MarkedShape
<1>4. CASE Bracketed(c) /\ Bracketed(d)
  BY <1>3, <1>4, InnerInjective
<1>5. CASE ~(Bracketed(c) /\ Bracketed(d))
  BY <1>2, <1>3, <1>5
<1> QED BY <1>4, <1>5

\* build_handler_name is one to one on clear directories.
LEMMA LastApart ==
    ASSUME NEW S, NEW u \in Seq(S), NEW e \in S, NEW v \in Seq(S), NEW f \in S,
           Append(u, e) = Append(v, f)
    PROVE  u = v /\ e = f
  BY AppendInjective

LEMMA HandlerNameInjective ==
    ASSUME NEW c \in Seq(Name), NEW s \in Stem, NEW d \in Seq(Name), NEW t \in Stem,
           \A i \in DOMAIN c : ValidSegment(c[i]) /\ ClearName(c[i]),
           \A i \in DOMAIN d : ValidSegment(d[i]) /\ ClearName(d[i]),
           BuildHandlerName(c, s) = BuildHandlerName(d, t)
    PROVE  c = d /\ s = t
<1> DEFINE n == Len(c)
           m == Len(d)
           segs == [i \in DOMAIN c |-> Marked(c[i], "$")]
           others == [i \in DOMAIN d |-> Marked(d[i], "$")]
<1>1. DOMAIN c = 1..n /\ n \in Nat /\ DOMAIN d = 1..m /\ m \in Nat
  OBVIOUS
<1>2. PICK F : Writes(F, segs, n) /\ BuildHandlerName(c, s) = Append(F[n], s)
  BY HandlerWritten
<1>3. PICK G : Writes(G, others, m) /\ BuildHandlerName(d, t) = Append(G[m], t)
  BY HandlerWritten
<1>4. F[n] \in Seq(NameSymbol) /\ G[m] \in Seq(NameSymbol) /\ s \in NameSymbol /\ t \in NameSymbol
  <2>1. n \in 0..n /\ m \in 0..m
    BY <1>1
  <2>2. s \in NameSymbol /\ t \in NameSymbol
    BY DEF NameSymbol, Symbol, Stem
  <2> QED BY <1>2, <1>3, <2>1, <2>2 DEF Writes
<1>5. F[n] = G[m] /\ s = t
  <2>1. Append(F[n], s) = Append(G[m], t)
    BY <1>2, <1>3
  <2> DEFINE u == F[n]
             v == G[m]
  <2>2. u \in Seq(NameSymbol) /\ v \in Seq(NameSymbol) /\ Append(u, s) = Append(v, t)
    BY <1>4, <2>1
  <2>3. s \in NameSymbol /\ t \in NameSymbol
    BY <1>4
  <2> HIDE DEF u, v
  <2>4. u = v /\ s = t
    BY <2>2, <2>3, LastApart
  <2> QED BY <2>4 DEF u, v
<1>6. \A i \in 1..n : segs[i] = Marked(c[i], "$")
  BY <1>1
<1>7. \A i \in 1..m : others[i] = Marked(d[i], "$")
  BY <1>1
<1> HIDE DEF n, m, segs, others
<1>8. n = m /\ \A i \in 1..n : segs[i] = others[i]
  BY <1>1, <1>2, <1>3, <1>5, WrittenOnce
<1>9. ASSUME NEW i \in 1..n PROVE c[i] = d[i]
  <2>1. /\ c[i] \in Name /\ ValidSegment(c[i]) /\ ClearName(c[i])
        /\ d[i] \in Name /\ ValidSegment(d[i]) /\ ClearName(d[i])
    BY <1>1, <1>8
  <2>2. Marked(c[i], "$") = Marked(d[i], "$")
    BY <1>6, <1>7, <1>8
  <2> QED BY <2>1, <2>2, MarkedInjective
<1>10. c = d
  BY <1>1, <1>8, <1>9 DEF n, m
<1> QED BY <1>5, <1>10

\* With unquoted handlers, what was validated is written in lower case.
LEMMA ValidatedIsFolded ==
    ASSUME Pushing, AllPlain, db.routes # {}, NEW e \in entries
    PROVE  Folded(e.handler) = e.handler
<1>1. PICK g \in db.functions : g.name = e.handler
  BY DEF Pushing, Validated
<1>2. g.by \in entries /\ g.name \in Created(g.by)
  BY DEF Pushing, FunctionsOK
<1>3. g.name = Folded(g.by.handler)
  BY <1>2 DEF AllPlain, Created
<1>4. EntryOK(g.by)
  BY <1>2, EntryTyped DEF Pushing
<1> QED BY <1>1, <1>3, <1>4, FoldedShape DEF EntryOK

\* build_handler_name "cleanly disambiguates" pages (paths.rs:300-305): for
\* every tree with clear names and unquoted handlers, the function a route
\* calls was made by the route's own files.
THEOREM RoutesCallTheirOwn == Spec => []OwnHandler
<1>1. IInv => OwnHandler
  <2> SUFFICES ASSUME IInv, Answered, NoColons, ClearNames, AllPlain, reply.by # None
               PROVE  reply.row = Row(reply.by)
    BY DEF OwnHandler
  <2>0. Pushing
    BY DEF IInv
  <2>1. ASSUME NEW m, NEW row \in Rows(m), NEW params, NEW status,
               reply = CallHandler(row, params, status)
        PROVE  reply.row = Row(reply.by)
    <3> DEFINE called == {g \in db.functions : g.name = Folded(row.handler) /\ g.args = "req json"}
               g == CHOOSE g \in called : TRUE
    <3>1. called # {} /\ reply.by = g.by /\ reply.row = row
      <4>1. [NoReply EXCEPT !.status = 500, !.row = row].by = None
        BY DEF NoReply
      <4>2. reply = IF IsSafeIdent(row.handler) /\ called # {}
                      THEN [status |-> status, row |-> row, by |-> g.by, params |-> params]
                      ELSE [NoReply EXCEPT !.status = 500, !.row = row]
        BY <2>1 DEF CallHandler
      <4> HIDE DEF called, g
      <4> QED BY <4>1, <4>2
    <3>2. g \in db.functions /\ g.name = Folded(row.handler)
      BY <3>1
    <3> HIDE DEF g, called
    <3>3. row \in db.routes /\ db.routes # {}
      BY DEF Rows
    <3>4. PICK e \in entries : row = Row(e) /\ EntryOK(e)
      BY <2>0, <3>3, RowOrigin
    <3>5. row.handler = e.handler
      BY <3>4, RowTyped
    <3> DEFINE b == g.by
    <3>6. b \in entries /\ g.name = Folded(b.handler)
      BY <2>0, <3>2 DEF Pushing, FunctionsOK, AllPlain, Created
    <3> HIDE DEF b
    <3>7. e.handler = b.handler
      BY <2>0, <3>2, <3>3, <3>5, <3>6, ValidatedIsFolded
    <3>8. ASSUME NEW x \in entries
          PROVE  /\ x = Entry(x.dir, x.stem) /\ x.handler = BuildHandlerName(x.dir, x.stem)
                 /\ x.dir \in Seq(Name) /\ x.stem \in Stem
                 /\ \A i \in DOMAIN x.dir : ValidSegment(x.dir[i]) /\ ClearName(x.dir[i])
      <4>1. PICK f \in PageFiles :
              /\ x = Entry(f.dir, f.stem) /\ x.dir = f.dir /\ x.stem = f.stem
              /\ f \in File /\ f.dir \in Seq(Name) /\ \A i \in DOMAIN f.dir : ValidSegment(f.dir[i])
        BY <2>0, EntryOrigin DEF Pushing
      <4>2. \A i \in DOMAIN f.dir : ClearName(f.dir[i])
        BY DEF ClearNames
      <4>3. f.stem \in Stem
        BY <4>1 DEF File
      <4>4. x.handler = BuildHandlerName(f.dir, f.stem)
        BY <4>1 DEF Entry
      <4> QED BY <4>1, <4>2, <4>3, <4>4
    <3>9. e.dir = b.dir /\ e.stem = b.stem
      BY <3>6, <3>7, <3>8, HandlerNameInjective
    <3>10. e = b
      BY <3>6, <3>8, <3>9
    <3> QED BY <3>1, <3>4, <3>10 DEF b
  <2> QED BY <2>1, AnswerCases
<1> QED BY <1>1, Inductive, PTL
=============================================================================
