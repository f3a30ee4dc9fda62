---------------------------- MODULE SplitterProofs ----------------------------
(***************************************************************************)
(* What `pg-web check` makes of a text of any length, over the characters  *)
(* of Splitter, so without escape strings, digits and BEGIN ATOMIC bodies: *)
(*   TextIsKept             nothing of it is lost, doubled or reordered;   *)
(*   CutsWherePostgresDoes  a plain text is cut where Postgres cuts it;    *)
(*   HeadsOnlyBypass        and only statements that begin with a trusted  *)
(*                          head bypass the parser.                        *)
(* The last two need the scanner's flags to say which token of Postgres    *)
(* the scanner is in (Mode), every step to move inside a token, to its end *)
(* or to the next one (Scans), and finalize_statement's probe to be the    *)
(* first token of the statement that is not blank (ProbeAt).               *)
(***************************************************************************)
EXTENDS Splitter, SequenceTheorems, FiniteSetTheorems, TLAPS

LEMMA TextTyped == ASSUME TypeOK PROVE text \in Seq(Char) /\ Len(text) \in Nat
  BY TextsAssumption DEF TypeOK

\* A set of natural numbers has a least element.
LEMMA LeastExists ==
  ASSUME NEW S \in SUBSET Nat, S # {}
  PROVE  Least(S) \in S /\ \A y \in S : Least(S) <= y
<1>1. PICK n \in S : \A k \in S : ~(<<k, n>> \in OpToRel(<, Nat))
  BY WFMin, NatLessThanWellFounded
<1>2. ASSUME NEW k \in S PROVE n <= k
  <2>1. k \in Nat /\ n \in Nat
    OBVIOUS
  <2>2. k < n => <<k, n>> \in OpToRel(<, Nat)
    BY <2>1 DEF OpToRel
  <2>3. ~(k < n)
    BY <1>1, <2>2, Zenon
  <2>4. QED  BY <2>1, <2>3
<1>3. QED  BY <1>2 DEF Least

LEMMA TagBounds ==
  ASSUME TypeOK, NEW i \in 1..Len(text), HasTag(i)
  PROVE  /\ TagEnd(i) \in i + 1..Len(text) /\ text[TagEnd(i)] = "$" /\ text[i] = "$"
         /\ TagLength(i) \in Nat /\ TagLength(i) >= TagEnd(i) - i + 1
         /\ TagAt(i) \in Seq(Char)
         /\ ~WideInTag => TagLength(i) = TagEnd(i) - i + 1
<1> DEFINE W == {j \in i..TagEnd(i) : text[j] = "wide"}
<1>0. text \in Seq(Char) /\ Len(text) \in Nat
  BY TextTyped
<1>1. TagEnd(i) \in ClosingDollar(i)
  <2>1. ClosingDollar(i) \in SUBSET Nat /\ ClosingDollar(i) # {}
    BY <1>0 DEF HasTag, ClosingDollar
  <2>2. QED  BY <2>1, LeastExists DEF TagEnd
<1>2. TagEnd(i) \in i + 1..Len(text) /\ text[TagEnd(i)] = "$" /\ text[i] = "$"
  BY <1>1 DEF ClosingDollar, HasTag, At
<1>3. IsFiniteSet(W) /\ Cardinality(W) \in Nat
  <2>1. IsFiniteSet(i..TagEnd(i))
    BY <1>0, <1>2, FS_Interval
  <2>2. QED  BY <2>1, FS_Subset, FS_CardinalityType
<1>4. TagLength(i) = TagEnd(i) - i + 1 + Cardinality(W)
  BY DEF TagLength
<1>5. TagAt(i) \in Seq(Char)
  <2>1. \A j \in i + 1..TagEnd(i) - 1 : text[j] \in Char
    BY <1>0, <1>2
  <2>2. QED  BY <1>0, <1>2, <2>1, SubSeqProperties DEF TagAt
<1>6. ASSUME ~WideInTag PROVE W = {}
  <2>1. ASSUME NEW j \in W PROVE FALSE
    <3>1. j \in i..TagEnd(i) /\ text[j] = "wide" /\ j # i /\ j # TagEnd(i)
      BY <1>2
    <3>2. i < j /\ j < TagEnd(i) /\ j \in 1..Len(text) /\ TagEnd(i) \in 1..Len(text)
      BY <1>0, <1>2, <3>1
    <3>3. QED  BY <1>0, <1>2, <1>6, <3>1, <3>2 DEF WideInTag
  <2>2. QED  BY <2>1
<1>7. ~WideInTag => TagLength(i) = TagEnd(i) - i + 1
  <2> SUFFICES ASSUME ~WideInTag PROVE TagLength(i) = TagEnd(i) - i + 1
    OBVIOUS
  <2>1. Cardinality(W) = 0
    BY <1>6, FS_EmptySet
  <2>2. TagEnd(i) - i + 1 \in Nat
    BY <1>0, <1>2
  <2> HIDE DEF W
  <2>3. QED  BY <1>4, <2>1, <2>2
<1> HIDE DEF W
<1>8. TagLength(i) \in Nat /\ TagLength(i) >= TagEnd(i) - i + 1
  <2>1. TagEnd(i) - i + 1 \in Nat
    BY <1>0, <1>2
  <2>2. QED  BY <2>1, <1>3, <1>4
<1>9. QED  BY <1>2, <1>5, <1>7, <1>8

\* Counting on from where one stopped.
LEMMA CountOn ==
  ASSUME NEW p \in Nat, NEW n \in Nat
  PROVE  [k \in 1..p |-> k] \o [k \in 1..n |-> p + k] = [k \in 1..p + n |-> k]
<1> DEFINE t == [k \in 1..p |-> k]
           s == [k \in 1..n |-> p + k]
           u == t \o s
<1>1. t \in Seq(Nat) /\ s \in Seq(Nat) /\ Len(t) = p /\ Len(s) = n
  OBVIOUS
<1>2. /\ u \in Seq(Nat) /\ Len(u) = p + n
      /\ \A i \in 1..p + n : u[i] = IF i <= p THEN t[i] ELSE s[i - p]
  <2> HIDE DEF s, t
  <2>1. /\ u \in Seq(Nat) /\ Len(u) = Len(t) + Len(s)
        /\ \A i \in 1..Len(t) + Len(s) : u[i] = IF i <= Len(t) THEN t[i] ELSE s[i - Len(t)]
    BY <1>1, ConcatProperties, Zenon
  <2>2. QED  BY <1>1, <2>1
<1>3. ASSUME NEW i \in 1..p + n PROVE u[i] = i
  <2> HIDE DEF u
  <2>1. u[i] = IF i <= p THEN t[i] ELSE s[i - p]
    BY <1>2
  <2>2. CASE i <= p
    <3>1. i \in 1..p
      BY <2>2
    <3>2. QED  BY <2>1, <2>2, <3>1
  <2>3. CASE ~(i <= p)
    <3>1. i - p \in 1..n
      BY <2>3
    <3>2. s[i - p] = i
      BY <3>1
    <3>3. QED  BY <2>1, <2>3, <3>2
  <2>4. QED  BY <2>2, <2>3
<1>4. DOMAIN u = 1..p + n /\ u = [i \in DOMAIN u |-> u[i]]
  <2> HIDE DEF u
  <2> QED  BY <1>2
<1> HIDE DEF u
<1>5. u = [k \in 1..p + n |-> k]
  BY <1>3, <1>4
<1>6. QED  BY <1>5 DEF u

LEMMA CopiedInOrder ==
  ASSUME TypeOK, KeepsText, NEW n \in Nat, Copy([k \in 1..n |-> pos + k - 1]),
         pos' = pos + n \/ WideInTag
  PROVE  KeepsText'
<1> DEFINE s == [k \in 1..n |-> pos + k - 1]
<1>1. text' = text /\ kept' = kept \o s
  BY DEF Copy
<1>2. WideInTag' <=> WideInTag
  BY <1>1 DEF WideInTag
<1>3. SUFFICES ASSUME ~WideInTag PROVE kept' = [k \in 1..pos' - 1 |-> k]
  BY <1>2 DEF KeepsText
<1>4. pos \in Nat /\ pos - 1 \in Nat /\ pos' = pos + n
  BY <1>3, TextTyped DEF TypeOK
<1>5. kept = [k \in 1..pos - 1 |-> k]
  BY <1>3 DEF KeepsText
<1>6. s = [k \in 1..n |-> (pos - 1) + k]
  BY <1>4
<1>7. (pos - 1) + n = pos' - 1
  BY <1>4
<1>8. [k \in 1..pos - 1 |-> k] \o [k \in 1..n |-> (pos - 1) + k] = [k \in 1..(pos - 1) + n |-> k]
  BY <1>4, CountOn
<1> HIDE DEF s
<1>9. QED  BY <1>1, <1>5, <1>6, <1>7, <1>8, Zenon

IInv == TypeOK /\ KeepsText

Flags ==
  /\ in_single \in BOOLEAN /\ in_double \in BOOLEAN
  /\ in_block_comment \in BOOLEAN /\ in_line_comment \in BOOLEAN
  /\ dollar_tag = None \/ dollar_tag \in Seq(Char)

\* What is copied next keeps the invariant.
LEMMA CopyKeeps ==
  ASSUME IInv, Flags', NEW n \in Nat, NEW s, s = [k \in 1..n |-> pos + k - 1], Copy(s),
         pos + n <= Len(text) + 1, pos' = pos + n \/ WideInTag, pos' \in 1..Len(text) + 1
  PROVE  IInv'
<1>1. pos \in Nat /\ pos >= 1 /\ Len(text) \in Nat /\ TypeOK /\ KeepsText
  BY TextTyped DEF IInv, TypeOK
<1>2. \A k \in 1..n : pos + k - 1 \in 1..Len(text)
  BY <1>1
<1>3. s \in Seq(1..Len(text))
  BY <1>1, <1>2
<1>4. TypeOK'
  <2>1. current' \in Seq(1..Len(text)) /\ kept' \in Seq(1..Len(text))
    BY <1>1, <1>3, ConcatProperties DEF TypeOK, Copy
  <2>2. text' = text /\ stmts' = stmts /\ done' = done
    BY DEF Copy
  <2>3. QED  BY <1>1, <2>1, <2>2 DEF TypeOK, Flags
<1>5. Copy([k \in 1..n |-> pos + k - 1])
  BY Zenon
<1>6. KeepsText'
  BY <1>1, <1>5, CopiedInOrder
<1>7. QED  BY <1>4, <1>6 DEF IInv

\* The three ways to copy: a character, a pair, a delimiter.
LEMMA CopyOneKeeps == ASSUME IInv, Flags', pos <= Len(text), CopyOne PROVE IInv'
<1>1. pos \in Nat /\ pos >= 1 /\ Len(text) \in Nat
  BY TextTyped DEF IInv, TypeOK
<1>2. <<pos>> = [k \in 1..1 |-> pos + k - 1]
  BY <1>1
<1>3. Copy(<<pos>>) /\ pos' = pos + 1
  BY DEF CopyOne
<1>4. pos + 1 <= Len(text) + 1 /\ pos' \in 1..Len(text) + 1
  BY <1>1, <1>3
<1>5. QED  BY <1>2, <1>3, <1>4, CopyKeeps

LEMMA CopyTwoKeeps == ASSUME IInv, Flags', pos + 1 \in DOMAIN text, CopyTwo PROVE IInv'
<1>1. pos \in Nat /\ pos >= 1 /\ Len(text) \in Nat /\ pos + 1 <= Len(text)
  BY TextTyped DEF IInv, TypeOK
<1>2. <<pos, pos + 1>> = [k \in 1..2 |-> pos + k - 1]
  BY <1>1
<1>3. Copy(<<pos, pos + 1>>) /\ pos' = pos + 2
  BY DEF CopyTwo
<1>4. pos + 2 <= Len(text) + 1 /\ pos' \in 1..Len(text) + 1
  BY <1>1, <1>3
<1>5. QED  BY <1>2, <1>3, <1>4, CopyKeeps

LEMMA CopyTagKeeps ==
  ASSUME IInv, Flags', pos <= Len(text), HasTag(pos), CopyTag
  PROVE  IInv'
<1> DEFINE n == TagEnd(pos) - pos + 1
           s == [k \in 1..n |-> pos + k - 1]
<1>1. pos \in 1..Len(text) /\ Len(text) \in Nat /\ TypeOK
  BY TextTyped DEF IInv, TypeOK
<1>2. /\ TagEnd(pos) \in pos + 1..Len(text) /\ TagLength(pos) \in Nat
      /\ TagLength(pos) >= n /\ (~WideInTag => TagLength(pos) = n)
  BY <1>1, TagBounds
<1>3. n \in Nat /\ pos + n = TagEnd(pos) + 1 /\ pos + n <= Len(text) + 1
  BY <1>1, <1>2
<1>4. pos' = IF pos + TagLength(pos) > Len(text) THEN Len(text) + 1 ELSE pos + TagLength(pos)
  BY DEF CopyTag
<1>5. Copy(s)
  BY DEF CopyTag
<1> HIDE DEF n
<1>6. pos' \in 1..Len(text) + 1
  BY <1>1, <1>2, <1>4
<1>7. pos' = pos + n \/ WideInTag
  BY <1>1, <1>2, <1>3, <1>4
<1> HIDE DEF s
<1>8. s = [k \in 1..n |-> pos + k - 1]
  BY DEF s
<1>9. QED  BY <1>3, <1>5, <1>6, <1>7, <1>8, CopyKeeps

\* A finished statement.
LEMMA FinalizeTyped ==
  ASSUME TypeOK, NEW s \in Seq(1..Len(text)), NEW closed \in BOOLEAN
  PROVE  Finalize(s, closed) \in Seq([at : Seq(1..Len(text)), trusted : BOOLEAN, closed : BOOLEAN])
<1> DEFINE e == [at |-> s, trusted |-> Trusted(TextOf(s)), closed |-> closed]
<1>1. Trusted(TextOf(s)) \in BOOLEAN
  BY DEF Trusted
<1>2. e \in [at : Seq(1..Len(text)), trusted : BOOLEAN, closed : BOOLEAN]
  BY <1>1
<1> HIDE DEF e
<1>3. Append(stmts, e) \in Seq([at : Seq(1..Len(text)), trusted : BOOLEAN, closed : BOOLEAN])
  BY <1>2, AppendProperties DEF TypeOK
<1>4. QED  BY <1>3 DEF Finalize, TypeOK, e

\* A terminator ends a statement and is part of it.
LEMMA TerminatorKeeps == ASSUME IInv, Terminator PROVE IInv'
<1> USE DEF quoting, comments
<1>1. TypeOK /\ Len(text) \in Nat
  BY TextTyped DEF IInv
<1>2. pos \in 1..Len(text)
  <2>1. pos <= Len(text)
    BY DEF Terminator, Unquoted, Code, Scanning
  <2>2. QED  BY <1>1, <2>1 DEF TypeOK
<1>3. Append(current, pos) \in Seq(1..Len(text)) /\ Append(kept, pos) \in Seq(1..Len(text))
  BY <1>1, <1>2, AppendProperties DEF TypeOK
<1>4. stmts' \in Seq([at : Seq(1..Len(text)), trusted : BOOLEAN, closed : BOOLEAN])
  BY <1>1, <1>3, FinalizeTyped DEF Terminator
<1>5. /\ text' = text /\ pos' = pos + 1 /\ done' = done /\ current' = <<>>
      /\ kept' = Append(kept, pos)
      /\ in_single' = in_single /\ in_double' = in_double /\ dollar_tag' = dollar_tag
      /\ in_block_comment' = in_block_comment /\ in_line_comment' = in_line_comment
  BY DEF Terminator
<1>6. TypeOK'
  <2>1. pos' \in 1..Len(text) + 1
    BY <1>1, <1>2, <1>5
  <2>2. kept' \in Seq(1..Len(text)) /\ current' \in Seq(1..Len(text))
    BY <1>3, <1>5
  <2>3. QED  BY <1>1, <1>4, <1>5, <2>1, <2>2 DEF TypeOK
<1>7. WideInTag' <=> WideInTag
  BY <1>5 DEF WideInTag
<1>8. ASSUME ~WideInTag PROVE kept' = [k \in 1..pos' - 1 |-> k]
  <2>1. kept = [k \in 1..pos - 1 |-> k]
    BY <1>8 DEF IInv, KeepsText
  <2>2. QED  BY <1>1, <1>2, <1>5, <2>1
<1>9. QED  BY <1>6, <1>7, <1>8 DEF IInv, KeepsText

LEMMA NextKeeps == ASSUME IInv, Next PROVE IInv'
<1> USE DEF quoting, comments
<1>1. /\ TypeOK /\ text \in Seq(Char) /\ Len(text) \in Nat /\ DOMAIN text = 1..Len(text)
      /\ Flags
  BY TextTyped DEF IInv, Flags, TypeOK
<1>2. CASE LineComment
  <2>1. pos <= Len(text) /\ Flags'
    BY <1>1, <1>2 DEF LineComment, Scanning, Flags
  <2>2. CASE OpensLine /\ CopyTwo
    BY <2>1, <2>2, CopyTwoKeeps DEF OpensLine, At
  <2>3. CASE CopyOne
    BY <2>1, <2>3, CopyOneKeeps
  <2>4. QED  BY <1>2, <2>2, <2>3 DEF LineComment
<1>3. CASE BlockComment
  <2>1. pos <= Len(text) /\ Flags'
    BY <1>1, <1>3 DEF BlockComment, Scanning, Flags
  <2>2. CASE CopyTwo /\ pos + 1 \in DOMAIN text
    BY <2>1, <2>2, CopyTwoKeeps
  <2>3. CASE CopyOne
    BY <2>1, <2>3, CopyOneKeeps
  <2>4. QED  BY <1>3, <2>2, <2>3 DEF BlockComment, OpensBlock, At
<1>4. CASE DollarQuote
  <2>1. pos <= Len(text) /\ pos \in 1..Len(text)
    BY <1>1, <1>4 DEF DollarQuote, Code, Scanning, TypeOK
  <2>2. CASE HasTag(pos) /\ CopyTag /\ dollar_tag' \in {None, TagAt(pos)}
    <3>1. TagAt(pos) \in Seq(Char)
      BY <1>1, <2>1, <2>2, TagBounds
    <3>2. Flags'
      BY <1>1, <1>4, <2>2, <3>1 DEF DollarQuote, Flags
    <3>3. QED  BY <2>1, <2>2, <3>2, CopyTagKeeps
  <2>3. CASE CopyOne /\ UNCHANGED dollar_tag
    <3>1. Flags'
      BY <1>1, <1>4, <2>3 DEF DollarQuote, Flags
    <3>2. QED  BY <2>1, <2>3, <3>1, CopyOneKeeps
  <2>4. QED  BY <1>4, <2>2, <2>3 DEF DollarQuote, OpensTag, ClosesTag
<1>5. CASE SingleQuote
  <2>1. pos <= Len(text) /\ Flags'
    BY <1>1, <1>5 DEF SingleQuote, Unquoted, Code, Scanning, Flags
  <2>2. CASE CopyTwo /\ pos + 1 \in DOMAIN text
    BY <2>1, <2>2, CopyTwoKeeps
  <2>3. CASE CopyOne
    BY <2>1, <2>3, CopyOneKeeps
  <2>4. QED  BY <1>5, <2>2, <2>3 DEF SingleQuote, At
<1>6. CASE DoubleQuote
  <2>1. pos <= Len(text) /\ Flags' /\ CopyOne
    BY <1>1, <1>6 DEF DoubleQuote, Unquoted, Code, Scanning, Flags
  <2>2. QED  BY <2>1, CopyOneKeeps
<1>7. CASE Other
  <2>1. pos <= Len(text) /\ Flags' /\ CopyOne
    BY <1>1, <1>7 DEF Other, Unquoted, Code, Scanning, Flags
  <2>2. QED  BY <2>1, CopyOneKeeps
<1>8. CASE Terminator
  BY <1>8, TerminatorKeeps
<1>9. CASE Finish
  <2>1. stmts' \in Seq([at : Seq(1..Len(text)), trusted : BOOLEAN, closed : BOOLEAN])
    BY <1>1, <1>9, FinalizeTyped DEF Finish, TypeOK
  <2>2. QED  BY <1>1, <1>9, <2>1 DEF Finish, TypeOK, IInv, KeepsText, WideInTag
<1>10. CASE UNCHANGED vars
  BY <1>10 DEF vars, IInv, TypeOK, KeepsText, WideInTag
<1>11. QED  BY <1>2, <1>3, <1>4, <1>5, <1>6, <1>7, <1>8, <1>9, <1>10 DEF Next

LEMMA Invariance == Spec => []IInv
<1>1. Init => IInv
  <2> SUFFICES ASSUME Init PROVE IInv
    OBVIOUS
  <2>1. text \in Seq(Char) /\ Len(text) \in Nat
    BY TextsAssumption DEF Init
  <2>2. TypeOK
    <3>1. pos \in 1..Len(text) + 1
      BY <2>1 DEF Init
    <3>2. /\ current \in Seq(1..Len(text)) /\ kept \in Seq(1..Len(text))
          /\ stmts \in Seq([at : Seq(1..Len(text)), trusted : BOOLEAN, closed : BOOLEAN])
      BY EmptySeq DEF Init
    <3>3. QED  BY <3>1, <3>2 DEF Init, TypeOK
  <2>3. kept = [k \in 1..pos - 1 |-> k]
    BY DEF Init
  <2>4. QED  BY <2>2, <2>3 DEF IInv, KeepsText
<1>2. IInv /\ [Next]_vars => IInv'
  <2>1. CASE UNCHANGED vars
    BY <2>1 DEF vars, quoting, comments, IInv, TypeOK, KeepsText, WideInTag
  <2>2. QED  BY <2>1, NextKeeps
<1>3. QED  BY <1>1, <1>2, PTL DEF Spec

\* The scanner of check.rs stays within the text and between its flags.
THEOREM TypeCorrect == Spec => []TypeOK
  BY Invariance, PTL DEF IInv

\* check.rs: whatever the scanner takes a text for, of any length, it copies
\* every character once and in order, unless a two-byte character is between
\* two dollar signs.
THEOREM TextIsKept == Spec => []KeepsText
  BY Invariance, PTL DEF IInv
-----------------------------------------------------------------------------
(* Postgres' tokens.                                                       *)

\* What holds of 0 and of the successor of each number it holds of, up to n,
\* holds of n: induction, with the set of the numbers it holds of.
LEMMA CountingUp ==
  ASSUME NEW n \in Nat, NEW H, 0 \in H, \A m \in 0..n - 1 : m \in H => m + 1 \in H
  PROVE  n \in H
<1> DEFINE S == {m \in 0..n : m \notin H}
<1> SUFFICES ASSUME n \notin H PROVE FALSE
  OBVIOUS
<1>1. S \in SUBSET Nat /\ S # {}
  OBVIOUS
<1>2. PICK m \in S : \A k \in S : m <= k
  <2> HIDE DEF S
  <2> QED  BY <1>1, LeastExists
<1>3. m # 0 /\ m - 1 \in 0..n - 1
  OBVIOUS
<1>4. m - 1 \in H
  BY <1>2, <1>3
<1> QED  BY <1>3, <1>4

\* The function PgTokens is defined with.
Begins(b) ==
  b = [i \in 1..Len(text) + 1 |-> i = 1 \/ \E j \in 1..i - 1 : b[j] /\ PgEnd(j) = i]

\* It exists: each of its values needs only the ones before it.
LEMMA BeginsExists == ASSUME Len(text) \in Nat PROVE \E b : Begins(b)
<1> DEFINE n == Len(text) + 1
           Rule(g, i) == i = 1 \/ \E j \in 1..i - 1 : g[j] /\ PgEnd(j) = i
           H == {m \in Nat : \E g \in [1..m -> BOOLEAN] : \A i \in 1..m : g[i] <=> Rule(g, i)}
<1>1. 0 \in H
  <2>1. [i \in 1..0 |-> TRUE] \in [1..0 -> BOOLEAN]
    OBVIOUS
  <2>2. \A i \in 1..0 : FALSE
    OBVIOUS
  <2> HIDE DEF Rule
  <2> QED  BY <2>1, <2>2
<1>2. ASSUME NEW m \in Nat, m \in H PROVE m + 1 \in H
  <2>1. PICK g \in [1..m -> BOOLEAN] : \A i \in 1..m : g[i] <=> Rule(g, i)
    BY <1>2
  <2> DEFINE h == [i \in 1..m + 1 |-> IF i <= m THEN g[i] ELSE Rule(g, i)]
  <2>2. h \in [1..m + 1 -> BOOLEAN]
    <3>1. \A i : Rule(g, i) \in BOOLEAN
      OBVIOUS
    <3>2. \A i \in 1..m + 1 : i <= m => i \in 1..m
      OBVIOUS
    <3> HIDE DEF Rule
    <3> QED  BY <3>1, <3>2
  <2>3. \A i \in 1..m : h[i] = g[i]
    OBVIOUS
  <2>4. h[m + 1] = Rule(g, m + 1)
    <3>1. m + 1 \in 1..m + 1 /\ ~(m + 1 <= m)
      OBVIOUS
    <3> HIDE DEF Rule
    <3> QED  BY <3>1
  <2> HIDE DEF h
  <2>5. ASSUME NEW i \in 1..m + 1 PROVE Rule(h, i) <=> Rule(g, i)
    <3>1. \A j \in 1..i - 1 : j \in 1..m
      OBVIOUS
    <3> QED  BY <2>3, <3>1
  <2> HIDE DEF Rule
  <2>6. ASSUME NEW i \in 1..m + 1 PROVE h[i] <=> Rule(h, i)
    <3>1. CASE i \in 1..m
      BY <2>1, <2>3, <2>5, <3>1
    <3>2. CASE i = m + 1
      BY <2>4, <2>5, <3>2
    <3> QED  BY <3>1, <3>2
  <2> QED  BY <2>2, <2>6
<1>3. n \in H
  <2>1. n \in Nat
    OBVIOUS
  <2> HIDE DEF H, n
  <2> QED  BY <1>1, <1>2, <2>1, CountingUp
<1>4. PICK g \in [1..n -> BOOLEAN] : \A i \in 1..n : g[i] <=> Rule(g, i)
  BY <1>3
<1>5. g = [i \in 1..n |-> Rule(g, i)]
  <2> HIDE DEF n
  <2>1. \A i \in 1..n : Rule(g, i) \in BOOLEAN
    OBVIOUS
  <2> HIDE DEF Rule
  <2> QED  BY <1>4, <2>1
<1> QED  BY <1>5 DEF Begins

\* A token begins where another one ended.
LEMMA TokenChain ==
  ASSUME Len(text) \in Nat, NEW i \in 1..Len(text)
  PROVE  i \in PgTokens <=> i = 1 \/ \E j \in PgTokens : j < i /\ PgEnd(j) = i
<1> DEFINE b == CHOOSE g : Begins(g)
<1>1. Begins(b)
  BY BeginsExists, Zenon
<1>2. PgTokens = {k \in 1..Len(text) : b[k]}
  BY DEF PgTokens, Begins
<1> HIDE DEF b
<1>3. b[i] <=> (i = 1 \/ \E j \in 1..i - 1 : b[j] /\ PgEnd(j) = i)
  <2>1. i \in 1..Len(text) + 1
    OBVIOUS
  <2> QED  BY <1>1, <2>1 DEF Begins
<1>4. \A j : j \in 1..i - 1 /\ b[j] <=> j \in PgTokens /\ j < i
  <2>1. \A j : j \in 1..i - 1 <=> j \in 1..Len(text) /\ j < i
    OBVIOUS
  <2> QED  BY <1>2, <2>1
<1> QED  BY <1>2, <1>3, <1>4

LEMMA TokenInText == PgTokens \subseteq 1..Len(text)
  BY DEF PgTokens

\* The tokens are a function of the text.
LEMMA SameTokens == ASSUME text' = text PROVE PgTokens' = PgTokens /\ \A i : PgEnd(i)' = PgEnd(i)
<1>1. \A i : PgEnd(i)' = PgEnd(i)
  BY DEF PgEnd, After, PgTag, Matches, Least, At
<1>2. ASSUME NEW b PROVE Begins(b)' <=> Begins(b)
  BY <1>1 DEF Begins
<1>3. (CHOOSE b : Begins(b))' = CHOOSE b : Begins(b)
  BY <1>2, Zenon
<1>4. PgTokens = {i \in 1..Len(text) : (CHOOSE b : Begins(b))[i]}
  BY DEF PgTokens, Begins
<1>5. PgTokens' = {i \in 1..Len(text)' : (CHOOSE b : Begins(b))'[i]}
  BY DEF PgTokens, Begins
<1> QED  BY <1>1, <1>3, <1>4, <1>5

-----------------------------------------------------------------------------
(* Where each kind of token ends.                                          *)

LineAt(i) == At(i, "-") /\ At(i + 1, "-")
BlockAt(i) == At(i, "/") /\ At(i + 1, "*")
BlockEnd(i) == At(i, "*") /\ At(i + 1, "/")

Typed == text \in Seq(Char) /\ Len(text) \in Nat /\ DOMAIN text = 1..Len(text)

\* The characters PgEnd looks for, from token i on.
Later(i, c) == {j \in i + 1..Len(text) : text[j] = c}
BlockEndsFrom(i) == {j \in i + 2..Len(text) : BlockEnd(j)}
NonNames(i) == {j \in i + 1..Len(text) : text[j] \notin Identifier \cup {"$"}}
TagsFrom(i) == {j \in i + Len(PgTag(i))..Len(text) : Matches(j, PgTag(i))}

LEMMA EndCases ==
  ASSUME NEW i
  PROVE  PgEnd(i) = CASE LineAt(i) -> After(Later(i, "nl"), 1)
                      [] BlockAt(i) -> After(BlockEndsFrom(i), 2)
                      [] At(i, "q") -> After(Later(i, "q"), 1)
                      [] At(i, "d") -> After(Later(i, "d"), 1)
                      [] PgTag(i) # <<>> -> After(TagsFrom(i), Len(PgTag(i)))
                      [] text[i] \in Identifier -> After(NonNames(i), 0)
                      [] OTHER -> i + 1
  BY DEF PgEnd, LineAt, BlockAt, BlockEnd, Later, BlockEndsFrom, NonNames, TagsFrom

LEMMA NoTag == ASSUME NEW i, text[i] # "$" PROVE PgTag(i) = <<>>
  BY DEF PgTag, At

LEMMA AfterLeast ==
  ASSUME NEW S \in SUBSET Nat, NEW k
  PROVE  \/ S = {} /\ After(S, k) = Len(text) + 1
         \/ \E m \in S : After(S, k) = m + k /\ \A y \in S : m <= y
  BY LeastExists DEF After

\* A token that ends right after the first p with a mark: inside it, p is the
\* last character when it is marked, and p + 1 is inside when it is not.
EndsAfter(i, c) ==
  \A p \in i + 1..Len(text) :
    p < PgEnd(i) => IF text[p] = c THEN PgEnd(i) = p + 1 ELSE p + 1 < PgEnd(i) \/ p = Len(text)

LEMMA LaterEnd ==
  ASSUME Typed, NEW i \in 1..Len(text), NEW c,
         PgEnd(i) = After(Later(i, c), 1)
  PROVE  /\ PgEnd(i) \in i + 1..Len(text) + 1 /\ EndsAfter(i, c)
         /\ i + 1 < PgEnd(i) \/ i = Len(text)
<1> DEFINE S == Later(i, c)
<1>1. S \in SUBSET Nat /\ Len(text) \in Nat
  BY DEF Typed, Later
<1>2. \/ S = {} /\ PgEnd(i) = Len(text) + 1
      \/ \E m \in S : PgEnd(i) = m + 1 /\ \A y \in S : m <= y
  <2> HIDE DEF S
  <2> QED  BY <1>1, AfterLeast DEF S
<1>3. CASE S = {} /\ PgEnd(i) = Len(text) + 1
  <2>1. \A p \in i + 1..Len(text) : text[p] # c
    BY <1>3 DEF Later
  <2> HIDE DEF S
  <2> QED  BY <1>1, <1>3, <2>1 DEF EndsAfter
<1>4. ASSUME NEW m \in S, PgEnd(i) = m + 1, \A y \in S : m <= y
      PROVE  /\ PgEnd(i) \in i + 1..Len(text) + 1 /\ EndsAfter(i, c)
             /\ i + 1 < PgEnd(i) \/ i = Len(text)
  <2>1. m \in i + 1..Len(text) /\ text[m] = c
    BY DEF Later
  <2>2. ASSUME NEW p \in i + 1..Len(text), p < PgEnd(i)
        PROVE  IF text[p] = c THEN PgEnd(i) = p + 1 ELSE p + 1 < PgEnd(i) \/ p = Len(text)
    <3>1. text[p] = c => m <= p
      BY <1>4 DEF Later
    <3>2. p \in Nat /\ m \in Nat /\ p <= m
      BY <1>1, <1>4, <2>1, <2>2
    <3>3. text[p] # c => p # m
      BY <2>1
    <3> QED  BY <1>4, <3>1, <3>2, <3>3
  <2> HIDE DEF S
  <2> QED  BY <1>1, <1>4, <2>1, <2>2 DEF EndsAfter
<1> QED  BY <1>2, <1>3, <1>4

LEMMA LineEnds ==
  ASSUME Typed, NEW i \in 1..Len(text), LineAt(i)
  PROVE  /\ PgEnd(i) \in i + 2..Len(text) + 1 /\ EndsAfter(i, "nl")
         /\ i + 2 < PgEnd(i) \/ i + 1 = Len(text)
<1>1. PgEnd(i) = After(Later(i, "nl"), 1)
  BY EndCases, NoTag DEF LineAt, BlockAt, At, Identifier
<1>2. /\ PgEnd(i) \in i + 1..Len(text) + 1 /\ EndsAfter(i, "nl")
      /\ i + 1 < PgEnd(i) \/ i = Len(text)
  BY <1>1, LaterEnd
<1>3. i + 1 \in i + 1..Len(text) /\ text[i + 1] = "-" /\ Len(text) \in Nat
  BY DEF LineAt, At, Typed
<1> QED  BY <1>2, <1>3 DEF EndsAfter

LEMMA QuoteEnds ==
  ASSUME Typed, NEW i \in 1..Len(text), NEW c \in {"q", "d"}, text[i] = c
  PROVE  /\ PgEnd(i) \in i + 1..Len(text) + 1 /\ EndsAfter(i, c)
         /\ i + 1 < PgEnd(i) \/ i = Len(text)
<1>1. PgEnd(i) = After(Later(i, c), 1)
  BY EndCases, NoTag DEF LineAt, BlockAt, At, Typed, Identifier
<1> QED  BY <1>1, LaterEnd

\* A comment ends after the first */ behind its opening.
BlockFrom(i, p) ==
  (\A j \in i + 2..p - 1 : ~BlockEnd(j)) =>
    IF BlockEnd(p) THEN PgEnd(i) = p + 2 ELSE p + 1 < PgEnd(i) \/ p = Len(text)

LEMMA BlockEnds ==
  ASSUME Typed, NEW i \in 1..Len(text), BlockAt(i)
  PROVE  /\ PgEnd(i) \in i + 2..Len(text) + 1
         /\ i + 2 < PgEnd(i) \/ i + 1 = Len(text)
         /\ \A p \in i + 2..Len(text) : BlockFrom(i, p)
<1> DEFINE S == BlockEndsFrom(i)
<1>1. PgEnd(i) = After(S, 2)
  BY EndCases, NoTag DEF LineAt, BlockAt, At, Identifier
<1>2. S \in SUBSET Nat /\ Len(text) \in Nat /\ i + 1 <= Len(text)
  BY DEF Typed, BlockAt, At, BlockEndsFrom
<1>3. \/ S = {} /\ PgEnd(i) = Len(text) + 1
      \/ \E m \in S : PgEnd(i) = m + 2 /\ \A y \in S : m <= y
  <2> HIDE DEF S
  <2> QED  BY <1>1, <1>2, AfterLeast
<1>4. CASE S = {} /\ PgEnd(i) = Len(text) + 1
  <2>1. \A p \in i + 2..Len(text) : ~BlockEnd(p)
    BY <1>4 DEF BlockEndsFrom
  <2> QED  BY <1>2, <1>4, <2>1 DEF BlockFrom
<1>5. ASSUME NEW m \in S, PgEnd(i) = m + 2, \A y \in S : m <= y
      PROVE  /\ PgEnd(i) \in i + 2..Len(text) + 1
             /\ i + 2 < PgEnd(i) \/ i + 1 = Len(text)
             /\ \A p \in i + 2..Len(text) : BlockFrom(i, p)
  <2>1. m \in i + 2..Len(text) /\ BlockEnd(m) /\ m + 1 <= Len(text)
    BY DEF BlockEnd, At, Typed, BlockEndsFrom
  <2>2. ASSUME NEW p \in i + 2..Len(text), \A j \in i + 2..p - 1 : ~BlockEnd(j)
        PROVE  IF BlockEnd(p) THEN PgEnd(i) = p + 2 ELSE p + 1 < PgEnd(i) \/ p = Len(text)
    <3>1. BlockEnd(p) => m <= p
      BY <1>5 DEF BlockEndsFrom
    <3>2. p \in Nat /\ m \in Nat /\ p <= m
      BY <1>2, <1>5, <2>1, <2>2
    <3>3. ~BlockEnd(p) => p # m
      BY <2>1
    <3> QED  BY <1>5, <3>1, <3>2, <3>3
  <2> HIDE DEF S
  <2> QED  BY <1>2, <1>5, <2>1, <2>2 DEF BlockFrom
<1> QED  BY <1>3, <1>4, <1>5

\* A name ends before the first character that is not of names.
LEMMA NameEnds ==
  ASSUME Typed, NEW i \in 1..Len(text), text[i] \in Identifier
  PROVE  /\ PgEnd(i) \in i + 1..Len(text) + 1
         /\ \A p \in i..Len(text) : p < PgEnd(i) => text[p] \in Identifier \cup {"$"}
<1> DEFINE S == NonNames(i)
<1>0. PgTag(i) = <<>>
  BY NoTag DEF Identifier
<1>1. PgEnd(i) = After(S, 0)
  BY <1>0, EndCases DEF LineAt, BlockAt, At, Identifier
<1>2. S \in SUBSET Nat /\ Len(text) \in Nat
  BY DEF Typed, NonNames
<1>3. \/ S = {} /\ PgEnd(i) = Len(text) + 1
      \/ \E m \in S : PgEnd(i) = m + 0 /\ \A y \in S : m <= y
  <2> HIDE DEF S
  <2> QED  BY <1>1, <1>2, AfterLeast
<1>4. CASE S = {} /\ PgEnd(i) = Len(text) + 1
  BY <1>2, <1>4 DEF NonNames
<1>5. ASSUME NEW m \in S, PgEnd(i) = m + 0, \A y \in S : m <= y
      PROVE  /\ PgEnd(i) \in i + 1..Len(text) + 1
             /\ \A p \in i..Len(text) : p < PgEnd(i) => text[p] \in Identifier \cup {"$"}
  <2>1. m \in i + 1..Len(text) /\ PgEnd(i) = m
    BY <1>5 DEF NonNames
  <2>2. ASSUME NEW p \in i..Len(text), p < m PROVE text[p] \in Identifier \cup {"$"}
    <3>1. p = i \/ p \in i + 1..Len(text)
      OBVIOUS
    <3>2. p \notin S
      BY <1>2, <1>5, <2>1, <2>2
    <3> QED  BY <3>1, <3>2 DEF NonNames
  <2> HIDE DEF S
  <2> QED  BY <1>2, <2>1, <2>2
<1> QED  BY <1>3, <1>4, <1>5

\* Any other character is a token by itself.
LEMMA SingleEnds ==
  ASSUME Typed, NEW i \in 1..Len(text), ~LineAt(i), ~BlockAt(i), PgTag(i) = <<>>,
         text[i] \notin Identifier \cup {"q", "d"}
  PROVE  PgEnd(i) = i + 1
  BY EndCases DEF At

-----------------------------------------------------------------------------
(* Dollar quotes: what detect_dollar_tag_at and Postgres take for a tag.   *)

LEMMA Slice ==
  ASSUME Typed, NEW p \in 1..Len(text), NEW q \in p - 1..Len(text)
  PROVE  /\ SubSeq(text, p, q) \in Seq(Char) /\ Len(SubSeq(text, p, q)) = q - p + 1
         /\ DOMAIN SubSeq(text, p, q) = 1..q - p + 1
         /\ \A k \in 1..q - p + 1 : SubSeq(text, p, q)[k] = text[p + k - 1]
<1>1. \A k \in p..q : text[k] \in Char
  BY DEF Typed
<1> QED  BY <1>1, SubSeqProperties DEF Typed

\* The same by its length.
LEMMA SliceOf ==
  ASSUME Typed, NEW p \in 1..Len(text), NEW n \in Nat, p + n - 1 <= Len(text)
  PROVE  /\ SubSeq(text, p, p + n - 1) \in Seq(Char) /\ Len(SubSeq(text, p, p + n - 1)) = n
         /\ DOMAIN SubSeq(text, p, p + n - 1) = 1..n
         /\ \A k \in 1..n : SubSeq(text, p, p + n - 1)[k] = text[p + k - 1]
<1> DEFINE q == p + n - 1
<1>1. q \in p - 1..Len(text) /\ q - p + 1 = n
  BY DEF Typed
<1> HIDE DEF q
<1>2. /\ SubSeq(text, p, q) \in Seq(Char) /\ Len(SubSeq(text, p, q)) = q - p + 1
      /\ DOMAIN SubSeq(text, p, q) = 1..q - p + 1
      /\ \A k \in 1..q - p + 1 : SubSeq(text, p, q)[k] = text[p + k - 1]
  BY <1>1, Slice
<1> QED  BY <1>1, <1>2 DEF q

\* The first dollar sign behind i.
LEMMA FirstDollar ==
  ASSUME Typed, NEW i \in 1..Len(text), NEW e \in i + 1..Len(text), text[i] = "$", text[e] = "$",
         \A k \in i + 1..e - 1 : text[k] # "$"
  PROVE  HasTag(i) /\ TagEnd(i) = e
<1>1. ClosingDollar(i) \in SUBSET Nat /\ e \in ClosingDollar(i) /\ Len(text) \in Nat
  BY DEF ClosingDollar, Typed
<1>2. TagEnd(i) \in ClosingDollar(i) /\ TagEnd(i) <= e
  BY <1>1, LeastExists DEF TagEnd
<1>3. TagEnd(i) \in i + 1..Len(text) /\ text[TagEnd(i)] = "$"
  BY <1>2 DEF ClosingDollar
<1> QED  BY <1>1, <1>2, <1>3 DEF HasTag, At, Typed

LEMMA DollarEnd ==
  ASSUME Typed, NEW i \in 1..Len(text), HasTag(i)
  PROVE  /\ TagEnd(i) \in i + 1..Len(text) /\ text[i] = "$" /\ text[TagEnd(i)] = "$"
         /\ \A k \in i + 1..TagEnd(i) - 1 : text[k] # "$"
<1>1. ClosingDollar(i) \in SUBSET Nat /\ ClosingDollar(i) # {} /\ Len(text) \in Nat /\ text[i] = "$"
  BY DEF ClosingDollar, HasTag, At, Typed
<1>2. TagEnd(i) \in ClosingDollar(i) /\ \A y \in ClosingDollar(i) : TagEnd(i) <= y
  BY <1>1, LeastExists DEF TagEnd
<1>3. TagEnd(i) \in i + 1..Len(text) /\ text[TagEnd(i)] = "$"
  BY <1>2 DEF ClosingDollar
<1>4. ASSUME NEW k \in i + 1..TagEnd(i) - 1, text[k] = "$" PROVE FALSE
  <2>1. k \in ClosingDollar(i)
    BY <1>1, <1>3, <1>4 DEF ClosingDollar
  <2> QED  BY <1>1, <1>2, <1>3, <2>1
<1> QED  BY <1>1, <1>3, <1>4

\* A delimiter of Postgres is one of detect_dollar_tag_at.
LEMMA TagShape ==
  ASSUME Typed, NEW i \in 1..Len(text), PgTag(i) # <<>>
  PROVE  /\ HasTag(i) /\ TagEnd(i) \in i + 1..Len(text)
         /\ text[i] = "$" /\ text[TagEnd(i)] = "$"
         /\ \A k \in i + 1..TagEnd(i) - 1 : text[k] \in Identifier
         /\ PgTag(i) = SubSeq(text, i, TagEnd(i)) /\ Len(PgTag(i)) = TagEnd(i) - i + 1
<1> DEFINE E == {j \in i + 1..Len(text) :
                   text[j] = "$" /\ \A k \in i + 1..j - 1 : text[k] \in Identifier}
           e == Least(E)
<1>1. PgTag(i) = IF At(i, "$") /\ E # {} THEN SubSeq(text, i, e) ELSE <<>>
  BY DEF PgTag
<1>2. text[i] = "$" /\ E # {} /\ E \in SUBSET Nat
  <2>1. At(i, "$") /\ E # {}
    <3> HIDE DEF E, e
    <3> QED  BY <1>1
  <2>2. \A j \in E : j \in i + 1..Len(text)
    OBVIOUS
  <2> HIDE DEF E
  <2>3. E \in SUBSET Nat
    BY <2>2
  <2> QED  BY <2>1, <2>3 DEF At
<1>3. e \in E
  <2> HIDE DEF E
  <2> QED  BY <1>2, LeastExists
<1>4. /\ e \in i + 1..Len(text) /\ text[e] = "$"
      /\ \A k \in i + 1..e - 1 : text[k] \in Identifier
  BY <1>3
<1>5. PgTag(i) = SubSeq(text, i, e)
  BY <1>1
<1> HIDE DEF e, E
<1>6. HasTag(i) /\ TagEnd(i) = e
  <2>1. \A k \in i + 1..e - 1 : text[k] # "$"
    BY <1>4 DEF Identifier
  <2> QED  BY <1>2, <1>4, <2>1, FirstDollar
<1>7. Len(PgTag(i)) = e - i + 1
  BY <1>4, <1>5, Slice
<1> QED  BY <1>2, <1>4, <1>5, <1>6, <1>7

\* Text p.. is text b.. for n characters.
Copies(p, b, n) == p + n - 1 <= Len(text) /\ \A k \in 0..n - 1 : text[p + k] = text[b + k]

LEMMA SliceEqual ==
  ASSUME Typed, NEW b \in 1..Len(text), NEW n \in Nat, b + n - 1 <= Len(text),
         NEW p \in 1..Len(text), p + n - 1 <= Len(text)
  PROVE  SubSeq(text, p, p + n - 1) = SubSeq(text, b, b + n - 1) <=> Copies(p, b, n)
<1> DEFINE s == SubSeq(text, p, p + n - 1)
           t == SubSeq(text, b, b + n - 1)
<1>1. /\ s \in Seq(Char) /\ Len(s) = n /\ DOMAIN s = 1..n /\ \A k \in 1..n : s[k] = text[p + k - 1]
      /\ t \in Seq(Char) /\ Len(t) = n /\ DOMAIN t = 1..n /\ \A k \in 1..n : t[k] = text[b + k - 1]
  BY SliceOf
<1> HIDE DEF s, t
<1>2. ASSUME s = t PROVE Copies(p, b, n)
  <2>1. ASSUME NEW k \in 0..n - 1 PROVE text[p + k] = text[b + k]
    <3>1. k + 1 \in 1..n /\ p + (k + 1) - 1 = p + k /\ b + (k + 1) - 1 = b + k
      OBVIOUS
    <3> QED  BY <1>1, <1>2, <3>1
  <2> QED  BY <2>1 DEF Copies
<1>3. ASSUME Copies(p, b, n) PROVE s = t
  <2>1. ASSUME NEW k \in 1..n PROVE s[k] = t[k]
    <3>1. k - 1 \in 0..n - 1 /\ p + (k - 1) = p + k - 1 /\ b + (k - 1) = b + k - 1
      OBVIOUS
    <3> QED  BY <1>1, <1>3, <3>1 DEF Copies
  <2> QED  BY <1>1, <2>1, SeqEqual
<1> QED  BY <1>2, <1>3 DEF s, t

\* The scanner looks for the same delimiter as Postgres.
LEMMA SameTag ==
  ASSUME Typed, NEW b \in 1..Len(text), PgTag(b) # <<>>, NEW p \in 1..Len(text)
  PROVE  /\ Matches(p, PgTag(b)) => Copies(p, b, Len(PgTag(b)))
         /\ HasTag(p) /\ TagAt(p) = TagAt(b) => Matches(p, PgTag(b))
         /\ Copies(p, b, Len(PgTag(b))) =>
              HasTag(p) /\ TagAt(p) = TagAt(b) /\ TagEnd(p) = p + Len(PgTag(b)) - 1
<1> DEFINE e == TagEnd(b)
           n == Len(PgTag(b))
           l == n - 2
<1>0. Len(text) \in Nat
  BY DEF Typed
<1>1. /\ HasTag(b) /\ e \in b + 1..Len(text) /\ text[b] = "$" /\ text[e] = "$"
      /\ \A k \in b + 1..e - 1 : text[k] \in Identifier
      /\ PgTag(b) = SubSeq(text, b, e) /\ n = e - b + 1
  BY TagShape
<1>4. Matches(p, PgTag(b)) <=> p + n - 1 <= Len(text) /\ SubSeq(text, p, p + n - 1) = PgTag(b)
  BY DEF Matches
<1>5. TagAt(b) = SubSeq(text, b + 1, e - 1)
  BY DEF TagAt
<1> HIDE DEF n, e
<1>2. n \in Nat /\ n >= 2 /\ e = b + n - 1 /\ b + n - 1 <= Len(text)
  BY <1>0, <1>1
<1>3. PgTag(b) = SubSeq(text, b, b + n - 1)
  BY <1>1, <1>2
<1>6. l \in Nat /\ e - 1 = (b + 1) + l - 1 /\ b + 1 \in 1..Len(text) /\ (b + 1) + l - 1 <= Len(text)
  BY <1>0, <1>1, <1>2
<1>7. Matches(p, PgTag(b)) <=> Copies(p, b, n)
  BY <1>2, <1>3, <1>4, SliceEqual DEF Copies
<1>8. ASSUME Copies(p, b, n) PROVE HasTag(p) /\ TagAt(p) = TagAt(b) /\ TagEnd(p) = p + n - 1
  <2> DEFINE q == p + n - 1
  <2>1. 0 \in 0..n - 1 /\ n - 1 \in 0..n - 1 /\ p + 0 = p /\ b + 0 = b
        /\ p + (n - 1) = q /\ b + (n - 1) = e /\ q \in p + 1..Len(text)
    BY <1>2, <1>8 DEF Copies
  <2>2. text[p] = "$" /\ text[q] = "$"
    BY <1>1, <1>8, <2>1 DEF Copies
  <2>3. ASSUME NEW k \in p + 1..q - 1 PROVE text[k] # "$"
    <3>1. k - p \in 0..n - 1 /\ b + (k - p) \in b + 1..e - 1 /\ p + (k - p) = k
      BY <1>2
    <3> QED  BY <1>1, <1>8, <3>1 DEF Copies, Identifier
  <2>4. q - 1 = (p + 1) + l - 1 /\ p + 1 \in 1..Len(text) /\ (p + 1) + l - 1 <= Len(text)
    BY <1>0, <1>2, <2>1
  <2>5. Copies(p + 1, b + 1, l)
    <3>1. ASSUME NEW k \in 0..l - 1 PROVE text[p + 1 + k] = text[b + 1 + k]
      <4>1. k + 1 \in 0..n - 1 /\ p + 1 + k = p + (k + 1) /\ b + 1 + k = b + (k + 1)
        BY <1>2
      <4> QED  BY <1>8, <4>1 DEF Copies
    <3> QED  BY <2>4, <3>1 DEF Copies
  <2> HIDE DEF q, l
  <2>6. HasTag(p) /\ TagEnd(p) = q
    BY <2>1, <2>2, <2>3, FirstDollar
  <2>7. TagAt(p) = SubSeq(text, p + 1, (p + 1) + l - 1)
    BY <2>4, <2>6 DEF TagAt
  <2>8. SubSeq(text, p + 1, (p + 1) + l - 1) = SubSeq(text, b + 1, (b + 1) + l - 1)
    BY <1>6, <2>4, <2>5, SliceEqual
  <2> QED  BY <1>5, <1>6, <2>6, <2>7, <2>8 DEF q
<1>9. ASSUME HasTag(p), TagAt(p) = TagAt(b) PROVE Copies(p, b, n)
  <2> DEFINE q == TagEnd(p)
             m == q - p - 1
  <2>1. q \in p + 1..Len(text) /\ text[p] = "$" /\ text[q] = "$"
    BY <1>9, DollarEnd
  <2>2. TagAt(p) = SubSeq(text, p + 1, q - 1)
    BY DEF TagAt
  <2> HIDE DEF q
  <2>3. m \in Nat /\ q - 1 = (p + 1) + m - 1 /\ (p + 1) + m - 1 <= Len(text) /\ p + 1 \in 1..Len(text)
        /\ q = p + (m + 1)
    BY <1>0, <2>1
  <2>4. l + 1 = n - 1
    BY <1>2
  <2> HIDE DEF m, l
  <2>5. Len(SubSeq(text, p + 1, (p + 1) + m - 1)) = m /\ Len(SubSeq(text, b + 1, (b + 1) + l - 1)) = l
    BY <1>6, <2>3, SliceOf
  <2>6. m = l
    BY <1>5, <1>6, <1>9, <2>2, <2>3, <2>5
  <2>7. SubSeq(text, p + 1, (p + 1) + l - 1) = SubSeq(text, b + 1, (b + 1) + l - 1)
    BY <1>5, <1>6, <1>9, <2>2, <2>3, <2>6
  <2>8. Copies(p + 1, b + 1, l)
    BY <1>6, <2>3, <2>6, <2>7, SliceEqual
  <2>9. ASSUME NEW k \in 0..n - 1 PROVE text[p + k] = text[b + k]
    <3>1. CASE k = 0
      BY <1>1, <2>1, <3>1
    <3>2. CASE k = n - 1
      <4>1. p + k = q /\ b + k = e
        BY <1>2, <2>3, <2>4, <2>6, <3>2
      <4> QED  BY <1>1, <2>1, <4>1
    <3>3. CASE k # 0 /\ k # n - 1
      <4>1. k - 1 \in 0..l - 1 /\ p + 1 + (k - 1) = p + k /\ b + 1 + (k - 1) = b + k
        BY <1>2, <1>6, <2>4, <3>3
      <4> QED  BY <2>8, <4>1 DEF Copies
    <3> QED  BY <3>1, <3>2, <3>3
  <2>10. p + n - 1 <= Len(text)
    BY <1>2, <1>6, <2>1, <2>3, <2>4, <2>6
  <2> QED  BY <2>9, <2>10 DEF Copies
<1> QED  BY <1>7, <1>8, <1>9 DEF n

\* A dollar-quoted string ends with the first delimiter like its own.
TagFrom(i, p) ==
  (\A j \in i + Len(PgTag(i))..p - 1 : ~Matches(j, PgTag(i))) =>
    IF Matches(p, PgTag(i)) THEN PgEnd(i) = p + Len(PgTag(i)) ELSE p + 1 < PgEnd(i) \/ p = Len(text)

LEMMA StringEnds ==
  ASSUME Typed, NEW i \in 1..Len(text), PgTag(i) # <<>>
  PROVE  /\ i + Len(PgTag(i)) <= Len(text) + 1 /\ Len(PgTag(i)) \in Nat /\ Len(PgTag(i)) >= 2
         /\ PgEnd(i) \in i + Len(PgTag(i))..Len(text) + 1
         /\ i + Len(PgTag(i)) < PgEnd(i) \/ i + Len(PgTag(i)) = Len(text) + 1
         /\ \A p \in i + Len(PgTag(i))..Len(text) : TagFrom(i, p)
<1> DEFINE S == TagsFrom(i)
           n == Len(PgTag(i))
           e == TagEnd(i)
<1>1. text[i] = "$" /\ e \in i + 1..Len(text) /\ n = e - i + 1
  BY TagShape
<1>2. PgEnd(i) = After(S, n)
  BY <1>1, EndCases DEF LineAt, BlockAt, At, Identifier
<1>3. \A j : j \in S <=> j \in i + n..Len(text) /\ Matches(j, PgTag(i))
  BY DEF TagsFrom
<1>4. \A j : Matches(j, PgTag(i)) => j + n - 1 <= Len(text)
  BY DEF Matches
<1>5. \A p : TagFrom(i, p) <=> ((\A j \in i + n..p - 1 : ~Matches(j, PgTag(i))) =>
        IF Matches(p, PgTag(i)) THEN PgEnd(i) = p + n ELSE p + 1 < PgEnd(i) \/ p = Len(text))
  BY DEF TagFrom
<1> HIDE DEF n, e, S
<1>6. n \in Nat /\ n >= 2 /\ i + n <= Len(text) + 1 /\ Len(text) \in Nat
  BY <1>1 DEF Typed
<1>7. S \in SUBSET Nat
  BY <1>3, <1>6
<1>8. \/ S = {} /\ PgEnd(i) = Len(text) + 1
      \/ \E m \in S : PgEnd(i) = m + n /\ \A y \in S : m <= y
  BY <1>2, <1>7, AfterLeast
<1>9. /\ PgEnd(i) \in i + n..Len(text) + 1
      /\ i + n < PgEnd(i) \/ i + n = Len(text) + 1
      /\ \A p \in i + n..Len(text) : TagFrom(i, p)
  <2>1. CASE S = {} /\ PgEnd(i) = Len(text) + 1
    <3>1. \A p \in i + n..Len(text) : ~Matches(p, PgTag(i))
      BY <1>3, <2>1
    <3>2. \A p \in i + n..Len(text) : p + 1 < PgEnd(i) \/ p = Len(text)
      BY <1>6, <2>1
    <3>3. \A p \in i + n..Len(text) : TagFrom(i, p)
      BY <1>5, <3>1, <3>2
    <3> QED  BY <1>6, <2>1, <3>3
  <2>2. ASSUME NEW m \in S, PgEnd(i) = m + n, \A y \in S : m <= y
        PROVE  <1>9!:
    <3>1. m \in i + n..Len(text) /\ Matches(m, PgTag(i)) /\ m + n - 1 <= Len(text)
      BY <1>3, <1>4
    <3>2. ASSUME NEW p \in i + n..Len(text), \A j \in i + n..p - 1 : ~Matches(j, PgTag(i))
          PROVE  IF Matches(p, PgTag(i)) THEN PgEnd(i) = p + n ELSE p + 1 < PgEnd(i) \/ p = Len(text)
      <4>1. Matches(p, PgTag(i)) => m <= p
        BY <1>3, <2>2
      <4>2. p \in Nat /\ m \in Nat /\ p <= m
        BY <1>6, <3>1, <3>2
      <4>3. ~Matches(p, PgTag(i)) => p # m
        BY <3>1
      <4> QED  BY <1>6, <2>2, <4>1, <4>2, <4>3
    <3>3. \A p \in i + n..Len(text) : TagFrom(i, p)
      BY <1>5, <3>2
    <3> QED  BY <1>6, <2>2, <3>1, <3>3
  <2> QED  BY <1>8, <2>1, <2>2
<1> QED  BY <1>6, <1>9 DEF n

\* Without a two-byte character the length in bytes is the length.
LEMMA NarrowTag ==
  ASSUME Typed, NEW b \in 1..Len(text), PgTag(b) # <<>>, NEW p \in 1..Len(text),
         Copies(p, b, Len(PgTag(b))), \A k \in DOMAIN PgTag(b) : PgTag(b)[k] # "wide"
  PROVE  TagLength(p) = Len(PgTag(b))
<1> DEFINE n == Len(PgTag(b))
           e == TagEnd(b)
           W == {j \in p..TagEnd(p) : text[j] = "wide"}
<1>1. TagEnd(p) = p + n - 1
  BY SameTag
<1>2. /\ e \in b + 1..Len(text) /\ n = e - b + 1 /\ PgTag(b) = SubSeq(text, b, e) /\ Len(text) \in Nat
  BY TagShape DEF Typed
<1>3. DOMAIN PgTag(b) = 1..e - b + 1 /\ \A k \in 1..e - b + 1 : PgTag(b)[k] = text[b + k - 1]
  <2> HIDE DEF e
  <2>1. e \in b - 1..Len(text)
    BY <1>2
  <2> QED  BY <1>2, <2>1, Slice
<1>4. Copies(p, b, n)
  OBVIOUS
<1>5. TagLength(p) = TagEnd(p) - p + 1 + Cardinality(W)
  BY DEF TagLength
<1> HIDE DEF n, e
<1>6. ASSUME NEW j \in W PROVE FALSE
  <2>1. j \in p..p + n - 1 /\ text[j] = "wide"
    BY <1>1
  <2>2. j - p \in 0..n - 1 /\ p + (j - p) = j /\ j - p + 1 \in 1..e - b + 1
        /\ b + (j - p + 1) - 1 = b + (j - p)
    BY <1>2, <2>1
  <2> QED  BY <1>3, <1>4, <2>1, <2>2 DEF Copies
<1>7. Cardinality(W) = 0
  <2>1. W = {}
    BY <1>6
  <2> QED  BY <2>1, FS_EmptySet
<1> HIDE DEF W
<1> QED  BY <1>1, <1>2, <1>5, <1>7 DEF n

\* Every token ends behind its beginning and within the text.
LEMMA EndsInText == ASSUME Typed, NEW i \in 1..Len(text) PROVE PgEnd(i) \in i + 1..Len(text) + 1
<1>0. Len(text) \in Nat /\ DOMAIN text = 1..Len(text)
  BY DEF Typed
<1>1. CASE LineAt(i)
  <2>1. PgEnd(i) \in i + 2..Len(text) + 1
    BY <1>1, LineEnds
  <2> QED  BY <1>0, <2>1
<1>2. CASE BlockAt(i)
  <2>1. PgEnd(i) \in i + 2..Len(text) + 1
    BY <1>2, BlockEnds
  <2> QED  BY <1>0, <2>1
<1>3. CASE text[i] \in {"q", "d"}
  BY <1>3, QuoteEnds
<1>4. CASE PgTag(i) # <<>>
  <2> DEFINE n == Len(PgTag(i))
  <2>1. n \in Nat /\ n >= 2 /\ PgEnd(i) \in i + n..Len(text) + 1
    BY <1>4, StringEnds
  <2> HIDE DEF n
  <2> QED  BY <1>0, <2>1
<1>5. CASE text[i] \in Identifier
  BY <1>5, NameEnds
<1>6. CASE ~LineAt(i) /\ ~BlockAt(i) /\ PgTag(i) = <<>> /\ text[i] \notin Identifier \cup {"q", "d"}
  BY <1>0, <1>6, SingleEnds
<1> QED  BY <1>1, <1>2, <1>3, <1>4, <1>5, <1>6

\* Tokens do not overlap.
LEMMA TokensApart ==
  ASSUME Typed, NEW i \in PgTokens, NEW j \in PgTokens, j < i
  PROVE  PgEnd(j) <= i
<1> DEFINE S == {k \in PgTokens : \E l \in PgTokens : l < k /\ ~(PgEnd(l) <= k)}
<1>0. Len(text) \in Nat /\ \A k \in PgTokens : k \in 1..Len(text) /\ PgEnd(k) \in Nat
  <2>1. \A k \in PgTokens : k \in 1..Len(text) /\ PgEnd(k) \in k + 1..Len(text) + 1
    BY TokenInText, EndsInText
  <2> QED  BY <2>1 DEF Typed
<1> SUFFICES ASSUME S # {} PROVE FALSE
  OBVIOUS
<1>1. PICK m \in S : \A y \in S : m <= y
  <2>1. S \in SUBSET Nat
    BY <1>0
  <2> HIDE DEF S
  <2> QED  BY <2>1, LeastExists
<1>2. PICK l \in PgTokens : l < m /\ ~(PgEnd(l) <= m)
  BY <1>1
<1>3. m \in PgTokens /\ \A y \in PgTokens : y < m => \A z \in PgTokens : z < y => PgEnd(z) <= y
  <2>1. ASSUME NEW y \in PgTokens, y < m PROVE y \notin S
    <3> HIDE DEF S
    <3>1. m \in PgTokens
      BY DEF S
    <3> QED  BY <1>0, <1>1, <2>1, <3>1
  <2> QED  BY <2>1
<1> HIDE DEF S
<1>4. PICK k \in PgTokens : k < m /\ PgEnd(k) = m
  <2>1. m # 1
    BY <1>0, <1>2, <1>3
  <2> QED  BY <1>0, <1>3, <2>1, TokenChain
<1>5. CASE l < k
  BY <1>0, <1>2, <1>3, <1>4, <1>5
<1>6. CASE l = k
  BY <1>0, <1>2, <1>3, <1>4, <1>6
<1>7. CASE k < l
  <2>1. m <= l
    BY <1>2, <1>3, <1>4, <1>7
  <2> QED  BY <1>0, <1>2, <1>3, <2>1
<1> QED  BY <1>0, <1>2, <1>4, <1>5, <1>6, <1>7

\* What follows a token is a token, and nothing inside one is.
LEMMA NextToken ==
  ASSUME Typed, NEW b \in PgTokens
  PROVE  /\ b \in 1..Len(text) /\ PgEnd(b) \in b + 1..Len(text) + 1
         /\ PgEnd(b) <= Len(text) => PgEnd(b) \in PgTokens
         /\ \A c \in PgTokens : ~(b < c /\ c < PgEnd(b))
<1>1. b \in 1..Len(text) /\ PgEnd(b) \in b + 1..Len(text) + 1 /\ Len(text) \in Nat
  BY TokenInText, EndsInText DEF Typed
<1>2. ASSUME PgEnd(b) <= Len(text) PROVE PgEnd(b) \in PgTokens
  <2>1. PgEnd(b) \in 1..Len(text) /\ b < PgEnd(b)
    BY <1>1, <1>2
  <2> QED  BY <1>1, <2>1, TokenChain
<1>3. ASSUME NEW c \in PgTokens, b < c, c < PgEnd(b) PROVE FALSE
  <2>1. PgEnd(b) <= c /\ c \in 1..Len(text)
    BY <1>3, TokensApart, TokenInText
  <2> QED  BY <1>1, <1>3, <2>1
<1> QED  BY <1>1, <1>2, <1>3

-----------------------------------------------------------------------------
(* The scanner's flags say in which of Postgres' tokens it is.             *)

\* Position p is inside token b, and the scanner knows what kind it is.
InToken(b, p, single, double, block, line, tag) ==
  \/ LineAt(b) /\ line /\ ~block /\ ~single /\ ~double /\ tag = None
  \/ /\ BlockAt(b) /\ block /\ ~line /\ ~single /\ ~double /\ tag = None
     /\ b + 2 <= p /\ \A j \in b + 2..p - 1 : ~BlockEnd(j)
  \/ text[b] = "q" /\ single /\ ~double /\ ~line /\ ~block /\ tag = None
  \/ text[b] = "d" /\ double /\ ~single /\ ~line /\ ~block /\ tag = None
  \/ /\ PgTag(b) # <<>> /\ tag = TagAt(b) /\ ~line /\ ~block /\ ~single /\ ~double
     /\ b + Len(PgTag(b)) <= p
     /\ \A j \in b + Len(PgTag(b))..p - 1 : ~Matches(j, PgTag(b))
  \/ text[b] \in Identifier /\ ~line /\ ~block /\ ~single /\ ~double /\ tag = None

ModeAt(p, single, double, block, line, tag) ==
  p <= Len(text) =>
    \/ p \in PgTokens /\ ~line /\ ~block /\ ~single /\ ~double /\ tag = None
    \/ \E b \in PgTokens : b < p /\ p < PgEnd(b) /\ InToken(b, p, single, double, block, line, tag)

Mode == ModeAt(pos, in_single, in_double, in_block_comment, in_line_comment, dollar_tag)
NextMode == ModeAt(pos', in_single', in_double', in_block_comment', in_line_comment', dollar_tag')

LEMMA ModeMoves == ASSUME text' = text, NextMode PROVE Mode'
<1>1. PgTokens' = PgTokens /\ \A i : PgEnd(i)' = PgEnd(i)
  BY SameTokens
<1>2. ASSUME NEW b
      PROVE  /\ LineAt(b)' = LineAt(b) /\ BlockAt(b)' = BlockAt(b) /\ BlockEnd(b)' = BlockEnd(b)
             /\ PgTag(b)' = PgTag(b) /\ TagAt(b)' = TagAt(b)
  BY DEF LineAt, BlockAt, BlockEnd, At, PgTag, TagAt, TagEnd, ClosingDollar, Least
<1>3. ASSUME NEW j, NEW s PROVE Matches(j, s)' = Matches(j, s)
  BY DEF Matches
<1>4. ASSUME NEW b, NEW p, NEW s, NEW d, NEW k, NEW l, NEW t
      PROVE  InToken(b, p, s, d, k, l, t)' = InToken(b, p, s, d, k, l, t)
  BY <1>2, <1>3 DEF InToken
<1>5. ASSUME NEW p, NEW s, NEW d, NEW k, NEW l, NEW t
      PROVE  ModeAt(p, s, d, k, l, t)' = ModeAt(p, s, d, k, l, t)
  BY <1>1, <1>4 DEF ModeAt
<1> QED  BY <1>5 DEF Mode, NextMode

-----------------------------------------------------------------------------
(* A step that copies moves on within Postgres' tokens and passes no       *)
(* terminator.                                                             *)

Stays(n) ==
  /\ pos' = pos + n /\ pos + n <= Len(text) + 1
  /\ Copy([k \in 1..n |-> pos + k - 1])
  /\ \A c \in pos..pos + n - 1 : c \notin PgBoundaries

Scans == NextMode /\ \E n \in Nat \ {0} : Stays(n)

Ready == Typed /\ TypeOK /\ Plain /\ Mode /\ pos \in 1..Len(text)

LEMMA OneStays ==
  ASSUME Ready, CopyOne, pos \notin PgBoundaries
  PROVE  Stays(1) /\ pos' = pos + 1
<1>1. pos \in Nat /\ Len(text) \in Nat /\ pos <= Len(text)
  BY DEF Ready, Typed
<1>2. <<pos>> = [k \in 1..1 |-> pos + k - 1]
  BY <1>1
<1>3. Copy(<<pos>>) /\ pos' = pos + 1
  BY DEF CopyOne
<1>4. Copy([k \in 1..1 |-> pos + k - 1])
  BY <1>2, <1>3, Zenon
<1>5. \A c \in pos..pos + 1 - 1 : c = pos
  BY <1>1
<1> QED  BY <1>1, <1>3, <1>4, <1>5 DEF Stays

LEMMA TwoStays ==
  ASSUME Ready, CopyTwo, pos + 1 <= Len(text), pos \notin PgBoundaries, pos + 1 \notin PgBoundaries
  PROVE  Stays(2) /\ pos' = pos + 2
<1>1. pos \in Nat /\ Len(text) \in Nat
  BY DEF Ready, Typed
<1>2. <<pos, pos + 1>> = [k \in 1..2 |-> pos + k - 1]
  BY <1>1
<1>3. Copy(<<pos, pos + 1>>) /\ pos' = pos + 2
  BY DEF CopyTwo
<1>4. Copy([k \in 1..2 |-> pos + k - 1])
  BY <1>2, <1>3, Zenon
<1>5. \A c \in pos..pos + 2 - 1 : c = pos \/ c = pos + 1
  BY <1>1
<1> QED  BY <1>1, <1>3, <1>4, <1>5 DEF Stays

LEMMA TagStays ==
  ASSUME Ready, CopyTag, NEW n \in Nat, TagLength(pos) = n, TagEnd(pos) = pos + n - 1,
         pos + n - 1 <= Len(text), \A c \in pos..pos + n - 1 : c \notin PgBoundaries
  PROVE  Stays(n) /\ pos' = pos + n
<1>1. pos \in Nat /\ Len(text) \in Nat
  BY DEF Ready, Typed
<1>2. TagEnd(pos) - pos + 1 = n /\ ~(pos + n > Len(text) + 1)
      /\ (pos + n > Len(text) => pos + n = Len(text) + 1)
  BY <1>1
<1>3. /\ Copy([k \in 1..TagEnd(pos) - pos + 1 |-> pos + k - 1])
      /\ pos' = IF pos + n > Len(text) THEN Len(text) + 1 ELSE pos + n
  BY DEF CopyTag
<1>4. Copy([k \in 1..n |-> pos + k - 1])
  BY <1>2, <1>3, Zenon
<1>5. pos' = pos + n /\ pos + n <= Len(text) + 1
  BY <1>1, <1>2, <1>3
<1> QED  BY <1>4, <1>5 DEF Stays

\* No terminator is inside a token.
LEMMA NoneInside ==
  ASSUME Typed, NEW b \in PgTokens, NEW c, b < c, c < PgEnd(b)
  PROVE  c \notin PgBoundaries
  BY NextToken DEF PgBoundaries

LEMMA NotTerminator == ASSUME NEW c, text[c] # ";" PROVE c \notin PgBoundaries
  BY DEF PgBoundaries

\* The two ways to be somewhere in the text.
LEMMA Somewhere ==
  ASSUME Ready
  PROVE  /\ pos \in Nat /\ Len(text) \in Nat /\ pos >= 1 /\ pos <= Len(text)
         /\ \/ /\ pos \in PgTokens /\ dollar_tag = None
               /\ ~in_line_comment /\ ~in_block_comment /\ ~in_single /\ ~in_double
            \/ \E b \in PgTokens :
                 /\ b \in 1..Len(text) /\ b < pos /\ pos < PgEnd(b) /\ PgEnd(b) \in b + 1..Len(text) + 1
                 /\ InToken(b, pos, in_single, in_double, in_block_comment, in_line_comment, dollar_tag)
<1>1. pos \in Nat /\ Len(text) \in Nat /\ pos >= 1 /\ pos <= Len(text)
  BY DEF Ready, Typed
<1>2. \A b \in PgTokens : b \in 1..Len(text) /\ PgEnd(b) \in b + 1..Len(text) + 1
  BY NextToken DEF Ready
<1> QED  BY <1>1, <1>2 DEF Ready, Mode, ModeAt

\* Behind a token the scanner is in none.
LEMMA Leaves ==
  ASSUME Typed, NEW b \in PgTokens, pos' = PgEnd(b), ~in_single', ~in_double', ~in_block_comment',
         ~in_line_comment', dollar_tag' = None
  PROVE  NextMode
  BY NextToken DEF NextMode, ModeAt

LEMMA Continues ==
  ASSUME NEW b \in PgTokens, b < pos', pos' < PgEnd(b) \/ pos' > Len(text), pos' \in Nat, Len(text) \in Nat,
         InToken(b, pos', in_single', in_double', in_block_comment', in_line_comment', dollar_tag')
  PROVE  NextMode
  BY DEF NextMode, ModeAt

\* A comment opens only where a token begins.
LEMMA Opening ==
  ASSUME Ready, ~InQuotes, ~in_block_comment, ~in_line_comment, LineAt(pos) \/ BlockAt(pos)
  PROVE  pos \in PgTokens /\ dollar_tag = None
<1> SUFFICES ASSUME NEW b \in PgTokens, b \in 1..Len(text), b < pos, pos < PgEnd(b),
                    PgEnd(b) \in b + 1..Len(text) + 1,
                    InToken(b, pos, in_single, in_double, in_block_comment, in_line_comment, dollar_tag)
             PROVE  FALSE
  BY Somewhere
<1>0. pos \in Nat /\ pos \in b..PgEnd(b) - 1 /\ pos \in b..Len(text)
  BY DEF Ready, Typed
<1>1. CASE PgTag(b) # <<>>
  <2>1. text[b] = "$"
    BY <1>1, TagShape DEF Ready
  <2> QED  BY <1>0, <2>1 DEF Ready, Plain, Delimited, LineAt, BlockAt
<1>2. CASE text[b] \in Identifier
  <2>1. text[pos] \in Identifier \cup {"$"}
    BY <1>0, <1>2, NameEnds DEF Ready
  <2> QED  BY <2>1 DEF LineAt, BlockAt, At, Identifier
<1> QED  BY <1>1, <1>2 DEF InToken, InQuotes

LEMMA LineStep == ASSUME Ready, LineComment PROVE Scans
<1> USE DEF quoting
<1>0. pos \in Nat /\ Len(text) \in Nat /\ pos >= 1 /\ pos <= Len(text) /\ Typed
  BY Somewhere DEF Ready
<1>1. CASE OpensLine /\ CopyTwo /\ in_line_comment'
  <2>1. LineAt(pos) /\ text[pos] = "-" /\ pos + 1 <= Len(text) /\ text[pos + 1] = "-"
    BY <1>1 DEF OpensLine, LineAt, At, Ready, Typed
  <2>2. pos \in PgTokens /\ dollar_tag = None
    BY <1>1, <2>1, Opening DEF OpensLine
  <2>3. pos \notin PgBoundaries /\ pos + 1 \notin PgBoundaries
    BY <2>1, NotTerminator
  <2>4. Stays(2) /\ pos' = pos + 2
    BY <1>1, <2>1, <2>3, TwoStays
  <2>5. /\ PgEnd(pos) \in pos + 2..Len(text) + 1
        /\ pos + 2 < PgEnd(pos) \/ pos + 1 = Len(text)
    BY <2>1, LineEnds DEF Ready
  <2>6. InToken(pos, pos', in_single', in_double', in_block_comment', in_line_comment', dollar_tag')
    BY <1>1, <2>1, <2>2 DEF InToken, LineComment, OpensLine, InQuotes
  <2>7. pos < pos' /\ pos' \in Nat /\ (pos' < PgEnd(pos) \/ pos' > Len(text))
    BY <1>0, <2>4, <2>5
  <2>8. NextMode
    BY <1>0, <2>2, <2>6, <2>7, Continues
  <2> QED  BY <2>4, <2>8 DEF Scans
<1>2. CASE in_line_comment /\ CopyOne /\ in_line_comment' = (text[pos] # "nl")
  <2>1. PICK b \in PgTokens : b \in 1..Len(text) /\ b < pos /\ pos < PgEnd(b) /\ LineAt(b)
                              /\ ~in_block_comment /\ ~in_single /\ ~in_double /\ dollar_tag = None
    BY <1>2, Somewhere DEF InToken
  <2>2. Stays(1) /\ pos' = pos + 1
    BY <1>0, <1>2, <2>1, NoneInside, OneStays
  <2>3. IF text[pos] = "nl" THEN PgEnd(b) = pos + 1 ELSE pos + 1 < PgEnd(b) \/ pos = Len(text)
    BY <1>0, <2>1, LineEnds DEF EndsAfter
  <2>4. ~in_block_comment' /\ ~in_single' /\ ~in_double' /\ dollar_tag' = None
    BY <1>2, <2>1 DEF LineComment
  <2>5. CASE text[pos] = "nl"
    <3>1. pos' = PgEnd(b) /\ ~in_line_comment'
      BY <1>2, <2>2, <2>3, <2>5
    <3>2. NextMode
      BY <1>0, <2>4, <3>1, Leaves
    <3> QED  BY <2>2, <3>2 DEF Scans
  <2>6. CASE text[pos] # "nl"
    <3>1. InToken(b, pos', in_single', in_double', in_block_comment', in_line_comment', dollar_tag')
      BY <1>2, <2>1, <2>4, <2>6 DEF InToken
    <3>2. b < pos' /\ pos' \in Nat /\ (pos' < PgEnd(b) \/ pos' > Len(text))
      BY <1>0, <2>1, <2>2, <2>3, <2>6
    <3> QED  BY <1>0, <2>2, <3>1, <3>2, Continues DEF Scans
  <2> QED  BY <2>5, <2>6
<1> QED  BY <1>1, <1>2 DEF LineComment

\* A tag is text, and no tag is not.
LEMMA TagTyped == ASSUME Typed, NEW b \in 1..Len(text), PgTag(b) # <<>> PROVE TagAt(b) # None
<1>1. TagEnd(b) \in b + 1..Len(text) /\ Len(text) \in Nat
  BY TagShape DEF Typed
<1>2. b + 1 \in 1..Len(text) /\ TagEnd(b) - 1 \in b + 1 - 1..Len(text)
  BY <1>1
<1>3. TagAt(b) \in Seq(Char)
  BY <1>2, Slice DEF TagAt
<1> QED  BY <1>3, TextsAssumption

\* Outside of all tokens but names, only a letter does not begin one.
LEMMA TopLevel ==
  ASSUME Ready, ~InQuotes, ~in_line_comment, ~in_block_comment, dollar_tag = None
  PROVE  pos \in PgTokens \/ (text[pos] \in Identifier /\ \E b \in PgTokens :
           b \in 1..Len(text) /\ b < pos /\ pos < PgEnd(b) /\ text[b] \in Identifier)
<1>0. pos \in Nat /\ Len(text) \in Nat /\ pos >= 1 /\ pos <= Len(text) /\ Typed
  BY Somewhere DEF Ready
<1>1. ASSUME NEW b \in PgTokens, b \in 1..Len(text), b < pos, pos < PgEnd(b), text[b] \in Identifier,
             PgEnd(b) \in b + 1..Len(text) + 1
      PROVE  text[pos] \in Identifier
  <2>1. pos \in b..Len(text) /\ pos \in b..PgEnd(b) - 1
    BY <1>0, <1>1
  <2>2. text[pos] \in Identifier \cup {"$"}
    BY <1>0, <1>1, <2>1, NameEnds
  <2>3. text[pos] # "$"
    BY <1>1, <2>1 DEF Ready, Plain
  <2> QED  BY <2>2, <2>3
<1>2. ASSUME NEW b \in 1..Len(text), PgTag(b) # <<>>, TagAt(b) = None PROVE FALSE
  BY <1>0, <1>2, TagTyped
<1> QED  BY <1>1, <1>2, Somewhere DEF InToken, InQuotes

LEMMA BlockStep == ASSUME Ready, BlockComment PROVE Scans
<1> USE DEF quoting
<1>0. pos \in Nat /\ Len(text) \in Nat /\ pos >= 1 /\ pos <= Len(text) /\ Typed
  BY Somewhere DEF Ready
<1>1. CASE OpensBlock /\ CopyTwo /\ in_block_comment'
  <2>1. BlockAt(pos) /\ text[pos] = "/" /\ pos + 1 <= Len(text) /\ text[pos + 1] = "*"
    BY <1>1 DEF OpensBlock, BlockAt, At, Ready, Typed
  <2>2. pos \in PgTokens /\ dollar_tag = None
    BY <1>1, <2>1, Opening DEF OpensBlock
  <2>3. pos \notin PgBoundaries /\ pos + 1 \notin PgBoundaries
    BY <2>1, NotTerminator
  <2>4. Stays(2) /\ pos' = pos + 2
    BY <1>1, <2>1, <2>3, TwoStays
  <2>5. /\ PgEnd(pos) \in pos + 2..Len(text) + 1
        /\ pos + 2 < PgEnd(pos) \/ pos + 1 = Len(text)
    BY <2>1, BlockEnds DEF Ready
  <2>6. InToken(pos, pos', in_single', in_double', in_block_comment', in_line_comment', dollar_tag')
    <3>1. pos + 2 <= pos' /\ \A j \in pos + 2..pos' - 1 : FALSE
      BY <1>0, <2>4
    <3> QED  BY <1>1, <2>1, <2>2, <3>1 DEF InToken, BlockComment, OpensBlock, InQuotes
  <2>7. pos < pos' /\ pos' \in Nat /\ (pos' < PgEnd(pos) \/ pos' > Len(text))
    BY <1>0, <2>4, <2>5
  <2>8. NextMode
    BY <1>0, <2>2, <2>6, <2>7, Continues
  <2> QED  BY <2>4, <2>8 DEF Scans
<1>2. CASE in_block_comment
  <2>1. PICK b \in PgTokens : b \in 1..Len(text) /\ b < pos /\ pos < PgEnd(b) /\ BlockAt(b)
                              /\ ~in_line_comment /\ ~in_single /\ ~in_double /\ dollar_tag = None
                              /\ b + 2 <= pos /\ \A j \in b + 2..pos - 1 : ~BlockEnd(j)
    BY <1>2, Somewhere DEF InToken
  <2>2. IF BlockEnd(pos) THEN PgEnd(b) = pos + 2 ELSE pos + 1 < PgEnd(b) \/ pos = Len(text)
    <3>1. pos \in b + 2..Len(text)
      BY <1>0, <2>1
    <3> QED  BY <1>0, <2>1, <3>1, BlockEnds DEF BlockFrom
  <2>3. ~in_line_comment' /\ ~in_single' /\ ~in_double' /\ dollar_tag' = None
    BY <1>2, <2>1 DEF BlockComment
  <2>4. CASE BlockEnd(pos) /\ CopyTwo /\ ~in_block_comment'
    <3>1. pos + 1 <= Len(text) /\ pos + 1 < PgEnd(b) /\ b < pos + 1
      BY <1>0, <2>1, <2>2, <2>4 DEF BlockEnd, At, Typed
    <3>2. pos \notin PgBoundaries /\ pos + 1 \notin PgBoundaries
      BY <1>0, <2>1, <3>1, NoneInside
    <3>3. Stays(2) /\ pos' = pos + 2
      BY <2>4, <3>1, <3>2, TwoStays
    <3>4. pos' = PgEnd(b)
      BY <2>2, <2>4, <3>3
    <3>5. NextMode
      BY <1>0, <2>3, <2>4, <3>4, Leaves
    <3> QED  BY <3>3, <3>5 DEF Scans
  <2>5. CASE ~BlockEnd(pos) /\ CopyOne /\ in_block_comment'
    <3>1. Stays(1) /\ pos' = pos + 1
      BY <1>0, <2>1, <2>5, NoneInside, OneStays
    <3>2. b + 2 <= pos' /\ \A j \in b + 2..pos' - 1 : ~BlockEnd(j)
      <4>1. \A j \in b + 2..pos' - 1 : j = pos \/ j \in b + 2..pos - 1
        BY <1>0, <3>1
      <4> QED  BY <1>0, <2>1, <2>5, <3>1, <4>1
    <3>3. InToken(b, pos', in_single', in_double', in_block_comment', in_line_comment', dollar_tag')
      BY <2>1, <2>3, <2>5, <3>2 DEF InToken
    <3>4. b < pos' /\ pos' \in Nat /\ (pos' < PgEnd(b) \/ pos' > Len(text))
      BY <1>0, <2>1, <2>2, <2>5, <3>1
    <3>5. NextMode
      BY <1>0, <3>3, <3>4, Continues
    <3> QED  BY <3>1, <3>5 DEF Scans
  <2>6. ~OpensBlock
    BY <1>2 DEF OpensBlock
  <2> QED  BY <1>2, <2>4, <2>5, <2>6 DEF BlockComment, BlockEnd
<1> QED  BY <1>1, <1>2 DEF BlockComment

\* Inside a string a quote is copied until it closes; behind the closing quote
\* of one string another may open, which the scanner takes for a doubled one.
LEMMA SingleStep == ASSUME Ready, SingleQuote PROVE Scans
<1> USE DEF comments
<1>0. pos \in Nat /\ Len(text) \in Nat /\ pos >= 1 /\ pos <= Len(text) /\ Typed
  BY Somewhere DEF Ready
<1>1. /\ text[pos] = "q" /\ ~in_double /\ ~in_line_comment /\ ~in_block_comment /\ dollar_tag = None
      /\ ~in_double' /\ ~in_line_comment' /\ ~in_block_comment' /\ dollar_tag' = None
      /\ pos \notin PgBoundaries
  <2>1. text[pos] = "q" /\ ~in_double /\ ~in_line_comment /\ ~in_block_comment /\ dollar_tag = None
    BY DEF SingleQuote, Unquoted, Code, At
  <2> QED  BY <2>1, NotTerminator DEF SingleQuote
<1>2. CASE ~in_single
  <2>1. CopyOne /\ in_single'
    BY <1>2 DEF SingleQuote, Ready, TypeOK
  <2>2. pos \in PgTokens
    BY <1>1, <1>2, TopLevel DEF InQuotes, Identifier
  <2>3. Stays(1) /\ pos' = pos + 1
    BY <1>1, <2>1, OneStays
  <2>4. pos + 1 < PgEnd(pos) \/ pos = Len(text)
    BY <1>0, <1>1, QuoteEnds
  <2>5. InToken(pos, pos', in_single', in_double', in_block_comment', in_line_comment', dollar_tag')
    BY <1>1, <2>1 DEF InToken
  <2>6. NextMode
    BY <1>0, <2>2, <2>3, <2>4, <2>5, Continues
  <2> QED  BY <2>3, <2>6 DEF Scans
<1>3. CASE in_single
  <2>1. PICK b \in PgTokens : b \in 1..Len(text) /\ b < pos /\ pos < PgEnd(b) /\ text[b] = "q"
    BY <1>3, Somewhere DEF InToken
  <2>2. PgEnd(b) = pos + 1
    BY <1>0, <1>1, <2>1, QuoteEnds DEF EndsAfter
  <2>3. CASE At(pos + 1, "q") /\ CopyTwo /\ in_single'
    <3>1. pos + 1 \in 1..Len(text) /\ text[pos + 1] = "q"
      BY <1>0, <2>3 DEF At, Typed
    <3>2. pos + 1 \in PgTokens /\ pos + 1 \notin PgBoundaries
      <4>1. PgEnd(b) \in PgTokens
        BY <1>0, <2>2, <3>1, NextToken
      <4>2. pos + 1 \notin PgBoundaries
        BY <3>1, NotTerminator
      <4> QED  BY <2>2, <4>1, <4>2
    <3>3. Stays(2) /\ pos' = pos + 2
      BY <1>0, <1>1, <2>3, <3>1, <3>2, TwoStays
    <3>4. pos + 1 + 1 < PgEnd(pos + 1) \/ pos + 1 = Len(text)
      BY <1>0, <3>1, QuoteEnds
    <3>5. InToken(pos + 1, pos', in_single', in_double', in_block_comment', in_line_comment', dollar_tag')
      BY <1>1, <2>3, <3>1 DEF InToken
    <3>6. pos + 1 < pos' /\ pos' \in Nat /\ (pos' < PgEnd(pos + 1) \/ pos' > Len(text))
      BY <1>0, <3>3, <3>4
    <3>7. NextMode
      BY <1>0, <3>2, <3>5, <3>6, Continues
    <3> QED  BY <3>3, <3>7 DEF Scans
  <2>4. CASE CopyOne /\ ~in_single'
    <3>1. Stays(1) /\ pos' = pos + 1
      BY <1>1, <2>4, OneStays
    <3>2. NextMode
      BY <1>0, <1>1, <2>2, <2>4, <3>1, Leaves
    <3> QED  BY <3>1, <3>2 DEF Scans
  <2> QED  BY <1>3, <2>3, <2>4 DEF SingleQuote
<1> QED  BY <1>2, <1>3

LEMMA DoubleStep == ASSUME Ready, DoubleQuote PROVE Scans
<1> USE DEF comments
<1>0. pos \in Nat /\ Len(text) \in Nat /\ pos >= 1 /\ pos <= Len(text) /\ Typed
  BY Somewhere DEF Ready
<1>1. /\ text[pos] = "d" /\ ~in_single /\ ~in_line_comment /\ ~in_block_comment /\ dollar_tag = None
      /\ ~in_single' /\ ~in_line_comment' /\ ~in_block_comment' /\ dollar_tag' = None
      /\ CopyOne /\ in_double' = ~in_double
  BY DEF DoubleQuote, Unquoted, Code, At
<1>2. Stays(1) /\ pos' = pos + 1
  BY <1>1, NotTerminator, OneStays
<1>3. CASE ~in_double
  <2>1. in_double'
    BY <1>1, <1>3 DEF Ready, TypeOK
  <2>2. pos \in PgTokens
    BY <1>1, <1>3, TopLevel DEF InQuotes, Identifier
  <2>4. pos + 1 < PgEnd(pos) \/ pos = Len(text)
    BY <1>0, <1>1, QuoteEnds
  <2>5. InToken(pos, pos', in_single', in_double', in_block_comment', in_line_comment', dollar_tag')
    BY <1>1, <2>1 DEF InToken
  <2>6. NextMode
    BY <1>0, <1>2, <2>2, <2>4, <2>5, Continues
  <2> QED  BY <1>2, <2>6 DEF Scans
<1>4. CASE in_double
  <2>1. PICK b \in PgTokens : b \in 1..Len(text) /\ b < pos /\ pos < PgEnd(b) /\ text[b] = "d"
    BY <1>4, Somewhere DEF InToken
  <2>2. PgEnd(b) = pos + 1
    BY <1>0, <1>1, <2>1, QuoteEnds DEF EndsAfter
  <2>3. ~in_double'
    BY <1>1, <1>4
  <2>4. NextMode
    BY <1>0, <1>1, <1>2, <2>2, <2>3, Leaves
  <2> QED  BY <1>2, <2>4 DEF Scans
<1> QED  BY <1>3, <1>4

\* A $ where a token begins opens a dollar-quoted string.
LEMMA DollarAt ==
  ASSUME Ready, NEW b \in PgTokens, text[b] = "$"
  PROVE  PgTag(b) # <<>> /\ b \in 1..Len(text) /\ \A k \in DOMAIN PgTag(b) : PgTag(b)[k] # "wide"
  BY TokenInText DEF Ready, Plain, Delimited

LEMMA DollarStep == ASSUME Ready, DollarQuote PROVE Scans
<1> USE DEF comments, quoting
<1>0. pos \in Nat /\ Len(text) \in Nat /\ pos >= 1 /\ pos <= Len(text) /\ Typed
  BY Somewhere DEF Ready
<1>1. /\ ~in_line_comment /\ ~in_block_comment /\ ~in_line_comment' /\ ~in_block_comment'
      /\ in_single' = in_single /\ in_double' = in_double
  BY DEF DollarQuote, Code
<1>2. CASE OpensTag /\ dollar_tag' = TagAt(pos) /\ CopyTag
  <2> DEFINE n == Len(PgTag(pos))
  <2>1. text[pos] = "$" /\ ~in_single /\ ~in_double /\ dollar_tag = None
    BY <1>2 DEF OpensTag, HasTag, At, InQuotes
  <2>2. pos \in PgTokens
    BY <1>1, <2>1, TopLevel DEF InQuotes, Identifier
  <2>3. PgTag(pos) # <<>> /\ \A k \in DOMAIN PgTag(pos) : PgTag(pos)[k] # "wide"
    BY <2>1, <2>2, DollarAt
  <2>4. /\ pos + n <= Len(text) + 1 /\ n \in Nat /\ n >= 2
        /\ PgEnd(pos) \in pos + n..Len(text) + 1
        /\ pos + n < PgEnd(pos) \/ pos + n = Len(text) + 1
    BY <1>0, <2>3, StringEnds
  <2>5. TagEnd(pos) = pos + n - 1 /\ TagLength(pos) = n
    <3>1. Copies(pos, pos, n)
      <4> HIDE DEF n
      <4> QED  BY <1>0, <2>4 DEF Copies
    <3> QED  BY <1>0, <2>3, <3>1, SameTag, NarrowTag
  <2>6. InToken(pos, pos + n, in_single', in_double', in_block_comment', in_line_comment', dollar_tag')
    <3> DEFINE q == pos + n
    <3>1. q <= q /\ \A j \in q..q - 1 : FALSE
      <4> HIDE DEF n
      <4> QED  BY <1>0, <2>4
    <3>2. ~in_single' /\ ~in_double' /\ ~in_block_comment' /\ ~in_line_comment' /\ dollar_tag' = TagAt(pos)
      BY <1>1, <1>2, <2>1
    <3>3. pos + Len(PgTag(pos)) = q
      OBVIOUS
    <3> HIDE DEF n, q
    <3>4. InToken(pos, q, in_single', in_double', in_block_comment', in_line_comment', dollar_tag')
      BY <2>3, <3>1, <3>2, <3>3 DEF InToken
    <3> QED  BY <3>4 DEF q
  <2> HIDE DEF n
  <2>7. \A c \in pos..pos + n - 1 : c \notin PgBoundaries
    <3>1. pos \notin PgBoundaries
      BY <2>1, NotTerminator
    <3>2. \A c \in pos..pos + n - 1 : c = pos \/ (pos < c /\ c < PgEnd(pos))
      BY <1>0, <2>4
    <3> QED  BY <1>0, <2>2, <3>1, <3>2, NoneInside
  <2>8. Stays(n) /\ pos' = pos + n
    <3>1. pos + n - 1 <= Len(text)
      BY <1>0, <2>4
    <3> QED  BY <1>2, <2>4, <2>5, <2>7, <3>1, TagStays
  <2>9. pos < pos' /\ pos' \in Nat /\ (pos' < PgEnd(pos) \/ pos' > Len(text))
    BY <1>0, <2>4, <2>8
  <2>10. NextMode
    BY <1>0, <2>2, <2>6, <2>8, <2>9, Continues
  <2> QED  BY <2>4, <2>8, <2>10 DEF Scans
<1>3. CASE dollar_tag # None /\ ~OpensTag
  <2>1. PICK b \in PgTokens :
          /\ b \in 1..Len(text) /\ b < pos /\ pos < PgEnd(b) /\ PgTag(b) # <<>>
          /\ dollar_tag = TagAt(b) /\ ~in_single /\ ~in_double
          /\ b + Len(PgTag(b)) <= pos
          /\ \A j \in b + Len(PgTag(b))..pos - 1 : ~Matches(j, PgTag(b))
    BY <1>3, Somewhere DEF InToken
  <2> DEFINE n == Len(PgTag(b))
  <2>2. n \in Nat /\ n >= 2 /\ b + n <= pos /\ b \in Nat
    BY <1>0, <2>1, StringEnds
  <2>3. IF Matches(pos, PgTag(b)) THEN PgEnd(b) = pos + n ELSE pos + 1 < PgEnd(b) \/ pos = Len(text)
    <3>1. pos \in b + n..Len(text)
      <4> HIDE DEF n
      <4> QED  BY <1>0, <2>2
    <3> QED  BY <1>0, <2>1, <3>1, StringEnds DEF TagFrom
  <2>4. CASE ClosesTag /\ dollar_tag' = None /\ CopyTag
    <3>1. HasTag(pos) /\ TagAt(pos) = TagAt(b)
      BY <2>1, <2>4 DEF ClosesTag
    <3>2. Matches(pos, PgTag(b)) /\ Copies(pos, b, n) /\ TagEnd(pos) = pos + n - 1
      BY <1>0, <2>1, <3>1, SameTag
    <3>3. TagLength(pos) = n
      <4>1. text[b] = "$"
        BY <1>0, <2>1, TagShape
      <4>2. \A k \in DOMAIN PgTag(b) : PgTag(b)[k] # "wide"
        BY <4>1, DollarAt
      <4> QED  BY <1>0, <2>1, <3>2, <4>2, NarrowTag
    <3>4. PgEnd(b) = pos + n /\ pos + n - 1 <= Len(text)
      BY <2>3, <3>2 DEF Copies
    <3> HIDE DEF n
    <3>5. \A c \in pos..pos + n - 1 : c \notin PgBoundaries
      <4>1. \A c \in pos..pos + n - 1 : b < c /\ c < PgEnd(b)
        BY <1>0, <2>1, <2>2, <3>4
      <4> QED  BY <1>0, <4>1, NoneInside
    <3>6. Stays(n) /\ pos' = pos + n
      BY <2>2, <2>4, <3>2, <3>3, <3>4, <3>5, TagStays
    <3>7. ~in_single' /\ ~in_double'
      BY <1>1, <2>1
    <3>8. NextMode
      BY <1>0, <1>1, <2>4, <3>4, <3>6, <3>7, Leaves
    <3> QED  BY <2>2, <3>6, <3>8 DEF Scans
  <2>5. CASE ~ClosesTag /\ dollar_tag' = dollar_tag /\ CopyOne
    <3>1. ~Matches(pos, PgTag(b))
      <4>1. ~(HasTag(pos) /\ TagAt(pos) = TagAt(b))
        BY <1>3, <2>1, <2>5 DEF ClosesTag, InQuotes
      <4> QED  BY <1>0, <2>1, <4>1, SameTag
    <3>2. Stays(1) /\ pos' = pos + 1
      BY <1>0, <2>1, <2>5, NoneInside, OneStays
    <3>3. b + Len(PgTag(b)) <= pos' /\ \A j \in b + Len(PgTag(b))..pos' - 1 : ~Matches(j, PgTag(b))
      <4>1. b + n <= pos' /\ \A j \in b + n..pos' - 1 : j = pos \/ j \in b + n..pos - 1
        <5> HIDE DEF n
        <5> QED  BY <1>0, <2>2, <3>2
      <4> QED  BY <2>1, <3>1, <4>1
    <3>4. InToken(b, pos', in_single', in_double', in_block_comment', in_line_comment', dollar_tag')
      BY <1>1, <2>1, <2>5, <3>3 DEF InToken
    <3>5. b < pos' /\ pos' \in Nat /\ (pos' < PgEnd(b) \/ pos' > Len(text))
      <4> HIDE DEF n
      <4> QED  BY <1>0, <2>1, <2>3, <3>1, <3>2
    <3>6. NextMode
      BY <1>0, <3>4, <3>5, Continues
    <3> QED  BY <3>2, <3>6 DEF Scans
  <2> QED  BY <1>3, <2>4, <2>5 DEF DollarQuote
<1> QED  BY <1>2, <1>3 DEF DollarQuote, OpensTag, ClosesTag

\* Inside a name or behind it.
LEMMA NameStep ==
  ASSUME Typed, NEW b \in PgTokens, text[b] \in Identifier, pos' = pos + 1, pos \in Nat, b <= pos,
         pos < PgEnd(b), ~in_single', ~in_double', ~in_line_comment', ~in_block_comment',
         dollar_tag' = None
  PROVE  NextMode
<1>1. b \in 1..Len(text) /\ PgEnd(b) \in b + 1..Len(text) + 1 /\ Len(text) \in Nat
  BY NextToken DEF Typed
<1>2. CASE pos' = PgEnd(b)
  BY <1>2, Leaves
<1>3. CASE pos' # PgEnd(b)
  <2>1. b < pos' /\ pos' < PgEnd(b) /\ pos' \in Nat
    BY <1>1, <1>3
  <2>2. InToken(b, pos', in_single', in_double', in_block_comment', in_line_comment', dollar_tag')
    BY DEF InToken
  <2> QED  BY <1>1, <2>1, <2>2, Continues
<1> QED  BY <1>2, <1>3

LEMMA OtherStep == ASSUME Ready, Other PROVE Scans
<1> USE DEF comments, quoting
<1>0. pos \in Nat /\ Len(text) \in Nat /\ pos >= 1 /\ pos <= Len(text) /\ Typed
  BY Somewhere DEF Ready
<1>1. /\ ~in_line_comment /\ ~in_block_comment /\ dollar_tag = None
      /\ ~in_line_comment' /\ ~in_block_comment' /\ dollar_tag' = None
      /\ in_single' = in_single /\ in_double' = in_double /\ CopyOne
      /\ ~OpensLine /\ ~OpensBlock /\ ~OpensTag
      /\ text[pos] = "q" => in_double
      /\ text[pos] = "d" => in_single
      /\ text[pos] = ";" => in_single \/ in_double
  <2>1. \A c : At(pos, c) <=> text[pos] = c
    BY <1>0 DEF At, Typed
  <2>2. /\ ~in_line_comment /\ ~in_block_comment /\ dollar_tag = None
        /\ ~OpensLine /\ ~OpensBlock /\ ~OpensTag
    BY DEF Other, Unquoted, Code
  <2>3. /\ text[pos] = "q" => in_double
        /\ text[pos] = "d" => in_single
        /\ text[pos] = ";" => in_single \/ in_double
    BY <2>1 DEF Other, InQuotes
  <2> QED  BY <2>2, <2>3 DEF Other
<1>2. CASE in_single \/ in_double
  <2>1. PICK b \in PgTokens, c \in {"q", "d"} :
          /\ b \in 1..Len(text) /\ b < pos /\ pos < PgEnd(b) /\ text[b] = c /\ text[pos] # c
          /\ (c = "q" /\ in_single /\ ~in_double) \/ (c = "d" /\ in_double /\ ~in_single)
    BY <1>1, <1>2, Somewhere DEF InToken
  <2>2. Stays(1) /\ pos' = pos + 1
    BY <1>0, <1>1, <2>1, NoneInside, OneStays
  <2>3. pos + 1 < PgEnd(b) \/ pos = Len(text)
    BY <1>0, <2>1, QuoteEnds DEF EndsAfter
  <2>4. InToken(b, pos', in_single', in_double', in_block_comment', in_line_comment', dollar_tag')
    <3>1. CASE c = "q"
      BY <1>1, <2>1, <3>1 DEF InToken
    <3>2. CASE c = "d"
      BY <1>1, <2>1, <3>2 DEF InToken
    <3> QED  BY <3>1, <3>2
  <2>5. b < pos' /\ pos' \in Nat /\ (pos' < PgEnd(b) \/ pos' > Len(text))
    BY <1>0, <2>1, <2>2, <2>3
  <2>6. NextMode
    BY <1>0, <2>4, <2>5, Continues
  <2> QED  BY <2>2, <2>6 DEF Scans
<1>3. CASE ~in_single /\ ~in_double
  <2>1. text[pos] \notin {"q", "d", ";"} /\ ~in_single' /\ ~in_double'
    BY <1>1, <1>3
  <2>2. Stays(1) /\ pos' = pos + 1
    BY <1>1, <2>1, NotTerminator, OneStays
  <2>3. CASE pos \in PgTokens
    <3>1. ~LineAt(pos) /\ ~BlockAt(pos)
      BY <1>1, <1>3 DEF OpensLine, OpensBlock, InQuotes, LineAt, BlockAt
    <3>2. text[pos] # "$"
      <4> SUFFICES ASSUME text[pos] = "$" PROVE FALSE
        OBVIOUS
      <4>1. PgTag(pos) # <<>>
        BY <2>3, DollarAt
      <4>2. HasTag(pos)
        BY <1>0, <4>1, TagShape
      <4> QED  BY <1>1, <1>3, <4>2 DEF OpensTag, InQuotes
    <3>3. CASE text[pos] \in Identifier
      <4>1. pos < PgEnd(pos) /\ pos <= pos
        BY <1>0, <2>3, NextToken
      <4>2. NextMode
        BY <1>0, <1>1, <2>1, <2>2, <2>3, <3>3, <4>1, NameStep
      <4> QED  BY <2>2, <4>2 DEF Scans
    <3>4. CASE text[pos] \notin Identifier
      <4>1. PgEnd(pos) = pos + 1
        <5>1. text[pos] \notin Identifier \cup {"q", "d"}
          BY <2>1, <3>4
        <5>2. PgTag(pos) = <<>>
          BY <3>2, NoTag, Zenon
        <5>3. pos \in 1..Len(text)
          BY DEF Ready
        <5> QED  BY <1>0, <3>1, <5>1, <5>2, <5>3, SingleEnds
      <4>2. NextMode
        BY <1>0, <1>1, <2>1, <2>2, <2>3, <4>1, Leaves
      <4> QED  BY <2>2, <4>2 DEF Scans
    <3> QED  BY <3>3, <3>4
  <2>4. CASE pos \notin PgTokens
    <3>1. PICK b \in PgTokens :
            b \in 1..Len(text) /\ b < pos /\ pos < PgEnd(b) /\ text[b] \in Identifier
      BY <1>1, <1>3, <2>4, TopLevel DEF InQuotes
    <3>2. b <= pos
      BY <1>0, <3>1
    <3>3. NextMode
      BY <1>0, <1>1, <2>1, <2>2, <3>1, <3>2, NameStep
    <3> QED  BY <2>2, <3>3 DEF Scans
  <2> QED  BY <2>3, <2>4
<1> QED  BY <1>2, <1>3

\* A terminator is cut where Postgres has one.
LEMMA TerminatorStep ==
  ASSUME Ready, Terminator
  PROVE  NextMode /\ pos \in PgBoundaries /\ text[pos] = ";" /\ PgEnd(pos) = pos + 1 /\ pos' = pos + 1
<1> USE DEF comments, quoting
<1>0. pos \in Nat /\ Len(text) \in Nat /\ pos >= 1 /\ pos <= Len(text) /\ Typed
  BY Somewhere DEF Ready
<1>1. /\ ~in_line_comment /\ ~in_block_comment /\ dollar_tag = None /\ ~in_single /\ ~in_double
      /\ ~in_line_comment' /\ ~in_block_comment' /\ dollar_tag' = None /\ ~in_single' /\ ~in_double'
      /\ text[pos] = ";" /\ pos' = pos + 1
  BY DEF Terminator, Unquoted, Code, At, InQuotes
<1>2. pos \in PgTokens
  BY <1>1, TopLevel DEF InQuotes, Identifier
<1>3. PgEnd(pos) = pos + 1
  <2>1. ~LineAt(pos) /\ ~BlockAt(pos) /\ text[pos] \notin Identifier \cup {"q", "d"}
    BY <1>1 DEF LineAt, BlockAt, At, Identifier
  <2>2. text[pos] # "$"
    BY <1>1
  <2>3. PgTag(pos) = <<>>
    BY <2>2, NoTag, Zenon
  <2>4. pos \in 1..Len(text)
    BY DEF Ready
  <2> QED  BY <1>0, <2>1, <2>3, <2>4, SingleEnds
<1>4. NextMode
  BY <1>0, <1>1, <1>2, <1>3, Leaves
<1> QED  BY <1>1, <1>2, <1>3, <1>4 DEF PgBoundaries

-----------------------------------------------------------------------------
(* finalize_statement finds the first token that is not blank.             *)

\* The function Probe is defined with.
Strips(f, s) == f = [i \in 1..Len(s) + 1 |-> Strip(s, f, i)]

LEMMA ProbeIs == ASSUME NEW s PROVE Probe(s) = (CHOOSE f : Strips(f, s))[1]
  BY DEF Probe, Strips

LEMMA StripTargets ==
  ASSUME NEW s, Len(s) \in Nat, NEW i \in 1..Len(s)
  PROVE  /\ Newlines(s, i) # {} => /\ Least(Newlines(s, i)) \in Newlines(s, i)
                                   /\ Least(Newlines(s, i)) \in i..Len(s)
                                   /\ \A y \in Newlines(s, i) : Least(Newlines(s, i)) <= y
         /\ CommentEnds(s, i) # {} => /\ Least(CommentEnds(s, i)) \in CommentEnds(s, i)
                                      /\ Least(CommentEnds(s, i)) \in i..Len(s) - 1
                                      /\ \A y \in CommentEnds(s, i) : Least(CommentEnds(s, i)) <= y
<1>1. Newlines(s, i) \in SUBSET Nat /\ \A j \in Newlines(s, i) : j \in i..Len(s)
  BY DEF Newlines
<1>2. CommentEnds(s, i) \in SUBSET Nat /\ \A j \in CommentEnds(s, i) : j \in i..Len(s) - 1
  BY DEF CommentEnds, Two
<1> QED  BY <1>1, <1>2, LeastExists

\* It needs the values behind only.
LEMMA StripLocal ==
  ASSUME NEW s, Len(s) \in Nat, NEW i \in 1..Len(s) + 1, NEW f, NEW g,
         \A k \in i + 1..Len(s) + 1 : f[k] = g[k]
  PROVE  Strip(s, f, i) = Strip(s, g, i)
<1>1. CASE i > Len(s)
  BY <1>1 DEF Strip, Two
<1>2. CASE i <= Len(s)
  <2>1. i \in 1..Len(s) /\ f[i + 1] = g[i + 1]
    BY <1>2
  <2>2. Newlines(s, i) # {} => f[Least(Newlines(s, i)) + 1] = g[Least(Newlines(s, i)) + 1]
    BY <2>1, StripTargets
  <2>3. CommentEnds(s, i) # {} => f[Least(CommentEnds(s, i)) + 2] = g[Least(CommentEnds(s, i)) + 2]
    BY <2>1, StripTargets
  <2> QED  BY <2>1, <2>2, <2>3 DEF Strip
<1> QED  BY <1>1, <1>2

LEMMA StripsExists == ASSUME NEW s, Len(s) \in Nat PROVE \E f : Strips(f, s)
<1> DEFINE n == Len(s)
           Down(g, m) == \A i \in n + 1 - m..n + 1 : g[i] = Strip(s, g, i)
           H == {m \in Nat : m <= n => \E g : Down(g, m)}
<1>1. 0 \in H
  <2> DEFINE g == [i \in n + 1..n + 1 |-> n + 1]
  <2>1. g[n + 1] = n + 1 /\ Strip(s, g, n + 1) = n + 1
    BY DEF Strip, Two
  <2> HIDE DEF g
  <2>2. \A i \in n + 1 - 0..n + 1 : i = n + 1
    OBVIOUS
  <2> QED  BY <2>1, <2>2
<1>2. ASSUME NEW m \in Nat, m \in H PROVE m + 1 \in H
  <2> SUFFICES ASSUME m + 1 <= n PROVE \E h : Down(h, m + 1)
    OBVIOUS
  <2>1. PICK g : Down(g, m)
    BY <1>2
  <2> DEFINE l == n - m
             h == [i \in l..n + 1 |-> IF i = l THEN Strip(s, g, l) ELSE g[i]]
  <2>2. l \in 1..n + 1 /\ n + 1 - (m + 1) = l /\ n + 1 - m = l + 1
    OBVIOUS
  <2>3. h[l] = Strip(s, g, l) /\ \A k \in l + 1..n + 1 : h[k] = g[k]
    BY <2>2
  <2>4. \A k \in l + 1..n + 1 : g[k] = Strip(s, g, k)
    BY <2>1, <2>2
  <2> HIDE DEF h, l
  <2>5. ASSUME NEW i \in l..n + 1 PROVE h[i] = Strip(s, h, i)
    <3>1. i \in 1..n + 1 /\ \A k \in i + 1..n + 1 : h[k] = g[k]
      BY <2>2, <2>3
    <3>2. Strip(s, h, i) = Strip(s, g, i)
      BY <3>1, StripLocal
    <3>3. i = l \/ i \in l + 1..n + 1
      BY <2>2
    <3> QED  BY <2>3, <2>4, <3>2, <3>3
  <2> QED  BY <2>2, <2>5
<1>3. n \in H
  <2> HIDE DEF H
  <2> QED  BY <1>1, <1>2, CountingUp
<1>4. PICK g : Down(g, n)
  BY <1>3
<1> DEFINE f == [i \in 1..n + 1 |-> g[i]]
<1>5. \A i \in 1..n + 1 : f[i] = g[i] /\ g[i] = Strip(s, g, i)
  BY <1>4
<1>6. ASSUME NEW i \in 1..n + 1 PROVE f[i] = Strip(s, f, i)
  <2> HIDE DEF f
  <2>1. \A k \in i + 1..n + 1 : f[k] = g[k]
    BY <1>5
  <2>2. Strip(s, f, i) = Strip(s, g, i)
    BY <2>1, StripLocal
  <2> QED  BY <1>5, <2>2
<1>7. f = [i \in 1..n + 1 |-> Strip(s, f, i)]
  <2>1. f = [i \in 1..n + 1 |-> f[i]]
    OBVIOUS
  <2> HIDE DEF f
  <2> QED  BY <1>6, <2>1
<1> QED  BY <1>7 DEF Strips

LEMMA ProbeUnfolds ==
  ASSUME NEW s, Len(s) \in Nat
  PROVE  \E f : Probe(s) = f[1] /\ \A i \in 1..Len(s) + 1 : f[i] = Strip(s, f, i)
<1> DEFINE f == CHOOSE g : Strips(g, s)
<1>1. Strips(f, s)
  BY StripsExists, Zenon
<1>2. Probe(s) = f[1]
  BY ProbeIs
<1> HIDE DEF f
<1>3. \A i \in 1..Len(s) + 1 : f[i] = Strip(s, f, i)
  BY <1>1 DEF Strips
<1> QED  BY <1>2, <1>3

\* s is the n characters of the text from a on, up to a terminator or the end.
Piece(s, a, n) ==
  /\ n \in Nat /\ a \in Nat /\ a >= 1 /\ Len(s) = n /\ a + n <= Len(text) + 1
  /\ \A k \in 1..n : s[k] = text[a + k - 1]
  /\ a + n = Len(text) + 1 \/ (a + n - 1 \in PgTokens /\ text[a + n - 1] = ";")

\* A token of a piece ends in it.
LEMMA EndsInPiece ==
  ASSUME Typed, NEW s, NEW a, NEW n, Piece(s, a, n), NEW t \in PgTokens, t <= a + n - 1
  PROVE  PgEnd(t) <= a + n /\ PgEnd(t) \in t + 1..Len(text) + 1 /\ t \in 1..Len(text)
<1>0. /\ n \in Nat /\ a \in Nat /\ Len(text) \in Nat /\ a + n <= Len(text) + 1
      /\ t \in 1..Len(text) /\ PgEnd(t) \in t + 1..Len(text) + 1
  BY NextToken DEF Piece, Typed
<1>4. PgEnd(t) \in Nat
  BY <1>0
<1>1. CASE a + n = Len(text) + 1
  BY <1>0, <1>1
<1>2. CASE a + n - 1 \in PgTokens /\ text[a + n - 1] = ";"
  <2> DEFINE z == a + n - 1
  <2>1. z \in PgTokens /\ z \in 1..Len(text) /\ text[z] = ";"
    BY <1>2, TokenInText
  <2>2. PgEnd(z) = z + 1
    <3>1. ~LineAt(z) /\ ~BlockAt(z) /\ text[z] \notin Identifier \cup {"q", "d"} /\ text[z] # "$"
      BY <2>1 DEF LineAt, BlockAt, At, Identifier
    <3> HIDE DEF z
    <3>2. PgTag(z) = <<>>
      BY <3>1, NoTag, Zenon
    <3> QED  BY <2>1, <3>1, <3>2, SingleEnds
  <2>3. z + 1 = a + n /\ (t = z \/ t < z) /\ z \in Int
    BY <1>0
  <2> HIDE DEF z
  <2>4. t = z => PgEnd(t) <= a + n
    BY <2>2, <2>3
  <2>5. ASSUME t < z PROVE PgEnd(t) <= a + n
    <3>1. PgEnd(t) <= z
      BY <2>1, <2>5, TokensApart
    <3> QED  BY <1>4, <2>3, <3>1
  <2>6. PgEnd(t) <= a + n
    BY <2>3, <2>4, <2>5
  <2> QED  BY <1>0, <2>6, Zenon
<1> QED  BY <1>1, <1>2 DEF Piece

\* The end of a comment, as the least of the ends behind its beginning.
LEMMA LineLeast ==
  ASSUME Typed, NEW t \in 1..Len(text), LineAt(t)
  PROVE  \/ Later(t, "nl") = {} /\ PgEnd(t) = Len(text) + 1
         \/ \E m \in Later(t, "nl") : PgEnd(t) = m + 1 /\ \A y \in Later(t, "nl") : m <= y
<1>1. PgEnd(t) = After(Later(t, "nl"), 1)
  BY EndCases, NoTag DEF LineAt, BlockAt, At, Identifier
<1>2. Later(t, "nl") \in SUBSET Nat
  BY DEF Later
<1> QED  BY <1>1, <1>2, AfterLeast

LEMMA BlockLeast ==
  ASSUME Typed, NEW t \in 1..Len(text), BlockAt(t)
  PROVE  \/ BlockEndsFrom(t) = {} /\ PgEnd(t) = Len(text) + 1
         \/ \E m \in BlockEndsFrom(t) : PgEnd(t) = m + 2 /\ \A y \in BlockEndsFrom(t) : m <= y
<1>1. PgEnd(t) = After(BlockEndsFrom(t), 2)
  BY EndCases, NoTag DEF LineAt, BlockAt, At, Identifier
<1>2. BlockEndsFrom(t) \in SUBSET Nat
  BY DEF BlockEndsFrom
<1> QED  BY <1>1, <1>2, AfterLeast

\* At a token finalize_statement goes on behind it when it is blank.
LEMMA StripToken ==
  ASSUME Typed, Plain, NEW s, NEW a, NEW n, Piece(s, a, n), NEW f,
         \A i \in 1..n + 1 : f[i] = Strip(s, f, i),
         NEW k \in 1..n, a + k - 1 \in PgTokens
  PROVE  f[k] = IF PgBlank(a + k - 1) THEN f[PgEnd(a + k - 1) - a + 1] ELSE k
<1> DEFINE t == a + k - 1
           e == PgEnd(t)
<1>0. /\ n \in Nat /\ a \in Nat /\ a >= 1 /\ Len(text) \in Nat /\ a + n <= Len(text) + 1 /\ Len(s) = n
      /\ DOMAIN text = 1..Len(text) /\ k \in 1..Len(s)
  BY DEF Piece, Typed
<1>1. t \in PgTokens /\ t \in 1..Len(text) /\ t <= a + n - 1 /\ e <= a + n /\ e \in t + 1..Len(text) + 1
  <2>1. t <= a + n - 1
    BY <1>0
  <2> QED  BY <2>1, EndsInPiece
<1>2. \A j \in 1..n : s[j] = text[a + j - 1] /\ a + j - 1 \in 1..Len(text)
  <2>1. \A j \in 1..n : s[j] = text[a + j - 1]
    BY DEF Piece
  <2>2. \A j \in 1..n : a + j - 1 \in 1..Len(text)
    BY <1>0
  <2> QED  BY <2>1, <2>2
<1>3. f[k] = Strip(s, f, k) /\ f[n + 1] = n + 1
  <2>1. k \in 1..n + 1 /\ n + 1 \in 1..n + 1
    BY <1>0
  <2>2. Strip(s, f, n + 1) = n + 1
    BY <1>0 DEF Strip, Two
  <2> QED  BY <2>1, <2>2
<1>4. /\ Two(s, "-", "-", k) => LineAt(t)
      /\ Two(s, "/", "*", k) => BlockAt(t)
      /\ s[k] = text[t]
  <2>1. k < n => k + 1 \in 1..n /\ a + (k + 1) - 1 = t + 1
    BY <1>0
  <2> QED  BY <1>0, <1>2, <2>1 DEF Two, LineAt, BlockAt, At
<1>5. CASE text[t] = "nl"
  <2>1. ~LineAt(t) /\ ~BlockAt(t) /\ text[t] \notin Identifier \cup {"q", "d"} /\ text[t] # "$" /\ PgBlank(t)
    BY <1>5 DEF LineAt, BlockAt, At, Identifier, PgBlank
  <2>2. PgTag(t) = <<>>
    BY <2>1, NoTag, Zenon
  <2>3. e = t + 1
    BY <1>1, <2>1, <2>2, SingleEnds
  <2>4. Strip(s, f, k) = f[k + 1]
    BY <1>0, <1>4, <1>5 DEF Strip, Two
  <2>5. e - a + 1 = k + 1
    BY <1>0, <2>3
  <2> QED  BY <1>3, <2>1, <2>4, <2>5
<1>6. CASE LineAt(t)
  <2> DEFINE N == Newlines(s, k)
  <2>1. text[t] = "-" /\ PgBlank(t) /\ e >= t + 2
    <3>1. e \in t + 2..Len(text) + 1
      BY <1>1, <1>6, LineEnds
    <3> QED  BY <1>0, <1>6, <3>1 DEF LineAt, At, PgBlank
  <2>2. Two(s, "-", "-", k)
    <3>1. k < n /\ k + 1 \in 1..n /\ a + (k + 1) - 1 = t + 1
      BY <1>0, <1>1, <2>1
    <3> QED  BY <1>0, <1>2, <1>4, <1>6, <3>1 DEF Two, LineAt, At
  <2>3. Strip(s, f, k) = IF N = {} THEN n + 1 ELSE f[Least(N) + 1]
    BY <1>0, <1>4, <2>1, <2>2 DEF Strip, Two
  <2>4. \A j : j \in N => j \in k + 1..n /\ a + j - 1 \in Later(t, "nl")
    <3>1. ASSUME NEW j \in N PROVE j \in k + 1..n /\ a + j - 1 \in Later(t, "nl")
      <4>1. j \in k..n /\ s[j] = "nl"
        BY <1>0 DEF Newlines
      <4>2. j # k
        BY <1>4, <2>1, <4>1
      <4>3. j \in k + 1..n /\ j \in 1..n /\ a + j - 1 \in t + 1..Len(text)
        BY <1>0, <4>1, <4>2
      <4> QED  BY <1>2, <4>1, <4>3 DEF Later
    <3> QED  BY <3>1
  <2>5. CASE Later(t, "nl") = {} /\ e = Len(text) + 1
    <3>1. N = {} /\ e = a + n /\ e - a + 1 = n + 1
      BY <1>0, <1>1, <2>4, <2>5
    <3> QED  BY <1>3, <2>1, <2>3, <3>1
  <2>6. ASSUME NEW m \in Later(t, "nl"), e = m + 1, \A y \in Later(t, "nl") : m <= y
        PROVE  f[k] = f[e - a + 1]
    <3>1. m \in t + 1..Len(text) /\ text[m] = "nl"
      BY DEF Later
    <3> DEFINE i == m - a + 1
    <3>2. i \in k..n /\ i \in 1..n /\ a + i - 1 = m /\ e - a + 1 = i + 1
      BY <1>0, <1>1, <2>6, <3>1
    <3> HIDE DEF i
    <3>3. i \in N
      BY <1>0, <1>2, <3>1, <3>2 DEF Newlines
    <3>4. Least(N) \in N /\ Least(N) \in k..n /\ Least(N) <= i
      BY <1>0, <3>3, StripTargets
    <3>5. m <= a + Least(N) - 1
      BY <2>4, <2>6, <3>4
    <3>6. Least(N) = i
      <4> HIDE DEF N
      <4> QED  BY <1>0, <3>1, <3>2, <3>4, <3>5
    <3> QED  BY <1>3, <2>3, <3>2, <3>3, <3>6
  <2>7. f[k] = f[e - a + 1]
    BY <1>1, <1>6, <2>1, <2>5, <2>6, LineLeast
  <2> QED  BY <2>1, <2>7
<1>7. CASE BlockAt(t)
  <2> DEFINE C == CommentEnds(s, k)
  <2>1. text[t] = "/" /\ PgBlank(t) /\ e >= t + 2
    <3>1. e \in t + 2..Len(text) + 1
      BY <1>1, <1>7, BlockEnds
    <3> QED  BY <1>0, <1>7, <3>1 DEF BlockAt, At, PgBlank
  <2>2. Two(s, "/", "*", k)
    <3>1. k < n /\ k + 1 \in 1..n /\ a + (k + 1) - 1 = t + 1
      BY <1>0, <1>1, <2>1
    <3> QED  BY <1>0, <1>2, <1>4, <1>7, <3>1 DEF Two, BlockAt, At
  <2>3. Strip(s, f, k) = IF C = {} THEN n + 1 ELSE f[Least(C) + 2]
    BY <1>0, <1>4, <2>1, <2>2 DEF Strip, Two
  <2>4. ASSUME NEW j \in C PROVE j \in k + 2..n - 1 /\ a + j - 1 \in BlockEndsFrom(t)
    <3>1. j \in k..n /\ j < n /\ s[j] = "*" /\ s[j + 1] = "/"
      BY <1>0 DEF CommentEnds, Two
    <3>2. j \in 1..n /\ j + 1 \in 1..n /\ a + (j + 1) - 1 = a + j - 1 + 1
      BY <1>0, <3>1
    <3>3. BlockEnd(a + j - 1)
      BY <1>0, <1>2, <3>1, <3>2 DEF BlockEnd, At
    <3>4. j # k
      BY <1>4, <2>1, <3>1
    <3>5. j # k + 1
      <4> SUFFICES ASSUME j = k + 1 PROVE FALSE
        OBVIOUS
      <4>1. a + j - 1 + 1 = t + 2
        BY <1>0
      <4>2. At(t + 2, "/")
        BY <3>3, <4>1 DEF BlockEnd
      <4> QED  BY <1>1, <1>7, <4>2 DEF Plain, BlockAt
    <3>6. j \in k + 2..n - 1 /\ a + j - 1 \in t + 2..Len(text)
      BY <1>0, <3>1, <3>4, <3>5
    <3> QED  BY <3>3, <3>6 DEF BlockEndsFrom
  <2>5. CASE BlockEndsFrom(t) = {} /\ e = Len(text) + 1
    <3>1. C = {} /\ e = a + n /\ e - a + 1 = n + 1
      BY <1>0, <1>1, <2>4, <2>5
    <3> QED  BY <1>3, <2>1, <2>3, <3>1
  <2>6. ASSUME NEW m \in BlockEndsFrom(t), e = m + 2, \A y \in BlockEndsFrom(t) : m <= y
        PROVE  f[k] = f[e - a + 1]
    <3>1. m \in t + 2..Len(text) /\ text[m] = "*" /\ text[m + 1] = "/" /\ m + 1 <= Len(text)
      BY <1>0 DEF BlockEndsFrom, BlockEnd, At
    <3> DEFINE i == m - a + 1
    <3>2. i \in k..n /\ i \in 1..n /\ i < n /\ a + i - 1 = m /\ e - a + 1 = i + 2
          /\ i + 1 \in 1..n /\ a + (i + 1) - 1 = m + 1
      BY <1>0, <1>1, <2>6, <3>1
    <3> HIDE DEF i
    <3>3. i \in C
      <4>1. s[i] = "*" /\ s[i + 1] = "/"
        BY <1>2, <3>1, <3>2
      <4> QED  BY <1>0, <3>2, <4>1 DEF CommentEnds, Two
    <3>4. Least(C) \in C /\ Least(C) \in k..n - 1 /\ Least(C) <= i
      BY <1>0, <3>3, StripTargets
    <3>5. m <= a + Least(C) - 1
      BY <2>4, <2>6, <3>4
    <3>6. Least(C) = i
      <4> HIDE DEF C
      <4> QED  BY <1>0, <3>1, <3>2, <3>4, <3>5
    <3> QED  BY <1>3, <2>3, <3>2, <3>3, <3>6
  <2>7. f[k] = f[e - a + 1]
    BY <1>1, <1>7, <2>1, <2>5, <2>6, BlockLeast
  <2> QED  BY <2>1, <2>7
<1>8. CASE text[t] # "nl" /\ ~LineAt(t) /\ ~BlockAt(t)
  <2>1. ~PgBlank(t)
    BY <1>8 DEF PgBlank, LineAt, BlockAt
  <2>2. Strip(s, f, k) = k
    BY <1>0, <1>4, <1>8 DEF Strip
  <2> QED  BY <1>3, <2>1, <2>2
<1> QED  BY <1>5, <1>6, <1>7, <1>8

\* What finalize_statement leaves of a piece begins at its first token that is
\* not blank.
ProbesAt(s, a, n, r) ==
  /\ r \in 1..n + 1 /\ Probe(s) = r
  /\ \A t \in PgTokens : a <= t /\ t < a + r - 1 => PgBlank(t)
  /\ r <= n => a + r - 1 \in PgTokens /\ ~PgBlank(a + r - 1)

LEMMA ProbeAt ==
  ASSUME Typed, Plain, NEW s, NEW a, NEW n, Piece(s, a, n), n = 0 \/ a \in PgTokens
  PROVE  \E r : ProbesAt(s, a, n, r)
<1>0. n \in Nat /\ a \in Nat /\ a >= 1 /\ Len(text) \in Nat /\ a + n <= Len(text) + 1 /\ Len(s) = n
  BY DEF Piece, Typed
<1>1. PICK f : Probe(s) = f[1] /\ \A i \in 1..n + 1 : f[i] = Strip(s, f, i)
  BY <1>0, ProbeUnfolds
<1> DEFINE Good(k, r) ==
             /\ r \in k..n + 1 /\ f[k] = r
             /\ \A t \in PgTokens : a + k - 1 <= t /\ t < a + r - 1 => PgBlank(t)
             /\ r <= n => a + r - 1 \in PgTokens /\ ~PgBlank(a + r - 1)
           Begun(k) == k = n + 1 \/ a + k - 1 \in PgTokens
           H == {m \in Nat : \A k \in 1..n + 1 : n + 1 - m <= k /\ Begun(k) => \E r : Good(k, r)}
<1>2. \A t \in PgTokens : t \in Nat
  BY <1>0, TokenInText
<1>3. 0 \in H
  <2>1. f[n + 1] = n + 1
    <3>1. Strip(s, f, n + 1) = n + 1
      BY <1>0 DEF Strip, Two
    <3> QED  BY <1>0, <1>1, <3>1
  <2>2. Good(n + 1, n + 1)
    BY <1>0, <1>2, <2>1
  <2>3. \A k \in 1..n + 1 : n + 1 - 0 <= k => k = n + 1
    BY <1>0
  <2> HIDE DEF Good
  <2> QED  BY <2>2, <2>3
<1>4. ASSUME NEW m \in 0..n - 1, m \in H PROVE m + 1 \in H
  <2> DEFINE l == n - m
             t == a + l - 1
             e == PgEnd(t)
             k == e - a + 1
  <2>0. l \in 1..n /\ l \in 1..n + 1 /\ n + 1 - (m + 1) = l /\ n + 1 - m = l + 1 /\ m + 1 \in Nat
    BY <1>0
  <2>1. SUFFICES ASSUME t \in PgTokens PROVE \E r : Good(l, r)
    <3>1. \A i \in 1..n + 1 : n + 1 - (m + 1) <= i => i = l \/ n + 1 - m <= i
      BY <1>0
    <3>2. Begun(l) => t \in PgTokens
      <4>1. l # n + 1
        BY <1>0
      <4> QED  BY <4>1
    <3>3. \A i \in 1..n + 1 : n + 1 - m <= i /\ Begun(i) => \E r : Good(i, r)
      BY <1>4
    <3> HIDE DEF Good, Begun, t, l
    <3> QED  BY <2>0, <2>1, <3>1, <3>2, <3>3
  <2>2. f[l] = IF PgBlank(t) THEN f[k] ELSE l
    <3> HIDE DEF l
    <3> QED  BY <1>0, <1>1, <2>0, <2>1, StripToken
  <2>3. CASE ~PgBlank(t)
    <3>1. f[l] = l /\ ~PgBlank(a + l - 1) /\ a + l - 1 \in PgTokens /\ l \in l..n + 1
      BY <2>0, <2>1, <2>2, <2>3
    <3>2. \A u \in PgTokens : ~(a + l - 1 <= u /\ u < a + l - 1)
      BY <1>0, <1>2
    <3> HIDE DEF l
    <3>3. Good(l, l)
      BY <3>1, <3>2
    <3> QED  BY <3>3
  <2>4. CASE PgBlank(t)
    <3>1. t <= a + n - 1
      BY <1>0, <2>0
    <3>2. e <= a + n /\ e \in t + 1..Len(text) + 1 /\ (e <= Len(text) => e \in PgTokens)
      <4> HIDE DEF t
      <4> QED  BY <2>1, <3>1, EndsInPiece, NextToken
    <3> HIDE DEF e
    <3>3. k \in l + 1..n + 1 /\ a + k - 1 = e /\ k \in 1..n + 1 /\ n + 1 - m <= k
      BY <1>0, <2>0, <3>2
    <3>4. Begun(k)
      <4>1. CASE e <= Len(text)
        BY <3>2, <3>3, <4>1
      <4>2. CASE ~(e <= Len(text))
        BY <1>0, <3>2, <4>2
      <4> QED  BY <4>1, <4>2
    <3>5. PICK r : Good(k, r)
      <4> HIDE DEF Good, Begun, k
      <4> QED  BY <1>4, <3>3, <3>4
    <3>6. f[l] = r /\ r \in k..n + 1 /\ (r <= n => a + r - 1 \in PgTokens /\ ~PgBlank(a + r - 1))
      BY <2>2, <2>4, <3>5
    <3>7. ASSUME NEW u \in PgTokens, a + l - 1 <= u, u < a + r - 1 PROVE PgBlank(u)
      <4>1. CASE u = t
        BY <2>4, <4>1
      <4>2. CASE u # t
        <5>1. t < u
          BY <1>0, <1>2, <2>0, <3>7, <4>2
        <5>2. e <= u
          <6> HIDE DEF t
          <6> QED  BY <2>1, <5>1, TokensApart DEF e
        <5>3. a + k - 1 <= u
          BY <3>3, <5>2
        <5> HIDE DEF k
        <5> QED  BY <3>5, <3>7, <5>3
      <4> QED  BY <4>1, <4>2
    <3>8. r \in l..n + 1
      BY <1>0, <2>0, <3>3, <3>6
    <3> HIDE DEF l, k
    <3>9. Good(l, r)
      BY <3>6, <3>7, <3>8
    <3> QED  BY <3>9
  <2> QED  BY <2>3, <2>4
<1>5. n \in H
  <2> HIDE DEF H
  <2> QED  BY <1>0, <1>3, <1>4, CountingUp
<1>6. 1 \in 1..n + 1 /\ n + 1 - n <= 1 /\ Begun(1)
  BY <1>0
<1>7. PICK r : Good(1, r)
  <2> HIDE DEF Good, Begun
  <2> QED  BY <1>5, <1>6
<1>8. a + 1 - 1 = a
  BY <1>0
<1>9. ProbesAt(s, a, n, r)
  BY <1>1, <1>7, <1>8 DEF ProbesAt
<1> QED  BY <1>9

-----------------------------------------------------------------------------
(* The statements.                                                         *)

\* The reference is a function of the text.
LEMMA SameReference ==
  ASSUME text' = text
  PROVE  /\ Plain' = Plain /\ PgBoundaries' = PgBoundaries /\ PgHeads' = PgHeads
         /\ Typed' = Typed /\ \A s : TextOf(s)' = TextOf(s)
<1>1. PgTokens' = PgTokens /\ \A i : PgEnd(i)' = PgEnd(i)
  BY SameTokens
<1>2. \A i : PgTag(i)' = PgTag(i)
  BY DEF PgTag, At, Least
<1>3. PgBoundaries' = PgBoundaries
  BY <1>1 DEF PgBoundaries
<1>4. Delimited' = Delimited
  BY <1>1, <1>2 DEF Delimited, At
<1>5. Plain' = Plain
  BY <1>1, <1>4 DEF Plain, At
<1>6. PgHeads' = PgHeads
  <2>1. \A i : PgBlank(i)' = PgBlank(i)
    BY DEF PgBlank, At
  <2> QED  BY <1>1, <1>3, <2>1 DEF PgHeads
<1>7. Typed' = Typed /\ \A s : TextOf(s)' = TextOf(s)
  BY DEF Typed, TextOf
<1> QED  BY <1>3, <1>5, <1>6, <1>7

\* Counting from a, and on from where one stopped.
LEMMA CountFrom ==
  ASSUME NEW a \in Nat, NEW p \in Nat, NEW n \in Nat
  PROVE  [k \in 1..p |-> a + k - 1] \o [k \in 1..n |-> a + p + k - 1] = [k \in 1..p + n |-> a + k - 1]
<1> DEFINE t == [k \in 1..p |-> a + k - 1]
           s == [k \in 1..n |-> a + p + k - 1]
           u == t \o s
<1>1. t \in Seq(Int) /\ s \in Seq(Int) /\ Len(t) = p /\ Len(s) = n
  OBVIOUS
<1>2. /\ u \in Seq(Int) /\ Len(u) = p + n
      /\ \A i \in 1..p + n : u[i] = IF i <= p THEN t[i] ELSE s[i - p]
  <2> HIDE DEF s, t
  <2>1. /\ u \in Seq(Int) /\ Len(u) = Len(t) + Len(s)
        /\ \A i \in 1..Len(t) + Len(s) : u[i] = IF i <= Len(t) THEN t[i] ELSE s[i - Len(t)]
    BY <1>1, ConcatProperties, Zenon
  <2> QED  BY <1>1, <2>1
<1>3. ASSUME NEW i \in 1..p + n PROVE u[i] = a + i - 1
  <2> HIDE DEF u
  <2>1. u[i] = IF i <= p THEN t[i] ELSE s[i - p]
    BY <1>2
  <2>2. CASE i <= p
    <3>1. i \in 1..p
      BY <2>2
    <3> QED  BY <2>1, <2>2, <3>1
  <2>3. CASE ~(i <= p)
    <3>1. i - p \in 1..n
      BY <2>3
    <3>2. s[i - p] = a + i - 1
      BY <3>1
    <3> QED  BY <2>1, <2>3, <3>2
  <2> QED  BY <2>2, <2>3
<1>4. DOMAIN u = 1..p + n /\ u = [i \in DOMAIN u |-> u[i]]
  <2> HIDE DEF u
  <2> QED  BY <1>2
<1> HIDE DEF u
<1>5. u = [k \in 1..p + n |-> a + k - 1]
  BY <1>3, <1>4
<1> QED  BY <1>5 DEF u

\* A finished statement adds its own cut and its own head.
LEMMA AppendAdds ==
  ASSUME TypeOK, text' = text, NEW e, stmts' = Append(stmts, e)
  PROVE  /\ Cuts' = Cuts \cup (IF e.closed THEN {e.at[Len(e.at)]} ELSE {})
         /\ TrustedHeads' = TrustedHeads \cup (IF e.trusted THEN {e.at[Probe(TextOf(e.at))]} ELSE {})
<1> DEFINE n == Len(stmts)
           cut(w) == w.at[Len(w.at)]
           head(w) == w.at[Probe(TextOf(w.at))]
<1>1. n \in Nat /\ DOMAIN stmts = 1..n
  BY DEF TypeOK
<1>2. /\ DOMAIN stmts' = 1..n + 1 /\ stmts'[n + 1] = e
      /\ \A k \in 1..n : stmts'[k] = stmts[k]
  BY <1>1 DEF TypeOK
<1>3. \A k : k \in 1..n + 1 <=> k \in 1..n \/ k = n + 1
  BY <1>1
<1>4. \A s : TextOf(s)' = TextOf(s)
  BY SameReference
<1>5. \A c : c \in Cuts <=> \E k \in 1..n : stmts[k].closed /\ c = cut(stmts[k])
  BY <1>1 DEF Cuts
<1>6. \A c : c \in Cuts' <=> \E k \in 1..n + 1 : stmts'[k].closed /\ c = cut(stmts'[k])
  BY <1>2 DEF Cuts
<1>7. \A h : h \in TrustedHeads <=> \E k \in 1..n : stmts[k].trusted /\ h = head(stmts[k])
  BY <1>1 DEF TrustedHeads
<1>8. \A h : h \in TrustedHeads' <=> \E k \in 1..n + 1 : stmts'[k].trusted /\ h = head(stmts'[k])
  BY <1>2, <1>4 DEF TrustedHeads
<1> HIDE DEF cut, head, n
<1>9. \A c : c \in Cuts' <=> c \in Cuts \/ (e.closed /\ c = cut(e))
  BY <1>2, <1>3, <1>5, <1>6
<1>10. \A h : h \in TrustedHeads' <=> h \in TrustedHeads \/ (e.trusted /\ h = head(e))
  BY <1>2, <1>3, <1>7, <1>8
<1>11. Cuts' = Cuts \cup (IF e.closed THEN {cut(e)} ELSE {})
  BY <1>9
<1>12. TrustedHeads' = TrustedHeads \cup (IF e.trusted THEN {head(e)} ELSE {})
  BY <1>10
<1> QED  BY <1>11, <1>12 DEF cut, head

LEMMA BoundaryInText ==
  ASSUME Typed, NEW c \in PgBoundaries
  PROVE  c \in Nat /\ c >= 1
<1>1. c \in PgTokens
  BY DEF PgBoundaries
<1>2. c \in 1..Len(text) /\ Len(text) \in Nat
  BY <1>1, TokenInText DEF Typed
<1> QED  BY <1>2

LEMMA BoundaryEnds ==
  ASSUME Typed, NEW z \in PgBoundaries
  PROVE  z \in PgTokens /\ z \in 1..Len(text) /\ text[z] = ";" /\ PgEnd(z) = z + 1 /\ ~PgBlank(z)
<1>1. z \in PgTokens /\ z \in 1..Len(text) /\ text[z] = ";"
  BY TokenInText DEF PgBoundaries
<1>2. ~LineAt(z) /\ ~BlockAt(z) /\ text[z] \notin Identifier \cup {"q", "d"} /\ text[z] # "$" /\ ~PgBlank(z)
  BY <1>1 DEF LineAt, BlockAt, At, Identifier, PgBlank
<1>3. PgTag(z) = <<>>
  BY <1>2, NoTag, Zenon
<1> QED  BY <1>1, <1>2, <1>3, SingleEnds

\* The n characters from a on are a statement: nothing before a terminator or
\* behind the last one is left out, and it holds no terminator but its last.
Statement(a, n, closed) ==
  /\ a \in Nat /\ a >= 1 /\ n \in Nat /\ a + n <= Len(text) + 1
  /\ a = 1 \/ a - 1 \in PgBoundaries
  /\ closed => n >= 1 /\ a + n - 1 \in PgBoundaries
  /\ ~closed => a + n = Len(text) + 1
  /\ \A c \in PgBoundaries : a <= c /\ c < a + n => closed /\ c = a + n - 1

LEMMA StatementBegins ==
  ASSUME Typed, NEW a, NEW n, NEW closed, Statement(a, n, closed), n # 0
  PROVE  a \in PgTokens
<1>1. a \in 1..Len(text) /\ Len(text) \in Nat
  BY DEF Statement, Typed
<1>2. CASE a = 1
  BY <1>1, <1>2, TokenChain
<1>3. CASE a - 1 \in PgBoundaries
  <2> DEFINE z == a - 1
  <2>1. z + 1 = a
    BY <1>1
  <2>2. z \in PgBoundaries
    BY <1>3
  <2> HIDE DEF z
  <2>3. z \in PgTokens /\ PgEnd(z) = a
    BY <2>1, <2>2, BoundaryEnds
  <2>4. a <= Len(text)
    BY <1>1
  <2> QED  BY <2>3, <2>4, NextToken
<1> QED  BY <1>2, <1>3 DEF Statement

\* The one head a statement can have is the first token that is not blank.
LEMMA HeadOf ==
  ASSUME Typed, NEW a, NEW n, NEW closed, Statement(a, n, closed), NEW s, NEW r, ProbesAt(s, a, n, r),
         NEW h
  PROVE  (h \in PgHeads /\ a <= h /\ h < a + n) <=> (r <= n /\ h = a + r - 1 /\ text[h] = "HEAD")
<1> DEFINE p == a + r - 1
<1>0. a \in Nat /\ a >= 1 /\ n \in Nat /\ r \in 1..n + 1 /\ p \in Nat /\ Len(text) \in Nat
  BY DEF Statement, ProbesAt, Typed
<1>1. \A t \in PgTokens : t \in Nat /\ t >= 1
  BY <1>0, TokenInText
<1>2. /\ \A t \in PgTokens : a <= t /\ t < p => PgBlank(t)
      /\ r <= n => p \in PgTokens /\ ~PgBlank(p)
  BY DEF ProbesAt
<1>3. ASSUME h \in PgHeads, a <= h, h < a + n PROVE r <= n /\ h = p /\ text[h] = "HEAD"
  <2>1. h \in PgTokens /\ text[h] = "HEAD"
        /\ \A i \in PgTokens : i < h => PgBlank(i) \/ \E c \in PgBoundaries : i <= c /\ c < h
    BY <1>3 DEF PgHeads
  <2>2. ~PgBlank(h)
    BY <2>1 DEF PgBlank, At
  <2>3. ~(h < p) /\ h \in Nat
    BY <1>1, <1>2, <1>3, <2>1, <2>2
  <2>4. r <= n
    BY <1>0, <1>3, <2>3
  <2>5. ~(p < h)
    <3> SUFFICES ASSUME p < h PROVE FALSE
      OBVIOUS
    <3>1. PICK c \in PgBoundaries : p <= c /\ c < h
      <4> HIDE DEF p
      <4> QED  BY <1>2, <2>1, <2>4
    <3>2. c \in Nat
      BY <1>1 DEF PgBoundaries
    <3>3. a <= c /\ c < a + n /\ c # a + n - 1
      BY <1>0, <1>3, <2>3, <3>1, <3>2
    <3> QED  BY <3>3 DEF Statement
  <2> QED  BY <1>0, <2>1, <2>3, <2>4, <2>5
<1>4. ASSUME r <= n, h = p, text[h] = "HEAD" PROVE h \in PgHeads /\ a <= h /\ h < a + n
  <2>1. h \in PgTokens
    BY <1>2, <1>4
  <2>2. a <= h /\ h < a + n
    BY <1>0, <1>4
  <2>3. ASSUME NEW i \in PgTokens, i < h PROVE PgBlank(i) \/ \E c \in PgBoundaries : i <= c /\ c < h
    <3>1. CASE a <= i
      BY <1>2, <1>4, <2>3, <3>1
    <3>2. CASE ~(a <= i)
      <4>1. a # 1
        BY <1>1, <3>2
      <4>2. a - 1 \in PgBoundaries
        BY <4>1 DEF Statement
      <4>3. i <= a - 1 /\ a - 1 < h
        BY <1>0, <1>1, <1>4, <2>2, <3>2
      <4> QED  BY <4>2, <4>3
    <3> QED  BY <3>1, <3>2
  <2> QED  BY <1>4, <2>1, <2>2, <2>3 DEF PgHeads
<1> QED  BY <1>3, <1>4

\* A statement is finished with its terminator and its head.
LEMMA Finalized ==
  ASSUME Typed, TypeOK, Plain, text' = text, NEW a, NEW n, NEW closed \in BOOLEAN, Statement(a, n, closed),
         Cuts = {c \in PgBoundaries : c < a}, TrustedHeads = {h \in PgHeads : h < a},
         NEW q, q = [k \in 1..n |-> a + k - 1], stmts' = Finalize(q, closed)
  PROVE  /\ Cuts' = {c \in PgBoundaries : c < a + n}
         /\ TrustedHeads' = {h \in PgHeads : h < a + n}
<1> DEFINE s == TextOf(q)
           z == a + n - 1
<1>0. a \in Nat /\ a >= 1 /\ n \in Nat /\ Len(text) \in Nat /\ a + n <= Len(text) + 1
  BY DEF Statement, Typed
<1>1. DOMAIN q = 1..n /\ Len(q) = n /\ \A k \in 1..n : q[k] = a + k - 1
  BY <1>0
<1>2. Len(s) = n /\ \A k \in 1..n : s[k] = text[a + k - 1]
  BY <1>0, <1>1 DEF TextOf
<1> HIDE DEF s
<1>3. Piece(s, a, n)
  <2>1. closed => z \in PgTokens /\ text[z] = ";"
    BY BoundaryEnds DEF Statement
  <2>2. closed \/ a + n = Len(text) + 1
    BY DEF Statement
  <2> QED  BY <1>0, <1>2, <2>1, <2>2 DEF Piece
<1>4. n = 0 \/ a \in PgTokens
  BY StatementBegins
<1>5. PICK r : ProbesAt(s, a, n, r)
  BY <1>3, <1>4, ProbeAt
<1>6. r \in 1..n + 1 /\ Probe(s) = r
  BY <1>5 DEF ProbesAt
<1>7. \A c \in PgBoundaries : c \in Nat
  BY BoundaryInText
<1>8. \A h \in PgHeads : h \in Nat
  BY <1>0, TokenInText DEF PgHeads
<1>9. \A c : c \in PgBoundaries /\ c < a + n <=> c \in Cuts \/ (closed /\ c = z)
  <2>1. \A c \in PgBoundaries : c < a + n => c < a \/ a <= c
    BY <1>0, <1>7
  <2>2. \A c \in PgBoundaries : c < a => c < a + n
    BY <1>0, <1>7
  <2>3. closed => z \in PgBoundaries /\ z < a + n
    BY <1>0 DEF Statement
  <2>4. \A c \in PgBoundaries : a <= c /\ c < a + n => closed /\ c = z
    BY DEF Statement
  <2> HIDE DEF z
  <2> QED  BY <2>1, <2>2, <2>3, <2>4
<1>10. \A h : h \in PgHeads /\ h < a + n <=> h \in TrustedHeads \/ (r <= n /\ h = a + r - 1 /\ text[h] = "HEAD")
  <2>1. \A h \in PgHeads : h < a + n => h < a \/ a <= h
    BY <1>0, <1>8
  <2>2. \A h \in PgHeads : h < a => h < a + n
    BY <1>0, <1>8
  <2>3. \A h : (h \in PgHeads /\ a <= h /\ h < a + n) <=> (r <= n /\ h = a + r - 1 /\ text[h] = "HEAD")
    BY <1>5, HeadOf
  <2> QED  BY <2>1, <2>2, <2>3
<1>11. CASE r > n
  <2>1. stmts' = stmts
    BY <1>1, <1>6, <1>11 DEF Finalize, s
  <2>2. Cuts' = Cuts /\ TrustedHeads' = TrustedHeads
    <3>1. \A w : TextOf(w)' = TextOf(w)
      BY SameReference
    <3> QED  BY <2>1, <3>1 DEF Cuts, TrustedHeads
  <2>3. ~closed
    <3> SUFFICES ASSUME closed PROVE FALSE
      OBVIOUS
    <3>1. z \in PgBoundaries /\ n >= 1
      BY DEF Statement
    <3>2. z \in PgTokens /\ ~PgBlank(z)
      BY <3>1, BoundaryEnds
    <3>3. a <= z /\ z < a + r - 1
      BY <1>0, <1>6, <1>11, <3>1
    <3> QED  BY <1>5, <3>2, <3>3 DEF ProbesAt
  <2>4. ~(r <= n)
    BY <1>0, <1>6, <1>11
  <2> QED  BY <1>9, <1>10, <2>2, <2>3, <2>4
<1>12. CASE r <= n
  <2> DEFINE e == [at |-> q, trusted |-> Trusted(s), closed |-> closed]
  <2>1. stmts' = Append(stmts, e)
    <3>1. ~(r > n)
      BY <1>0, <1>6, <1>12
    <3> QED  BY <1>1, <1>6, <3>1 DEF Finalize, s
  <2>2. r \in 1..n /\ q[r] = a + r - 1 /\ s[r] = text[a + r - 1]
    BY <1>0, <1>1, <1>2, <1>6, <1>12
  <2>3. Trusted(s) <=> text[a + r - 1] = "HEAD"
    BY <1>2, <1>6, <1>12, <2>2 DEF Trusted
  <2>4. closed => q[Len(q)] = z
    <3>1. closed => n \in 1..n
      BY <1>0 DEF Statement
    <3> QED  BY <1>1, <3>1
  <2>5. e.at = q /\ (e.trusted <=> text[a + r - 1] = "HEAD") /\ e.closed = closed
    BY <2>3
  <2> HIDE DEF e
  <2>6. /\ Cuts' = Cuts \cup (IF e.closed THEN {e.at[Len(e.at)]} ELSE {})
        /\ TrustedHeads' = TrustedHeads \cup (IF e.trusted THEN {e.at[Probe(TextOf(e.at))]} ELSE {})
    BY <2>1, AppendAdds
  <2>7. Cuts' = Cuts \cup (IF closed THEN {z} ELSE {})
    BY <2>4, <2>5, <2>6
  <2>8. TrustedHeads' = TrustedHeads \cup (IF text[a + r - 1] = "HEAD" THEN {a + r - 1} ELSE {})
    BY <1>6, <2>2, <2>5, <2>6 DEF s
  <2> QED  BY <1>9, <1>10, <1>12, <2>7, <2>8
<1> QED  BY <1>0, <1>6, <1>11, <1>12

\* The open statement is the text from a on, behind the last terminator; the
\* terminators and the heads before it are the ones of the finished statements.
ScannedFrom(a) ==
  /\ a >= 1 /\ a + Len(current) = pos
  /\ current = [k \in 1..Len(current) |-> a + k - 1]
  /\ a = 1 \/ a - 1 \in PgBoundaries
  /\ \A c \in PgBoundaries : ~(a <= c /\ c < pos)
  /\ Cuts = {c \in PgBoundaries : c < a}
  /\ TrustedHeads = {h \in PgHeads : h < a}

PInv ==
  Plain => /\ Mode
           /\ ~done => \E a \in Nat : ScannedFrom(a)
           /\ done => Cuts = PgBoundaries /\ TrustedHeads = PgHeads

LEMMA StaysKeeps ==
  ASSUME Typed, TypeOK, NEW n \in Nat \ {0}, Stays(n), NEW a \in Nat, ScannedFrom(a)
  PROVE  ScannedFrom(a)'
<1> DEFINE p == Len(current)
           s == [k \in 1..n |-> pos + k - 1]
<1>0. p \in Nat /\ pos \in Nat /\ n \in Nat /\ a + p = pos /\ pos' = pos + n
  BY TextTyped DEF TypeOK, ScannedFrom, Stays
<1>1. text' = text /\ stmts' = stmts /\ done' = done /\ current' = current \o s
  BY DEF Stays, Copy
<1>2. /\ PgBoundaries' = PgBoundaries /\ PgHeads' = PgHeads /\ \A w : TextOf(w)' = TextOf(w)
  BY <1>1, SameReference
<1>3. Cuts' = Cuts /\ TrustedHeads' = TrustedHeads
  BY <1>1, <1>2 DEF Cuts, TrustedHeads
<1>4. current' = [k \in 1..p + n |-> a + k - 1]
  <2>1. s = [k \in 1..n |-> a + p + k - 1]
    BY <1>0
  <2>2. current = [k \in 1..p |-> a + k - 1]
    BY DEF ScannedFrom
  <2>3. [k \in 1..p |-> a + k - 1] \o [k \in 1..n |-> a + p + k - 1] = [k \in 1..p + n |-> a + k - 1]
    <3> HIDE DEF p
    <3> QED  BY <1>0, CountFrom
  <2> HIDE DEF p, s
  <2> QED  BY <1>1, <2>1, <2>2, <2>3, Zenon
<1> HIDE DEF p, s
<1>5. Len(current') = p + n
  BY <1>0, <1>4
<1>6. a + Len(current') = pos'
  BY <1>0, <1>5
<1>7. ASSUME NEW c \in PgBoundaries, a <= c, c < pos' PROVE FALSE
  <2>1. c \in Nat
    BY <1>7, BoundaryInText
  <2>2. c < pos \/ c \in pos..pos + n - 1
    BY <1>0, <1>7, <2>1
  <2> QED  BY <1>7, <2>2 DEF Stays, ScannedFrom
<1>8. current' = [k \in 1..Len(current') |-> a + k - 1]
  BY <1>4, <1>5, Zenon
<1> QED  BY <1>2, <1>3, <1>6, <1>7, <1>8 DEF ScannedFrom

LEMMA TerminatorScans ==
  ASSUME Ready, Terminator, NEW a \in Nat, ScannedFrom(a)
  PROVE  (\E b \in Nat : ScannedFrom(b))'
<1> DEFINE p == Len(current)
           q == Append(current, pos)
           n == p + 1
<1>0. TypeOK /\ Typed /\ Plain /\ Len(text) \in Nat /\ p \in Nat /\ pos \in Nat /\ pos <= Len(text)
  BY Somewhere DEF Ready, TypeOK
<1>1. pos \in PgBoundaries /\ pos' = pos + 1
  BY TerminatorStep
<1>2. text' = text /\ current' = <<>> /\ stmts' = Finalize(q, TRUE)
  BY DEF Terminator
<1>3. a >= 1 /\ a + p = pos /\ current = [k \in 1..p |-> a + k - 1]
  BY DEF ScannedFrom
<1>4. n \in Nat /\ a + n = pos + 1 /\ a + n - 1 = pos /\ a + n <= Len(text) + 1 /\ n >= 1
  BY <1>0, <1>3
<1>5. q = [k \in 1..n |-> a + k - 1]
  <2>1. current \in Seq(Int) /\ pos \in Int
    BY <1>0, <1>3
  <2>2. q \in Seq(Int) /\ Len(q) = n /\ q[n] = pos /\ \A k \in 1..p : q[k] = current[k]
    BY <2>1, AppendProperties
  <2>3. \A k \in 1..n : k \in 1..p \/ k = n
    BY <1>0
  <2>4. \A k \in 1..p : current[k] = a + k - 1
    BY <1>3
  <2>5. pos = a + n - 1
    BY <1>4
  <2> HIDE DEF q, n, p
  <2>6. \A k \in 1..n : q[k] = a + k - 1
    BY <2>2, <2>3, <2>4, <2>5
  <2>7. q = [k \in 1..n |-> q[k]]
    BY <2>2
  <2> QED  BY <2>6, <2>7
<1>6. \A c \in PgBoundaries : a <= c /\ c < a + n => c = pos
  <2>1. \A c \in PgBoundaries : c \in Nat
    BY <1>0, BoundaryInText
  <2>2. \A c \in PgBoundaries : c < pos + 1 => c < pos \/ c = pos
    BY <1>0, <2>1
  <2> QED  BY <1>4, <2>2 DEF ScannedFrom
<1>7. Cuts = {c \in PgBoundaries : c < a} /\ TrustedHeads = {h \in PgHeads : h < a}
      /\ (a = 1 \/ a - 1 \in PgBoundaries)
  BY DEF ScannedFrom
<1> HIDE DEF n, q, p
<1>8. Statement(a, n, TRUE)
  BY <1>1, <1>3, <1>4, <1>6, <1>7 DEF Statement
<1>9. Cuts' = {c \in PgBoundaries : c < a + n} /\ TrustedHeads' = {h \in PgHeads : h < a + n}
  BY <1>0, <1>2, <1>5, <1>7, <1>8, Finalized
<1>10. PgBoundaries' = PgBoundaries /\ PgHeads' = PgHeads
  BY <1>2, SameReference
<1>11. PICK b \in Nat : b = pos + 1
  BY <1>0
<1>12. ScannedFrom(b)'
  <2>1. b >= 1 /\ b + Len(current') = pos' /\ b - 1 = pos /\ b \in Nat
    BY <1>0, <1>1, <1>2, <1>11
  <2>2. current' = [k \in 1..Len(current') |-> b + k - 1]
    BY <1>2
  <2>3. \A c \in PgBoundaries : ~(b <= c /\ c < pos')
    BY <1>0, <1>1, <1>11, BoundaryInText
  <2>4. a + n = b
    BY <1>4, <1>11
  <2> QED  BY <1>1, <1>9, <1>10, <2>1, <2>2, <2>3, <2>4 DEF ScannedFrom
<1> QED  BY <1>12

LEMMA FinishScans ==
  ASSUME Typed, TypeOK, Plain, Finish, NEW a \in Nat, ScannedFrom(a)
  PROVE  Cuts' = PgBoundaries /\ TrustedHeads' = PgHeads
<1> DEFINE n == Len(current)
<1>0. Len(text) \in Nat /\ n \in Nat /\ pos \in Nat /\ pos = Len(text) + 1 /\ text' = text
      /\ stmts' = Finalize(current, FALSE)
  <2>1. Len(text) \in Nat /\ n \in Nat /\ pos \in 1..Len(text) + 1
    BY DEF Typed, TypeOK
  <2>2. pos > Len(text) /\ text' = text /\ stmts' = Finalize(current, FALSE)
    BY DEF Finish
  <2> QED  BY <2>1, <2>2
<1>1. /\ a >= 1 /\ a + n = pos /\ current = [k \in 1..n |-> a + k - 1]
      /\ a = 1 \/ a - 1 \in PgBoundaries
      /\ \A c \in PgBoundaries : ~(a <= c /\ c < pos)
      /\ Cuts = {c \in PgBoundaries : c < a} /\ TrustedHeads = {h \in PgHeads : h < a}
  BY DEF ScannedFrom
<1> HIDE DEF n
<1>2. Statement(a, n, FALSE)
  BY <1>0, <1>1 DEF Statement
<1>3. Cuts' = {c \in PgBoundaries : c < a + n} /\ TrustedHeads' = {h \in PgHeads : h < a + n}
  BY <1>0, <1>1, <1>2, Finalized
<1>4. \A t \in PgTokens : t < a + n
  BY <1>0, <1>1, TokenInText
<1>5. (\A c \in PgBoundaries : c < a + n) /\ (\A h \in PgHeads : h < a + n)
  BY <1>4 DEF PgBoundaries, PgHeads
<1> QED  BY <1>3, <1>5

LEMMA NextCuts == ASSUME IInv, PInv, [Next]_vars PROVE PInv'
<1> USE DEF quoting, comments
<1>1. TypeOK /\ Typed
  BY TextTyped DEF IInv, Typed
<1>2. text' = text
  BY DEF Next, vars, LineComment, BlockComment, DollarQuote, SingleQuote, DoubleQuote, Other,
         Terminator, Finish, CopyOne, CopyTwo, CopyTag, Copy
<1>3. Plain' = Plain /\ PgBoundaries' = PgBoundaries /\ PgHeads' = PgHeads
      /\ \A w : TextOf(w)' = TextOf(w)
  BY <1>2, SameReference
<1>4. SUFFICES ASSUME Plain
               PROVE  /\ Mode'
                      /\ ~done' => (\E a \in Nat : ScannedFrom(a))'
                      /\ done' => Cuts' = PgBoundaries /\ TrustedHeads' = PgHeads
  BY <1>3 DEF PInv
<1>5. /\ Mode
      /\ ~done => \E a \in Nat : ScannedFrom(a)
      /\ done => Cuts = PgBoundaries /\ TrustedHeads = PgHeads
  BY <1>4 DEF PInv
<1>6. ASSUME Scanning PROVE Ready /\ ~done
  <2>1. ~done /\ pos <= Len(text)
    BY <1>6 DEF Scanning
  <2>2. pos \in 1..Len(text)
    BY <1>1, <2>1 DEF TypeOK, Typed
  <2> QED  BY <1>1, <1>4, <1>5, <2>1, <2>2 DEF Ready
<1>7. ASSUME Scans, Scanning
      PROVE  Mode' /\ ~done' /\ (\E a \in Nat : ScannedFrom(a))'
  <2>1. NextMode /\ ~done
    BY <1>6, <1>7 DEF Scans
  <2>2. PICK n \in Nat \ {0} : Stays(n)
    BY <1>7 DEF Scans
  <2>3. PICK a \in Nat : ScannedFrom(a)
    BY <1>5, <2>1
  <2>4. ScannedFrom(a)'
    BY <1>1, <2>2, <2>3, StaysKeeps
  <2>5. ~done'
    BY <2>1, <2>2 DEF Stays, Copy
  <2> QED  BY <1>2, <2>1, <2>4, <2>5, ModeMoves
<1>8. CASE LineComment \/ BlockComment \/ DollarQuote \/ SingleQuote \/ DoubleQuote \/ Other
  <2>1. Scanning
    BY <1>8 DEF LineComment, BlockComment, DollarQuote, SingleQuote, DoubleQuote, Other, Unquoted, Code
  <2>2. Scans
    BY <1>6, <1>8, <2>1, LineStep, BlockStep, DollarStep, SingleStep, DoubleStep, OtherStep
  <2> QED  BY <1>7, <2>1, <2>2
<1>9. CASE Terminator
  <2>1. Ready /\ ~done
    BY <1>6, <1>9 DEF Terminator, Unquoted, Code
  <2>2. NextMode
    BY <1>9, <2>1, TerminatorStep
  <2>3. PICK a \in Nat : ScannedFrom(a)
    BY <1>5, <2>1
  <2>4. (\E b \in Nat : ScannedFrom(b))'
    BY <1>9, <2>1, <2>3, TerminatorScans
  <2>5. ~done'
    BY <1>9, <2>1 DEF Terminator
  <2> QED  BY <1>2, <2>2, <2>4, <2>5, ModeMoves
<1>10. ASSUME UNCHANGED <<pos, quoting, comments, dollar_tag>> PROVE Mode'
  <2>1. NextMode
    BY <1>5, <1>10 DEF Mode, NextMode
  <2> QED  BY <1>2, <2>1, ModeMoves
<1>11. CASE Finish
  <2>1. ~done /\ done' /\ UNCHANGED <<pos, quoting, comments, dollar_tag>>
    BY <1>11 DEF Finish
  <2>2. PICK a \in Nat : ScannedFrom(a)
    BY <1>5, <2>1
  <2>3. Cuts' = PgBoundaries /\ TrustedHeads' = PgHeads
    BY <1>1, <1>4, <1>11, <2>2, FinishScans
  <2> QED  BY <1>10, <2>1, <2>3
<1>12. CASE UNCHANGED vars
  <2>1. UNCHANGED <<pos, quoting, comments, dollar_tag>> /\ stmts' = stmts /\ current' = current /\ done' = done
        /\ pos' = pos
    BY <1>12 DEF vars
  <2>2. Cuts' = Cuts /\ TrustedHeads' = TrustedHeads
    BY <1>3, <2>1 DEF Cuts, TrustedHeads
  <2>3. ASSUME NEW a \in Nat, ScannedFrom(a) PROVE ScannedFrom(a)'
    BY <1>3, <2>1, <2>2, <2>3 DEF ScannedFrom
  <2>4. (\E a \in Nat : ScannedFrom(a)) => (\E a \in Nat : ScannedFrom(a))'
    BY <2>3
  <2>5. Mode'
    BY <1>10, <2>1
  <2> QED  BY <1>5, <2>1, <2>2, <2>4, <2>5
<1> QED  BY <1>8, <1>9, <1>11, <1>12 DEF Next

LEMMA InitCuts == Init => PInv
<1> SUFFICES ASSUME Init, Plain PROVE PInv
  BY DEF PInv
<1>1. text \in Seq(Char) /\ Typed /\ Len(text) \in Nat
  BY TextsAssumption DEF Init, Typed
<1>2. pos = 1 /\ current = <<>> /\ stmts = <<>> /\ ~done
  BY DEF Init
<1>3. Mode
  <2>1. 1 <= Len(text) => 1 \in PgTokens
    BY <1>1, TokenChain
  <2> QED  BY <2>1 DEF Init, Mode, ModeAt
<1>4. \A t \in PgTokens : ~(t < 1)
  BY <1>1, TokenInText
<1>5. Cuts = {} /\ TrustedHeads = {}
  BY <1>2 DEF Cuts, TrustedHeads
<1>6. {c \in PgBoundaries : c < 1} = {} /\ {h \in PgHeads : h < 1} = {}
  BY <1>4 DEF PgBoundaries, PgHeads
<1>7. Len(current) = 0 /\ current = [k \in 1..0 |-> 1 + k - 1]
  BY <1>2
<1>8. \A c \in PgBoundaries : ~(1 <= c /\ c < pos)
  BY <1>2, <1>4 DEF PgBoundaries
<1>9. ScannedFrom(1)
  BY <1>2, <1>5, <1>6, <1>7, <1>8 DEF ScannedFrom
<1> QED  BY <1>2, <1>3, <1>9 DEF PInv

LEMMA CutsInvariance == Spec => []PInv
  BY Invariance, InitCuts, NextCuts, PTL DEF Spec

\* check.rs:53-57: on every plain text, of any length and without escape
\* strings, digits or BEGIN ATOMIC, split_sql_statements cuts exactly where
\* Postgres does, at the top level and nowhere else.
THEOREM CutsWherePostgresDoes == Spec => []SplitsAtTopLevel
  BY CutsInvariance, PTL DEF PInv, SplitsAtTopLevel

\* check.rs:62-68 and 284-291: on every plain text, of any length, exactly the
\* statements that begin with a trusted head, comments before it or not, bypass
\* the parser.
THEOREM HeadsOnlyBypass == Spec => []TrustsHeadsOnly
  BY CutsInvariance, PTL DEF PInv, TrustsHeadsOnly

=============================================================================
