------------------------------ MODULE Splitter ------------------------------
(***************************************************************************)
(* split_sql_statements and finalize_statement of `pg-web check`           *)
(* (crates/pg_web_cli/src/check.rs): the scanner that cuts a migration or  *)
(* handler file into statements, so that COMMENT ON, CREATE EXTENSION and  *)
(* CREATE INDEX can bypass the SQL parser.  Characters are the ones the    *)
(* scanner tells apart; the reference it is compared with is how Postgres  *)
(* itself cuts the text into tokens.                                       *)
(*                                                                         *)
(*   "q" ' , "d" " , "nl" a newline, "id" an ASCII letter, "wide" a letter *)
(*   of two bytes, "HEAD" the words that begin a trusted statement, blanks *)
(*   around them, as one character.                                        *)
(*                                                                         *)
(* There is no backslash, no digit and no BEGIN ATOMIC: three places where *)
(* the code and Postgres differ are left out of every text, E'..\'..'      *)
(* strings (the scanner ends one at the escaped quote), $1$, which the     *)
(* scanner takes for a delimiter, and the semicolons of a BEGIN ATOMIC     *)
(* body, at which it cuts.                                                 *)
(***************************************************************************)
EXTENDS Naturals, Sequences, FiniteSets

CONSTANTS Texts,     \* the contents that are scanned
          None       \* no dollar tag

Char == {"-", "/", "*", "$", "q", "d", ";", "nl", "id", "wide", "HEAD"}

ASSUME TextsAssumption == Texts \subseteq Seq(Char) /\ None \notin Seq(Char)

VARIABLES
  text,                                    \* content
  pos,                                     \* the next character of `chars`
  in_single, in_double, in_block_comment, in_line_comment,
  dollar_tag,                              \* None, or the tag as a sequence
  current,                                 \* positions copied to the open statement
  stmts,                                   \* finished statements
  kept,                                    \* history: every position copied, in order
  done

quoting == <<in_single, in_double>>
comments == <<in_block_comment, in_line_comment>>
vars == <<text, pos, quoting, comments, dollar_tag, current, stmts, kept, done>>

Least(S) == CHOOSE x \in S : \A y \in S : x <= y
At(i, c) == i \in DOMAIN text /\ text[i] = c

-----------------------------------------------------------------------------
(* detect_dollar_tag_at: from this $ to the next one, whatever is between. *)

ClosingDollar(i) == {j \in i + 1..Len(text) : text[j] = "$"}
HasTag(i) == At(i, "$") /\ ClosingDollar(i) # {}
TagEnd(i) == Least(ClosingDollar(i))
TagAt(i) == SubSeq(text, i + 1, TagEnd(i) - 1)

(* The second component is a length in bytes. *)
TagLength(i) ==
  TagEnd(i) - i + 1 + Cardinality({j \in i..TagEnd(i) : text[j] = "wide"})

Copy(s) ==
  /\ current' = current \o s
  /\ kept' = kept \o s
  /\ UNCHANGED <<text, stmts, done>>

(* Mutant: the second character of a pair is consumed and not copied. *)
CopyFirst == Copy(<<pos>>) /\ pos' = pos + 2

CopyOne == Copy(<<pos>>) /\ pos' = pos + 1
CopyTwo == Copy(<<pos, pos + 1>>) /\ pos' = pos + 2

(* Mutant: the iterator's end is not respected. *)
CopyTagPastEnd ==
  /\ Copy([k \in 1..TagEnd(pos) - pos + 1 |-> pos + k - 1])
  /\ pos' = pos + TagLength(pos)

(* The delimiter is copied; the loop then skips length - 1 characters. *)
CopyTag ==
  LET after == pos + TagLength(pos)
  IN  /\ Copy([k \in 1..TagEnd(pos) - pos + 1 |-> pos + k - 1])
      /\ pos' = IF after > Len(text) THEN Len(text) + 1 ELSE after

-----------------------------------------------------------------------------
(* The branches of the loop, in their order. *)

Scanning == ~done /\ pos <= Len(text)
InQuotes == in_single \/ in_double

(* Mutant: a line comment that opens inside a string, too. *)
OpensLineAnywhere ==
  ~in_block_comment /\ ~in_line_comment /\ At(pos, "-") /\ At(pos + 1, "-")

OpensLine ==
  /\ ~InQuotes /\ ~in_block_comment /\ ~in_line_comment
  /\ At(pos, "-") /\ At(pos + 1, "-")

OpensBlock ==
  /\ ~InQuotes /\ ~in_block_comment /\ ~in_line_comment /\ ~OpensLine
  /\ At(pos, "/") /\ At(pos + 1, "*")

LineComment ==
  /\ Scanning
  /\ \/ /\ OpensLine
        /\ CopyTwo
        /\ in_line_comment' = TRUE
     \/ /\ in_line_comment
        /\ CopyOne
        /\ in_line_comment' = (text[pos] # "nl")
  /\ UNCHANGED <<quoting, in_block_comment, dollar_tag>>

BlockComment ==
  /\ Scanning
  /\ \/ /\ OpensBlock
        /\ CopyTwo
        /\ in_block_comment' = TRUE
     \/ /\ in_block_comment /\ At(pos, "*") /\ At(pos + 1, "/")
        /\ CopyTwo
        /\ in_block_comment' = FALSE
     \/ /\ in_block_comment /\ ~(At(pos, "*") /\ At(pos + 1, "/"))
        /\ CopyOne
        /\ UNCHANGED in_block_comment
  /\ UNCHANGED <<quoting, in_line_comment, dollar_tag>>

(* Past the comment branches. *)
Code == Scanning /\ ~in_line_comment /\ ~in_block_comment /\ ~OpensLine /\ ~OpensBlock

OpensTag == ~InQuotes /\ dollar_tag = None /\ HasTag(pos)
ClosesTag == ~InQuotes /\ dollar_tag # None /\ HasTag(pos) /\ TagAt(pos) = dollar_tag

DollarQuote ==
  /\ Code
  /\ \/ OpensTag /\ dollar_tag' = TagAt(pos) /\ CopyTag
     \/ ClosesTag /\ dollar_tag' = None /\ CopyTag
     \/ dollar_tag # None /\ ~ClosesTag /\ UNCHANGED dollar_tag /\ CopyOne
  /\ UNCHANGED <<quoting, comments>>

Unquoted == Code /\ dollar_tag = None /\ ~OpensTag

SingleQuote ==
  /\ Unquoted /\ At(pos, "q") /\ ~in_double
  /\ \/ in_single /\ At(pos + 1, "q") /\ CopyTwo /\ UNCHANGED in_single
     \/ ~(in_single /\ At(pos + 1, "q")) /\ CopyOne /\ in_single' = ~in_single
  /\ UNCHANGED <<in_double, comments, dollar_tag>>

DoubleQuote ==
  /\ Unquoted /\ At(pos, "d") /\ ~in_single
  /\ CopyOne
  /\ in_double' = ~in_double
  /\ UNCHANGED <<in_single, comments, dollar_tag>>

(* Everything else is copied. *)
Other ==
  /\ Unquoted
  /\ ~(At(pos, "q") /\ ~in_double) /\ ~(At(pos, "d") /\ ~in_single)
  /\ InQuotes \/ ~At(pos, ";")
  /\ CopyOne
  /\ UNCHANGED <<quoting, comments, dollar_tag>>

-----------------------------------------------------------------------------
(* finalize_statement. *)

Two(s, c, d, k) == k < Len(s) /\ s[k] = c /\ s[k + 1] = d
Newlines(s, i) == {j \in i..Len(s) : s[j] = "nl"}
CommentEnds(s, i) == {j \in i..Len(s) : Two(s, "*", "/", j)}

(* What is left of s from i on begins at i, or where f says that what is left
   behind the blank or comment at i begins. *)
Strip(s, f, i) ==
  CASE i > Len(s) -> i
    [] i <= Len(s) /\ s[i] = "nl" -> f[i + 1]
    [] Two(s, "-", "-", i) ->
         IF Newlines(s, i) = {} THEN Len(s) + 1 ELSE f[Least(Newlines(s, i)) + 1]
    [] Two(s, "/", "*", i) ->
         IF CommentEnds(s, i) = {} THEN Len(s) + 1 ELSE f[Least(CommentEnds(s, i)) + 2]
    [] OTHER -> i

(* Where `probe` begins: leading whitespace and comments are stripped. *)
Probe(s) ==
  LET f[i \in 1..Len(s) + 1] == Strip(s, f, i)
  IN  f[1]

(* Mutant: the words are looked for anywhere in the statement. *)
TrustedAnywhere(s) == \E i \in DOMAIN s : s[i] = "HEAD"

Trusted(s) == Probe(s) <= Len(s) /\ s[Probe(s)] = "HEAD"

TextOf(s) == [k \in DOMAIN s |-> text[s[k]]]

Finalize(s, closed) ==
  IF Probe(TextOf(s)) > Len(s) THEN stmts
  ELSE Append(stmts, [at |-> s, trusted |-> Trusted(TextOf(s)), closed |-> closed])

(* A terminator at the top level. *)
Terminator ==
  /\ Unquoted /\ At(pos, ";") /\ ~InQuotes
  /\ stmts' = Finalize(Append(current, pos), TRUE)
  /\ current' = <<>>
  /\ kept' = Append(kept, pos)
  /\ pos' = pos + 1
  /\ UNCHANGED <<text, quoting, comments, dollar_tag, done>>

(* The end of the content. *)
Finish ==
  /\ ~done /\ pos > Len(text)
  /\ stmts' = Finalize(current, FALSE)
  /\ done' = TRUE
  /\ UNCHANGED <<text, pos, quoting, comments, dollar_tag, current, kept>>

Init ==
  /\ text \in Texts
  /\ pos = 1
  /\ in_single = FALSE /\ in_double = FALSE
  /\ in_block_comment = FALSE /\ in_line_comment = FALSE
  /\ dollar_tag = None
  /\ current = <<>> /\ stmts = <<>> /\ kept = <<>>
  /\ done = FALSE

Next ==
  \/ LineComment \/ BlockComment \/ DollarQuote \/ SingleQuote \/ DoubleQuote
  \/ Other \/ Terminator \/ Finish
  \/ done /\ UNCHANGED vars

Spec == Init /\ [][Next]_vars

-----------------------------------------------------------------------------
(* The reference: how Postgres cuts a text of these characters into tokens.
   PgEnd(i) is where the token that begins at i ends, in a text without nested
   block comments; with no backslash and no digit every string is a standard
   one and every identifier between dollar signs a tag. *)

Identifier == {"id", "wide"}
After(S, k) == IF S = {} THEN Len(text) + 1 ELSE Least(S) + k
Matches(i, s) == i + Len(s) - 1 <= Len(text) /\ SubSeq(text, i, i + Len(s) - 1) = s

PgTag(i) ==            \* the delimiter $tag$ that begins at i, or <<>>
  LET ends == {j \in i + 1..Len(text) :
                 text[j] = "$" /\ \A k \in i + 1..j - 1 : text[k] \in Identifier}
  IN  IF At(i, "$") /\ ends # {} THEN SubSeq(text, i, Least(ends)) ELSE <<>>

PgEnd(i) ==
  LET later(c) == {j \in i + 1..Len(text) : text[j] = c}
      tag == PgTag(i)
  IN  CASE At(i, "-") /\ At(i + 1, "-") -> After(later("nl"), 1)
        [] At(i, "/") /\ At(i + 1, "*") ->
             After({j \in i + 2..Len(text) : At(j, "*") /\ At(j + 1, "/")}, 2)
        [] At(i, "q") -> After(later("q"), 1)
        [] At(i, "d") -> After(later("d"), 1)
        [] tag # <<>> ->
             After({j \in i + Len(tag)..Len(text) : Matches(j, tag)}, Len(tag))
        [] text[i] \in Identifier ->
             After({j \in i + 1..Len(text) : text[j] \notin Identifier \cup {"$"}}, 0)
        [] OTHER -> i + 1

(* A token begins where another one ended. *)
PgTokens ==
  LET begins[i \in 1..Len(text) + 1] ==
        i = 1 \/ \E j \in 1..i - 1 : begins[j] /\ PgEnd(j) = i
  IN  {i \in 1..Len(text) : begins[i]}

PgBoundaries == {i \in PgTokens : text[i] = ";"}

PgBlank(i) == \/ text[i] = "nl"
              \/ At(i, "-") /\ At(i + 1, "-")
              \/ At(i, "/") /\ At(i + 1, "*")

(* Where a statement begins with a trusted head. *)
PgHeads ==
  {h \in PgTokens :
     /\ text[h] = "HEAD"
     /\ \A i \in PgTokens : i < h => PgBlank(i) \/ \E c \in PgBoundaries : i <= c /\ c < h}

(* A text in which every $ is part of an identifier or delimits a string, no
   delimiter holds a two-byte character, and no dollar-quoted string holds the
   beginning of a comment. *)
Delimited ==
  \A i \in PgTokens :
    text[i] = "$" =>
      /\ PgTag(i) # <<>> /\ \A k \in DOMAIN PgTag(i) : PgTag(i)[k] # "wide"
      /\ \A j \in i..PgEnd(i) - 1 :
           ~(At(j, "-") /\ At(j + 1, "-")) /\ ~(At(j, "/") /\ At(j + 1, "*"))

(* No identifier with a $ in it, either, no comment that begins with /*/, which
   finalize_statement takes for a whole one, and none that holds the beginning
   of another: Postgres nests block comments, the scanner does not. *)
Plain ==
  /\ Delimited
  /\ \A i \in PgTokens :
       /\ text[i] \in Identifier => \A j \in i..PgEnd(i) - 1 : text[j] # "$"
       /\ At(i, "/") /\ At(i + 1, "*") =>
            /\ ~At(i + 2, "/")
            /\ \A j \in i + 2..PgEnd(i) - 2 : ~(At(j, "/") /\ At(j + 1, "*"))

-----------------------------------------------------------------------------
TypeOK ==
  /\ text \in Texts /\ pos \in 1..Len(text) + 1
  /\ in_single \in BOOLEAN /\ in_double \in BOOLEAN
  /\ in_block_comment \in BOOLEAN /\ in_line_comment \in BOOLEAN
  /\ dollar_tag = None \/ dollar_tag \in Seq(Char)
  /\ current \in Seq(1..Len(text)) /\ kept \in Seq(1..Len(text))
  /\ stmts \in Seq([at : Seq(1..Len(text)), trusted : BOOLEAN, closed : BOOLEAN])
  /\ done \in BOOLEAN

Cuts == {stmts[k].at[Len(stmts[k].at)] : k \in {j \in DOMAIN stmts : stmts[j].closed}}

(* check.rs:53-57, the splitter "understands" strings and comments "so that
   statement boundaries (;) are only recognized at the true top level": on a
   plain text it cuts exactly where Postgres does, escape strings, digits
   and BEGIN ATOMIC bodies apart, of which no text has any. *)
SplitsAtTopLevel == done /\ Plain => Cuts = PgBoundaries

TrustedHeads ==
  {stmts[k].at[Probe(TextOf(stmts[k].at))] : k \in {j \in DOMAIN stmts : stmts[j].trusted}}

(* check.rs:62-68 and 284-291: on a plain text exactly the statements that
   begin with a trusted head bypass the parser, comments before it or not; a
   statement that only contains the words, in a string say, never does. *)
TrustsHeadsOnly == done /\ Plain => TrustedHeads = PgHeads

(* check.rs:301-302, "`COMMENT ON ...`, `CREATE EXTENSION ...`, and `CREATE
   [UNIQUE] INDEX ...` statements are accepted as-is": also after a statement
   with a $ in an identifier, as every capture route's handler name has one. *)
TrustedAccepted == done /\ Delimited => PgHeads \subseteq TrustedHeads

WideInTag == \E i, j, k \in DOMAIN text :
               i < j /\ j < k /\ text[i] = "$" /\ text[j] = "wide" /\ text[k] = "$"

(* check.rs:59-61: the statements are the text, every character once and in
   order, whatever the scanner takes it for - unless a two-byte character is
   between two dollar signs. *)
KeepsText == ~WideInTag => kept = [k \in 1..pos - 1 |-> k]

=============================================================================
