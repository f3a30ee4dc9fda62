----------------------------- MODULE MCSplitter -----------------------------
(***************************************************************************)
(* Every short text over the whole alphabet, and longer ones over what one *)
(* kind of token needs: tagged strings, comments next to strings, heads,   *)
(* names with a dollar sign.                                               *)
(***************************************************************************)
EXTENDS Splitter

Short == UNION {[1..n -> Char] : n \in 0..4}
Tagged == [1..7 -> {"$", "id", ";"}]
Quoted == [1..6 -> {"$", "q", "d", ";"}]
Commented == [1..6 -> {"-", "/", "*", "nl", ";"}]
Headed == [1..5 -> {"HEAD", ";", "-", "nl", "q", "$"}]
Named == [1..6 -> {"HEAD", "id", "$", ";"}]
Escaped == [1..6 -> {"q", "-", ";", "nl"}]

MCTexts == Short \cup Tagged \cup Quoted \cup Commented \cup Headed \cup Named
            \cup Escaped

=============================================================================
