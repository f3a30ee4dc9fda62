-------------------------------- MODULE Served --------------------------------
(***************************************************************************)
(* What the request-path cache promises, without saying how: the worker    *)
(* serves from a view of the pushed versions or has none.  A view, once    *)
(* taken, does not change; it is taken from what is committed, and never   *)
(* from before the moment the last view was given up, so what a client has *)
(* been served does not come back older.  A view that misses a push is     *)
(* given up in time, unless the announcement of that push was missed.      *)
(***************************************************************************)
EXTENDS Integers

CONSTANTS Max,      \* bound on the number of pushes
          NoView

VARIABLES db,       \* the last committed version
          view,     \* the version each part of the view was read at, or NoView
          floor,    \* the version committed when the last view was given up
          missed    \* versions whose announcement was missed

vars == <<db, view, floor, missed>>

Views(low, high) == [routes : low .. high, templates : low .. high, env : low .. high]

Init ==
    /\ db = 0
    /\ view = NoView
    /\ floor = 0
    /\ missed = {}

\* A push commits; its announcement may be missed then or later.
Publish ==
    /\ db < Max
    /\ db' = db + 1
    /\ missed' \in {missed, missed \cup {db + 1}}
    /\ UNCHANGED <<view, floor>>

Take ==
    /\ view = NoView
    /\ view' \in Views(floor, db)
    /\ UNCHANGED <<db, floor, missed>>

Miss ==
    /\ \E v \in SUBSET (0 .. db) : missed' = missed \cup v
    /\ UNCHANGED <<db, view, floor>>

\* The view is given up, with announcements missed or not.
GiveUp ==
    /\ view # NoView
    /\ view' = NoView
    /\ floor' = db
    /\ \E v \in SUBSET (0 .. db) : missed' = missed \cup v
    /\ UNCHANGED db

Next == Publish \/ Take \/ Miss \/ GiveUp

\* The view misses a push whose announcement was not missed.
Owed ==
    /\ view # NoView
    /\ \E v \in (1 .. db) \ missed : view.routes < v \/ view.templates < v \/ view.env < v

SafeSpec == Init /\ [][Next]_vars
Spec == SafeSpec /\ WF_vars(GiveUp /\ Owed)
=============================================================================
