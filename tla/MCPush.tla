-------------------------------- MODULE MCPush ---------------------------------
(***************************************************************************)
(* Trees and command lines for the pushers.                                *)
(***************************************************************************)
EXTENDS Push

Plain ==
    [command |-> "push", dry_run |-> FALSE, with_migrate |-> FALSE, pages |-> {1},
     templates |-> {}, undefined |-> {}, assets |-> {}, env |-> FALSE,
     migrations |-> {}, parses |-> TRUE]

\* A tree with migrations, one that replaces the framework's route, a preview,
\* an older checkout that misspells a handler, a tree that does not parse, and
\* a bare `migrate apply` of another branch, which has no file 1.
MCApps ==
    {[Plain EXCEPT !.pages = {1, 2}, !.templates = {1}, !.assets = {1}, !.migrations = {1, 2},
                   !.with_migrate = TRUE],
     [Plain EXCEPT !.pages = {3}, !.env = TRUE],
     [Plain EXCEPT !.dry_run = TRUE, !.with_migrate = TRUE, !.migrations = {1}],
     [Plain EXCEPT !.pages = {1, 2}, !.undefined = {1}, !.migrations = {1}],
     [Plain EXCEPT !.parses = FALSE],
     [Plain EXCEPT !.command = "migrate", !.migrations = {2, 3}]}
=============================================================================
