----------------------------- MODULE ReloadHistory -----------------------------
(***************************************************************************)
(* ReloadCache with a history variable, the version that was committed     *)
(* when SNAPSHOT was last dropped, and with it the claim that the cache    *)
(* implements Served.                                                      *)
(***************************************************************************)
EXTENDS ReloadCache

VARIABLE floor

historyVars == <<vars, floor>>

HInit == Init /\ floor = 0
HNext ==
    /\ Next
    /\ floor' = IF cache # NoSnapshot /\ cache' = NoSnapshot THEN db ELSE floor

HSafeSpec == HInit /\ [][HNext]_historyVars
HSpec == HSafeSpec /\ Fairness

Abstract == INSTANCE Served
    WITH Max <- MaxPush, NoView <- NoSnapshot,
         view <- cache, missed <- lost

\* docs/CACHING.md:10-12: the cache is what Served describes, through builds that
\* race pushes, lost connections and restarts of the worker: a snapshot never
\* changes in place, the next one misses nothing that was committed when it was
\* dropped, and one that misses a push whose NOTIFY is not lost is dropped.
ImplementsServed == Abstract!Spec
=============================================================================
