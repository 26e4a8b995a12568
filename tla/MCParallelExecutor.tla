------------------------- MODULE MCParallelExecutor -------------------------
(***************************************************************************)
(* The sets of ids the calls of a small instance may use.                  *)
(***************************************************************************)
EXTENDS ParallelExecutor, TLC

\* Two ids used alone or together: a call can wait for two others at once, and
\* two calls can become ready in the same turn.
OneOrBoth == SUBSET Objects \ {{}}

\* Calls that use shared or immutable objects only never wait for ids.
NoObjects == {{}}

\* Calls with the same footprints are interchangeable (safety runs only).
Alike == Permutations(Txs)
=============================================================================
