---------------------------- MODULE MCThreadPool ----------------------------
(***************************************************************************)
(* ThreadPool with up to three threads, two functions besides the sanity   *)
(* check (one of them divergent) and calls enough for a function to be     *)
(* called again after another one.                                         *)
(***************************************************************************)
EXTENDS ThreadPool, TLC

CONSTANTS f, g, sanity, null

MCFuncs == {f, g}
MCDivergent == {g}
MCNBars == (f :> 2) @@ (g :> 1)
=============================================================================
