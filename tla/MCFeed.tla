------------------------------- MODULE MCFeed -------------------------------
(***************************************************************************)
(* The ways to submit a job that the runs of module Feed look at: a batch  *)
(* and a window, each 0 where it is left to the engine.                    *)
(***************************************************************************)
EXTENDS Feed

Suiting    == {<<0, 0>>, <<0, 2>>, <<2, 3>>}
BatchFills == {<<3, 3>>}
=============================================================================
