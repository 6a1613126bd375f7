-------------------------- MODULE MCEngineSession --------------------------
(* An instance of EngineSession for TLC: of the modules that AudioEngine   *)
(* makes the sampler (1) and a poly_rhythm (10), and two filters (19, 20)  *)
(* that were made and connected before.                                    *)
EXTENDS EngineSession

MCGraph ==
  UpdateExecutionOrder(
    [modules |-> <<1, 10, 19, 20>>, connections |-> << <<10, 1>>, <<19, 20>> >>,
     links |-> << <<10, 1>>, <<19, 20>> >>, order |-> << >>])

MCType == [m \in {1, 10, 19, 20} |-> IF m < 19 THEN "other" ELSE "filter"]
MCIds == {1, 2, 3, 10, 19, 20} \cup 31 .. 31 + MaxTyped
MCTypedIds == {1, 20, 31}
MCTypedPairs == {<<1, 20>>, <<20, 19>>, <<20, 32>>}
=============================================================================
