-------------------------- MODULE MCSynchronisation --------------------------
(***************************************************************************)
(* Four small lives of an output directory.                                 *)
(***************************************************************************)
EXTENDS Synchronisation

MCStateDirs == <<"deterministic_done">>

(* every operation of the owner, five sessions and finds together *)
Alone == [events |-> 5, does |-> {"crash", "trim", "mark", "stats", "again"}, peer |-> FALSE]

(* a peer looks on while entries are replaced, and while more are found *)
Trimming == [events |-> 3, does |-> {"trim"}, peer |-> TRUE]
Growing == [events |-> 3, does |-> {}, peer |-> TRUE]

(* fuzzing moves on through the queue, and statistics are written *)
Moving == [events |-> 5, does |-> {"stats", "position"}, peer |-> FALSE]

MCScenarios == {Alone, Moving, Trimming, Growing}
=============================================================================
