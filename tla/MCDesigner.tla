----------------------------- MODULE MCDesigner ------------------------------
(***************************************************************************)
(* Two services for TLC, of one block each at first.                       *)
(***************************************************************************)
EXTENDS Designer, TLC

CONSTANTS kitchen, hall, b1, b2, here, other

TwoNames == (here :> kitchen) @@ (other :> hall)

SelfWired(name) ==
    [name |-> name, autostart |-> FALSE, blocks |-> {b1}, label |-> {},
     prop |-> [i \in Id |-> "unset"], ui |-> {}, wires |-> {<<b1, b1>>}]

AtFirst == [p \in Place |-> SelfWired(TwoNames[p])]
=============================================================================
