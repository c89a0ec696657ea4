------------------------------ MODULE MCRouter ------------------------------
(***************************************************************************)
(* Service graphs for TLC.                                                 *)
(***************************************************************************)
EXTENDS Router, TLC

Edge(i, p, j, policy) == [from |-> i, port |-> p, to |-> j, overflow |-> policy]

\* 1, a subscriber, feeds 2 from one port over both kinds of connection; nobody
\* wires its error port.  2 feeds itself its errors.
LoopMixed == <<Edge(1, "out", 2, "DropOldest"), Edge(1, "out", 2, "Backpressure"),
               Edge(2, "err", 2, "Backpressure")>>
LoopOutputs == (1 :> {"out", "err"}) @@ (2 :> {"err"})
LoopEmits == (1 :> 3) @@ (2 :> 3)

=============================================================================
