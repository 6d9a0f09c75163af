------------------------- MODULE MCExecutionEngine -------------------------
(* ExecutionEngine with a text of one or two addresses and a system stack   *)
(* with room for one or two nested dispatches: one more runs out of it.     *)
EXTENDS ExecutionEngine

MCNumbers == {0, 3, 5, 7, 16, 17}
(* 16 has a handler and 17 none; the faults and RESET all go to 2.          *)
MCHandler == [n \in MCNumbers |-> CASE n = 17 -> 0 [] n = 0 -> 1 [] OTHER -> 2]
MCHandler1 == [n \in MCNumbers |-> IF n = 17 THEN 0 ELSE 1]
MCLimits == {0, 3}
=============================================================================
