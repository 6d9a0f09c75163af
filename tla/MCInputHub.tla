----------------------------- MODULE MCInputHub -----------------------------
(* InputHub with programs that poll, that sleep for their input, that take  *)
(* raw keys and that are replaced, and a terminal of three bytes.           *)
EXTENDS InputHub

Pressed(cycle, i, enter) ==
  [kind |-> "key", data |-> <<[id |-> MaxPosts + i, enter |-> enter]>>, at |-> cycle]

Run(p, t, k) == [program |-> p, period |-> t, keys |-> k]

MCSetups ==
  {Run(<<"read", "halt", "read", "read">>, 0, <<Pressed(1, 1, TRUE)>>),
   Run(<<"cooked", "halt", "read", "read">>, 3, << >>),
   Run(<<"read", "raw", "halt", "read">>, 0, << >>),
   Run(<<"read", "restart", "raw", "read">>, 3, << >>)}
=============================================================================
