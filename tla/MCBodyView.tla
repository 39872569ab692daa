----------------------------- MODULE MCBodyView -----------------------------
(* Buffers of two bytes, steps of three, needles whose matches overlap and *)
(* whose borders matter.                                                   *)
EXTENDS BodyView

\* A viewer that is opened early and paged.
Reading ==
  [entry |-> "absent", finished |-> FALSE,
   total |-> 0, content |-> <<1, 1, 1, 2>>, sizes |-> {2, 4},
   searches |-> 0, needles |-> {}, jumps |-> {0, 2}]

\* Searches of a response that is still being recorded.
Searching ==
  [entry |-> "recording", finished |-> TRUE,
   total |-> 2, content |-> <<1, 1, 1, 2>>, sizes |-> {4},
   searches |-> 2, needles |-> {<<1, 1, 2>>, <<1, 1>>}, jumps |-> {}]

MCSessions == {Reading, Searching}
=============================================================================
