----------------------------- MODULE MCAllToAll -----------------------------
(* Instances of AllToAll.                                                    *)
EXTENDS AllToAll

Call(axes, digits, size, target) ==
  [ax |-> axes, comm |-> digits, start |-> 0, buffer |-> size, target |-> target]

(* Every thread function and every lane permutation that is right; one, two *)
(* and sixteen entangled groups, the latter in two ranks; targets on the     *)
(* source and apart from it.                                                 *)
MCCalls ==
  { Call(<<8, 2>>, <<1, 0>>, 16, 0),    Call(<<8, 2>>, <<0, 1>>, 16, 8),
    Call(<<8, 2>>, <<1, 1>>, 16, 0),    Call(<<16, 1>>, <<1, 0>>, 16, 0),
    Call(<<4, 2>>, <<1, 0>>, 16, 8),    Call(<<4, 2>>, <<1, 1>>, 16, 0),
    Call(<<2, 4>>, <<1, 0>>, 16, 8),    Call(<<4, 2, 2>>, <<0, 0, 1>>, 16, 0),
    Call(<<2, 2, 2>>, <<1, 0, 0>>, 16, 0),
    Call(<<2, 2, 2>>, <<1, 1, 0>>, 16, 8),
    Call(<<2, 2, 2>>, <<1, 1, 1>>, 16, 0),
    Call(<<64, 2>>, <<0, 1>>, 16, 0),   Call(<<8, 8, 2>>, <<0, 0, 1>>, 16, 8) }

(* Along the y axis when the x axis is shorter than 8.                       *)
ShortYCalls == { Call(<<4, 2>>, <<0, 1>>, 16, 0) }
=============================================================================
