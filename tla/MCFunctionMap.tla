---------------------------- MODULE MCFunctionMap ----------------------------
(***************************************************************************)
(* Every payload of N halfwords made of returns, plain instructions and    *)
(* calls of one or two halfwords, jumps, and halfwords that do not decode; *)
(* N + 1 is a target outside.                                              *)
(***************************************************************************)
EXTENDS FunctionMap

I(kind, size, target) == [kind |-> kind, size |-> size, target |-> target]

MCInsn ==
  {I("bad", 1, 0), I("ret", 1, 0), I("other", 1, 0), I("other", 2, 0), I("jump", 1, N - 1),
   I("jump", 1, N + 1)}
    \cup {I("call", 1, t) : t \in 1..(N - 1)}
    \cup {I("call", 2, t) : t \in {1, N - 1, N + 1}}

MCCodes == [Address -> MCInsn]
=============================================================================
