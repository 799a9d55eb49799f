---------------------------- MODULE MCTriggerScan ----------------------------
(***************************************************************************)
(* Every payload of N halfwords that ends with a call of the rule engine,  *)
(* made of instructions of every kind and of halfwords that do not decode. *)
(***************************************************************************)
EXTENDS TriggerScan

I(kind, size, imm) == [kind |-> kind, size |-> size, imm |-> imm]

MCInsn ==
  {I("li", 1, 1), I("li", 2, 2), I("mv", 1, 0), I("write", 1, 0), I("jump", 1, 0),
   I("other", 1, 0), I("other", 2, 0), I("call", 1, 0), I("bad", 1, 0)}

MCCodes == {[a \in Address |-> IF a = N - 1 THEN I("call", 1, 0) ELSE front[a]] :
             front \in [0..(N - 2) -> MCInsn]}
=============================================================================
