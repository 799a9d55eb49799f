----------------------------- MODULE MCTreeScan -----------------------------
(***************************************************************************)
(* Small dispatchers of two comparisons and what comes after them, and the *)
(* parts of the runtime's own two trees that the tables get wrong.  The    *)
(* numbers 20.. are routines elsewhere.                                    *)
(***************************************************************************)
EXTENDS TreeScan

X(op, rd, rs, imm, to) == [op |-> op, rd |-> rd, rs |-> rs, imm |-> imm, to |-> to]
Li(r, v) == X("li", r, r, v, 1)
On(op, r) == X(op, r, r, 0, 1)
If(op, to) == X(op, CMD_REG, SCRATCH, 0, to)
Go(op, to) == X(op, SCRATCH, SCRATCH, 0, to)

\* What may stand between a load and its comparison.
Between == {<<>>, <<Li("a1", 1)>>, <<On("addi", SCRATCH)>>, <<On("move", SCRATCH)>>,
            <<On("write", SCRATCH)>>, <<Go("jal", 25)>>}

Test2(between, ops, tos) ==
  {<<Li(SCRATCH, v)>> \o b \o <<If(op, to)>> : v \in {1, 2}, b \in between, op \in ops, to \in tos}

\* A trampoline into a routine elsewhere, a call first, one into another trampoline and
\* into a routine that does more before its jump, a return.
Ends == {<<Go("j", 20)>>, <<Go("bnez", 9), Go("jal", 21), Go("j", 22)>>,
         <<On("move", "a1"), Go("j", 9), On("ret", "a1"), On("addi", "a1"), Go("j", 23)>>,
         <<On("move", "a1"), Go("j", 9), On("ret", "a1"), On("write", "a1"), Go("j", 23)>>,
         <<On("ret", "a1")>>}

SmallCodes ==
  {a \o b \o c : a \in Test2(Between, {"beq", "bne", "bltu"}, {3, 6, 7}),
                 b \in Test2({<<>>, <<On("move", SCRATCH)>>}, {"beq", "bne", "bgeu"}, {2, 7, 20}),
                 c \in Ends}

\* 0xbdea..0xbe2e of the runtime with the two joins into 0xbe0e and the shared
\* authorisation at 0xbe7c: 0xa1 is compared at 0xbe0e and again at 0xbe2e.
BleTop == <<
  Li("a5", 187), X("bltu", "a5", "s1", 0, 29),     Li("a5", 185), X("bgeu", "s1", "a5", 0, 35),
  Li("a5", 167), X("bltu", "a5", "s1", 0, 23),     Li("a5", 163), X("bgeu", "s1", "a5", 0, 35),
  Li("a5", 161), X("beq", "s1", "a5", 0, 35),      Li("a5", 175), X("beq", "s1", "a5", 0, 51),
  X("bltu", "a5", "s1", 0, 52),                    Li("a5", 164), X("beq", "s1", "a5", 0, 53),
  X("bltu", "a5", "s1", 0, 54),                    Li("a5", 161), X("beq", "s1", "a5", 0, 55),
  X("bltu", "a5", "s1", 0, 56),                    Li("a5", 160), X("bne", "s1", "a5", 0, 57),
  Go("j", 58),                                                             \* 0xbe3e
  Li("a5", 170), X("bltu", "s1", "a5", 0, 11),     Li("a5", 171), X("bgeu", "a5", "s1", 0, 35),
  Li("a5", 176), Go("j", 10),                                              \* 0xbe5c
  Li("a5", 210), X("bltu", "a5", "s1", 0, 39),     Li("a5", 208), X("bgeu", "s1", "a5", 0, 35),
  On("addi", "a5"), X("bltu", "a4", "a5", 0, 11),                          \* 0xbe78
  Go("jal", 59), X("bnez", "a0", "a0", 0, 11),     On("addi", "a0"), Go("j", 57),
  Li("a5", 240), Go("j", 10) >>                                            \* 0xbe9c

MCBle == {BleTop}
MCCommandByte == 32..255
=============================================================================
