------------------------------ MODULE TreeScan ------------------------------
(***************************************************************************)
(* Three tools that read a dispatch table off a tree of comparisons:       *)
(* gen_analysis.map_dispatch and map_dispatch.py for the BLE commands,     *)
(* map_can.py for the CAN frames.  Each goes once through the instructions *)
(* in address order, remembers the immediates loaded, and pairs them with  *)
(* the comparisons that follow.  Beside them runs the device, which walks  *)
(* the tree along its branches with one command in CMD_REG.                *)
(*                                                                         *)
(* Addresses are positions in the code; a position outside it is a routine *)
(* elsewhere.                                                              *)
(***************************************************************************)
EXTENDS Integers, Sequences, FiniteSetsExt

CONSTANTS
  Codes,              \* the dispatchers: sequences of instructions
  Reg, CMD_REG,       \* the registers, and the one that holds the command
  SCRATCH,            \* the register that map_can expects the immediate in
  CommandByte,        \* 0x20..0xFF: the values gen_analysis and map_dispatch take
  FrameId,            \* above 0x40: the values map_can takes
  RAW_FRAME_STORE,    \* the routine at which map_can follows no further
  TRAMPOLINE_LIMIT,   \* how far it looks for a trampoline's jump
  Unknown             \* what the instructions do not tell

Equality == {"beq", "bne"}
Compare == Equality \cup {"blt", "bge", "bltu", "bgeu"}

\* What is_trampoline skips: immediates, the additions, and move for c.mv, c.lwsp and
\* c.addi; write is any other instruction that writes a register.
Saves == {"li", "addi", "move"}
Writes == Saves \cup {"write"}

\* Every field in every instruction, so that codes are comparable: rd, rs are the
\* operands of a comparison as well, and to is where a branch or jump goes.
Instruction ==
  [op : Compare \cup Writes \cup {"bnez", "j", "jal", "ret"},
   rd : Reg, rs : Reg, imm : Int, to : Nat \ {0}]

ASSUME TreeTypes ==
  /\ Codes \subseteq Seq(Instruction)
  /\ CMD_REG \in Reg /\ SCRATCH \in Reg \ {CMD_REG}
  /\ CommandByte \subseteq Int /\ FrameId \subseteq Int
  /\ RAW_FRAME_STORE \in Nat /\ TRAMPOLINE_LIMIT \in Nat
  /\ Unknown \notin Int /\ Unknown \notin Reg

----------------------------------------------------------------------------
(* What the tools make of a code. *)

\* The loads of an immediate into r before i, and into any register.
LoadsBefore(code, r, i) == {k \in 1..(i - 1) : code[k].op = "li" /\ code[k].rd = r}
AnyLoadBefore(code, i) == {k \in 1..(i - 1) : code[k].op = "li"}

LastImm(code, loads) == IF loads = {} THEN Unknown ELSE code[Max(loads)].imm

\* The register that the command is compared with.
other(x) ==
  IF x.rd = CMD_REG THEN x.rs ELSE IF x.rs = CMD_REG THEN x.rd ELSE Unknown

\* The immediate that gen_analysis has for the comparison at i: once loaded it is
\* remembered whatever is written to the register.
DispatchImm(code, i) == LastImm(code, LoadsBefore(code, other(code[i]), i))

\* A faulty variant: a bne leads to its branch target.
BranchTarget(code, i) == code[i].to

\* Where a command equal to the immediate goes.
MatchTarget(code, i) ==
  IF code[i].op = "beq" THEN code[i].to ELSE IF i < Len(code) THEN i + 1 ELSE Unknown

Tests(code, v) ==
  {i \in DOMAIN code : code[i].op \in Equality /\ DispatchImm(code, i) = v}

\* A faulty variant: a later comparison overwrites an earlier one.
LastWinner(tests) == Max(tests)

\* gen_analysis.map_dispatch; handlers.setdefault keeps the first comparison.
Winner(tests) == Min(tests)

handlers(code) ==
  [v \in {v \in CommandByte : Tests(code, v) # {}} |->
     LET i == Winner(Tests(code, v))
     IN  [compare_at |-> i, handler |-> MatchTarget(code, i)]]

\* map_can.parse_tree has one immediate for all registers, and looks at no other
\* comparison than that of a5 with a4.
Arms(code, id) ==
  {i \in DOMAIN code : /\ code[i].op \in Equality
                       /\ {code[i].rd, code[i].rs} = {CMD_REG, SCRATCH}
                       /\ LastImm(code, AnyLoadBefore(code, i)) = id
                       /\ code[i].op = "bne" => i < Len(code)}

arms(code) ==
  [id \in {id \in FrameId : Arms(code, id) # {}} |->
     LET i == Winner(Arms(code, id)) IN [at |-> i, to |-> MatchTarget(code, i)]]

\* A faulty variant: nothing is dropped, as in gen_analysis.
NeverForgets(x, r) == FALSE

\* map_dispatch.py drops the immediate of a register that is the first operand of
\* another instruction, unless that is an addi; it lists all comparisons, with the
\* branch target.
Forgets(x, r) == x.op \in {"move", "write", "bnez"} /\ x.rd = r

ListedImm(code, i) ==
  LET loads == LoadsBefore(code, other(code[i]), i)
  IN  IF \E j \in (Max(loads \cup {0}) + 1)..(i - 1) : Forgets(code[j], other(code[i]))
      THEN Unknown ELSE LastImm(code, loads)

found(code) ==
  {[at |-> i, val |-> ListedImm(code, i), tgt |-> code[i].to] :
     i \in {i \in DOMAIN code : code[i].op \in Compare /\ ListedImm(code, i) \in CommandByte}}

----------------------------------------------------------------------------
(* map_can.resolve_decoder: the routine an arm ends in. *)

Window(code, a) == DOMAIN code \cap a..(a + TRAMPOLINE_LIMIT - 1)

\* A faulty variant: the search ends with the last jump in the window.
LastStop(stops) == Max(stops)

\* The first jump, call or return ends the search.
Stops(code, a) == {i \in Window(code, a) : code[i].op \in {"j", "jal", "ret"}}
FirstStop(stops) == Min(stops)

nxt(code, a) ==
  IF Stops(code, a) = {} \/ code[FirstStop(Stops(code, a))].op = "ret" THEN Unknown
  ELSE code[FirstStop(Stops(code, a))].to

\* Register saves and moves, then a jump.
is_trampoline(code, a) ==
  LET real == {i \in Window(code, a) : code[i].op \notin Saves}
  IN  real # {} /\ code[Min(real)].op = "j"

\* Two hops are taken at most, and the second ends the search in any case.
resolve_decoder(code, tramp) ==
  LET first == nxt(code, tramp)
  IN  IF first # Unknown /\ first # RAW_FRAME_STORE /\ is_trampoline(code, first)
      THEN nxt(code, first) ELSE first

----------------------------------------------------------------------------
(* The device. *)

VARIABLES
  code,         \* the dispatcher
  pc,           \* the next instruction; 0 after a return
  regs,
  run,          \* history: where the instructions now executed in a row began
  met,          \* history: the last comparison that the command was equal in, and
                \* where that led
  tails,        \* history: where the jumps since then led
  calm          \* history: since then no call was made and no branch taken

vars == <<code, pc, regs, run, met, tails, calm>>

Commands(c) == {c[k].imm : k \in {k \in DOMAIN c : c[k].op = "li"}}

NotMet == [at |-> 0, to |-> 0, value |-> Unknown]

Init ==
  /\ code \in Codes
  /\ \E cmd \in Commands(code) :
       regs = [r \in Reg |-> IF r = CMD_REG THEN cmd ELSE Unknown]
  /\ pc = 1 /\ run = 1
  /\ met = NotMet /\ tails = {} /\ calm = TRUE

ins == code[pc]
Executing(ops) == pc \in DOMAIN code /\ ins.op \in ops

Straight == pc' = pc + 1 /\ run' = run
Jump(to) == pc' = to /\ run' = to

Write ==
  /\ Executing(Writes)
  /\ regs' = [regs EXCEPT ![ins.rd] = IF ins.op = "li" THEN ins.imm ELSE Unknown]
  /\ Straight
  /\ UNCHANGED <<code, met, tails, calm>>

\* How a comparison may come out.
Equal(a, b) == IF Unknown \in {a, b} THEN BOOLEAN ELSE {a = b}
Less(a, b) == IF Unknown \in {a, b} THEN BOOLEAN ELSE {a < b}
Taken(a, b) ==
  CASE ins.op = "beq" -> Equal(a, b)
    [] ins.op = "bne" -> {~e : e \in Equal(a, b)}
    [] ins.op \in {"blt", "bltu"} -> Less(a, b)
    [] OTHER -> {~l : l \in Less(a, b)}

Branch(taken) == IF taken THEN Jump(ins.to) ELSE Straight

\* The command is what the register compared with it holds.
Meets ==
  /\ Executing(Equality)
  /\ other(ins) # Unknown /\ regs[other(ins)] # Unknown /\ regs[other(ins)] = regs[CMD_REG]

Test ==
  /\ Executing(Compare)
  /\ \E taken \in Taken(regs[ins.rd], regs[ins.rs]) :
       /\ Branch(taken)
       /\ IF Meets
          THEN /\ met' = [at |-> pc, to |-> pc', value |-> regs[CMD_REG]]
               /\ tails' = {} /\ calm' = TRUE
          ELSE /\ calm' = (calm /\ ~taken)
               /\ UNCHANGED <<met, tails>>
  /\ UNCHANGED <<code, regs>>

\* A branch on something else than the command.
TestOther ==
  /\ Executing({"bnez"})
  /\ \E taken \in BOOLEAN : Branch(taken) /\ calm' = (calm /\ ~taken)
  /\ UNCHANGED <<code, regs, met, tails>>

TailJump ==
  /\ Executing({"j"})
  /\ Jump(ins.to)
  /\ tails' = tails \cup {ins.to}
  /\ UNCHANGED <<code, regs, met, calm>>

\* The call comes back; it keeps the command and no other register.
Call ==
  /\ Executing({"jal"})
  /\ regs' = [r \in Reg |-> IF r = CMD_REG THEN regs[r] ELSE Unknown]
  /\ calm' = FALSE
  /\ Straight
  /\ UNCHANGED <<code, met, tails>>

Return ==
  /\ Executing({"ret"})
  /\ Jump(0)
  /\ UNCHANGED <<code, regs, met, tails, calm>>

Next == Write \/ Test \/ TestOther \/ TailJump \/ Call \/ Return

Spec == Init /\ [][Next]_vars

----------------------------------------------------------------------------
(* What the tables say of the device. *)

\* The register compared with the command was loaded by the instructions just
\* executed in a row, so that the scan met the same load before this comparison.
LoadedInARow(r) == \E k \in LoadsBefore(code, r, pc) : k >= run

\* gen_analysis: a command that meets a comparison has a row, that of this comparison
\* or of an earlier one, and the row of this comparison leads where the command goes.
HandlersTold ==
  [][Meets /\ LoadedInARow(other(ins)) /\ regs[CMD_REG] \in CommandByte =>
       /\ regs[CMD_REG] \in DOMAIN handlers(code)
       /\ LET row == handlers(code)[regs[CMD_REG]]
          IN  \/ row.compare_at < pc
              \/ row.compare_at = pc /\ row.handler \in {pc', Unknown}]_vars

\* map_can: the same, unless another immediate was loaded between the two, into
\* whatever register, or the window ends with the comparison.
ArmsTold ==
  [][Meets /\ LoadedInARow(SCRATCH) /\ other(ins) = SCRATCH /\ regs[CMD_REG] \in FrameId
       /\ Max(LoadsBefore(code, SCRATCH, pc)) = Max(AnyLoadBefore(code, pc))
       /\ pc < Len(code) =>
       /\ regs[CMD_REG] \in DOMAIN arms(code)
       /\ LET row == arms(code)[regs[CMD_REG]]
          IN  row.at < pc \/ row = [at |-> pc, to |-> pc']]_vars

\* map_dispatch.py: the value listed at a comparison is the one compared, unless the
\* device came there by a branch after the load, or an addi or a call changed the
\* register and the scan did not notice.
ListingMeant ==
  \A row \in found(code) :
    (row.at = pc /\ LoadedInARow(other(ins))) =>
      \/ regs[other(ins)] = row.val
      \/ \E j \in Max(LoadsBefore(code, other(ins), pc))..(pc - 1) :
           code[j].op = "jal" \/ (code[j].op = "addi" /\ code[j].rd = other(ins))

\* map_can: where the arm makes no call and takes no branch, the decoder reported for
\* it is a routine the frame goes to.
DecoderReached ==
  (pc \notin DOMAIN code /\ met.at # 0 /\ calm) =>
    resolve_decoder(code, met.to) \in tails \cup {Unknown}

\* What map_dispatch's description says: the handler of a command is what its row
\* has.  A command is handled where the last comparison it met led.
HandlerOfCommand ==
  (pc \notin DOMAIN code /\ met.value \in DOMAIN handlers(code)) =>
    handlers(code)[met.value].handler = met.to

=============================================================================
