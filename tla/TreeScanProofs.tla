--------------------------- MODULE TreeScanProofs ---------------------------
(***************************************************************************)
(* The tables of TreeScan for dispatchers of every length and shape: when  *)
(* a row is where the device takes the command, and a decoder one that a   *)
(* frame comes to.                                                         *)
(***************************************************************************)
EXTENDS TreeScan, WellFoundedInduction, TLAPS

\* Instructions after which the register is no longer known, the command excepted.
Clobbers(x, r) == x.op = "jal" \/ (x.op \in {"addi", "move", "write"} /\ x.rd = r)

\* k is the last load of r before the device's instruction, and stands in its run.
LastLoad(r, k) ==
  /\ k \in LoadsBefore(code, r, pc) /\ k >= run
  /\ \A j \in LoadsBefore(code, r, pc) : j <= k

\* The register holds what it was loaded with in the run, unless it was clobbered since.
LoadsHeld ==
  \A r \in Reg, k \in Nat :
    (pc \in DOMAIN code /\ LastLoad(r, k)) =>
      \/ regs[r] = code[k].imm
      \/ /\ regs[r] = Unknown
         /\ \E j \in (k + 1)..(pc - 1) : Clobbers(code[j], r)

Types ==
  /\ code \in Seq(Instruction)
  /\ pc \in Nat /\ run \in Nat
  /\ regs \in [Reg -> Int \cup {Unknown}]

IInv == Types /\ LoadsHeld

----------------------------------------------------------------------------

LEMMA Smallest ==
  ASSUME NEW T \in SUBSET Nat, T # {}
  PROVE  Min(T) \in T /\ \A y \in T : Min(T) <= y
<1>1. PICK R : IsWellFoundedOn(R, Nat) /\ \A a, b \in Nat : b < a => <<b, a>> \in R
  <2>1. \A a, b \in Nat : b < a => <<b, a>> \in OpToRel(<, Nat)
    BY DEF OpToRel
  <2> QED
    BY <2>1, NatLessThanWellFounded
<1>2. \E a \in T : \A b \in T : ~ (<<b, a>> \in R)
  BY <1>1, WFMin
<1>3. PICK a \in T : \A b \in T : ~ (<<b, a>> \in R)
  BY <1>2
<1>4. ASSUME NEW b \in T PROVE a <= b
  <2>1. a \in Nat /\ b \in Nat /\ ~(b < a)
    BY <1>1, <1>3
  <2> QED
    BY <2>1
<1> QED
  BY <1>4 DEF Min

LEMMA Largest ==
  ASSUME NEW T \in SUBSET Nat, T # {}, NEW n \in Nat, \A a \in T : a <= n
  PROVE  Max(T) \in T /\ \A y \in T : y <= Max(T)
<1> DEFINE U == {n - a : a \in T}
<1>1. U \in SUBSET Nat
  <2>1. \A a \in T : n - a \in Nat
    OBVIOUS
  <2> QED
    BY <2>1
<1>2. PICK u \in U : \A v \in U : u <= v
  <2>1. U # {}
    OBVIOUS
  <2> HIDE DEF U
  <2> QED
    BY <1>1, <2>1, Smallest
<1>3. PICK a \in T : u = n - a
  BY <1>2
<1>4. \A b \in T : n - a <= n - b
  BY <1>2, <1>3
<1>5. \A b \in T : b \in Nat
  OBVIOUS
<1>6. \A b \in T : b <= a
  BY <1>4, <1>5
<1>7. \A b \in T : a >= b
  BY <1>6, <1>5
<1>8. Max(T) \in T /\ \A y \in T : Max(T) >= y
  BY <1>7 DEF Max
<1> QED
  BY <1>8, <1>5

LEMMA LoadsAreBefore ==
  ASSUME NEW c, NEW r, NEW i \in Nat
  PROVE  /\ LoadsBefore(c, r, i) \in SUBSET Nat
         /\ \A k \in LoadsBefore(c, r, i) : k <= i /\ k < i /\ k > 0
BY DEF LoadsBefore

----------------------------------------------------------------------------

LEMMA InitHolds == Init => IInv
<1> SUFFICES ASSUME Init PROVE IInv
  OBVIOUS
<1>1. code \in Seq(Instruction) /\ pc = 1 /\ run = 1
  BY TreeTypes DEF Init
<1>2. PICK cmd \in Commands(code) :
        regs = [r \in Reg |-> IF r = CMD_REG THEN cmd ELSE Unknown]
  BY DEF Init
<1>3. cmd \in Int
  <2>1. \A k \in DOMAIN code : code[k] \in Instruction
    BY <1>1
  <2>2. PICK k \in DOMAIN code : cmd = code[k].imm
    BY DEF Commands
  <2> QED
    BY <2>1, <2>2 DEF Instruction
<1>4. regs \in [Reg -> Int \cup {Unknown}]
  BY <1>2, <1>3
<1>5. \A r \in Reg : LoadsBefore(code, r, pc) = {}
  BY <1>1 DEF LoadsBefore
<1> QED
  BY <1>1, <1>4, <1>5 DEF IInv, Types, LoadsHeld, LastLoad

\* What an instruction does to a register when the device goes on with the next one.
RegAfter(r) ==
  \/ regs'[r] = regs[r] /\ ~(ins.op = "li" /\ ins.rd = r)
  \/ regs'[r] = Unknown /\ Clobbers(ins, r)
  \/ ins.op = "li" /\ ins.rd = r /\ regs'[r] = ins.imm

LEMMA StraightHolds ==
  ASSUME IInv, pc \in DOMAIN code, Straight, code' = code, \A r \in Reg : RegAfter(r)
  PROVE  LoadsHeld'
<1> SUFFICES ASSUME NEW r \in Reg, NEW k \in Nat, LastLoad(r, k)'
             PROVE  (\/ regs[r] = code[k].imm
                     \/ regs[r] = Unknown /\ \E j \in (k + 1)..(pc - 1) : Clobbers(code[j], r))'
  BY DEF LoadsHeld
<1>1. pc \in Nat /\ pc > 0 /\ pc' = pc + 1 /\ run' = run
  BY DEF IInv, Types, Straight
<1>2. \A j : j \in LoadsBefore(code', r, pc') <=>
              j \in LoadsBefore(code, r, pc) \/ (j = pc /\ ins.op = "li" /\ ins.rd = r)
  BY <1>1 DEF LoadsBefore, ins
<1>3. CASE k = pc
  <2>1. ins.op = "li" /\ ins.rd = r
    BY <1>1, <1>2, <1>3, LoadsAreBefore DEF LastLoad
  <2>2. regs'[r] = ins.imm
    BY <2>1 DEF RegAfter, Clobbers
  <2> QED
    BY <1>3, <2>2 DEF ins
<1>4. CASE k # pc
  <2>1. k \in LoadsBefore(code, r, pc) /\ k < pc
    BY <1>1, <1>2, <1>4, LoadsAreBefore DEF LastLoad
  <2>2. ~(ins.op = "li" /\ ins.rd = r)
    BY <1>1, <1>2, <2>1 DEF LastLoad
  <2>3. LastLoad(r, k)
    BY <1>1, <1>2, <2>1 DEF LastLoad
  <2>4. CASE regs'[r] = regs[r]
    <3>1. \/ regs[r] = code[k].imm
          \/ regs[r] = Unknown /\ \E j \in (k + 1)..(pc - 1) : Clobbers(code[j], r)
      BY <2>3 DEF IInv, LoadsHeld
    <3>2. (k + 1)..(pc - 1) \subseteq (k + 1)..(pc' - 1)
      BY <1>1
    <3> QED
      BY <2>4, <3>1, <3>2 DEF Clobbers
  <2>5. CASE regs'[r] = Unknown /\ Clobbers(ins, r)
    <3>1. pc \in (k + 1)..(pc' - 1)
      BY <1>1, <2>1
    <3> QED
      BY <2>5, <3>1 DEF ins, Clobbers
  <2> QED
    BY <2>2, <2>4, <2>5 DEF RegAfter
<1> QED
  BY <1>3, <1>4

LEMMA JumpHolds ==
  ASSUME pc' \in Nat, run' = pc'
  PROVE  LoadsHeld'
<1>1. \A r, k : ~ LastLoad(r, k)'
  <2> SUFFICES ASSUME NEW r, NEW k, LastLoad(r, k)' PROVE FALSE
    OBVIOUS
  <2>1. k \in LoadsBefore(code', r, pc') /\ k >= pc'
    BY DEF LastLoad
  <2>2. k \in Nat /\ k < pc'
    BY <2>1, LoadsAreBefore
  <2> QED
    BY <2>1, <2>2
<1> QED
  BY <1>1 DEF LoadsHeld

LEMMA BranchHolds ==
  ASSUME IInv, pc \in DOMAIN code, NEW taken, Branch(taken),
         code' = code, regs' = regs, ins.op # "li"
  PROVE  LoadsHeld' /\ pc' \in Nat /\ run' \in Nat
<1>1. ins \in Instruction /\ pc \in Nat /\ run \in Nat
  BY DEF IInv, Types, ins
<1>2. CASE taken
  <2>1. pc' = ins.to /\ run' = ins.to /\ ins.to \in Nat
    BY <1>1, <1>2 DEF Branch, Jump, Instruction
  <2> QED
    BY <2>1, JumpHolds
<1>3. CASE ~taken
  <2>1. Straight
    BY <1>3 DEF Branch
  <2> QED
    BY <1>1, <2>1, StraightHolds DEF RegAfter, Straight
<1> QED
  BY <1>2, <1>3

LEMMA StepHolds ==
  ASSUME IInv, [Next]_vars
  PROVE  IInv'
<1>1. CASE Write
  <2>1. pc \in DOMAIN code /\ code' = code /\ Straight /\ ins.op \in Writes /\ ins \in Instruction
    BY <1>1 DEF Write, Executing, IInv, Types, ins
  <2>2. regs' = [regs EXCEPT ![ins.rd] = IF ins.op = "li" THEN ins.imm ELSE Unknown]
    BY <1>1 DEF Write
  <2>3. \A r \in Reg : RegAfter(r)
    BY <2>1, <2>2 DEF RegAfter, Clobbers, Writes, Saves, IInv, Types, Instruction
  <2>4. Types'
    BY <2>1, <2>2 DEF IInv, Types, Straight, Instruction
  <2> QED
    BY <2>1, <2>3, <2>4, StraightHolds DEF IInv
<1>2. CASE Test
  <2>1. pc \in DOMAIN code /\ code' = code /\ regs' = regs /\ ins.op # "li"
    BY <1>2 DEF Test, Executing, Compare, Equality
  <2>2. PICK taken \in Taken(regs[ins.rd], regs[ins.rs]) : Branch(taken)
    BY <1>2 DEF Test
  <2>3. LoadsHeld' /\ pc' \in Nat /\ run' \in Nat
    BY <2>1, <2>2, BranchHolds
  <2> QED
    BY <2>1, <2>3 DEF IInv, Types
<1>3. CASE TestOther
  BY <1>3, BranchHolds DEF TestOther, Executing, IInv, Types
<1>4. CASE TailJump
  <2>1. ins \in Instruction /\ pc' = ins.to /\ run' = pc' /\ code' = code /\ regs' = regs
    BY <1>4 DEF TailJump, Executing, Jump, IInv, Types, ins
  <2> QED
    BY <2>1, JumpHolds DEF IInv, Types, Instruction
<1>5. CASE Call
  <2>1. /\ pc \in DOMAIN code /\ code' = code /\ Straight /\ ins.op = "jal"
        /\ regs' = [r \in Reg |-> IF r = CMD_REG THEN regs[r] ELSE Unknown]
    BY <1>5 DEF Call, Executing
  <2>2. \A r \in Reg : RegAfter(r)
    BY <2>1 DEF RegAfter, Clobbers
  <2>3. Types'
    BY <2>1 DEF IInv, Types, Straight
  <2> QED
    BY <2>1, <2>2, <2>3, StraightHolds DEF IInv
<1>6. CASE Return
  BY <1>6, JumpHolds DEF Return, Jump, IInv, Types
<1>7. CASE UNCHANGED vars
  BY <1>7 DEF vars, IInv, Types, LoadsHeld, LastLoad
<1> QED
  BY <1>1, <1>2, <1>3, <1>4, <1>5, <1>6, <1>7 DEF Next

THEOREM LoadsAreHeld == Spec => []IInv
<1> QED
  BY InitHolds, StepHolds, PTL DEF Spec

----------------------------------------------------------------------------

\* What a scan that has met the device's last load has for the comparison.
LEMMA ScanHasLastLoad ==
  ASSUME pc \in Nat, run \in Nat, NEW r \in Reg, LoadedInARow(r)
  PROVE  LET k == Max(LoadsBefore(code, r, pc))
         IN  LastLoad(r, k) /\ k \in Nat /\ LoadsBefore(code, r, pc) # {}
<1> DEFINE loads == LoadsBefore(code, r, pc)
<1>1. loads \in SUBSET Nat /\ \A k \in loads : k <= pc
  BY LoadsAreBefore
<1>2. PICK k \in loads : k >= run
  BY DEF LoadedInARow
<1>3. Max(loads) \in loads /\ \A j \in loads : j <= Max(loads)
  <2> HIDE DEF loads
  <2> QED
    BY <1>1, <1>2, Largest
<1>4. Max(loads) \in Nat /\ k \in Nat /\ k <= Max(loads)
  BY <1>1, <1>2, <1>3
<1> QED
  BY <1>2, <1>3, <1>4 DEF LastLoad

\* A command that is met goes where the comparison sends it.
LEMMA MatchGoes ==
  ASSUME IInv, Next, Meets
  PROVE  /\ Equality = {"beq", "bne"} /\ ins.op \in Equality /\ pc \in DOMAIN code
         /\ pc' = IF ins.op = "beq" THEN ins.to ELSE pc + 1
<1>1. ins.op \in Equality /\ pc \in DOMAIN code /\ ins \in Instruction
  BY DEF Meets, Executing, IInv, Types, ins
<1>2. Test
  BY <1>1 DEF Next, Write, TestOther, TailJump, Call, Return, Executing, Equality, Writes, Saves
<1>3. regs[ins.rd] = regs[ins.rs] /\ Unknown \notin {regs[ins.rd], regs[ins.rs]}
  BY DEF Meets, other
<1>4. Equal(regs[ins.rd], regs[ins.rs]) = {TRUE}
  BY <1>3 DEF Equal
<1>5. PICK taken \in Taken(regs[ins.rd], regs[ins.rs]) : Branch(taken)
  BY <1>2 DEF Test
<1>6. CASE ins.op = "beq"
  <2>1. taken = TRUE
    BY <1>4, <1>5, <1>6 DEF Taken
  <2> QED
    BY <1>1, <1>5, <1>6, <2>1 DEF Branch, Jump, Equality
<1>7. CASE ins.op = "bne"
  <2>1. taken = FALSE
    BY <1>4, <1>5, <1>7 DEF Taken
  <2> QED
    BY <1>1, <1>5, <1>7, <2>1 DEF Branch, Straight, Equality
<1> QED
  BY <1>1, <1>6, <1>7 DEF Equality

LEMMA StepTold ==
  ASSUME IInv, Next, Meets, LoadedInARow(other(ins)), regs[CMD_REG] \in CommandByte
  PROVE  /\ regs[CMD_REG] \in DOMAIN handlers(code)
         /\ LET row == handlers(code)[regs[CMD_REG]]
            IN  \/ row.compare_at < pc
                \/ row.compare_at = pc /\ row.handler \in {pc', Unknown}
<1> DEFINE v == regs[CMD_REG]
           r == other(ins)
           tests == Tests(code, v)
<1>1. ins.op \in Equality /\ pc \in DOMAIN code /\ pc \in Nat /\ run \in Nat /\ ins \in Instruction
  BY MatchGoes DEF IInv, Types, ins
<1>2. r \in Reg /\ regs[r] = v /\ v # Unknown
  BY <1>1, TreeTypes DEF Meets, other, Instruction
<1> DEFINE k == Max(LoadsBefore(code, r, pc))
<1>3. LastLoad(r, k) /\ k \in Nat /\ LoadsBefore(code, r, pc) # {}
  BY <1>1, <1>2, ScanHasLastLoad
<1>4. code[k].imm = v
  BY <1>1, <1>2, <1>3 DEF IInv, LoadsHeld
<1>5. DispatchImm(code, pc) = v
  BY <1>3, <1>4 DEF DispatchImm, LastImm, ins
<1>6. pc \in tests
  BY <1>1, <1>5 DEF Tests, ins
<1>7. tests \in SUBSET Nat
  <2>1. DOMAIN code \subseteq Nat
    BY DEF IInv, Types
  <2> QED
    BY <2>1 DEF Tests
<1>8. Winner(tests) \in tests /\ Winner(tests) <= pc
  <2> HIDE DEF tests
  <2> QED
    BY <1>6, <1>7, Smallest DEF Winner
<1>9. v \in DOMAIN handlers(code)
      /\ handlers(code)[v] = [compare_at |-> Winner(tests), handler |-> MatchTarget(code, Winner(tests))]
  BY <1>6 DEF handlers
<1>10. MatchTarget(code, pc) \in {pc', Unknown}
  BY <1>1, MatchGoes DEF MatchTarget, ins
<1>11. Winner(tests) \in Nat
  BY <1>7, <1>8
<1> QED
  BY <1>1, <1>8, <1>9, <1>10, <1>11

\* gen_analysis.map_dispatch: a command that meets a comparison whose register was
\* loaded on the way there has a row, of this comparison or an earlier one, and the
\* row of this comparison is where the command goes.
THEOREM RowsLeadWhereCommandsGo == Spec => HandlersTold
<1> DEFINE Told == Meets /\ LoadedInARow(other(ins)) /\ regs[CMD_REG] \in CommandByte =>
       /\ regs[CMD_REG] \in DOMAIN handlers(code)
       /\ LET row == handlers(code)[regs[CMD_REG]]
          IN  \/ row.compare_at < pc
              \/ row.compare_at = pc /\ row.handler \in {pc', Unknown}
<1>1. IInv /\ [Next]_vars => [Told]_vars
  <2> SUFFICES ASSUME IInv, Next PROVE Told
    OBVIOUS
  <2> QED
    BY StepTold
<1> HIDE DEF Told
<1>2. Spec => [][Told]_vars
  BY <1>1, LoadsAreHeld, PTL DEF Spec
<1> QED
  BY <1>2 DEF Told, HandlersTold

----------------------------------------------------------------------------

LEMMA OperandIsRegister ==
  ASSUME IInv, pc \in DOMAIN code, other(ins) # Unknown
  PROVE  other(ins) \in Reg
<1>1. ins \in Instruction
  BY DEF IInv, Types, ins
<1> QED
  BY <1>1 DEF other, Instruction

LEMMA NoLoadsOfUnknown ==
  ASSUME IInv, pc \in DOMAIN code
  PROVE  LoadsBefore(code, Unknown, pc) = {}
<1>1. \A k \in DOMAIN code : code[k].rd # Unknown
  <2>1. \A k \in DOMAIN code : code[k] \in Instruction
    BY DEF IInv, Types
  <2> QED
    BY <2>1, TreeTypes DEF Instruction
<1>2. 1..(pc - 1) \subseteq DOMAIN code
  BY DEF IInv, Types
<1> QED
  BY <1>1, <1>2 DEF LoadsBefore

LEMMA ListingHolds == IInv => ListingMeant
<1> SUFFICES ASSUME IInv, NEW row \in found(code), row.at = pc, LoadedInARow(other(ins))
             PROVE  \/ regs[other(ins)] = row.val
                    \/ \E j \in Max(LoadsBefore(code, other(ins), pc))..(pc - 1) :
                         code[j].op = "jal" \/ (code[j].op = "addi" /\ code[j].rd = other(ins))
  BY DEF ListingMeant
<1> DEFINE r == other(ins)
           loads == LoadsBefore(code, r, pc)
           k == Max(loads)
<1>1. pc \in DOMAIN code /\ pc \in Nat /\ run \in Nat
      /\ row.val = ListedImm(code, pc) /\ ListedImm(code, pc) \in CommandByte
  BY DEF found, IInv, Types
<1>2. r \in Reg
  BY <1>1, OperandIsRegister, NoLoadsOfUnknown DEF LoadedInARow
<1>3. LastLoad(r, k) /\ k \in Nat /\ loads # {}
  BY <1>1, <1>2, ScanHasLastLoad
<1>4. Max(loads \cup {0}) = k
  <2>1. loads \in SUBSET Nat /\ (\A a \in loads : a <= pc /\ a > 0) /\ k \in loads
    BY <1>1, <1>3, LoadsAreBefore DEF LastLoad
  <2>2. /\ Max(loads \cup {0}) \in loads \cup {0}
        /\ \A a \in loads \cup {0} : a <= Max(loads \cup {0})
    <3>1. loads \cup {0} \in SUBSET Nat /\ \A a \in loads \cup {0} : a <= pc
      BY <1>1, <2>1
    <3>2. loads \cup {0} # {}
      OBVIOUS
    <3> HIDE DEF loads
    <3> QED
      BY <1>1, <3>1, <3>2, Largest
  <2>3. \A a \in loads : a <= k
    BY <1>3 DEF LastLoad
  <2>4. Max(loads \cup {0}) \in Nat /\ k \in Nat /\ k > 0 /\ k <= Max(loads \cup {0})
    BY <2>1, <2>2
  <2>5. Max(loads \cup {0}) \in loads
    BY <2>2, <2>4
  <2> HIDE DEF k, loads
  <2> QED
    BY <2>3, <2>4, <2>5
<1>5. ListedImm(code, pc) = code[k].imm /\ ~ \E j \in (k + 1)..(pc - 1) : Forgets(code[j], r)
  <2>1. ListedImm(code, pc) # Unknown
    BY <1>1, TreeTypes
  <2> HIDE DEF k
  <2> QED
    BY <1>3, <1>4, <2>1 DEF ListedImm, LastImm, ins, k
<1>6. \/ regs[r] = code[k].imm
      \/ \E j \in (k + 1)..(pc - 1) : Clobbers(code[j], r)
  BY <1>1, <1>2, <1>3 DEF IInv, LoadsHeld
<1>7. ASSUME NEW j \in (k + 1)..(pc - 1), Clobbers(code[j], r)
      PROVE  j \in k..(pc - 1) /\ (code[j].op = "jal" \/ (code[j].op = "addi" /\ code[j].rd = r))
  <2>1. j \in k..(pc - 1)
    BY <1>1, <1>3
  <2> QED
    BY <1>5, <1>7, <2>1 DEF Clobbers, Forgets
<1> QED
  BY <1>1, <1>5, <1>6, <1>7

\* map_dispatch.py: the value it lists at a comparison is the one compared, except
\* after an addi or a call that it does not notice.
THEOREM ListedValuesAreCompared == Spec => []ListingMeant
<1> QED
  BY LoadsAreHeld, ListingHolds, PTL

LEMMA StepArmed ==
  ASSUME IInv, Next, Meets, LoadedInARow(SCRATCH), other(ins) = SCRATCH,
         regs[CMD_REG] \in FrameId, pc < Len(code),
         Max(LoadsBefore(code, SCRATCH, pc)) = Max(AnyLoadBefore(code, pc))
  PROVE  /\ regs[CMD_REG] \in DOMAIN arms(code)
         /\ LET row == arms(code)[regs[CMD_REG]]
            IN  row.at < pc \/ row = [at |-> pc, to |-> pc']
<1> DEFINE id == regs[CMD_REG]
           compared == Arms(code, id)
           k == Max(LoadsBefore(code, SCRATCH, pc))
<1>1. ins.op \in Equality /\ pc \in DOMAIN code /\ pc \in Nat /\ run \in Nat /\ ins \in Instruction
  BY MatchGoes DEF IInv, Types, ins
<1>2. SCRATCH \in Reg /\ SCRATCH # CMD_REG /\ regs[SCRATCH] = id /\ id # Unknown
  BY <1>1, TreeTypes DEF Meets
<1>3. LastLoad(SCRATCH, k) /\ k \in Nat /\ LoadsBefore(code, SCRATCH, pc) # {}
  BY <1>1, <1>2, ScanHasLastLoad
<1>4. code[k].imm = id
  BY <1>1, <1>2, <1>3 DEF IInv, LoadsHeld
<1>5. LastImm(code, AnyLoadBefore(code, pc)) = id
  <2>1. AnyLoadBefore(code, pc) # {}
    BY <1>3 DEF AnyLoadBefore, LoadsBefore
  <2> QED
    BY <1>4, <2>1 DEF LastImm
<1>6. pc \in compared
  <2>1. {ins.rd, ins.rs} = {CMD_REG, SCRATCH}
    BY <1>2, TreeTypes DEF other
  <2> QED
    BY <1>1, <1>5, <2>1 DEF Arms, ins
<1>7. compared \in SUBSET Nat
  <2>1. DOMAIN code \subseteq Nat
    BY DEF IInv, Types
  <2> QED
    BY <2>1 DEF Arms
<1>8. Winner(compared) \in compared /\ Winner(compared) <= pc
  <2> HIDE DEF compared
  <2> QED
    BY <1>6, <1>7, Smallest DEF Winner
<1>9. id \in DOMAIN arms(code)
      /\ arms(code)[id] = [at |-> Winner(compared), to |-> MatchTarget(code, Winner(compared))]
  BY <1>6 DEF arms
<1>10. MatchTarget(code, pc) = pc'
  BY <1>1, MatchGoes DEF MatchTarget, ins
<1>11. Winner(compared) \in Nat
  BY <1>7, <1>8
<1> QED
  BY <1>1, <1>8, <1>9, <1>10, <1>11

\* map_can.parse_tree: the same of the CAN frames, as long as the comparison is met
\* with no other immediate loaded in between.
THEOREM ArmsLeadWhereFramesGo == Spec => ArmsTold
<1> DEFINE Told == Meets /\ LoadedInARow(SCRATCH) /\ other(ins) = SCRATCH
                     /\ regs[CMD_REG] \in FrameId
                     /\ Max(LoadsBefore(code, SCRATCH, pc)) = Max(AnyLoadBefore(code, pc))
                     /\ pc < Len(code) =>
       /\ regs[CMD_REG] \in DOMAIN arms(code)
       /\ LET row == arms(code)[regs[CMD_REG]]
          IN  row.at < pc \/ row = [at |-> pc, to |-> pc']
<1>1. IInv /\ [Next]_vars => [Told]_vars
  <2> SUFFICES ASSUME IInv, Next PROVE Told
    OBVIOUS
  <2> QED
    BY StepArmed
<1> HIDE DEF Told
<1>2. Spec => [][Told]_vars
  BY <1>1, LoadsAreHeld, PTL DEF Spec
<1> QED
  BY <1>2 DEF Told, ArmsTold

----------------------------------------------------------------------------
(***************************************************************************)
(* What becomes of a frame behind its arm.  As long as the device makes no *)
(* call and takes no branch, it goes straight on to a jump or a return,    *)
(* and again from where the jump leads.                                    *)
(***************************************************************************)

IsStop(c, i) == c[i].op \in {"j", "jal", "ret"}

\* From a on nothing stops the search before b.
StraightTo(c, a, b) == a <= b /\ \A x \in DOMAIN c : a <= x /\ x < b => ~IsStop(c, x)

\* Straight on from a the device has met a return, or a jump whose target is in T.
Ended(c, a, T) ==
  \E i \in DOMAIN c :
    StraightTo(c, a, i) /\ (c[i].op = "ret" \/ (c[i].op = "j" /\ c[i].to \in T))

Behind(c, a, b, T) ==
  \/ StraightTo(c, a, b)
  \/ \E i \in DOMAIN c : StraightTo(c, a, i) /\ c[i].op = "ret"
  \/ \E i \in DOMAIN c :
       /\ StraightTo(c, a, i) /\ c[i].op = "j" /\ c[i].to \in T
       /\ StraightTo(c, c[i].to, b) \/ Ended(c, c[i].to, T)

ArmInv ==
  /\ met.at # 0 => met.to \in Nat \ {0}
  /\ met.at # 0 /\ calm => Behind(code, met.to, pc, tails)

LEMMA CodeIs ==
  ASSUME NEW c \in Seq(Instruction)
  PROVE  /\ Len(c) \in Nat /\ DOMAIN c = 1..Len(c)
         /\ \A i \in DOMAIN c : i \in Nat \ {0} /\ c[i].to \in Nat \ {0} /\ c[i] \in Instruction
<1>1. Len(c) \in Nat /\ DOMAIN c = 1..Len(c) /\ \A i \in DOMAIN c : c[i] \in Instruction
  OBVIOUS
<1>2. \A x \in Instruction : x.to \in Nat \ {0}
  BY DEF Instruction
<1> QED
  BY <1>1, <1>2

\* The search from a finds the stop that the device would meet first.
LEMMA SearchEnds ==
  ASSUME NEW c \in Seq(Instruction), NEW a \in Nat,
         NEW i \in DOMAIN c, StraightTo(c, a, i), IsStop(c, i)
  PROVE  nxt(c, a) = Unknown \/ (c[i].op # "ret" /\ nxt(c, a) = c[i].to)
<1> DEFINE S == Stops(c, a)
<1>1. CASE S = {}
  BY <1>1 DEF nxt
<1>2. CASE S # {}
  <2>1. S \in SUBSET Nat
    BY CodeIs DEF Stops, Window
  <2>2. ASSUME NEW x \in S PROVE x \in Nat /\ a <= x /\ x < a + TRAMPOLINE_LIMIT /\ i <= x
    <3>1. x \in DOMAIN c /\ x \in a..(a + TRAMPOLINE_LIMIT - 1) /\ IsStop(c, x)
      BY DEF Stops, Window, IsStop
    <3>2. x \in Nat /\ i \in Nat /\ ~(x < i)
      BY <3>1, CodeIs, TreeTypes DEF StraightTo
    <3> QED
      BY <3>1, <3>2, TreeTypes
  <2>3. PICK x \in S : TRUE
    BY <1>2
  <2>4. i \in Nat /\ a <= i /\ i < a + TRAMPOLINE_LIMIT
    BY <2>2, <2>3, CodeIs, TreeTypes DEF StraightTo
  <2>5. i \in S
    BY <2>4, TreeTypes DEF Stops, Window, IsStop
  <2> HIDE DEF S
  <2>6. Min(S) \in S /\ Min(S) <= i /\ i <= Min(S)
    BY <2>1, <2>2, <2>5, Smallest
  <2>7. Min(S) \in Nat
    BY <2>1, <2>6
  <2>8. Min(S) = i
    BY <2>4, <2>6, <2>7
  <2> QED
    BY <1>2, <2>8 DEF nxt, FirstStop, S
<1> QED
  BY <1>1, <1>2

\* And none where the device would run out of the code.
LEMMA SearchFails ==
  ASSUME NEW c \in Seq(Instruction), NEW a \in Nat \ {0}, NEW b \in Nat, b \notin DOMAIN c,
         StraightTo(c, a, b)
  PROVE  nxt(c, a) = Unknown
<1>1. ASSUME NEW x \in Stops(c, a) PROVE FALSE
  <2>1. x \in DOMAIN c /\ x \in a..(a + TRAMPOLINE_LIMIT - 1) /\ IsStop(c, x)
    BY DEF Stops, Window, IsStop
  <2>2. x \in Nat /\ a <= x /\ x < b
    BY <2>1, CodeIs, TreeTypes DEF StraightTo
  <2> QED
    BY <2>1, <2>2 DEF StraightTo
<1> QED
  BY <1>1 DEF nxt

\* From the arm, one hop; from a trampoline there, another one.
LEMMA DecoderIsThere ==
  ASSUME NEW c \in Seq(Instruction), NEW a \in Nat \ {0}, NEW b \in Nat, b \notin DOMAIN c,
         NEW T, Behind(c, a, b, T)
  PROVE  resolve_decoder(c, a) \in T \cup {Unknown}
<1>1. CASE nxt(c, a) = Unknown
  BY <1>1 DEF resolve_decoder
<1>2. CASE nxt(c, a) # Unknown
  <2>1. ~StraightTo(c, a, b)
    BY <1>2, SearchFails
  <2>2. ~\E i \in DOMAIN c : StraightTo(c, a, i) /\ c[i].op = "ret"
    BY <1>2, SearchEnds DEF IsStop
  <2>3. PICK i \in DOMAIN c :
          /\ StraightTo(c, a, i) /\ c[i].op = "j" /\ c[i].to \in T
          /\ StraightTo(c, c[i].to, b) \/ Ended(c, c[i].to, T)
    BY <2>1, <2>2 DEF Behind
  <2>4. nxt(c, a) = c[i].to /\ c[i].to \in Nat \ {0}
    BY <1>2, <2>3, SearchEnds, CodeIs DEF IsStop
  <2> DEFINE first == c[i].to
  <2>5. nxt(c, first) \in T \cup {Unknown}
    <3>1. CASE StraightTo(c, first, b)
      BY <2>4, <3>1, SearchFails
    <3>2. CASE Ended(c, first, T)
      <4>1. PICK k \in DOMAIN c : StraightTo(c, first, k)
                    /\ (c[k].op = "ret" \/ (c[k].op = "j" /\ c[k].to \in T))
        BY <3>2 DEF Ended
      <4>2. IsStop(c, k)
        BY <4>1 DEF IsStop
      <4>3. nxt(c, first) = Unknown \/ (c[k].op # "ret" /\ nxt(c, first) = c[k].to)
        BY <2>4, <4>1, <4>2, SearchEnds
      <4> QED
        BY <4>1, <4>3
    <3> QED
      BY <2>3, <3>1, <3>2
  <2>6. resolve_decoder(c, a) \in {first, nxt(c, first)}
    BY <2>4 DEF resolve_decoder
  <2> QED
    BY <2>3, <2>5, <2>6
<1> QED
  BY <1>1, <1>2

----------------------------------------------------------------------------

\* An instruction that is not a stop, and the next one.
LEMMA BehindGoesOn ==
  ASSUME NEW c \in Seq(Instruction), NEW a \in Nat, NEW b \in DOMAIN c, NEW T,
         Behind(c, a, b, T), ~IsStop(c, b)
  PROVE  Behind(c, a, b + 1, T)
<1>1. \A x \in DOMAIN c : x \in Nat
  BY CodeIs
<1>2. \A q \in Nat : StraightTo(c, q, b) => StraightTo(c, q, b + 1)
  BY <1>1 DEF StraightTo
<1>3. \A i \in DOMAIN c : c[i].to \in Nat
  BY CodeIs
<1> QED
  BY <1>2, <1>3 DEF Behind

\* A jump.
LEMMA BehindJumps ==
  ASSUME NEW c \in Seq(Instruction), NEW a \in Nat, NEW b \in DOMAIN c, NEW T,
         Behind(c, a, b, T), c[b].op = "j"
  PROVE  Behind(c, a, c[b].to, T \cup {c[b].to})
<1> DEFINE U == T \cup {c[b].to}
<1>1. \A q \in Nat : Ended(c, q, T) => Ended(c, q, U)
  BY DEF Ended
<1>2. \A q \in Nat : StraightTo(c, q, b) => Ended(c, q, U)
  BY DEF Ended
<1>3. c[b].to \in Nat /\ \A i \in DOMAIN c : c[i].to \in Nat
  BY CodeIs
<1>4. StraightTo(c, c[b].to, c[b].to)
  BY <1>3 DEF StraightTo
<1>5. CASE StraightTo(c, a, b)
  BY <1>4, <1>5 DEF Behind
<1>6. CASE \E i \in DOMAIN c : StraightTo(c, a, i) /\ c[i].op = "ret"
  BY <1>6 DEF Behind
<1>7. CASE \E i \in DOMAIN c :
             /\ StraightTo(c, a, i) /\ c[i].op = "j" /\ c[i].to \in T
             /\ StraightTo(c, c[i].to, b) \/ Ended(c, c[i].to, T)
  BY <1>1, <1>2, <1>3, <1>7 DEF Behind
<1> QED
  BY <1>5, <1>6, <1>7 DEF Behind

\* A return: from there the device is nowhere in the code.
LEMMA BehindReturns ==
  ASSUME NEW c \in Seq(Instruction), NEW a \in Nat, NEW b \in DOMAIN c, NEW T,
         Behind(c, a, b, T), c[b].op = "ret"
  PROVE  \A d : Behind(c, a, d, T)
<1>1. \A q \in Nat : StraightTo(c, q, b) => Ended(c, q, T)
  BY DEF Ended
<1>2. \A i \in DOMAIN c : c[i].to \in Nat
  BY CodeIs
<1> QED
  BY <1>1, <1>2 DEF Behind

LEMMA ArmStep ==
  ASSUME IInv, ArmInv, [Next]_vars
  PROVE  ArmInv'
<1>0. code \in Seq(Instruction) /\ pc \in Nat
  BY DEF IInv, Types
<1>1. CASE Write \/ TestOther \/ (Test /\ ~Meets)
  <2>1. /\ pc \in DOMAIN code /\ ~IsStop(code, pc)
        /\ UNCHANGED <<code, met, tails>>
        /\ calm' => calm /\ pc' = pc + 1
    <3>1. CASE Write
      BY <3>1 DEF Write, Executing, Writes, Saves, IsStop, Straight, ins
    <3>2. CASE TestOther
      BY <3>2 DEF TestOther, Executing, IsStop, Branch, Straight, ins
    <3>3. CASE Test /\ ~Meets
      BY <3>3 DEF Test, Executing, Compare, Equality, IsStop, Branch, Straight, ins
    <3> QED
      BY <1>1, <3>1, <3>2, <3>3
  <2> QED
    BY <1>0, <2>1, BehindGoesOn DEF ArmInv
<1>2. CASE Test /\ Meets
  <2>1. /\ pc \in DOMAIN code /\ code' = code /\ tails' = {} /\ calm' = TRUE
        /\ met' = [at |-> pc, to |-> pc', value |-> regs[CMD_REG]]
        /\ pc' \in {pc + 1, ins.to}
    BY <1>2 DEF Test, Executing, Branch, Straight, Jump
  <2>2. pc' \in Nat \ {0}
    BY <1>0, <2>1, CodeIs DEF ins
  <2>3. StraightTo(code', met'.to, pc')
    BY <2>1, <2>2, CodeIs DEF StraightTo
  <2> QED
    BY <2>1, <2>2, <2>3 DEF ArmInv, Behind
<1>3. CASE TailJump
  <2>1. /\ pc \in DOMAIN code /\ code[pc].op = "j" /\ pc' = code[pc].to
        /\ tails' = tails \cup {code[pc].to} /\ UNCHANGED <<code, met, calm>>
    BY <1>3 DEF TailJump, Executing, Jump, ins
  <2> QED
    BY <1>0, <2>1, BehindJumps DEF ArmInv
<1>4. CASE Call
  BY <1>4 DEF Call, ArmInv
<1>5. CASE Return
  <2>1. /\ pc \in DOMAIN code /\ code[pc].op = "ret"
        /\ UNCHANGED <<code, met, tails, calm>>
    BY <1>5 DEF Return, Executing, ins
  <2> QED
    BY <1>0, <2>1, BehindReturns DEF ArmInv
<1>6. CASE UNCHANGED vars
  BY <1>6 DEF vars, ArmInv
<1> QED
  BY <1>1, <1>2, <1>3, <1>4, <1>5, <1>6 DEF Next

\* map_can.resolve_decoder: for every dispatcher, where the arm makes no call and takes
\* no branch, the decoder reported for it is a routine that the frame goes to.
THEOREM DecodersAreReached == Spec => []DecoderReached
<1>1. Init => ArmInv
  BY DEF Init, NotMet, ArmInv
<1>2. IInv /\ ArmInv => DecoderReached
  <2> SUFFICES ASSUME IInv, ArmInv, pc \notin DOMAIN code, met.at # 0, calm
               PROVE  resolve_decoder(code, met.to) \in tails \cup {Unknown}
    BY DEF DecoderReached
  <2>1. code \in Seq(Instruction) /\ pc \in Nat
    BY DEF IInv, Types
  <2> QED
    BY <2>1, DecoderIsThere DEF ArmInv
<1>3. IInv /\ ArmInv /\ [Next]_vars => ArmInv'
  BY ArmStep
<1> QED
  BY <1>1, <1>2, <1>3, LoadsAreHeld, PTL DEF Spec

=============================================================================
