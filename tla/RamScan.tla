------------------------------- MODULE RamScan -------------------------------
(***************************************************************************)
(* tools/map_ramcache.py: which RAM addresses the firmware reads and       *)
(* writes.  The scan goes once through the instructions, remembers for     *)
(* every register the address the last auipc put there, and counts the     *)
(* next load or store through that register at this address.  Beside it    *)
(* runs the machine the instructions are for, so that the addresses        *)
(* counted can be compared with those used.                                *)
(***************************************************************************)
EXTENDS Integers, FiniteSets

CONSTANTS
  Reg,                \* the registers
  Unknown,            \* the content of a register the instructions do not tell
  N,                  \* the number of instructions scanned
  Hi, Lo,             \* the immediates of auipc, and those of the others
  Modulus,            \* 2^32
  HI_UNIT,            \* 2^12, the unit of an auipc immediate
  LINKED_CODE_BASE,
  RAM_LO, RAM_HI

ASSUME ScanTypes ==
  /\ N \in Nat /\ Hi \subseteq Int /\ Lo \subseteq Int
  /\ Modulus \in Nat \ {0} /\ HI_UNIT \in Nat \ {0}
  /\ {LINKED_CODE_BASE, RAM_LO, RAM_HI} \subseteq Nat
  /\ Unknown \notin Int

VARIABLES
  at,           \* the address of the next instruction
  pending,      \* register -> the address the scan remembers
  cache,        \* RAM address -> how often it is read and written
  regs,         \* history: what the machine has in its registers
  spoilt,       \* history: registers written since their auipc, other than by a
                \* load through the register itself
  auipcs,       \* history: how many auipc the scan has met
  origin,       \* history: register -> which of them its base is from
  uses,         \* history: auipc -> the RAM address of the access counted for it
  last          \* history: the last access counted

vars == <<at, pending, cache, regs, spoilt, auipcs, origin, uses, last>>

Word == 0..(Modulus - 1)

----------------------------------------------------------------------------

NoAccess == [target |-> Unknown, used |-> Unknown, spoilt |-> FALSE]

Init ==
  /\ at = 0
  /\ pending = [r \in {} |-> Unknown]
  /\ cache = [a \in {} |-> [reads |-> 0, writes |-> 0]]
  /\ regs = [r \in Reg |-> Unknown]
  /\ spoilt = {}
  /\ auipcs = 0 /\ origin = [r \in {} |-> 0] /\ uses = [u \in {} |-> 0]
  /\ last = NoAccess

Plus(base, disp) == IF base = Unknown THEN Unknown ELSE (base + disp) % Modulus

\* What auipc does on the device, where the payload runs at its linked address.
Auipc(imm) == (LINKED_CODE_BASE + at + imm * HI_UNIT) % Modulus

\* Faulty variants: the payload offset alone; the sum not cut to the word.
unlinked(imm) == (at + imm * HI_UNIT) % Modulus
uncut(imm) == LINKED_CODE_BASE + at + imm * HI_UNIT

hi(imm) == (LINKED_CODE_BASE + at + imm * HI_UNIT) % Modulus

\* field: the row of an address, made when it is not there.
Field(a) == IF a \in DOMAIN cache THEN cache[a] ELSE [reads |-> 0, writes |-> 0]
Put(a, row) == [b \in DOMAIN cache \cup {a} |-> IF b = a THEN row ELSE cache[b]]

InRam(a) == RAM_LO <= a /\ a < RAM_HI

\* A faulty variant: the base stays for the accesses that follow.
Kept(r) == pending

\* del pending[r]
Without(r) == [q \in DOMAIN pending \ {r} |-> pending[q]]

ScanAuipc(rd, imm) ==
  /\ pending' = [r \in DOMAIN pending \cup {rd} |-> IF r = rd THEN hi(imm) ELSE pending[r]]
  /\ regs' = [regs EXCEPT ![rd] = Auipc(imm)]
  /\ spoilt' = spoilt \ {rd}
  /\ auipcs' = auipcs + 1
  /\ origin' = [r \in DOMAIN pending' |-> IF r = rd THEN auipcs' ELSE origin[r]]
  /\ UNCHANGED <<cache, uses, last>>

\* What a load or store through rs counts.
Count(kind, rs, disp) ==
  IF rs \notin DOMAIN pending THEN UNCHANGED <<pending, origin, cache, uses, last>>
  ELSE LET target == (pending[rs] + disp) % Modulus
       IN  /\ pending' = Without(rs)
           /\ origin' = [q \in DOMAIN pending' |-> origin[q]]
           /\ IF ~InRam(target) THEN UNCHANGED <<cache, uses, last>>
              ELSE /\ cache' = Put(target, [Field(target) EXCEPT ![kind] = @ + 1])
                   /\ uses' = [u \in DOMAIN uses \cup {origin[rs]} |->
                                IF u = origin[rs] THEN target ELSE uses[u]]
                   /\ last' = [target |-> target, used |-> Plus(regs[rs], disp),
                               spoilt |-> rs \in spoilt]

ScanLoad(rd, rs, disp) ==
  /\ Count("reads", rs, disp)
  /\ regs' = [regs EXCEPT ![rd] = Unknown]
  /\ spoilt' = IF rd = rs THEN spoilt ELSE spoilt \cup {rd}
  /\ UNCHANGED auipcs

ScanStore(rs, disp) ==
  /\ Count("writes", rs, disp)
  /\ UNCHANGED <<regs, spoilt, auipcs>>

\* A faulty variant, what map_ramcache.py:119 says: "record but keep base".
KeepBase(rd, rs) == pending

\* addi uses a base up, unless it writes to the register the base is in.
AfterAddi(rd, rs) == IF rd # rs THEN Without(rs) ELSE pending

\* addi makes a row without counting an access.  One of zero is printed as mv, which the
\* scan does not look at.
ScanAddi(rd, rs, imm) ==
  /\ IF rs \notin DOMAIN pending THEN UNCHANGED <<pending, origin, cache>>
     ELSE LET target == (pending[rs] + imm) % Modulus
          IN  /\ cache' = IF InRam(target) THEN Put(target, Field(target)) ELSE cache
              /\ pending' = AfterAddi(rd, rs)
              /\ origin' = [q \in DOMAIN pending' |-> origin[q]]
  /\ regs' = [regs EXCEPT ![rd] = Plus(regs[rs], imm)]
  /\ spoilt' = spoilt \cup {rd}
  /\ UNCHANGED <<auipcs, uses, last>>

\* Any other instruction, compressed loads and stores included: the scan takes no
\* notice of what it writes.
ScanOther(written) ==
  /\ regs' = [r \in Reg |-> IF r \in written THEN Unknown ELSE regs[r]]
  /\ spoilt' = spoilt \cup written
  /\ UNCHANGED <<pending, cache, auipcs, origin, uses, last>>

\* A jump, a return, or bytes that do not decode: what follows is reached from
\* elsewhere, and the scan does not notice either.
ScanBreak ==
  /\ regs' = [r \in Reg |-> Unknown]
  /\ spoilt' = Reg
  /\ UNCHANGED <<pending, cache, auipcs, origin, uses, last>>

Next ==
  /\ at < N /\ at' = at + 1
  /\ \/ \E rd \in Reg, imm \in Hi : ScanAuipc(rd, imm)
     \/ \E rd, rs \in Reg, disp \in Lo : ScanLoad(rd, rs, disp)
     \/ \E rs \in Reg, disp \in Lo : ScanStore(rs, disp)
     \/ \E rd, rs \in Reg, imm \in Lo \ {0} : ScanAddi(rd, rs, imm)
     \/ \E rd \in Reg : ScanOther({rd})
     \/ ScanOther({})
     \/ ScanBreak

Spec == Init /\ [][Next]_vars

----------------------------------------------------------------------------

TypeOK ==
  /\ at \in 0..N
  /\ DOMAIN pending \subseteq Reg /\ \A r \in DOMAIN pending : pending[r] \in Word
  /\ \A a \in DOMAIN cache : InRam(a) /\ cache[a] \in [reads : Nat, writes : Nat]
  /\ regs \in [Reg -> Word \cup {Unknown}]
  /\ spoilt \subseteq Reg

\* An access counted at an address that the program does not use goes back to a
\* register written again between its auipc and the access.  Loads through the
\* register itself do no harm, because the scan forgets a base with its first use.
OnlySpoiltGoWrong == last.spoilt \/ last.target = last.used

\* The auipc instructions whose access was counted at a.
UsedFor(a) == {u \in DOMAIN uses : uses[u] = a}

\* No auipc accounts for two accesses: a row counts as many as there are auipc that
\* led to its address.
SingleUse ==
  \A a \in DOMAIN cache : cache[a].reads + cache[a].writes = Cardinality(UsedFor(a))

=============================================================================
