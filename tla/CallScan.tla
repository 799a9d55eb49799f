------------------------------ MODULE CallScan ------------------------------
(***************************************************************************)
(* What the tools read off the instructions around a call.  decode_stub of *)
(* gen_analysis and of classify_actions reads an action's stub up to its   *)
(* first jump and remembers the immediates put into registers: the         *)
(* worker's arguments.  decode_telemetry.collect remembers the last call,  *)
(* the mask applied to a0 after it, and takes the next shift for the place *)
(* of the result in the packet.  Beside them runs the machine, whose       *)
(* registers hold what the instructions say of them and no more.           *)
(***************************************************************************)
EXTENDS Integers, FiniteSetsExt

CONSTANTS
  Reg,                \* the caller-saved registers
  A0, A5,             \* where a result comes back, and the packet word
  Arg,                \* a0..a3
  Imm, Mask,          \* the immediates of li, and those of andi; of the negative ones,
                      \* only -1 would pass for low bits, and it masks nothing
  Routine,            \* what is called or jumped to
  N,                  \* the number of instructions
  Unknown,            \* a content that the instructions do not tell
  None                \* Python's None

ASSUME CallTypes ==
  /\ A0 \in Reg /\ A5 \in Reg \ {A0} /\ Arg \subseteq Reg
  /\ Imm \subseteq Int /\ Mask \subseteq 0..2047 /\ N \in Nat
  /\ None \notin Routine \cup Nat \cup {"tail", "call", "ret", "indirect"}

VARIABLES
  at,                 \* the next instruction
  args, row,          \* gen_analysis: register -> immediate, and the stub's row
  copies, listed,     \* classify_actions: the same, with copies of registers
  last_call, pending_mask,
  field, fields,      \* the last field reported, and how many were
  regs,
  touched,            \* history: the registers written since the stub began
  unread, uncopied,   \* history: the registers last written by an instruction that
                      \* gen_analysis, or classify_actions, does not make out
  a0since,            \* history: what was done to a0 since the last call
  masks               \* history: how many masks of low bits a0 was given

stubVars == <<args, row, copies, listed, touched, unread, uncopied>>
telemetryVars == <<last_call, pending_mask, field, fields, a0since, masks>>
vars == <<at, regs, stubVars, telemetryVars>>

Entry(r) == [entry |-> r]
Const(v) == [const |-> v]
Result(g, m) == [result |-> g, mask |-> m]    \* m is None before it is masked

\* A row, and beside it what the machine passes on at that jump.
Row(kind, worker, told, exempt) ==
  [kind |-> kind, worker |-> worker, args |-> told, passed |-> regs, exempt |-> exempt]

NoRow == [kind |-> None]
NoField == [direct |-> FALSE]

Init ==
  /\ at = 0
  /\ args = [r \in {} |-> Unknown] /\ copies = [r \in {} |-> Unknown]
  /\ row = NoRow /\ listed = NoRow
  /\ last_call = None /\ pending_mask = None
  /\ field = NoField /\ fields = 0 /\ masks = 0
  /\ regs = [r \in Reg |-> Entry(r)]
  /\ touched = {} /\ unread = {} /\ uncopied = {} /\ a0since = "other"

Put(f, r, v) == [q \in DOMAIN f \cup {r} |-> IF q = r THEN v ELSE f[q]]

----------------------------------------------------------------------------
(* The two decode_stub, instruction by instruction. *)

\* Instructions that write the registers rds and that neither reads.
StubPassesOver(rds) ==
  /\ touched' = touched \cup rds
  /\ unread' = unread \cup rds /\ uncopied' = uncopied \cup rds
  /\ UNCHANGED <<args, row, copies, listed>>

\* li, and addi from zero
StubImm(rd, v) ==
  /\ touched' = touched \cup {rd}
  /\ unread' = unread \ {rd} /\ uncopied' = uncopied \ {rd}
  /\ args' = IF row = NoRow THEN Put(args, rd, Const(v)) ELSE args
  /\ copies' = IF listed = NoRow THEN Put(copies, rd, Const(v)) ELSE copies
  /\ UNCHANGED <<row, listed>>

\* classify_actions notes "=rs", which its reader takes for what rs held when the stub
\* began; gen_analysis does not read c.mv.
StubMove(rd, rs) ==
  /\ touched' = touched \cup {rd}
  /\ unread' = unread \cup {rd}
  /\ uncopied' = IF rs \in touched THEN uncopied \cup {rd} ELSE uncopied \ {rd}
  /\ copies' = IF listed = NoRow THEN Put(copies, rd, Entry(rs)) ELSE copies
  /\ UNCHANGED <<args, row, listed>>

\* A faulty variant: a call does not end the stub.
TailsOnly(kind) == kind # "call"

\* In gen_analysis; classify_actions also ends at a call through a register.
Ends(kind) == kind \in {"tail", "call", "ret"}

\* A jump: the first one ends the stub and makes its row.  A call through a register,
\* over which gen_analysis reads on, leaves nothing of what it noted.
StubJump(kind, worker) ==
  /\ row' = IF row = NoRow /\ Ends(kind) THEN Row(kind, worker, args, unread) ELSE row
  /\ listed' = IF listed = NoRow THEN Row(kind, worker, copies, uncopied) ELSE listed
  /\ unread' = IF kind = "indirect" THEN Reg ELSE unread
  /\ UNCHANGED <<args, copies, touched, uncopied>>

----------------------------------------------------------------------------
(* decode_telemetry.collect. *)

\* The lowest w bits of an immediate.
Lowest == <<1, 3, 7, 15, 31, 63, 127, 255, 511, 1023, 2047>>

\* A faulty variant: any mask is taken for one of low bits.
AnyMask(v) == v # 0

\* v and (v & (v + 1)) == 0
LowBits(v) == \E w \in DOMAIN Lowest : v = Lowest[w]

\* How many of the lowest bits of m are set, one after the other.
mask_width(m) ==
  Max({0} \cup {w \in DOMAIN Lowest : m % (Lowest[w] + 1) = Lowest[w]})

TelemetryPassesOver(rd) ==
  /\ a0since' = IF rd = A0 THEN "other" ELSE a0since
  /\ UNCHANGED <<last_call, pending_mask, field, fields, masks>>

\* A faulty variant: the mask of the call before is kept.
MaskKept == pending_mask

MaskAfterCall == None

TelemetryCall(g) ==
  /\ last_call' = g
  /\ pending_mask' = MaskAfterCall
  /\ a0since' = "called"
  /\ UNCHANGED <<field, fields, masks>>

\* andi: only the destination is looked at, and a mask of other bits is passed over.
TelemetryMask(rd, rs, m) ==
  /\ pending_mask' = IF rd = A0 /\ LowBits(m) THEN m ELSE pending_mask
  /\ masks' = IF rd = A0 /\ LowBits(m) THEN masks + 1 ELSE masks
  /\ a0since' = IF rd # A0 THEN a0since
                ELSE IF rs = A0 /\ a0since = "called" THEN "masked" ELSE "other"
  /\ UNCHANGED <<last_call, field, fields>>

\* A faulty variant: the mask stays for the shifts that follow.
MaskReused == pending_mask

MaskAfterShift == None

TelemetryShift(rd, rs) ==
  /\ IF rd \in {A0, A5} /\ last_call # None /\ pending_mask # None
     THEN /\ field' = [getter |-> last_call, mask |-> pending_mask,
                       width_bits |-> mask_width(pending_mask), held |-> regs[rs],
                       direct |-> rs = A0 /\ a0since = "masked"]
          /\ fields' = fields + 1
          /\ pending_mask' = MaskAfterShift
     ELSE UNCHANGED <<field, fields, pending_mask>>
  /\ a0since' = IF rd = A0 THEN "other" ELSE a0since
  /\ UNCHANGED <<last_call, masks>>

----------------------------------------------------------------------------
(* The machine, and the three scans with it. *)

Becomes(rd, v) == regs' = [regs EXCEPT ![rd] = v]

LoadImm(rd, v) == StubImm(rd, v) /\ TelemetryPassesOver(rd) /\ Becomes(rd, Const(v))

Move(rd, rs) == StubMove(rd, rs) /\ TelemetryPassesOver(rd) /\ Becomes(rd, regs[rs])

Masked(v, m) ==
  IF last_call # None /\ v = Result(last_call, None) THEN Result(last_call, m) ELSE Unknown

AndImm(rd, rs, m) ==
  StubPassesOver({rd}) /\ TelemetryMask(rd, rs, m) /\ Becomes(rd, Masked(regs[rs], m))

ShiftLeft(rd, rs) ==
  StubPassesOver({rd}) /\ TelemetryShift(rd, rs) /\ Becomes(rd, Unknown)

\* Any other instruction that writes a register.
Compute(rd) == StubPassesOver({rd}) /\ TelemetryPassesOver(rd) /\ Becomes(rd, Unknown)

Call(g) ==
  /\ StubJump("call", g) /\ TelemetryCall(g)
  /\ regs' = [r \in Reg |-> IF r = A0 THEN Result(g, None) ELSE Unknown]

\* A jump, a return, or a call through a register: what follows in the payload is
\* reached with other registers.
Leave(kind, worker) ==
  /\ StubJump(kind, worker) /\ TelemetryPassesOver(A0)
  /\ regs' = [r \in Reg |-> Unknown]

Next ==
  /\ at < N /\ at' = at + 1
  /\ \/ \E rd \in Reg, v \in Imm : LoadImm(rd, v)
     \/ \E rd, rs \in Reg : Move(rd, rs) \/ ShiftLeft(rd, rs)
     \/ \E rd, rs \in Reg, m \in Mask : AndImm(rd, rs, m)
     \/ \E rd \in Reg : Compute(rd)
     \/ \E g \in Routine : Call(g) \/ Leave("tail", g)
     \/ Leave("ret", None) \/ Leave("indirect", None)

Spec == Init /\ [][Next]_vars

----------------------------------------------------------------------------

\* An argument in the row of a stub (action_table.json) is what the worker is given,
\* unless an instruction that decode_stub does not read wrote that register last; and in
\* the listing of classify_actions an argument that is not mentioned is passed on as it
\* came.
WorkersTold ==
  /\ row.kind \in {"tail", "call"} =>
       \A r \in (DOMAIN row.args \cap Arg) \ row.exempt : row.passed[r] = row.args[r]
  /\ listed.kind \in {"tail", "call"} =>
       \A r \in Arg \ listed.exempt :
         listed.passed[r] = IF r \in DOMAIN listed.args THEN listed.args[r] ELSE Entry(r)

\* A field whose shift takes a0 itself, with nothing done to a0 since the call but one
\* mask, holds the lowest width_bits bits of what that call returned
\* (telemetry.json).
FieldsMeant ==
  field.direct =>
    /\ field.held = Result(field.getter, field.mask)
    /\ field.width_bits \in DOMAIN Lowest /\ field.mask = Lowest[field.width_bits]

\* No mask makes two fields: the table has no more fields than the packet.
FieldPerMask == fields <= masks

=============================================================================
