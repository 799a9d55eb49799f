--------------------------- MODULE CallScanProofs ---------------------------
(***************************************************************************)
(* What CallScan promises, for any registers, immediates, masks, routines  *)
(* and length of code: MCCallScan checks two registers and six             *)
(* instructions.                                                           *)
(***************************************************************************)
EXTENDS CallScan, TLAPS

(***************************************************************************)
(* A mask of low bits is as wide as mask_width says.                       *)
(***************************************************************************)

LEMMA LowestOf ==
  /\ DOMAIN Lowest = 1..11
  /\ \A w \in 1..11 :
       \/ w = 1 /\ Lowest[w] = 1
       \/ w = 2 /\ Lowest[w] = 3
       \/ w = 3 /\ Lowest[w] = 7
       \/ w = 4 /\ Lowest[w] = 15
       \/ w = 5 /\ Lowest[w] = 31
       \/ w = 6 /\ Lowest[w] = 63
       \/ w = 7 /\ Lowest[w] = 127
       \/ w = 8 /\ Lowest[w] = 255
       \/ w = 9 /\ Lowest[w] = 511
       \/ w = 10 /\ Lowest[w] = 1023
       \/ w = 11 /\ Lowest[w] = 2047
BY DEF Lowest

\* Below the width the bits of the mask are set, and not above it.
LEMMA SetBits ==
  ASSUME NEW k \in 1..11, NEW w \in 1..11
  PROVE  (Lowest[k] % (Lowest[w] + 1) = Lowest[w]) <=> w <= k
<1> DEFINE p == Lowest[k]
           q == Lowest[w]
<1>1. \/ k = 1 /\ p = 1
      \/ k = 2 /\ p = 3
      \/ k = 3 /\ p = 7
      \/ k = 4 /\ p = 15
      \/ k = 5 /\ p = 31
      \/ k = 6 /\ p = 63
      \/ k = 7 /\ p = 127
      \/ k = 8 /\ p = 255
      \/ k = 9 /\ p = 511
      \/ k = 10 /\ p = 1023
      \/ k = 11 /\ p = 2047
  BY LowestOf
<1>2. \/ w = 1 /\ q = 1
      \/ w = 2 /\ q = 3
      \/ w = 3 /\ q = 7
      \/ w = 4 /\ q = 15
      \/ w = 5 /\ q = 31
      \/ w = 6 /\ q = 63
      \/ w = 7 /\ q = 127
      \/ w = 8 /\ q = 255
      \/ w = 9 /\ q = 511
      \/ w = 10 /\ q = 1023
      \/ w = 11 /\ q = 2047
  BY LowestOf
<1> HIDE DEF p, q
<1>3. (p % (q + 1) = q) <=> w <= k
  BY <1>1, <1>2, SMTT(60)
<1> QED
  BY <1>3 DEF p, q

LEMMA WidthOfMask ==
  ASSUME NEW m, LowBits(m)
  PROVE  mask_width(m) \in DOMAIN Lowest /\ m = Lowest[mask_width(m)]
<1>1. PICK k \in 1..11 : m = Lowest[k]
  BY LowestOf DEF LowBits
<1> DEFINE S == {0} \cup {w \in DOMAIN Lowest : m % (Lowest[w] + 1) = Lowest[w]}
<1>2. k \in S /\ \A w \in S : w \in 0..11 /\ k >= w
  BY <1>1, SetBits, LowestOf
<1>3. \A x \in S : (\A w \in S : x >= w) => x = k
  BY <1>2
<1> HIDE DEF S
<1>4. Max(S) = k
  BY <1>2, <1>3 DEF Max
<1> QED
  BY <1>1, <1>4, LowestOf DEF mask_width, S

----------------------------------------------------------------------------

(***************************************************************************)
(* The inductive invariants.  While a stub is read, a register that no     *)
(* unread instruction wrote last holds what its scan noted of it; of a0    *)
(* the telemetry scan knows what it holds from a call to its first mask.   *)
(***************************************************************************)

Jump == {"tail", "call", "ret", "indirect"}

GenInv ==
  IF row = NoRow
  THEN /\ DOMAIN args \subseteq Reg
       /\ \A r \in DOMAIN args \ unread : regs[r] = args[r]
  ELSE row.kind \in {"tail", "call"} =>
         \A r \in (DOMAIN row.args \cap Arg) \ row.exempt : row.passed[r] = row.args[r]

ListInv ==
  IF listed = NoRow
  THEN /\ \A r \in Reg \ touched : regs[r] = Entry(r)
       /\ \A r \in Reg \ uncopied :
            regs[r] = IF r \in DOMAIN copies THEN copies[r] ELSE Entry(r)
  ELSE listed.kind \in {"tail", "call"} =>
         \A r \in Arg \ listed.exempt :
           listed.passed[r] = IF r \in DOMAIN listed.args THEN listed.args[r] ELSE Entry(r)

A0Inv ==
  /\ pending_mask # None => LowBits(pending_mask)
  /\ a0since = "called" =>
       last_call # None /\ pending_mask = None /\ regs[A0] = Result(last_call, None)
  /\ a0since = "masked" /\ pending_mask # None =>
       regs[A0] = Result(last_call, pending_mask)

CountInv ==
  /\ fields \in Nat /\ masks \in Nat
  /\ fields + (IF pending_mask = None THEN 0 ELSE 1) <= masks

IInv ==
  /\ DOMAIN regs = Reg
  /\ GenInv /\ ListInv /\ A0Inv /\ FieldsMeant /\ CountInv

LEMMA InitInv == Init => IInv
<1> SUFFICES ASSUME Init PROVE IInv
  OBVIOUS
<1> USE CallTypes DEF Init
<1>1. DOMAIN regs = Reg
  OBVIOUS
<1>2. GenInv
  BY DEF GenInv, NoRow
<1>3. ListInv
  BY DEF ListInv, NoRow
<1>4. A0Inv /\ CountInv
  BY DEF A0Inv, CountInv
<1>5. FieldsMeant
  BY DEF FieldsMeant, NoField
<1> QED
  BY <1>1, <1>2, <1>3, <1>4, <1>5 DEF IInv

\* A row is not mistaken for a stub that is still read.
LEMMA RowIsARow ==
  ASSUME NEW kind \in Jump, NEW worker, NEW told, NEW exempt
  PROVE  Row(kind, worker, told, exempt) # NoRow
<1>1. Row(kind, worker, told, exempt).kind = kind
  BY DEF Row
<1>2. NoRow.kind = None
  BY DEF NoRow
<1>3. None \notin Jump
  BY CallTypes DEF Jump
<1> QED
  BY <1>1, <1>2, <1>3

(***************************************************************************)
(* The scans of stubs.                                                     *)
(***************************************************************************)

LEMMA StubPasses ==
  ASSUME IInv, NEW rd \in Reg, NEW v, StubPassesOver({rd}), Becomes(rd, v)
  PROVE  GenInv' /\ ListInv' /\ (DOMAIN regs = Reg)'
<1> USE DEF IInv, StubPassesOver, Becomes
<1>1. GenInv'
  BY DEF GenInv
<1>2. ListInv'
  BY DEF ListInv
<1> QED
  BY <1>1, <1>2

LEMMA StubImmStep ==
  ASSUME IInv, NEW rd \in Reg, NEW v, StubImm(rd, v), Becomes(rd, Const(v))
  PROVE  GenInv' /\ ListInv' /\ (DOMAIN regs = Reg)'
<1> USE DEF IInv, StubImm, Becomes
<1>1. GenInv'
  BY DEF GenInv, Put
<1>2. ListInv'
  BY DEF ListInv, Put
<1> QED
  BY <1>1, <1>2

LEMMA StubMoveStep ==
  ASSUME IInv, NEW rd \in Reg, NEW rs \in Reg, StubMove(rd, rs), Becomes(rd, regs[rs])
  PROVE  GenInv' /\ ListInv' /\ (DOMAIN regs = Reg)'
<1> USE DEF IInv, StubMove, Becomes
<1>1. GenInv'
  BY DEF GenInv
<1>2. ListInv'
  BY DEF ListInv, Put
<1> QED
  BY <1>1, <1>2

LEMMA StubJumpStep ==
  ASSUME IInv, NEW kind \in Jump, NEW worker, StubJump(kind, worker), DOMAIN regs' = Reg
  PROVE  GenInv' /\ ListInv'
<1> USE DEF IInv, StubJump
<1>1. GenInv'
  <2>1. CASE row = NoRow /\ Ends(kind)
    <3>1. row' = Row(kind, worker, args, unread) /\ row' # NoRow
      BY <2>1, RowIsARow
    <3>2. \A r \in (DOMAIN args \cap Arg) \ unread : regs[r] = args[r]
      BY <2>1 DEF GenInv
    <3>3. row'.args = args /\ row'.exempt = unread /\ row'.passed = regs
      BY <3>1 DEF Row
    <3> QED
      BY <3>1, <3>2, <3>3 DEF GenInv
  <2>2. CASE row = NoRow /\ ~Ends(kind)
    <3>1. kind = "indirect" /\ row' = NoRow /\ unread' = Reg /\ args' = args
      BY <2>2 DEF Ends, Jump
    <3> QED
      BY <3>1, <2>2 DEF GenInv
  <2>3. CASE row # NoRow
    BY <2>3 DEF GenInv
  <2> QED
    BY <2>1, <2>2, <2>3
<1>2. ListInv'
  <2>1. CASE listed = NoRow
    <3>1. listed' = Row(kind, worker, copies, uncopied) /\ listed' # NoRow
      BY <2>1, RowIsARow
    <3>2. \A r \in Arg \ uncopied :
            regs[r] = IF r \in DOMAIN copies THEN copies[r] ELSE Entry(r)
      BY <2>1, CallTypes DEF ListInv
    <3>3. listed'.args = copies /\ listed'.exempt = uncopied /\ listed'.passed = regs
      BY <3>1 DEF Row
    <3> QED
      BY <3>1, <3>2, <3>3 DEF ListInv
  <2>2. CASE listed # NoRow
    BY <2>2 DEF ListInv
  <2> QED
    BY <2>1, <2>2
<1> QED
  BY <1>1, <1>2

(***************************************************************************)
(* The scan of the telemetry producer.                                     *)
(***************************************************************************)

LEMMA TelemetryPasses ==
  ASSUME IInv, NEW rd \in Reg, TelemetryPassesOver(rd),
         NEW v, Becomes(rd, v) \/ rd = A0
  PROVE  A0Inv' /\ FieldsMeant' /\ CountInv'
<1> USE DEF IInv, TelemetryPassesOver
<1>1. A0Inv'
  <2>1. rd # A0 => regs'[A0] = regs[A0]
    BY CallTypes DEF Becomes
  <2> QED
    BY <2>1 DEF A0Inv
<1>2. FieldsMeant' /\ CountInv'
  BY DEF FieldsMeant, CountInv
<1> QED
  BY <1>1, <1>2

LEMMA TelemetryMasks ==
  ASSUME IInv, NEW rd \in Reg, NEW rs \in Reg, NEW m \in Mask,
         TelemetryMask(rd, rs, m), Becomes(rd, Masked(regs[rs], m))
  PROVE  A0Inv' /\ FieldsMeant' /\ CountInv'
<1> USE DEF IInv, TelemetryMask
<1>1. m \in Nat /\ m # None
  BY CallTypes
<1>2. A0Inv'
  <2>1. pending_mask' # None => LowBits(pending_mask')
    BY DEF A0Inv
  <2>2. CASE rd # A0
    <3>1. regs'[A0] = regs[A0] /\ UNCHANGED <<pending_mask, a0since, last_call>>
      BY <2>2, CallTypes DEF Becomes
    <3> QED
      BY <3>1 DEF A0Inv
  <2>3. CASE rd = A0
    <3>1. a0since' = "masked" => rs = A0 /\ a0since = "called"
      BY <2>3
    <3>2. regs'[A0] = Masked(regs[rs], m)
      BY <2>3, CallTypes DEF Becomes
    <3>3. a0since' # "called"
      BY <2>3
    <3>4. ASSUME a0since' = "masked", pending_mask' # None
          PROVE  regs'[A0] = Result(last_call', pending_mask')
      <4>1. pending_mask = None /\ last_call # None /\ regs[A0] = Result(last_call, None)
        BY <3>1, <3>4 DEF A0Inv
      <4>2. pending_mask' = m
        BY <4>1, <3>4
      <4>3. Masked(regs[rs], m) = Result(last_call, m)
        BY <4>1, <3>1, <3>4 DEF Masked
      <4> QED
        BY <3>2, <4>2, <4>3
    <3> QED
      BY <2>1, <3>3, <3>4 DEF A0Inv
  <2> QED
    BY <2>2, <2>3
<1>3. FieldsMeant' /\ CountInv'
  BY <1>1 DEF FieldsMeant, CountInv
<1> QED
  BY <1>2, <1>3

LEMMA TelemetryShifts ==
  ASSUME IInv, NEW rd \in Reg, NEW rs \in Reg, TelemetryShift(rd, rs), Becomes(rd, Unknown)
  PROVE  A0Inv' /\ FieldsMeant' /\ CountInv'
<1> USE DEF IInv, TelemetryShift
<1>1. A0Inv'
  <2>1. pending_mask' # None => pending_mask' = pending_mask
    BY DEF MaskAfterShift
  <2>2. CASE rd = A0
    BY <2>1, <2>2 DEF A0Inv
  <2>3. CASE rd # A0
    <3>1. regs'[A0] = regs[A0] /\ a0since' = a0since
      BY <2>3, CallTypes DEF Becomes
    <3>2. pending_mask = None => pending_mask' = None
      OBVIOUS
    <3> QED
      BY <2>1, <3>1, <3>2 DEF A0Inv
  <2> QED
    BY <2>2, <2>3
<1>2. CASE rd \in {A0, A5} /\ last_call # None /\ pending_mask # None
  <2>1. /\ field'.getter = last_call /\ field'.mask = pending_mask
        /\ field'.width_bits = mask_width(pending_mask) /\ field'.held = regs[rs]
        /\ field'.direct = (rs = A0 /\ a0since = "masked")
    BY <1>2
  <2>2. /\ mask_width(pending_mask) \in DOMAIN Lowest
        /\ pending_mask = Lowest[mask_width(pending_mask)]
    BY <1>2, WidthOfMask DEF A0Inv
  <2>3. FieldsMeant'
    BY <1>2, <2>1, <2>2 DEF A0Inv, FieldsMeant
  <2>4. fields' = fields + 1 /\ pending_mask' = None /\ masks' = masks
    BY <1>2 DEF MaskAfterShift
  <2>5. CountInv'
    BY <1>2, <2>4 DEF CountInv
  <2> QED
    BY <1>1, <2>3, <2>5
<1>3. CASE ~(rd \in {A0, A5} /\ last_call # None /\ pending_mask # None)
  BY <1>1, <1>3 DEF FieldsMeant, CountInv
<1> QED
  BY <1>2, <1>3

LEMMA TelemetryCalls ==
  ASSUME IInv, NEW g \in Routine, TelemetryCall(g), regs'[A0] = Result(g, None)
  PROVE  A0Inv' /\ FieldsMeant' /\ CountInv'
<1> USE DEF IInv, TelemetryCall, MaskAfterCall
<1>1. g # None
  BY CallTypes
<1>2. A0Inv'
  BY <1>1 DEF A0Inv
<1>3. FieldsMeant' /\ CountInv'
  BY DEF FieldsMeant, CountInv
<1> QED
  BY <1>2, <1>3

----------------------------------------------------------------------------

LEMMA NextInv == IInv /\ [Next]_vars => IInv'
<1> SUFFICES ASSUME IInv, [Next]_vars PROVE IInv'
  OBVIOUS
<1>1. ASSUME NEW rd \in Reg, NEW v \in Imm, LoadImm(rd, v)
      PROVE  IInv'
  <2>1. StubImm(rd, v) /\ TelemetryPassesOver(rd) /\ Becomes(rd, Const(v))
    BY <1>1 DEF LoadImm
  <2> QED
    BY <2>1, StubImmStep, TelemetryPasses DEF IInv
<1>2. ASSUME NEW rd \in Reg, NEW rs \in Reg, Move(rd, rs)
      PROVE  IInv'
  <2>1. StubMove(rd, rs) /\ TelemetryPassesOver(rd) /\ Becomes(rd, regs[rs])
    BY <1>2 DEF Move
  <2> QED
    BY <2>1, StubMoveStep, TelemetryPasses DEF IInv
<1>3. ASSUME NEW rd \in Reg, NEW rs \in Reg, ShiftLeft(rd, rs)
      PROVE  IInv'
  <2>1. StubPassesOver({rd}) /\ TelemetryShift(rd, rs) /\ Becomes(rd, Unknown)
    BY <1>3 DEF ShiftLeft
  <2> QED
    BY <2>1, StubPasses, TelemetryShifts DEF IInv
<1>4. ASSUME NEW rd \in Reg, NEW rs \in Reg, NEW m \in Mask, AndImm(rd, rs, m)
      PROVE  IInv'
  <2>1. /\ StubPassesOver({rd}) /\ TelemetryMask(rd, rs, m)
        /\ Becomes(rd, Masked(regs[rs], m))
    BY <1>4 DEF AndImm
  <2> QED
    BY <2>1, StubPasses, TelemetryMasks DEF IInv
<1>5. ASSUME NEW rd \in Reg, Compute(rd)
      PROVE  IInv'
  <2>1. StubPassesOver({rd}) /\ TelemetryPassesOver(rd) /\ Becomes(rd, Unknown)
    BY <1>5 DEF Compute
  <2> QED
    BY <2>1, StubPasses, TelemetryPasses DEF IInv
<1>6. ASSUME NEW g \in Routine, Call(g)
      PROVE  IInv'
  <2>1. /\ StubJump("call", g) /\ TelemetryCall(g)
        /\ DOMAIN regs' = Reg /\ regs'[A0] = Result(g, None)
    BY <1>6, CallTypes DEF Call
  <2>2. "call" \in Jump
    BY DEF Jump
  <2> QED
    BY <2>1, <2>2, StubJumpStep, TelemetryCalls DEF IInv
<1>7. ASSUME NEW kind \in Jump, NEW worker, Leave(kind, worker)
      PROVE  IInv'
  <2>1. /\ StubJump(kind, worker) /\ TelemetryPassesOver(A0) /\ DOMAIN regs' = Reg
        /\ A0 \in Reg
    BY <1>7, CallTypes DEF Leave
  <2> QED
    BY <2>1, StubJumpStep, TelemetryPasses DEF IInv
<1>8. CASE UNCHANGED vars
  <2> USE <1>8 DEF vars, stubVars, telemetryVars
  <2>1. GenInv' /\ ListInv'
    BY DEF IInv, GenInv, ListInv
  <2>2. A0Inv' /\ FieldsMeant' /\ CountInv'
    BY DEF IInv, A0Inv, FieldsMeant, CountInv
  <2> QED
    BY <2>1, <2>2 DEF IInv
<1>9. "tail" \in Jump /\ "ret" \in Jump /\ "indirect" \in Jump
  BY DEF Jump
<1> QED
  BY <1>1, <1>2, <1>3, <1>4, <1>5, <1>6, <1>7, <1>8, <1>9 DEF Next

LEMMA Invariance == Spec => []IInv
BY InitInv, NextInv, PTL DEF Spec

\* For any registers, immediates, masks and length of code: a stub's row names what
\* the worker is given (WorkersTold), as far as decode_stub reads the instructions.
THEOREM WorkersAreTold == Spec => []WorkersTold
<1>1. IInv => WorkersTold
  <2> SUFFICES ASSUME IInv PROVE WorkersTold
    OBVIOUS
  <2>1. NoRow.kind \notin {"tail", "call"}
    BY CallTypes DEF NoRow
  <2>2. row.kind \in {"tail", "call"} =>
          \A r \in (DOMAIN row.args \cap Arg) \ row.exempt : row.passed[r] = row.args[r]
    BY <2>1 DEF IInv, GenInv
  <2>3. listed.kind \in {"tail", "call"} =>
          \A r \in Arg \ listed.exempt :
            listed.passed[r] = IF r \in DOMAIN listed.args THEN listed.args[r] ELSE Entry(r)
    BY <2>1 DEF IInv, ListInv
  <2> QED
    BY <2>2, <2>3 DEF WorkersTold
<1> QED
  BY <1>1, Invariance, PTL

\* For any code: a field that is masked and shifted straight from a call holds the
\* lowest width_bits bits of its result (FieldsMeant).
THEOREM FieldsHoldResults == Spec => []FieldsMeant
<1>1. IInv => FieldsMeant
  BY DEF IInv
<1> QED
  BY <1>1, Invariance, PTL

\* For any code: decode_telemetry reports no more fields than masks (FieldPerMask).
THEOREM NoMaskMakesTwoFields == Spec => []FieldPerMask
<1>1. IInv => FieldPerMask
  BY DEF IInv, CountInv, FieldPerMask
<1> QED
  BY <1>1, Invariance, PTL

=============================================================================
