------------------------------ MODULE StateScan ------------------------------
(***************************************************************************)
(* tools/map_state.py: the fields of the state block at gp.  It goes       *)
(* through the same instructions as map_ramcache and counts, for every     *)
(* offset, the loads and stores through gp and the addresses taken with    *)
(* addi from gp.  This module lets the two scans read the same code.       *)
(*                                                                         *)
(* The two maps are said to be of different memory.  But map_ramcache      *)
(* takes gp for a register like any other: once an auipc has set gp, the   *)
(* scan has a base for it, and an instruction through gp gets a row in     *)
(* both maps.                                                              *)
(***************************************************************************)
EXTENDS RamScan

CONSTANT GP         \* the global pointer

ASSUME GpIsARegister == GP \in Reg

VARIABLES
  fields,         \* offset -> how often it is read, written, and its address taken
  setups,         \* history: the auipc that set gp
  shared          \* history: the instructions recorded in both maps

stateVars == <<fields, setups, shared>>

NewField == [direct_reads |-> 0, direct_writes |-> 0, address_taken |-> 0]

StateInit ==
  /\ Init
  /\ fields = [o \in {} |-> NewField]
  /\ setups = {} /\ shared = {}

Row(o) == IF o \in DOMAIN fields THEN fields[o] ELSE NewField

\* fields.setdefault and one count, for instructions through gp; negative displacements
\* are passed over.
Tally(rs, o, count) ==
  fields' = IF rs # GP \/ o < 0 THEN fields
            ELSE [f \in DOMAIN fields \cup {o} |->
                    IF f = o THEN [Row(o) EXCEPT ![count] = @ + 1] ELSE fields[f]]

Share == shared' = IF fields' # fields /\ cache' # cache THEN shared \cup {at} ELSE shared

----------------------------------------------------------------------------

StateAuipc(rd, imm) ==
  /\ ScanAuipc(rd, imm)
  /\ setups' = IF rd = GP THEN setups \cup {at} ELSE setups
  /\ UNCHANGED <<fields, shared>>

StateLoad(rd, rs, disp) ==
  /\ ScanLoad(rd, rs, disp)
  /\ Tally(rs, disp, "direct_reads") /\ Share
  /\ UNCHANGED setups

StateStore(rs, disp) ==
  /\ ScanStore(rs, disp)
  /\ Tally(rs, disp, "direct_writes") /\ Share
  /\ UNCHANGED setups

\* addi gp,gp completes the base that auipc has begun, and is no use of the block,
\* although both maps may record it.
StateAddi(rd, rs, imm) ==
  /\ ScanAddi(rd, rs, imm)
  /\ Tally(rs, imm, "address_taken")
  /\ IF rd = rs THEN UNCHANGED shared ELSE Share
  /\ UNCHANGED setups

\* What neither tool reads.
StateOther(written) == ScanOther(written) /\ UNCHANGED stateVars

StateBreak == ScanBreak /\ UNCHANGED stateVars

StateNext ==
  /\ at < N /\ at' = at + 1
  /\ \/ \E rd \in Reg, imm \in Hi : StateAuipc(rd, imm)
     \/ \E rd, rs \in Reg, disp \in Lo : StateLoad(rd, rs, disp)
     \/ \E rs \in Reg, disp \in Lo : StateStore(rs, disp)
     \/ \E rd, rs \in Reg, imm \in Lo \ {0} : StateAddi(rd, rs, imm)
     \/ \E r \in Reg : StateOther({r})
     \/ StateOther({})
     \/ StateBreak

StateSpec == StateInit /\ [][StateNext]_<<vars, stateVars>>

----------------------------------------------------------------------------

\* The RAM map is "distinct from the gp-relative state block" (map_ramcache.py:3) but for
\* one instruction after each auipc that sets gp.  Apart from addi gp,gp, which completes
\* the base, only the first use of gp gets into both maps, whatever stands in between.
MapsStayDistinct ==
  \A b \in shared : \E s \in setups : s < b /\ \A a \in shared : a < b => a < s

=============================================================================
