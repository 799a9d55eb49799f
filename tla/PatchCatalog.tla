---------------------------- MODULE PatchCatalog ----------------------------
(***************************************************************************)
(* The patches of tools/firmware_patcher.py with their real offsets and    *)
(* bytes, one definition for each branch of build_patch_spec, and the      *)
(* instruction encoder and decoder it uses.  The titles, rationales and    *)
(* assembly texts of a PatchSpec are left out.                             *)
(***************************************************************************)
EXTENDS Integers, Sequences

PAYLOAD_PAGE_SIZE == 1024
PAYLOAD_TOTAL_BYTES == 72 * PAYLOAD_PAGE_SIZE
DEFAULT_CUSTOM_FW_VERSION == \h16

\* The range build_patch_spec and inspect_patch_state accept.
FwVersion == \h01..\h7F

----------------------------------------------------------------------------

(***************************************************************************)
(* addi rd, rs1, imm12 as four little-endian bytes: opcode 0x13 and the    *)
(* low bit of rd; the rest of rd and the low bit of rs1; the rest of rs1   *)
(* and the low nibble of the immediate; its high byte.                     *)
(***************************************************************************)
EncodeAddi(rd, rs1, imm12) ==
  LET imm == imm12 % 4096
  IN  << \h13 + (rd % 2) * 128,
         rd \div 2 + (rs1 % 2) * 128,
         rs1 \div 2 + (imm % 16) * 16,
         imm \div 16 >>

\* The signed immediate of `addi a5, zero, imm12`; NoImmediate for other bytes.
NoImmediate == -4096

DecodeAddiZeroA5(raw) ==
  IF Len(raw) = 4 /\ raw[1] = \h93 /\ raw[2] = \h07 /\ raw[3] % 16 = 0
  THEN LET imm == raw[3] \div 16 + 16 * raw[4]
       IN  IF imm >= 2048 THEN imm - 4096 ELSE imm
  ELSE NoImmediate

----------------------------------------------------------------------------

\* A PatchSite; a run of bytes is a function from its payload offsets.
Bytes(at, raw) == [o \in at..(at + Len(raw) - 1) |-> raw[o - at + 1]]

Site(at, orig, patched) ==
  [at |-> at, orig |-> Bytes(at, orig), patched |-> Bytes(at, patched)]

IgnoreServerDeauth ==
  {Site(\hBDA6, <<\h11, \hC5>>, <<\h31, \hA0>>)}

BypassAuthCheck ==
  {Site(\h1380, <<\h13, \h35, \h15, \h00>>, <<\h13, \h05, \h10, \h00>>)}

EnableDisableCmd ==
  {Site(\hC526, <<\h6F, \hF0, \h4F, \hF9>>, <<\h6F, \hF0, \hBF, \hFE>>)}

GateMediaPulseOnAp ==
  {Site(\h223E, <<\h63, \h1D, \hF5, \h06>>, <<\h63, \h10, \hF5, \h02>>),
   Site(\h2242, <<\hEF, \hD0, \h9F, \hF9>>, <<\hEF, \h00, \h70, \h06>>)}

FixHandsOnReminder ==
  {Site(\h01EC, <<\h03, \h45, \h15, \hD2>>, <<\h03, \h45, \hD5, \hD0>>),
   Site(\hB5EC, <<\h3E, \h05, \hC1, \h64, \hC6, \h07, \hC5, \h83>>,
                <<\h33, \h35, \hA0, \h00, \h3E, \h05, \hC1, \h64>>)}

PulseTimingFast ==
  {Site(\hE424, <<\h93, \h07, \h90, \h3E>>, EncodeAddi(15, 0, 501)),
   Site(\hE42C, <<\h13, \h04, \h00, \h7D>>, EncodeAddi(8, 0, 1500))}

PulseTimingGentle ==
  {Site(\hE424, <<\h93, \h07, \h90, \h3E>>, EncodeAddi(15, 0, 251)),
   Site(\hE42C, <<\h13, \h04, \h00, \h7D>>, EncodeAddi(8, 0, 1000))}

PulseHoldShort ==
  {Site(\hE468, <<\h13, \h06, \h00, \h05>>, EncodeAddi(12, 0, \h28))}

CustomFwVersionTag(fw_version) ==
  {Site(\hAFB6, <<\h83, \h47, \hD1, \h00>>, EncodeAddi(15, 0, fw_version))}

UnlockSteeringTriggers ==
  {Site(\h8100, <<\h63, \h1B, \hF5, \h00>>, <<\h13, \h00, \h00, \h00>>)}

build_patch_spec(patch_id, fw_version) ==
  CASE patch_id = "ignore_server_deauth_0xae" -> IgnoreServerDeauth
    [] patch_id = "bypass_auth_check_0x1380" -> BypassAuthCheck
    [] patch_id = "enable_0xa6_disable_cmd" -> EnableDisableCmd
    [] patch_id = "gate_media_pulse_on_ap_0x2242" -> GateMediaPulseOnAp
    [] patch_id = "fix_hands_on_reminder_detection" -> FixHandsOnReminder
    [] patch_id = "pulse_timing_fast_1500ms" -> PulseTimingFast
    [] patch_id = "pulse_timing_gentle_1000ms" -> PulseTimingGentle
    [] patch_id = "pulse_hold_short_25ms" -> PulseHoldShort
    [] patch_id = "custom_fw_version_tag" -> CustomFwVersionTag(fw_version)
    [] patch_id = "unlock_steering_triggers_all_gears_0x8100" -> UnlockSteeringTriggers

PATCH_IDS ==
  {"ignore_server_deauth_0xae", "bypass_auth_check_0x1380",
   "enable_0xa6_disable_cmd", "gate_media_pulse_on_ap_0x2242",
   "fix_hands_on_reminder_detection", "pulse_timing_fast_1500ms",
   "pulse_timing_gentle_1000ms", "pulse_hold_short_25ms",
   "custom_fw_version_tag", "unlock_steering_triggers_all_gears_0x8100"}

\* conflict_group; "" is None.
ConflictGroup(patch_id) ==
  IF patch_id \in {"pulse_timing_fast_1500ms", "pulse_timing_gentle_1000ms"}
  THEN "pulse_interval_preset"
  ELSE ""

----------------------------------------------------------------------------

\* What verify_payload_safety_invariants expects: the reset vector and the
\* sequence that clears the boot flag.
RESET_VECTOR == Bytes(0, <<\h6F, \hF0, \hB0, \h09>>)
BOOT_FLAG_CLEAR ==
  Bytes(\h1E6A, <<\hC1, \h47, \hA3, \h04, \hF1, \h00, \h28, \h00,
                  \h23, \h06, \h01, \h00, \h31, \h3F>>)

=============================================================================
