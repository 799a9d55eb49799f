----------------------------- MODULE MCCatalog -----------------------------
(***************************************************************************)
(* The patcher over the real catalogue.  MCStock holds the bytes of the    *)
(* archived runtime payload around every site and guarded range, read from *)
(* runtime.bin and not from the catalogue: the ASSUMEs of Patcher compare  *)
(* the two.                                                                *)
(***************************************************************************)
EXTENDS Patcher, PatchCatalog, TLC

MCStock ==
     Bytes(\h0000, <<\h6F, \hF0, \hB0, \h09, \h13, \h00>>)
  @@ Bytes(\h01EA, <<\h00, \h20, \h03, \h45, \h15, \hD2, \h82, \h80>>)
  @@ Bytes(\h137E, <<\h62, \h44, \h13, \h35, \h15, \h00, \hA3, \h89>>)
  @@ Bytes(\h1E68, <<\h81, \hCB, \hC1, \h47, \hA3, \h04, \hF1, \h00, \h28, \h00,
                     \h23, \h06, \h01, \h00, \h31, \h3F, \hEF, \hF0>>)
  @@ Bytes(\h223C, <<\h85, \h47, \h63, \h1D, \hF5, \h06,
                     \hEF, \hD0, \h9F, \hF9, \h93, \h77>>)
  @@ Bytes(\h80FE, <<\h91, \h47, \h63, \h1B, \hF5, \h00, \hEF, \hA0>>)
  @@ Bytes(\hAFB4, <<\hF1, \h00, \h83, \h47, \hD1, \h00, \h97, \h9A>>)
  @@ Bytes(\hB5EA, <<\hC1, \h01, \h3E, \h05, \hC1, \h64, \hC6, \h07, \hC5, \h83,
                     \hC9, \h8F>>)
  @@ Bytes(\hBDA4, <<\h4F, \hC0, \h11, \hC5, \h01, \h45>>)
  @@ Bytes(\hC524, <<\h4F, \h8D, \h6F, \hF0, \h4F, \hF9, \h03, \h46>>)
  @@ Bytes(\hE422, <<\h87, \h06, \h93, \h07, \h90, \h3E, \h33, \h75, \hF5, \h02,
                     \h13, \h04, \h00, \h7D, \h9C, \h40>>)
  @@ Bytes(\hE466, <<\hD1, \h18, \h13, \h06, \h00, \h05, \h91, \h45>>)

\* Versions at both ends of the range, the default, and one whose tag differs
\* from the stock bytes by 256 in its sum.
MCVersion == {\h01, \h10, \h16, \h7F}
MCSites == [p \in PATCH_IDS |-> [v \in MCVersion |-> build_patch_spec(p, v)]]
MCGroup == [p \in PATCH_IDS |-> ConflictGroup(p)]
MCDecode(bytes) ==
  LET at == CHOOSE o \in DOMAIN bytes : o - 1 \notin DOMAIN bytes
  IN  DecodeAddiZeroA5([i \in 1..4 |-> bytes[at + i - 1]])

\* The bundle of test_combined_community_bundle_applies_cleanly.
Bundle ==
  << "ignore_server_deauth_0xae", "bypass_auth_check_0x1380",
     "enable_0xa6_disable_cmd", "pulse_timing_fast_1500ms",
     "pulse_hold_short_25ms", "custom_fw_version_tag",
     "unlock_steering_triggers_all_gears_0x8100" >>

\* Patches alone on their pages go in together; those that share a page, a site
\* or a parameter come one by one, in every order.
Others == << "ignore_server_deauth_0xae", "bypass_auth_check_0x1380",
             "enable_0xa6_disable_cmd", "unlock_steering_triggers_all_gears_0x8100" >>

MCRequest ==
  [ids : {<<"gate_media_pulse_on_ap_0x2242">>, <<"fix_hands_on_reminder_detection">>,
          <<"pulse_timing_fast_1500ms">>, <<"pulse_timing_gentle_1000ms">>,
          <<"pulse_hold_short_25ms">>, Others},
   fw_version : {\h16}, allow : {FALSE}]
  \cup [ids : {Bundle, <<"custom_fw_version_tag">>,
               <<"pulse_timing_gentle_1000ms", "pulse_timing_fast_1500ms">>},
        fw_version : {\h00, \h01, \h10, \h7F, \h80}, allow : {TRUE}]

MCOffset == DOMAIN MCStock
MCGuarded == RESET_VECTOR @@ BOOT_FLAG_CLEAR

\* Every version tag reads back as itself and as no other.
ASSUME TagsReadBack ==
  \A v \in FwVersion : DecodeAddiZeroA5(EncodeAddi(15, 0, v)) = v
=============================================================================
