----------------------------- MODULE MCSymbolMap -----------------------------
(***************************************************************************)
(* Calls of add that the committed artifacts of the runtime image give     *)
(* rise to: some from every artifact, and all that meet another at their   *)
(* address or in their name.                                               *)
(***************************************************************************)
EXTENDS SymbolMap, FiniteSetsExt, SequencesExt

C(addr, name, kind, force) == [addr |-> addr, name |-> name, kind |-> kind, force |-> force]
Name(word, tail) == [word |-> word, tail |-> tail]
Sub(addr) == C(addr, Name("sub", <<addr>>), "f", FALSE)
Landmark(addr, name) == C(addr, Name(name, <<>>), "f", FALSE)
Force(addr, name) == C(addr, Name(name, <<>>), "f", TRUE)

MCArtifacts ==
  << \* functions.json
     << Sub(\h28e), Sub(\h4162), Sub(\h5d22), Sub(\h7e42), Sub(\ha39a), Sub(\h12d4) >>,
     \* command_dispatch.json: the dispatchers, handlers 0xA2 and 0xD0
     << Force(\hbdea, "ble_cmd_dispatch"), Force(\hc53c, "cmd_A2_handler"),
        Force(\hc53c, "cmd_A2_handler"), Force(\hc060, "cmd_D0_handler") >>,
     \* action_table.json
     << Force(\hd16e, "action_dispatch") >>,
     \* telemetry.json: two getters of one label, one getter of two fields, and
     \* a field without a getter, which the code allows for
     << Force(\hb3e0, "telemetry_packer"), Landmark(\h4162, "get_indicator_flag_bit"),
        Landmark(\h5d22, "get_indicator_flag_bit"),
        Landmark(\h7e42, "get_inverter_power"), Landmark(\h7e42, "get_inverter_power"),
        Landmark(None, "get_signal") >>,
     \* can_map.json: ids whose raw frames one decoder stores
     << Force(\h4f46, "can_decode_82"), Force(\h28e, "can_raw_frame_store"),
        Force(\h28e, "can_raw_frame_store") >>,
     \* rule_engine.json
     << Force(\he310, "rule_engine") >>,
     \* internal_commands.json
     << Force(\hc060, "cmd_D0_handler"), Landmark(\h12d4, "icmd_helper_0x12d4"),
        Landmark(\ha39a, "icmd_helper_0xa39a") >>,
     \* config_worker.json: selectors 3 and 6 share a target
     << Force(\ha39a, "f0_config_worker"), C(\ha5c4, Name("f0_sub3", <<>>), "l", FALSE),
        C(\ha5c4, Name("f0_sub6", <<>>), "l", FALSE) >> >>

MCCall == UNION {Range(s) : s \in Range(MCArtifacts)}
=============================================================================
