---------------------------- MODULE PaceCommands ----------------------------
(***************************************************************************)
(* The read commands of internal/pace, and what their parsers insist on.   *)
(* A parser never looks at the command an answer belongs to, so the number *)
(* of bytes it needs is all that can tell it that an answer is not its own.*)
(***************************************************************************)
EXTENDS Integers, Sequences

(* What pollMetadataAndParameters asks, in its order                       *)
InfoCommand ==
  <<"software_version", "pace_software_version", "product_info", "inverter_protocol">>

ParamCommand ==
  <<"equalization_params", "full_charge_params", "single_hibernate_params",
    "cell_ovp_params", "cell_uvp_params", "pack_ovp_params", "pack_uvp_params",
    "charge_ocp_params", "discharge_ocp1_params", "discharge_ocp2_params",
    "short_circuit_delay", "high_temp_params", "low_temp_params",
    "mos_high_temp_params", "env_temp_params">>

(* The fields a parser reads: so many single bytes and so many words       *)
(* (readU16).  Units are left out.                                         *)
Fields(bytes, words) == [bytes |-> bytes, words |-> words]

ParseBMSDateTime == Fields(6, 0)
ParseInverterProtocol == Fields(2, 0)            \* the mode is read if there is one
ParseEqualizationParameters == Fields(0, 2)
ParseFullChargeParameters == Fields(1, 2)
ParseSingleHibernateParameters == Fields(0, 2)
ParseVoltageProtectionParameters == Fields(2, 3)
ParseCurrentProtectionParameters == Fields(2, 2)
ParseDischargeOCP2Parameters == Fields(1, 1)
ParseShortCircuitDelay == Fields(1, 0)
ParseDualTemperatureProtectionParameters == Fields(1, 6)
ParseSingleTemperatureProtectionParameters == Fields(1, 3)
ParseCurrentLimitParameter == Fields(0, 1)
ParseText == Fields(0, 0)                        \* the ASCII ones take anything

Parser(c) ==
  CASE c = "bms_datetime" -> ParseBMSDateTime
    [] c \in {"inverter_protocol", "inverter_protocol_v2"} -> ParseInverterProtocol
    [] c = "equalization_params" -> ParseEqualizationParameters
    [] c = "full_charge_params" -> ParseFullChargeParameters
    [] c = "single_hibernate_params" -> ParseSingleHibernateParameters
    [] c \in {"cell_ovp_params", "cell_uvp_params", "pack_ovp_params", "pack_uvp_params"}
         -> ParseVoltageProtectionParameters
    [] c \in {"charge_ocp_params", "discharge_ocp1_params"}
         -> ParseCurrentProtectionParameters
    [] c = "discharge_ocp2_params" -> ParseDischargeOCP2Parameters
    [] c = "short_circuit_delay" -> ParseShortCircuitDelay
    [] c \in {"high_temp_params", "low_temp_params", "env_temp_params"}
         -> ParseDualTemperatureProtectionParameters
    [] c = "mos_high_temp_params" -> ParseSingleTemperatureProtectionParameters
    [] c = "current_limit_parameter" -> ParseCurrentLimitParameter
    [] OTHER -> ParseText

Width(fields) == fields.bytes + 2 * fields.words

(* The parser of c takes an info of n bytes: all but one let more follow.  *)
Accepts(c, n) ==
  IF c = "current_limit_parameter" THEN n = Width(Parser(c)) ELSE n >= Width(Parser(c))

=============================================================================
