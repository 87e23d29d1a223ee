------------------------------- MODULE Device -------------------------------
(***************************************************************************)
(* App/iec101.c: what the callbacks read from the device and do to it.     *)
(* An information point is its address.  A status is 1 when the input      *)
(* reads IN_NORMAL or the alarm is on.                                     *)
(***************************************************************************)
EXTENDS Asdu

CONSTANTS
  Wired,     \* the status points that are connected, out of all 19
  Measured,  \* the measured values, out of all 11
  Readings   \* the values a measurement may take

YX_CLOSE_ADDR       == 1
YX_CUT_ADDR         == 2
YX_HAND_ADDR        == 3
YX_REMOTE_LOCK_ADDR == 4
YX_EACTIVE_ADDR     == 5

\* Deadbands of the measured values MV_UAB_ADDR (0x4001) .. MV_HZ_ADDR (0x400B).
Deadband(addr) == <<50, 50, 250, 250, 250, 20, 100, 5000, 5000, 10, 30>>[addr - 16384]

CHOOSING == 1
EXECUTE  == 0

SwitchAddr  == 24577   \* 0x6001, the switch
BatteryAddr == 24578   \* 0x6002, the activation of the battery

ASSUME WiredAssumption ==
  {YX_CLOSE_ADDR, YX_HAND_ADDR, YX_REMOTE_LOCK_ADDR, YX_EACTIVE_ADDR} \subseteq Wired
    /\ Wired \subseteq 1 .. 19
ASSUME MeasuredAssumption == Measured \subseteq 16385 .. 16395 /\ Measured # {}
ASSUME ReadingsAssumption == Readings \subseteq Nat /\ 0 \in Readings

Signals == Wired \ {YX_CLOSE_ADDR, YX_CUT_ADDR}
Points  == Wired \cup Measured

VARIABLES
  real,           \* gSystemDev.ftu_dev->c_realdata
  last_realdata,  \* what was last reported of it
  signal,         \* inputs and alarms
  position,       \* of the switch, "CLOSE" or "CUT"
  moving,         \* a remote action was started and has not ended
  output,         \* OUT_POS_VOL_ACTIVE
  clock           \* type of the command the clock was last set from

deviceVars == <<real, last_realdata, signal, position, moving, output, clock>>

DeviceInit(signals) ==
  /\ real = [p \in Measured |-> 0] /\ last_realdata = real
  /\ signal = signals
  /\ position = "CUT" /\ moving = FALSE
  /\ output = "OUT_RESET" /\ clock = 0
-----------------------------------------------------------------------------
\* The points one after the other, as the code names them.
Below(points, p) == {q \in points : q < p}
InOrder(points) ==
  [i \in 1 .. Cardinality(points) |->
     CHOOSE p \in points : Cardinality(Below(points, p)) = i - 1]

\* The getters of the status points.
Status == [p \in Wired |->
  CASE p = YX_CLOSE_ADDR -> IF position = "CLOSE" THEN 1 ELSE 0
    [] p = YX_CUT_ADDR   -> IF position = "CUT" THEN 1 ELSE 0
    [] p \in Signals     -> signal[p]]

(* COMPARE_VAL: a rise of the whole range or more is reported, and a fall  *)
(* of the range or less.                                                   *)
COMPARE_VAL(a, b, range) == (a >= b /\ a - b >= range) \/ (a < b /\ b - a <= range)

Changed == {p \in Measured : COMPARE_VAL(real[p], last_realdata[p], Deadband(p))}

Update(level, ident, cause, node) ==
  [level |-> level, ident |-> ident, cause |-> cause, node |-> node]

yx_all_cll == Update("LEVEL_1", M_SP_NA, "Introgen", NodeOf(InOrder(Wired), Status, 0))

MeasuredCall == Update("LEVEL_1", M_ME_NB, "Introgen", NodeOf(InOrder(Measured), real, 0))

Termination == Update("LEVEL_1", C_IC_NA, "Actterm", NodeOf(<<0>>, [p \in {0} |-> 20], 0))

\* Mutant: the end of the call is reported before the data.
EndsFirst == <<Termination, yx_all_cll, MeasuredCall>>

iec_all_call_proc == <<yx_all_cll, MeasuredCall, Termination>>
-----------------------------------------------------------------------------
Remote == signal[YX_REMOTE_LOCK_ADDR] = 0 /\ signal[YX_HAND_ADDR] = 1

\* The position the switch has to leave for the action.
From(act) == IF act = 1 THEN "CUT" ELSE "CLOSE"

swc_check(act)    == Remote /\ act \in {0, 1} /\ position = From(act)
swc_action(act)   == swc_check(act)
ecact_check       == signal[YX_EACTIVE_ADDR] = 0
ecact_action(act) == ecact_check /\ act = 1

Outcome(ok) == IF ok THEN "CMD_RES_OK" ELSE "CMD_RES_FAIL"

dc_node_ctrl_proc(a) ==
  CASE a.addr = SwitchAddr /\ a.SE = CHOOSING   -> Outcome(swc_check(a.act))
    [] a.addr = SwitchAddr /\ a.SE = EXECUTE  -> Outcome(swc_action(a.act))
    [] a.addr = BatteryAddr /\ a.SE = CHOOSING  -> Outcome(ecact_check)
    [] a.addr = BatteryAddr /\ a.SE = EXECUTE -> Outcome(ecact_action(a.act))
    [] OTHER                                    -> "CMD_RES_ERR_NODE"

iec101_ctrl_cmd_callback(a) ==
  IF a.asdu_ident = C_DC_NA THEN dc_node_ctrl_proc(a) ELSE "CMD_RES_ERR_TYPE"

Executed(a, addr) == a.asdu_ident = C_DC_NA /\ a.addr = addr /\ a.SE = EXECUTE

Starts(a) == Executed(a, SwitchAddr) /\ swc_action(a.act)
Pulses(a) == Executed(a, BatteryAddr) /\ ecact_action(a.act)

(* A general call falls through to the clock synchronisation, which reads  *)
(* the time of the call's own bytes.                                       *)
SetsClock(ident) == ident \in {C_IC_NA, C_CS_NA}
=============================================================================
