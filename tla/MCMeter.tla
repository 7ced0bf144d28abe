------------------------------- MODULE MCMeter --------------------------------
(***************************************************************************)
(* Small instances of MeterLog for TLC: the operator acts at most MaxOps   *)
(* times, in the ways in Allowed; turning a filter by hand is one of them. *)
(***************************************************************************)
EXTENDS MeterLog

CONSTANTS
    Allowed,    \* "retry", "head", "settings"
    MaxOps      \* bound: the operator's acts in one behaviour

VARIABLE ops    \* how many there were

MCOperator ==
    \/ "retry" \in Allowed /\ onMtrRetryOpen
    \/ "head" \in Allowed /\ onMtrDeviceChanged
    \/ "settings" \in Allowed /\ onMeterCfgChanged
    \/ FilterTurned

MCInit == Init /\ ops = 0
MCNext ==
    \/ ops < MaxOps /\ MCOperator /\ ops' = ops + 1
    \/ (GuiStep \/ Surroundings \/ TimePasses) /\ UNCHANGED ops

MCSafe == MCInit /\ [][MCNext]_<<vars, ops>>
MCSpec == MCSafe /\ Fairness
=============================================================================
