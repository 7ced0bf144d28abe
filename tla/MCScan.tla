-------------------------------- MODULE MCScan --------------------------------
(***************************************************************************)
(* Small instances of ScanController for TLC: grids of four or six cells,  *)
(* one axis, and at most MaxOps steps of the operator (a restart is one),   *)
(* of the kinds in Allowed.  Everything the refresh and the meter do is    *)
(* unbounded.  A behaviour keeps to one of the Tracks: "one grid", taken    *)
(* up again in every way; "two grids" and a zero point that moves, where   *)
(* runs are begun and continued; "two zeros" on one grid, where files are  *)
(* reopened and cells measured again too; or "any", which has no limit.    *)
(***************************************************************************)
EXTENDS ScanRefinement

CONSTANTS
    MCModes,    \* the modes to choose from
    MCDwells,   \* the dwell times to choose from
    MCSamples,  \* the numbers of samples to choose from
    MCRows,     \* how many rows of two cells the grid can have
    Tracks,     \* what a behaviour is confined to
    Seen,       \* names of what can be observed
    Allowed,    \* kinds of operator steps
    MaxOps,     \* bound: how many of them there are in one behaviour,
    MaxRandomOps    \* or with a random mode, where each deals a new plan; one
                    \* with an endless mode, which deals them by itself

VARIABLES
    ops,        \* how many there were
    track       \* the one of the Tracks

MCParams ==
    {q \in [area : {"a"}, nx : {2}, ny : MCRows, mode : MCModes,
            start_positive : {TRUE}, dwell : MCDwells, samples : MCSamples, fast : {FALSE}] :
        ModeSpiral(q) \/ ModeEndless(q) => q.dwell = 0}

MCAxis == {"X"}

\* All is well; every axis shows the target it was given.
Healthy == [connected |-> TRUE, in_op |-> TRUE, homing |-> FALSE, fault |-> FALSE,
            wkc_ok |-> TRUE, axes_ok |-> TRUE, enabled |-> TRUE, limit |-> FALSE,
            want |-> MCAxis, meter_open |-> TRUE, fits |-> TRUE]

Observed(name) ==
    CASE name = "healthy" -> Healthy
      [] name = "other target" -> [Healthy EXCEPT !.want = {}]
      [] name = "short wkc" -> [Healthy EXCEPT !.wkc_ok = FALSE]
      [] name = "no meter" -> [Healthy EXCEPT !.meter_open = FALSE]
      [] name = "drive fault" -> [Healthy EXCEPT !.fault = TRUE]

MCObservations == {Observed(name) : name \in Seen}

MCOperate ==
    \/ "configure" \in Allowed /\ Configure
    \/ "adjust" \in Allowed /\ (Running \/ st = "Loaded") /\ Configure
    \/ "reopen" \in Allowed /\ Reopen
    \/ "begin" \in Allowed /\ Begin
    \/ "repeat" \in Allowed /\ Repeat
    \/ "interrupt" \in Allowed /\ Interrupt
    \/ "restart" \in Allowed /\ Restart

OnTrack(q) ==
    CASE track = "any" -> TRUE
      [] track = "one grid" -> q.ny = 2
      [] track = "two grids" -> q.mode = "Serpentine" /\ q.dwell = 1
      [] track = "two zeros" -> q.mode = "Serpentine" /\ q.dwell = 1 /\ q.ny = 2

OperateOnTrack ==
    /\ \/ track = "any" /\ MCOperate
       \/ track = "one grid" /\ MCOperate /\ zero_epoch' = zero_epoch
       \/ track = "two grids" /\ (Configure \/ Begin)
       \/ track = "two zeros" /\ (SetZeroEpoch \/ Reopen \/ Begin \/ Repeat)
    /\ OnTrack(p')

MCInit == Init /\ ops = 0 /\ track \in Tracks /\ OnTrack(p)

MCNext ==
    \/ /\ ops < CASE ModeEndless(p) -> 1
                  [] ModeRandom(p) /\ ~ModeEndless(p) -> MaxRandomOps
                  [] OTHER -> MaxOps
       /\ OperateOnTrack
       /\ ops' = ops + 1 /\ UNCHANGED track
    \/ (Refresh \/ Sample \/ PassedRowFails) /\ UNCHANGED <<ops, track>>

MCSpec == MCInit /\ [][MCNext]_<<vars, ops, track>>

MCFairSpec == MCSpec /\ WF_vars(Refresh)
=============================================================================
