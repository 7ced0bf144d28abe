----------------------------- MODULE WorkerRules -----------------------------
(***************************************************************************)
(* The decisions of the EtherCAT worker that hmi/ecatworker.h keeps apart  *)
(* from the thread, as pure functions: who may be reset, homed and         *)
(* recovered, what a homing batch came to and who is to blame for it,      *)
(* where the displayed zero goes, and how a span measurement advances.     *)
(* A refusal text is the name of its reason, "" where the code returns no  *)
(* text; a mask of axes is a set.                                          *)
(***************************************************************************)
EXTENDS Integers, FiniteSets

CONSTANTS
    Axes,       \* the axes in use, 0 .. naxis - 1
    IntMax,     \* INT32_MAX (scaled down for checking)
    SpanMax,    \* HMI_SPAN_MAX_PUL
    OffMax      \* HMI_HOME_OFF_MAX, which is HMI_RANGE

ASSUME RulesAssumption ==
    /\ Axes # {} /\ IsFiniteSet(Axes) /\ Axes \subseteq Nat
    /\ {IntMax, SpanMax, OffMax} \subseteq Nat \ {0}
    /\ SpanMax <= IntMax /\ OffMax <= IntMax

Int32 == -IntMax - 1 .. IntMax
abs(x) == IF x < 0 THEN -x ELSE x
lesser(a, b) == IF a < b THEN a ELSE b
greater(a, b) == IF a < b THEN b ELSE a
clamp(x, lo, hi) == IF x < lo THEN lo ELSE IF x > hi THEN hi ELSE x
first(S) == CHOOSE i \in S : \A j \in S : i <= j

-----------------------------------------------------------------------------
(* Resets *)

axis_needs_reset(valid, mirror_ok, fault) == valid /\ mirror_ok /\ fault

\* A stale statusword decides nothing, and says so.
reset_gate(valid, mirror_ok, fault) ==
    IF axis_needs_reset(valid, mirror_ok, fault) THEN "DO"
    ELSE IF valid /\ ~mirror_ok THEN "UNKNOWN" ELSE "NOFAULT"

-----------------------------------------------------------------------------
(* Homing methods and offsets *)

LimitMethods == {"LIMIT_POS", "LIMIT_NEG"}
home_method_is_limit(m) == m \in LimitMethods

home_lim_target_active(m, pos, neg) ==
    \/ m = "LIMIT_POS" /\ pos
    \/ m = "LIMIT_NEG" /\ neg
home_lim_other_active(m, pos, neg) ==
    \/ m = "LIMIT_POS" /\ neg
    \/ m = "LIMIT_NEG" /\ pos

home_lim_refusal(dig_known, tgt_active, other_active) ==
    IF ~dig_known THEN "no 60FDh"
    ELSE IF tgt_active /\ other_active THEN "both limits" ELSE ""

\* The offset in the preferences; INT_MIN stands for none.
home_off_from_pref(v, def) == IF v = -IntMax - 1 THEN def ELSE clamp(v, -OffMax, OffMax)

-----------------------------------------------------------------------------
(* Where the displayed zero goes after homing *)

home_off_fits(off, range) == range > 0 /\ abs(off) <= range

\* The offset in effect: none behind a limit method, or where it would not fit.
home_off_decide(off_ui, is_limit, range) ==
    LET req == clamp(off_ui, -OffMax, OffMax)
    IN  [req |-> req, range |-> range, is_limit |-> is_limit,
         eff |-> IF is_limit \/ ~home_off_fits(req, range) THEN 0 ELSE req]

\* Wrong: the target on the other side of the zero.
home_anchor_mirrored(landing, off) ==
    [origin |-> landing + off, tgt |-> off, degraded |-> FALSE]

\* The zero is put off pulses beyond the landing; where 32 bits cannot hold it,
\* at the landing.
home_anchor(landing, off) ==
    IF {landing + off, -off} \subseteq Int32
    THEN [origin |-> landing + off, tgt |-> -off, degraded |-> FALSE]
    ELSE [origin |-> landing, tgt |-> 0, degraded |-> TRUE]

\* A remembered zero is taken over only where the axis is within range of it.
origin_keep_ok(pos, origin, range) == range > 0 /\ abs(pos - origin) <= range

-----------------------------------------------------------------------------
(* One homing batch: who may start, how each axis ended, who is to blame *)

home_refusal(bus_ready, origin_ready, mirror_ok, fault, any_axis_moving) ==
    IF ~bus_ready THEN "bus"
    ELSE IF ~origin_ready THEN "origin"
    ELSE IF ~mirror_ok THEN "stale"
    ELSE IF fault THEN "fault"
    ELSE IF any_axis_moving THEN "moving" ELSE ""

\* The state of the bus first, then that of every axis asked for, then whether
\* anything moves: one axis that may not home keeps the whole batch from it.
home_batch_refusal(bus_ready, origin_ready, any_axis_moving, mask, mirror_ok, fault) ==
    LET bus  == home_refusal(bus_ready, origin_ready, TRUE, FALSE, FALSE)
        own(a) == home_refusal(TRUE, TRUE, a \in mirror_ok, a \in fault, FALSE)
        bad  == {a \in mask : own(a) # ""}
        move == home_refusal(TRUE, TRUE, TRUE, FALSE, any_axis_moving)
        refuse(r, b) == [ok |-> {}, bad |-> b, reason |-> r]
    IN  IF mask = {} THEN refuse("no axis", {})
        ELSE IF bus # "" THEN refuse(bus, {})
        ELSE IF bad # {} THEN refuse(own(first(bad)), bad)
        ELSE IF move # "" THEN refuse(move, {})
        ELSE [ok |-> mask, bad |-> {}, reason |-> ""]

\* em_home_step and what the batch makes of it; the failures are negative.
StepFails == {"FAULT", "HM_ERROR", "TIMEOUT", "NO_FRAMES", "SETUP"}
StepRcs   == {"RUNNING", "ATTAINED", "ABORTED", "PEER"} \union StepFails

home_end_state(started, fault_now, end_enabled, rc_mode) ==
    IF ~started THEN "NEVER_STARTED"
    ELSE IF fault_now THEN "FAULTED"
    ELSE IF end_enabled /\ rc_mode = 0 THEN "HOLDING" ELSE "STRANDED"

home_batch_end(rc, mask) ==
    LET ok  == {a \in mask : rc[a] = "ATTAINED"}
        bad == {a \in mask : rc[a] \notin {"ATTAINED", "ABORTED"}}
    IN  IF mask = {} THEN "NONE"
        ELSE IF ok = mask THEN "SUCCESS"
        ELSE IF ok = {} THEN IF bad = {} THEN "STOPPED" ELSE "FAILED"
        ELSE "PARTIAL"

\* Wrong: the first axis that did not get home.
home_batch_blame_first(rc, mask) ==
    LET bad == {a \in mask : rc[a] # "ATTAINED"} IN IF bad = {} THEN -1 ELSE first(bad)

\* The first axis that failed by itself; failing that, where an axis was
\* stopped for a peer, the first that was not.  -1: nobody.
home_batch_blame(rc, mask) ==
    LET failed == {a \in mask : rc[a] \in StepFails}
        other  == {a \in mask : rc[a] # "PEER"}
    IN  IF failed # {} THEN first(failed)
        ELSE IF other # mask /\ other # {} THEN first(other) ELSE -1

\* ends is indexed as the code indexes it: the k-th report, not the k-th axis
\* (see EcatWorker!ends).
home_batch_maybe_live(end, mask) == \E a \in mask : end[a] = "STRANDED"

\* Who a batch summary names: nobody for a batch of one, a success or a stop.
home_batch_summary(rc, mask) ==
    IF Cardinality(mask) <= 1 \/ home_batch_end(rc, mask) \in {"SUCCESS", "STOPPED"}
    THEN -1 ELSE home_batch_blame(rc, mask)

-----------------------------------------------------------------------------
(* Measuring the width of the origin signal *)

span_next(cur, dig_home) ==
    CASE cur = "BACKOFF" -> IF dig_home THEN "BACKOFF" ELSE "SEEK"
      [] cur = "SEEK"    -> IF dig_home THEN "CROSS" ELSE "SEEK"
      [] cur = "CROSS"   -> IF dig_home THEN "CROSS" ELSE "DONE"
      [] OTHER           -> cur

span_dir(step) == IF step = "BACKOFF" THEN -1 ELSE 1

span_travel_cap(range) ==
    LET r == abs(range) IN IF 0 < r /\ r < SpanMax THEN r ELSE SpanMax

\* The next target: a step ahead, but no further than lead beyond the axis, and
\* never back.
span_advance(tgt, pos, step, lead, dir) ==
    LET want == tgt + greater(step, 1) * dir
        cap  == pos + lead * dir
        next == IF dir < 0 THEN lesser(greater(cap, want), tgt)
                ELSE greater(lesser(cap, want), tgt)
    IN  IF lead > 0 THEN [tgt |-> next, limited |-> next = tgt]
        ELSE [tgt |-> clamp(want, -IntMax - 1, IntMax), limited |-> FALSE]

span_fail_why(e) ==
    IF e.stop_req THEN "STOPPED"
    ELSE IF e.bus_gone \/ ~e.bus_ready THEN "NO_BUS"
    ELSE IF e.fault THEN "FAULT"
    ELSE IF ~e.enabled THEN "DISABLED"
    ELSE IF ~e.dig_known THEN "NO_DIG"
    ELSE IF ~e.csp_wrote THEN "NO_TARGET"
    ELSE IF e.stuck THEN "STUCK"
    ELSE IF e.over_travel THEN IF e.in_signal THEN "NO_EXIT" ELSE "NO_EDGE"
    ELSE IF e.over_time THEN "TIMEOUT" ELSE "NONE"

span_dig_refusal(mask, dig_known) == mask \ dig_known

-----------------------------------------------------------------------------
(* The state of the bus, and when to mend it *)

comm_bad_from(wkc, expected, bad_run, limit) ==
    expected > 0 /\ limit > 0 /\ wkc < expected /\ bad_run >= limit

\* Wrong: tries are not counted.
recover_verdict_forever(gap, gap_limit, ok_run, arm, tries, max_tries, self_caused) ==
    IF gap_limit <= 0 \/ arm <= 0 \/ max_tries <= 0 THEN "NO"
    ELSE IF gap > gap_limit /\ ~self_caused THEN "MASTER"
    ELSE IF ok_run < arm THEN "NO" ELSE "TRY"

recover_verdict(gap, gap_limit, ok_run, arm, tries, max_tries, self_caused) ==
    IF gap_limit <= 0 \/ arm <= 0 \/ max_tries <= 0 THEN "NO"
    ELSE IF gap > gap_limit /\ ~self_caused THEN "MASTER"
    ELSE IF tries >= max_tries THEN "GIVEUP"
    ELSE IF ok_run < arm THEN "NO" ELSE "TRY"

recover_cooldown_ok(cd, cooldown) == cooldown > 0 /\ cd > 0 /\ cd >= cooldown

recover_bus_broken(bad_run, arm) == arm > 0 /\ bad_run >= arm

=============================================================================
