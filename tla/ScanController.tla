---------------------------- MODULE ScanController ----------------------------
(***************************************************************************)
(* The scan state machine: scan/scancontroller.cpp.  It walks the cells of *)
(* an order one after the other, either stopping at each (Moving,          *)
(* Dwelling, Reading) or traversing a whole leg without stopping           *)
(* (Traversing), writes one CSV row per cell, and survives pause, abort,   *)
(* restart and the reopening of its own files.                             *)
(*                                                                         *)
(* Everything runs on the GUI thread, so a call is one step.  The callers  *)
(* are the 30 Hz refresh (Tick...), the meter log (Sample...), and the     *)
(* buttons of the scan window (all other actions).  The bus is another     *)
(* thread: what a call reads from it is chosen afresh at each step from    *)
(* Observations, and nothing relates one observation to the next.          *)
(*                                                                         *)
(* Times are counted in ticks.  A deadline is kept as the time left to it, *)
(* floored at -1, which tells apart all the code tests: passed (< 0), just *)
(* reached (= 0) or ahead (> 0).                                           *)
(***************************************************************************)
EXTENDS ScanCsv

CONSTANTS
    Params,         \* the parameter records the operator can set
    Paths,          \* file names
    Axis,           \* the axes of the stage
    Observations,   \* what the bus, the meter and the limit record can say
    MoveLimit,      \* ticks a move may take before the run is aborted
    ReadBudget,     \* ticks a point may be read
    FlushBudget,    \* ticks to wait for one more sample at either end of a leg
    WantConfirm,    \* WANT_CONFIRM_MS in ticks
    WkcLimit,       \* ticks with a short working counter that abort a run
    MaxStep,        \* bound: the most ticks that pass between two refreshes
    MaxEpoch        \* bound: how often the zero point is moved

ASSUME ParamsAssumption == \A q \in Params : IsParams(q)

ASSUME BoundsAssumption ==
    /\ {MaxStep, WkcLimit} \subseteq Nat \ {0}
    /\ {MoveLimit, ReadBudget, FlushBudget, WantConfirm, MaxEpoch} \subseteq Nat

ASSUME PathsAssumption == NoPath \notin Paths

\* busview.h, BusTelem and AxisTelem as the controller uses them: a field that
\* exists per axis is the conjunction over the axes, except the published
\* target, for which the axes that show the issued one are listed.  The open
\* meter, the travel range and the recorded limit lines are read by armRun only.
Observation ==
    [connected : BOOLEAN, in_op : BOOLEAN, homing : BOOLEAN, fault : BOOLEAN,
     wkc_ok : BOOLEAN, axes_ok : BOOLEAN, enabled : BOOLEAN, limit : BOOLEAN,
     want : SUBSET Axis, meter_open : BOOLEAN, fits : BOOLEAN]

ASSUME ObservationsAssumption == Observations \subseteq Observation

VARIABLES
    p, plan_p, run_p,   \* m_p, m_plan_p, m_run_p: parameters now, of the plan, of the run
    plan,               \* m_plan
    st,                 \* m_st
    order, ord_i,       \* m_order, m_ord_i: indices to walk, how many were walked
    cur,                \* m_cur: the plan index being measured, 0 for none
    is_retest, endless, \* m_is_retest, m_endless
    fly,                \* m_onfly, m_legs, m_leg_i, m_leg_slot, m_of_*
    nsamp,              \* m_nsamp: samples averaged so far at this point
    left,               \* the time left to each deadline
    want_ok,            \* m_want_ok: axes whose published target was confirmed
    bad_wkc,            \* m_bad_wkc
    done, have,         \* m_done, m_have as sets of cells
    log, files,         \* m_log: the open file; what is on disk
    zero_epoch,         \* m_zero_epoch
    load_epoch,         \* m_load_epoch
    spoil               \* history: what has happened to this run, see Sound

gridVars  == <<p, plan_p, plan>>
runVars   == <<order, ord_i, is_retest, endless>>
diskVars  == <<log, files>>
epochVars == <<zero_epoch, load_epoch>>
pointVars == <<cur, nsamp, left, want_ok>>
vars == <<p, plan_p, run_p, plan, st, order, ord_i, cur, is_retest, endless, fly,
          nsamp, left, want_ok, bad_wkc, done, have, log, files, zero_epoch,
          load_epoch, spoil>>

States  == {"Idle", "Loaded", "Moving", "Dwelling", "Reading", "Traversing",
            "Paused", "Aborted", "Done", "Undefined"}
Active  == {"Moving", "Dwelling", "Reading", "Traversing"}
Running == st \in Active \union {"Paused"}

NoCell == <<-1, -1>>

\* at is the position in the order of the cell being traversed, which stands
\* for m_leg_i and m_leg_slot; at0 is where a (re)started leg begins
\* (m_leg_slot0); sample is the cell over which the kept sample was taken
\* (m_of_have, m_of_pos), NoCell without one.
NoFly == [on |-> FALSE, ends |-> {}, at |-> 1, at0 |-> 1, started |-> FALSE,
          at_end |-> FALSE, stop_wait |-> FALSE, sample |-> NoCell]

NoDeadline == [deadline |-> -1, move |-> -1, flush |-> -1, want |-> -1]

Less(t, dt) == IF t - dt < -1 THEN -1 ELSE t - dt

Elapse(l, dt) ==
    [deadline |-> Less(l.deadline, dt), move |-> Less(l.move, dt),
     flush |-> Less(l.flush, dt), want |-> Less(l.want, dt)]

Pending == IF order = <<>> THEN 0 ELSE Len(order) - ord_i

OrderInPlan == \A i \in DOMAIN order : order[i] \in DOMAIN plan

Init ==
    /\ p \in Params /\ plan_p = p /\ run_p = p
    /\ plan = BuildPlan(p)
    /\ st = "Idle" /\ order = <<>> /\ ord_i = 0 /\ cur = 0
    /\ is_retest = FALSE /\ endless = FALSE /\ fly = NoFly
    /\ nsamp = 0 /\ left = NoDeadline /\ want_ok = {} /\ bad_wkc = 0
    /\ done = {} /\ have = {}
    /\ log = NoPath /\ files = [f \in Paths |-> NoFile]
    /\ zero_epoch = 0 /\ load_epoch = -1
    /\ spoil = {}

-----------------------------------------------------------------------------
(* Pieces of handlers.                                                     *)

\* healthProblem, with the working counter and want confirmation it keeps.
WantChanged(o, l) ==
    /\ cur # 0 /\ st # "Paused"
    /\ \E a \in Axis \ o.want : a \in want_ok \/ l.want < 0

HealthProblem(o, l) ==
    \/ ~o.connected \/ ~o.in_op \/ o.fault
    \/ ~o.wkc_ok /\ bad_wkc + 1 >= WkcLimit
    \/ ~o.axes_ok \/ ~o.enabled \/ o.limit
    \/ WantChanged(o, l)

NoteHealth(o) ==
    bad_wkc' = IF o.wkc_ok THEN 0 ELSE bad_wkc + 1

Confirmed(o) == IF st = "Paused" THEN want_ok ELSE want_ok \union o.want

\* startPoint: order the stage to plan[k] and wait for it.
StartPoint(k) ==
    /\ st' = "Moving"
    /\ cur' = k
    /\ nsamp' = 0
    /\ want_ok' = {}
    /\ left' = [NoDeadline EXCEPT !.move = MoveLimit, !.want = WantConfirm]

\* Wrong: the place in the order survives the order.
FinishRunKeepingPlace ==
    /\ st' = "Done"
    /\ cur' = 0 /\ nsamp' = 0 /\ want_ok' = {} /\ left' = NoDeadline
    /\ is_retest' = FALSE /\ endless' = FALSE
    /\ fly' = NoFly
    /\ order' = <<>> /\ UNCHANGED ord_i

\* finishRun.  The file stays open.
FinishRun ==
    /\ st' = "Done"
    /\ cur' = 0 /\ nsamp' = 0 /\ want_ok' = {} /\ left' = NoDeadline
    /\ is_retest' = FALSE /\ endless' = FALSE
    /\ fly' = NoFly
    /\ order' = <<>> /\ ord_i' = 0

\* abortInternal on a run, with stageResumeAfterAbort; d is what m_done holds
\* by then and "more" what happened to the file just before.
AbortRun(d, more) ==
    /\ st' = "Aborted"
    /\ cur' = 0 /\ nsamp' = 0 /\ want_ok' = {} /\ left' = NoDeadline
    /\ fly' = NoFly
    /\ ord_i' = 0
    /\ order' = IF is_retest THEN order
                ELSE IF endless THEN AllOf(plan) ELSE PendingOrder(plan, d)
    /\ bad_wkc' = 0
    /\ load_epoch' = zero_epoch
    /\ spoil' = spoil \union more
                \union (IF "reused" \in spoil THEN {"stale"} ELSE {})
    /\ UNCHANGED <<gridVars, run_p, is_retest, endless, log, zero_epoch>>

\* logAndMark, for one row or for the rows of the cells passed in one call.
LogRows(S, okS, first) ==
    /\ S # {} => log # NoPath
    /\ files' = IF S = {} THEN files
                ELSE [files EXCEPT ![log] = AppendRows(@, S, okS, first)]
    /\ done' = done \union S
    /\ have' = have \union okS

\* The same when the row of cell c cannot be written after those of S were:
\* no file is open, or the write fails and leaves a half row or nothing.
LogFails(S, okS, first, c) ==
    /\ done' = done \union S
    /\ have' = have \union okS
    /\ \/ /\ log = NoPath /\ S = {}
          /\ UNCHANGED files
          /\ AbortRun(done', {})
       \/ \E cut \in Cuts :
            /\ log # NoPath
            /\ files' = [files EXCEPT ![log] =
                             HalfRow(AppendRows(@, S, okS, first), c, cut)]
            /\ AbortRun(done', IF cut = "none" THEN {} ELSE {"torn"})

\* prepareRunPlan: a random mode deals a new plan for every run.
PrepareRunPlan ==
    IF ModeRandom(p) /\ plan # <<>>
    THEN plan' \in Shuffles(BuildPlan(p)) /\ plan_p' = p
    ELSE UNCHANGED <<plan, plan_p>>

\* The tests of armRun.
CanArm(o, ord) ==
    /\ o.connected /\ o.in_op /\ ~o.homing /\ o.meter_open
    /\ ord # <<>>
    /\ ~RunError(p)
    /\ o.axes_ok /\ o.enabled /\ ~o.fault /\ ~o.limit /\ o.wkc_ok
    /\ o.fits

\* armRun, once its tests are passed; pl and ord are the plan and the order it
\* finds.
ArmRun(pl, ord, retest) ==
    /\ run_p' = p
    /\ bad_wkc' = 0
    /\ ord_i' = 0
    /\ fly' = IF OnFly(p) /\ ~retest
              THEN [NoFly EXCEPT !.on = TRUE, !.ends = LegEnds(p, pl, ord)]
              ELSE NoFly
    /\ StartPoint(ord[1])

-----------------------------------------------------------------------------
(* Parameters, files and the zero point.                                   *)

\* The parameters of p that the window leaves open during a run and on a loaded
\* file have other values in q.
Adjusts(q) == q = [p EXCEPT !.dwell = q.dwell, !.samples = q.samples, !.fast = q.fast]

\* Wrong: the points are dealt anew whenever a parameter changes.
SetParamsReplanning(q) ==
    /\ st # "Undefined"
    /\ Running \/ st = "Loaded" => Adjusts(q)
    /\ p' = q
    /\ plan' = BuildPlan(q) /\ plan_p' = q
    /\ LET same == plan # <<>> /\ SameGeom(q, plan_p)
       IN  /\ done' = IF same THEN done ELSE {}
           /\ have' = IF same THEN have ELSE {}
    /\ UNCHANGED <<run_p, st, runVars, pointVars, fly, bad_wkc, diskVars, epochVars, spoil>>

\* setParams with rebuildPlan.  A change of mode alone keeps the results, a
\* change of geometry drops them; either can leave an order made for another
\* plan.
SetParams(q) ==
    /\ st # "Undefined"
    /\ Running \/ st = "Loaded" => Adjusts(q)
    /\ p' = q
    /\ LET same == plan # <<>> /\ SameGeom(q, plan_p)
           keep == same /\ q.mode = plan_p.mode
       IN  /\ plan' = IF keep THEN plan ELSE BuildPlan(q)
           /\ plan_p' = IF keep THEN plan_p ELSE q
           /\ done' = IF same THEN done ELSE {}
           /\ have' = IF same THEN have ELSE {}
           /\ spoil' = IF keep \/ st # "Aborted" THEN spoil
                       ELSE spoil \union {"replanned"}
    /\ UNCHANGED <<run_p, st, runVars, pointVars, fly, bad_wkc, diskVars, epochVars>>

\* setZeroEpoch: the refresh follows the worker's epoch, during a run too.  Only
\* the buttons that move the zero point look at the scan, when they are clicked:
\* a command that was queued before the start can be taken after it.
SetZeroEpoch ==
    /\ st # "Undefined"
    /\ zero_epoch < MaxEpoch
    /\ zero_epoch' = zero_epoch + 1
    /\ spoil' = IF Running THEN spoil \union {"moved"} ELSE spoil
    /\ UNCHANGED <<gridVars, run_p, st, runVars, pointVars, fly, bad_wkc, done, have,
                   diskVars, load_epoch>>

\* resetRunState, for newFile and for giving up a loaded file.
ResetRunState ==
    /\ st' = "Idle"
    /\ log' = NoPath
    /\ order' = <<>> /\ ord_i' = 0 /\ cur' = 0
    /\ is_retest' = FALSE /\ endless' = FALSE /\ fly' = NoFly
    /\ done' = {} /\ have' = {}
    /\ load_epoch' = -1
    /\ spoil' = {}
    /\ UNCHANGED <<gridVars, run_p, nsamp, left, want_ok, bad_wkc, files, zero_epoch>>

\* newFile, and abort on a loaded file.
NewFile ==
    /\ ~Running /\ st # "Undefined"
    /\ ResetRunState

\* Wrong: a run can be started over a run.
StartPreparedAnytime(path) ==
    /\ st # "Undefined"
    /\ ~RunError(p)
    /\ PrepareRunPlan
    /\ endless' = ModeEndless(p)
    /\ order' = AllOf(plan')
    /\ is_retest' = FALSE
    /\ UNCHANGED <<p, done, have, epochVars>>

\* start, up to armRun: m_done and m_have are not touched.
StartPrepared(path) ==
    /\ st \in {"Idle", "Aborted", "Done"}
    /\ ~RunError(p)
    /\ PrepareRunPlan
    /\ endless' = ModeEndless(p)
    /\ order' = AllOf(plan')
    /\ is_retest' = FALSE
    /\ UNCHANGED <<p, done, have, epochVars>>

Start(path, o) ==
    /\ StartPrepared(path)
    /\ log' = path
    /\ files' = [files EXCEPT ![path] = HeaderOnly(p, zero_epoch)]
    /\ CanArm(o, order')
    /\ ArmRun(plan', order', FALSE)
    /\ spoil' = IF done = {} THEN {} ELSE {"reused"}

\* start when the file cannot be created, or armRun refuses: the previous file
\* is closed and the order is replaced all the same.
StartRefused(path, o) ==
    /\ StartPrepared(path)
    /\ log' = NoPath
    /\ cur' = 0
    /\ \/ UNCHANGED files
       \/ files' = [files EXCEPT ![path] = NoFile]
       \/ /\ ~CanArm(o, order')
          /\ files' = [files EXCEPT ![path] = HeaderOnly(p, zero_epoch)]
    /\ spoil' = spoil \union {"refused"}
    /\ UNCHANGED <<run_p, st, ord_i, fly, nsamp, left, want_ok, bad_wkc>>

\* loadResume, when it succeeds.  The text is parsed before beginAppend trims
\* the half row.  A file of another zero epoch is opened as well: the window
\* repeats the call with accept_zero_epoch_change.  What a glued line says
\* depends on its digits: such a file is not opened here.
LoadResume(path) ==
    /\ ~Running /\ st # "Undefined"
    /\ ~ParamsError(p)
    /\ files[path] # NoFile
    /\ SameGeom(files[path].geom, p)
    /\ ~files[path].glued
    /\ PrepareRunPlan
    /\ endless' = ModeEndless(p)
    /\ log' = path
    /\ files' = [files EXCEPT ![path] = Trimmed(@)]
    /\ done' = ResumeMask(files[path])
    /\ have' \in ResumeGrids(files[path])
    /\ order' = IF ModeEndless(p) THEN AllOf(plan') ELSE PendingOrder(plan', done')
    /\ ord_i' = 0 /\ cur' = 0 /\ is_retest' = FALSE
    /\ run_p' = p /\ bad_wkc' = 0
    /\ load_epoch' = zero_epoch
    /\ st' = "Loaded"
    /\ spoil' = (IF files[path].tail.cut = "keyed" THEN {"torn"} ELSE {})
                 \union (IF files[path].epoch # zero_epoch THEN {"accepted"} ELSE {})
    /\ UNCHANGED <<p, fly, nsamp, left, want_ok, zero_epoch>>

\* loadResume when the file cannot be opened for appending: the file held
\* before is opened again, if that works.
LoadRefused(path) ==
    /\ ~Running /\ st # "Undefined"
    /\ ~ParamsError(p)
    /\ files[path] # NoFile
    /\ SameGeom(files[path].geom, p)
    /\ \E trimmed \in {files, [files EXCEPT ![path] = Trimmed(@)]} :
          \/ log' = NoPath /\ files' = trimmed
          \/ /\ log # NoPath /\ log' = log
             /\ files' = [trimmed EXCEPT ![log] = Trimmed(@)]
    /\ spoil' = IF log' = NoPath THEN spoil \union {"refused"} ELSE spoil
    /\ UNCHANGED <<gridVars, run_p, st, runVars, pointVars, fly, bad_wkc, done, have,
                   epochVars>>

-----------------------------------------------------------------------------
(* Runs.                                                                   *)

\* Wrong: the zero point is not checked again.
CanContinueAnyZero(o) ==
    /\ st \in {"Loaded", "Aborted"}
    /\ SameGeom(run_p, p)
    /\ CanArm(o, order)

\* Wrong: the geometry is not checked again.
CanContinueAnyGeom(o) ==
    /\ st \in {"Loaded", "Aborted"}
    /\ zero_epoch = load_epoch
    /\ CanArm(o, order)

CanContinue(o) ==
    /\ st \in {"Loaded", "Aborted"}
    /\ SameGeom(run_p, p)
    /\ zero_epoch = load_epoch
    /\ CanArm(o, order)

\* beginLoadedRun: "continue" on a loaded file or after an abort.
BeginLoadedRun(o) ==
    /\ CanContinue(o)
    /\ OrderInPlan
    /\ ArmRun(plan, order, is_retest)
    /\ UNCHANGED <<gridVars, order, is_retest, endless, done, have, diskVars, epochVars,
                   spoil>>

\* armRun indexes m_plan with every member of m_order without a bounds check:
\* nothing is known of the program after a read past the end.
ReadPastPlan(o) ==
    /\ CanContinue(o)
    /\ ~OrderInPlan
    /\ st' = "Undefined"
    /\ UNCHANGED <<gridVars, run_p, runVars, pointVars, fly, bad_wkc, done, have,
                   diskVars, epochVars, spoil>>

CanRetest(k) ==
    /\ ~Running /\ st # "Undefined"
    /\ st = "Loaded" => Pending = 0
    /\ log # NoPath
    /\ SameGeom(run_p, p)
    /\ k \in DOMAIN plan

\* retest of the cell plan[k]; a refusal leaves the order replaced by that cell.
Retest(k, o) ==
    /\ CanRetest(k)
    /\ order' = <<k>>
    /\ CanArm(o, order')
    /\ is_retest' = TRUE
    /\ ArmRun(plan, order', TRUE)
    /\ UNCHANGED <<gridVars, endless, done, have, diskVars, epochVars, spoil>>

RetestRefused(k, o) ==
    /\ CanRetest(k)
    /\ order' = <<k>>
    /\ ~CanArm(o, order')
    /\ is_retest' = FALSE
    /\ spoil' = spoil \union {"refused"}
    /\ UNCHANGED <<gridVars, run_p, st, ord_i, endless, pointVars, fly, bad_wkc, done,
                   have, diskVars, epochVars>>

\* Wrong: the place on the leg is not kept (m_leg_slot0).
PauseFromLegStart ==
    /\ st \in Active
    /\ st' = "Paused"
    /\ nsamp' = 0
    /\ fly' = IF fly.on
              THEN [fly EXCEPT !.sample = NoCell, !.started = FALSE,
                               !.at_end = FALSE, !.stop_wait = FALSE]
              ELSE fly
    /\ left' = NoDeadline
    /\ UNCHANGED <<gridVars, run_p, runVars, cur, want_ok, bad_wkc, done, have,
                   diskVars, epochVars, spoil>>

\* pause: the half-measured point is dropped; a leg is taken up again from the
\* cell it had reached.
Pause ==
    /\ st \in Active
    /\ st' = "Paused"
    /\ nsamp' = 0
    /\ fly' = IF fly.on
              THEN [fly EXCEPT !.at0 = fly.at, !.sample = NoCell, !.started = FALSE,
                               !.at_end = FALSE, !.stop_wait = FALSE]
              ELSE fly
    /\ left' = NoDeadline
    /\ UNCHANGED <<gridVars, run_p, runVars, cur, want_ok, bad_wkc, done, have,
                   diskVars, epochVars, spoil>>

\* resumeRun; m_cur is never -1 here (AtFirstPending).
ResumeRun ==
    /\ st = "Paused"
    /\ StartPoint(cur)
    /\ UNCHANGED <<gridVars, run_p, runVars, fly, bad_wkc, done, have, diskVars,
                   epochVars, spoil>>

\* abort by the operator, on a run (a loaded file is given up as in NewFile).
Abort ==
    /\ Running
    /\ AbortRun(done, {})
    /\ UNCHANGED <<done, have, files>>

-----------------------------------------------------------------------------
(* The refresh: tick.  l is the time left to each deadline at this tick.   *)
(* That a drive reports a fault ends the run in healthProblem, before an    *)
(* arrival judge can see it.                                               *)

\* A tick that finds the run in good health.
Passes(dt, o, l) ==
    /\ l = Elapse(left, dt)
    /\ ~HealthProblem(o, l)
    /\ NoteHealth(o)

\* Nothing but time, confirmations and the working counter change.
Wait(o, l) ==
    /\ left' = l
    /\ want_ok' = Confirmed(o)
    /\ UNCHANGED <<st, cur, nsamp>>

TickUnhealthy(dt, o) ==
    /\ Running
    /\ HealthProblem(o, Elapse(left, dt))
    /\ AbortRun(done, {})
    /\ UNCHANGED <<done, have, files>>

TickPaused(dt, o) ==
    /\ st = "Paused"
    /\ Passes(dt, o, Elapse(left, dt))
    /\ UNCHANGED <<gridVars, run_p, st, runVars, pointVars, fly, done, have, diskVars,
                   epochVars, spoil>>

\* beginReading
BeginReading(o, l) ==
    /\ st' = "Reading"
    /\ nsamp' = 0
    /\ left' = [l EXCEPT !.deadline = ReadBudget, !.move = -1]
    /\ want_ok' = Confirmed(o)
    /\ UNCHANGED cur

\* The stage is in place: dwell, or read at once when there is no dwell time.
BeginDwelling(o, l) ==
    \/ p.dwell = 0 /\ BeginReading(o, l)
    \/ /\ p.dwell > 0
       /\ st' = "Dwelling"
       /\ left' = [l EXCEPT !.deadline = p.dwell, !.move = -1]
       /\ want_ok' = Confirmed(o)
       /\ UNCHANGED <<cur, nsamp>>

\* beginTraverse: wait at the first cell of the leg for a sample of it.
BeginTraverse(o, l) ==
    /\ st' = "Traversing"
    /\ cur' = order[fly.at0]
    /\ fly' = [fly EXCEPT !.at = fly.at0, !.started = FALSE, !.at_end = FALSE,
                          !.stop_wait = FALSE, !.sample = NoCell]
    /\ left' = [l EXCEPT !.flush = FlushBudget, !.move = -1]
    /\ want_ok' = Confirmed(o)
    /\ UNCHANGED nsamp

\* Moving: both arrival judges decide; the deadline comes before their verdict.
TickMoving(dt, o) ==
    LET l == Elapse(left, dt) IN
    /\ st = "Moving"
    /\ Passes(dt, o, l)
    /\ l.move >= 0
    /\ \/ Wait(o, l) /\ UNCHANGED fly
       \/ fly.on /\ BeginTraverse(o, l)
       \/ ~fly.on /\ BeginDwelling(o, l) /\ UNCHANGED fly
    /\ UNCHANGED <<gridVars, run_p, runVars, done, have, diskVars, epochVars, spoil>>

\* Wrong: only moves between stops time out.
TickNotArrivedAtStop(dt, o) ==
    LET l == Elapse(left, dt) IN
    /\ st = "Moving" /\ ~fly.on
    /\ ~HealthProblem(o, l)
    /\ l.move < 0
    /\ AbortRun(done, {})
    /\ UNCHANGED <<done, have, files>>

TickNotArrived(dt, o) ==
    LET l == Elapse(left, dt) IN
    /\ st = "Moving"
    /\ ~HealthProblem(o, l)
    /\ l.move < 0
    /\ AbortRun(done, {})
    /\ UNCHANGED <<done, have, files>>

TickDwelling(dt, o) ==
    LET l == Elapse(left, dt) IN
    /\ st = "Dwelling"
    /\ Passes(dt, o, l)
    /\ IF l.deadline > 0 THEN Wait(o, l) ELSE BeginReading(o, l)
    /\ UNCHANGED <<gridVars, run_p, runVars, fly, done, have, diskVars, epochVars, spoil>>

\* advance: on to the next point, to another round of an endless run, or done.
Advance ==
    LET last == ord_i + 1 >= Len(order) IN
    \/ /\ ~is_retest /\ ~last
       /\ ord_i' = ord_i + 1
       /\ StartPoint(order[ord_i + 2])
       /\ UNCHANGED <<plan, order, is_retest, endless, fly>>
    \/ /\ ~is_retest /\ last /\ endless
       /\ plan' \in Shuffles(plan)
       /\ ord_i' = 0
       /\ StartPoint(order[1])
       /\ UNCHANGED <<order, is_retest, endless, fly>>
    \/ /\ is_retest \/ (last /\ ~endless)
       /\ FinishRun
       /\ UNCHANGED plan

\* finishPoint, and what becomes of it when the row cannot be written.
FinishPoint(okS) ==
    /\ log # NoPath
    /\ LogRows({plan[cur]}, okS, plan[cur])
    /\ Advance
    /\ UNCHANGED <<p, plan_p, run_p, log, epochVars, spoil>>

FinishPointFails == LogFails({}, {}, plan[cur], plan[cur])

\* Reading: samples are counted by the meter's call, the tick only times out.
TickReading(dt, o) ==
    LET l == Elapse(left, dt) IN
    /\ st = "Reading"
    /\ Passes(dt, o, l)
    /\ l.deadline > 0
    /\ Wait(o, l)
    /\ UNCHANGED <<gridVars, run_p, runVars, fly, done, have, diskVars, epochVars, spoil>>

\* Wrong: a reading that has begun does not time out.
TickReadTimeoutUnbegun(dt, o) ==
    LET l == Elapse(left, dt) IN
    /\ st = "Reading" /\ nsamp = 0
    /\ ~HealthProblem(o, l)
    /\ l.deadline <= 0
    /\ \/ FinishPoint({}) /\ NoteHealth(o)
       \/ FinishPointFails

TickReadTimeout(dt, o) ==
    LET l == Elapse(left, dt) IN
    /\ st = "Reading"
    /\ ~HealthProblem(o, l)
    /\ l.deadline <= 0
    /\ \/ FinishPoint({}) /\ NoteHealth(o)
       \/ FinishPointFails

-----------------------------------------------------------------------------
(* Traversing.                                                             *)

End == LegEnd(fly.ends, fly.at)

\* syncOnFlyCell: the stage is seen at position j of the order.  The cells left
\* behind get their rows, the one it was at with the sample kept for it, if any.

Behind(j) == {plan[order[i]] : i \in fly.at .. j - 1}

BehindOk(j) ==
    IF j > fly.at /\ fly.sample # NoCell THEN {plan[order[fly.at]]} ELSE {}

\* Wrong: the sample goes along to the next cell.
SeenAtKeeping(j) == [fly EXCEPT !.at = j, !.stop_wait = fly.stop_wait /\ j = fly.at]

SeenAt(j) ==
    IF j = fly.at THEN fly
    ELSE [fly EXCEPT !.at = j, !.sample = NoCell, !.stop_wait = FALSE]

Sync(j) ==
    /\ j \in fly.at .. End
    /\ LogRows(Behind(j), BehindOk(j), plan[order[fly.at]])
    /\ cur' = order[j]
    /\ ord_i' = ord_i + (j - fly.at)

\* issueTraverseTarget: order the stage to the end of the leg.
Depart(f, o, l) ==
    /\ fly' = [f EXCEPT !.started = TRUE]
    /\ want_ok' = {}
    /\ left' = [l EXCEPT !.move = MoveLimit, !.want = WantConfirm, !.flush = -1]

\* A tick on a leg that is not over with it.
TickTraversing(dt, o) ==
    LET l == Elapse(left, dt) IN
    /\ st = "Traversing"
    /\ Passes(dt, o, l)
    /\ \E j \in fly.at .. End :
          LET f == SeenAt(j) IN
          /\ Sync(j)
          /\ \/ /\ ~f.started
                /\ IF f.sample # NoCell \/ l.flush <= 0
                   THEN Depart(f, o, l)
                   ELSE fly' = f /\ left' = l /\ want_ok' = Confirmed(o)
             \/ /\ f.started /\ l.move >= 0             \* not at the end of the leg
                /\ fly' = f /\ left' = l /\ want_ok' = Confirmed(o)
             \/ /\ f.started /\ j = End /\ ~f.at_end    \* just there: one more sample
                /\ fly' = [f EXCEPT !.at_end = TRUE, !.stop_wait = TRUE]
                /\ left' = [l EXCEPT !.flush = FlushBudget]
                /\ want_ok' = Confirmed(o)
             \/ /\ f.started /\ f.at_end /\ f.stop_wait /\ l.flush > 0
                /\ fly' = f /\ left' = l /\ want_ok' = Confirmed(o)
    /\ UNCHANGED <<gridVars, run_p, st, order, is_retest, endless, nsamp, log, epochVars,
                   spoil>>

\* The stage does not come to the end of the leg in time.
TickLegLate(dt, o) ==
    LET l == Elapse(left, dt) IN
    /\ st = "Traversing"
    /\ ~HealthProblem(o, l)
    /\ fly.started /\ l.move < 0
    /\ \E j \in fly.at .. End : LogRows(Behind(j), BehindOk(j), plan[order[fly.at]])
    /\ AbortRun(done', {})

\* Is the last cell of the leg over?
LegOver(l) ==
    fly.started /\ fly.at_end /\ (fly.stop_wait => l.flush <= 0)

\* advanceLeg
AdvanceLeg ==
    IF fly.at < Len(order)
    THEN /\ fly' = [fly EXCEPT !.at = fly.at + 1, !.at0 = fly.at + 1, !.sample = NoCell,
                               !.started = FALSE, !.at_end = FALSE, !.stop_wait = FALSE]
         /\ ord_i' = ord_i + 1
         /\ StartPoint(order[fly.at + 1])
         /\ UNCHANGED <<order, is_retest, endless>>
    ELSE FinishRun

TickLegOver(dt, o) ==
    LET l == Elapse(left, dt)
        c == plan[order[fly.at]]
    IN
    /\ st = "Traversing"
    /\ ~HealthProblem(o, l)
    /\ LegOver(l)
    /\ \/ /\ log # NoPath
          /\ LogRows({c}, IF fly.sample # NoCell THEN {c} ELSE {}, c)
          /\ AdvanceLeg
          /\ NoteHealth(o)
          /\ UNCHANGED <<gridVars, run_p, log, epochVars, spoil>>
       \/ LogFails({}, {}, c, c)

\* The row of a cell left behind cannot be written, in a tick or on a sample.
PassedRowFails ==
    /\ st = "Traversing"
    /\ \E i \in fly.at .. End - 1 :
          LogFails(Behind(i), BehindOk(i), plan[order[fly.at]], plan[order[i]])

-----------------------------------------------------------------------------
(* The meter's call: feedMeterSample.  Samples that are not ok, and samples *)
(* in any other state, are dropped there.                                   *)

SampleReading ==
    /\ st = "Reading"
    /\ \/ /\ nsamp + 1 < p.samples
          /\ nsamp' = nsamp + 1
          /\ UNCHANGED <<gridVars, run_p, st, runVars, cur, left, want_ok, fly, bad_wkc,
                         done, have, diskVars, epochVars, spoil>>
       \/ /\ nsamp + 1 >= p.samples
          /\ FinishPoint({plan[cur]})
          /\ UNCHANGED bad_wkc
       \/ /\ nsamp + 1 >= p.samples
          /\ FinishPointFails

\* On a leg a sample is kept when it was taken over the cell the stage is at.
SampleTraversing ==
    /\ st = "Traversing"
    /\ \E j \in fly.at .. End, near \in BOOLEAN :
          /\ Sync(j)
          /\ fly' = IF near
                    THEN [SeenAt(j) EXCEPT !.stop_wait = FALSE, !.sample = plan[order[j]]]
                    ELSE SeenAt(j)
    /\ UNCHANGED <<gridVars, run_p, st, order, is_retest, endless, nsamp, left, want_ok,
                   bad_wkc, log, epochVars, spoil>>

-----------------------------------------------------------------------------
\* The program dies, or its power is cut, and it is started again: the files,
\* the parameters and the zero point are what is left.  A row that was being
\* written may be there in part.
Restart ==
    /\ plan_p' = p /\ run_p' = p /\ plan' = BuildPlan(p)
    /\ st' = "Idle" /\ order' = <<>> /\ ord_i' = 0 /\ cur' = 0
    /\ is_retest' = FALSE /\ endless' = FALSE /\ fly' = NoFly
    /\ nsamp' = 0 /\ left' = NoDeadline /\ want_ok' = {} /\ bad_wkc' = 0
    /\ done' = {} /\ have' = {} /\ log' = NoPath
    /\ \E cut \in Cuts \union {"none"} :
          /\ cut # "none" => log # NoPath /\ st \in {"Reading", "Traversing"}
          /\ files' = IF cut = "none" THEN files
                      ELSE [files EXCEPT ![log] = HalfRow(@, plan[cur], cut)]
    /\ load_epoch' = -1 /\ spoil' = {}
    /\ UNCHANGED <<p, zero_epoch>>

\* What the operator does.
Configure == SetZeroEpoch \/ \E q \in Params : SetParams(q)

Reopen == NewFile \/ \E path \in Paths : LoadResume(path) \/ LoadRefused(path)

Begin ==
    \/ \E path \in Paths, o \in Observations : Start(path, o) \/ StartRefused(path, o)
    \/ \E o \in Observations : BeginLoadedRun(o) \/ ReadPastPlan(o)

Repeat == \E k \in DOMAIN plan, o \in Observations : Retest(k, o) \/ RetestRefused(k, o)

Interrupt == Pause \/ ResumeRun \/ Abort

Operate == Configure \/ Reopen \/ Begin \/ Repeat \/ Interrupt

Tick(dt, o) ==
    \/ TickUnhealthy(dt, o) \/ TickPaused(dt, o)
    \/ TickMoving(dt, o) \/ TickNotArrived(dt, o)
    \/ TickDwelling(dt, o) \/ TickReading(dt, o) \/ TickReadTimeout(dt, o)
    \/ TickTraversing(dt, o) \/ TickLegLate(dt, o) \/ TickLegOver(dt, o)

Refresh == \E dt \in 1 .. MaxStep, o \in Observations : Tick(dt, o)

Sample == SampleReading \/ SampleTraversing

Next == Operate \/ Refresh \/ Sample \/ PassedRowFails \/ Restart

Spec == Init /\ [][Next]_vars

\* The refresh timer of the window never stops.
FairSpec == Spec /\ WF_vars(Refresh)

-----------------------------------------------------------------------------
(* Properties.                                                             *)

CellsOf(q) == {q[k] : k \in DOMAIN q}

Cell == Int \X Int

FlyState ==
    [on : BOOLEAN, ends : SUBSET Nat, at : Nat, at0 : Nat, started : BOOLEAN,
     at_end : BOOLEAN, stop_wait : BOOLEAN, sample : Cell]

Times == [deadline : Int, move : Int, flush : Int, want : Int]

\* The values the state takes; the place in the order stays within the order,
\* so the number of points left (m_order.size() - m_ord_i) never wraps round.
TypeOK ==
    /\ {p, plan_p, run_p} \subseteq Params
    /\ plan \in Seq(Cell)
    /\ st \in States
    /\ order \in Seq(Nat \ {0}) /\ ord_i \in 0 .. Len(order) /\ cur \in Nat
    /\ is_retest \in BOOLEAN /\ endless \in BOOLEAN
    /\ fly \in FlyState /\ left \in Times
    /\ nsamp \in Nat /\ bad_wkc \in Nat /\ want_ok \subseteq Axis
    /\ log \in Paths \union {NoPath} /\ DOMAIN files = Paths
    /\ zero_epoch \in Nat /\ load_epoch \in Int

\* Nothing happened to this run that its cells and rows are not safe from: at
\* most it was started over the results of an earlier one, or its zero point is
\* not that of the file.
Sound == spoil \subseteq {"reused", "moved", "accepted"}

\* A run of one pass that can be held against its file.
OnePass == ~is_retest /\ ~endless /\ Sound

\* While a run is on, the point it is at is the first one it has not walked, on
\* a leg too, where the row count and the place on the leg are kept apart
\* (m_ord_i in finishOnFlyCell, m_leg_i and m_leg_slot in advanceLeg, m_leg_slot0
\* in pause): resuming, aborting and the progress display rely on it.
AtFirstPending ==
    Running =>
        /\ ord_i < Len(order) /\ cur = order[ord_i + 1]
        /\ fly.on => fly.at = ord_i + 1 /\ fly.at0 <= fly.at
                     /\ (st = "Moving" => fly.at0 = fly.at)

\* What a run, a loaded file or an aborted run still has to walk is exactly what
\* has no row in the open file: nothing is skipped and nothing is measured twice
\* over any sequence of pauses, aborts, restarts and reopenings (m_order, m_ord_i
\* and m_done of stageResumeAfterAbort and loadResume against the CSV).
PendingIsComplement ==
    st \in Active \union {"Paused", "Loaded", "Aborted"} /\ OnePass =>
        /\ log # NoPath /\ files[log] # NoFile
        /\ {plan[order[i]] : i \in ord_i + 1 .. Len(order)} = CellsOf(plan) \ files[log].rows

\* The points of a run stay where they are while it lasts, whatever is changed
\* meanwhile, but for the rounds of an endless run (rebuildPlan is called on every
\* change of a parameter and must see that nothing of the plan has changed: in a
\* random mode it would deal other points under the indices of the order).
PlanStays == [][Running /\ Running' => plan' = plan \/ endless]_vars

\* A sample kept on a leg belongs to the cell the stage is at, so the row that
\* is written when it leaves carries no neighbour's value (m_of_have against
\* m_leg_slot in syncOnFlyCell, pause, beginTraverse and advanceLeg).
SampleOfItsCell ==
    fly.sample # NoCell => st = "Traversing" /\ fly.sample = plan[order[fly.at]]

\* What the map shows is what the file says: a cell has a value on the screen
\* when its row in the open file has one (m_have, m_watts against the CSV).
MapIsFile ==
    st \in Active \union {"Paused", "Loaded", "Aborted"} /\ OnePass /\ "reused" \notin spoil =>
        have = files[log].ok

\* A run writes to a file of its own geometry (m_run_p, m_p and the header).
RowsMatchHeader == Running /\ log # NoPath => SameGeom(files[log].geom, p)

\* The zero point the rows of the run are meant to be of: the one in the header,
\* or the one the operator accepted when the file was opened.
ZeroOfRun == IF "accepted" \in spoil THEN load_epoch ELSE files[log].epoch

\* The rows a run appends are of that zero point, wherever the zero point went
\* while the run was broken off or its file lay open, and whatever was measured
\* again in between: "continue" compares m_zero_epoch with m_load_epoch, which
\* loadResume and stageResumeAfterAbort set anew and which no file is asked for.
\* This does not hold of a zero point that moves during the run ("moved").
OneZeroPoint ==
    Running /\ ~is_retest /\ spoil \intersect {"moved", "refused"} = {} =>
        log # NoPath /\ zero_epoch = ZeroOfRun

-----------------------------------------------------------------------------
(* What the comments and the tests of the code say, and the code does not   *)
(* keep: each is refuted by TLC.                                           *)

\* m_done is updated where the row is written, so what was walked was written:
\* the list of what an aborted run still has to walk is made from it.
DoneIsWritten == st = "Aborted" /\ log # NoPath => done \subseteq files[log].rows

\* The map shows the last row of a cell: one measured again that times out, or that
\* a later round does not get a value for, has none, as when the file is reopened.
LastRowDecides ==
    [][Running /\ log # NoPath => have' \intersect (files[log].ok \ files'[log].ok) = {}]_vars

\* The zero point stays where it is during a run, and the coordinates in a file
\* are those of the epoch in its header: what an abort leaves to be continued is
\* continued under that zero point only.
ContinuedUnderZeroOfFile ==
    [][st = "Aborted" /\ ~is_retest /\ spoil \intersect {"accepted", "refused"} = {}
            /\ Running' /\ ~is_retest' /\ log' = log /\ files' = files
       => log # NoPath /\ zero_epoch = files[log].epoch]_vars

\* A row that was not written to its end does not count, and is measured again.
TornRowIsPending == st = "Loaded" /\ log # NoPath => done \subseteq files[log].rows

\* The parameters can be changed after an abort; "continue" then refuses, or
\* walks what has no row yet.
ContinueAfterChange ==
    st \in Active /\ ~is_retest /\ ~endless /\ spoil \subseteq {"replanned"} =>
        {plan[order[i]] : i \in ord_i + 1 .. Len(order)} = CellsOf(plan) \ files[log].rows

\* The geometry check of "continue" is what keeps the indices of the order
\* within the plan: armRun and startPoint use them unchecked.
OrderWithinPlan == st # "Undefined"

-----------------------------------------------------------------------------
(* Liveness, under FairSpec.                                               *)

\* A run that is not paused makes progress or ends: no lost sample, lost target
\* or lost arrival leaves it at one point for ever (the deadlines of startPoint,
\* beginReading, beginTraverse and issueTraverseTarget).
PointEnds ==
    \A k \in 0 .. 5 : (st \in Active /\ ord_i = k) ~> (st \notin Active \/ ord_i # k)

\* A run that is not endless is over or paused in the end.
RunEnds == (st \in Active /\ ~endless) ~> (st \notin Active)
=============================================================================
