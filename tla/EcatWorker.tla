------------------------------ MODULE EcatWorker ------------------------------
(***************************************************************************)
(* The EtherCAT worker: hmi/ecatworker.cpp.  One thread owns the bus.  It  *)
(* loops over drainCommands, serviceHoming, serviceSpan, interpolate,      *)
(* em_service, publish and serviceAutoRecover; the GUI thread reaches it   *)
(* through a queue, the wanted positions, and the process-wide stop flag   *)
(* of motor_api.  A command that climbs the drives' state ladder (enable,  *)
(* disable, fault reset, the start and the end of homing, recovery) blocks *)
(* the loop for many frames, during which the GUI goes on and publish runs *)
(* on every frame (BlockTick).                                             *)
(*                                                                         *)
(* The drives are modelled from what motor_api (src/motor_api) writes to   *)
(* them and reads back: a drive obeys the control word of the first frame  *)
(* that reaches it, a frame counts as full only when every drive is in OP, *)
(* and everything the worker knows of a drive is the mirror of the last    *)
(* full frame.                                                             *)
(***************************************************************************)
EXTENDS WorkerRules, Sequences

CONSTANTS
    Commands,       \* the commands the GUI may post
    Targets,        \* the displayed positions the GUI may ask for
    Pos,            \* physical positions
    InitRange,      \* m_range at the start
    MinRange,       \* the least range doRange accepts
    Step,           \* the most one cycle of interpolate moves
    Lead,           \* HMI_SPAN_LEAD_PUL
    BackoffMax,     \* HMI_SPAN_BACKOFF_PUL
    StuckLimit,     \* HMI_SPAN_STUCK_CYCLES
    Sensor,         \* physical positions at which the origin signal is on
    HomeTmo,        \* passes a homing or a measurement may take
    ShortLimit,     \* EM_SHORT_FRAMES_LIMIT: short frames that spoil the mirror
    BadLimit,       \* HMI_BAD_WKC_LIMIT: short frames that raise comm_bad
    ArmFrames,      \* HMI_RECOVER_ARM_FRAMES
    MaxTries,       \* HMI_RECOVER_MAX_TRIES
    PushAnywhere,   \* may an axis be pushed out of the range by hand
    Budget          \* bounds: how often the GUI and the surroundings act

ASSUME WorkerAssumption ==
    /\ {InitRange, MinRange, Step, Lead, BackoffMax, StuckLimit, MaxTries} \subseteq Nat \ {0}
    /\ {ShortLimit, BadLimit, ArmFrames} \subseteq Nat \ {0}
    /\ ShortLimit <= ArmFrames /\ BadLimit <= ArmFrames
    /\ HomeTmo \in Nat /\ PushAnywhere \in BOOLEAN
    /\ Pos \union Targets \union Sensor \subseteq Int32
    /\ Budget \in [ops : Nat, pushes : Nat, faults : Nat, drops : Nat, glitches : Nat]

ASSUME CommandsAssumption ==
    \A c \in Commands :
        /\ c.t \in {"HOME", "ZERO", "CENTER", "RANGE", "STOP", "CONNECT", "DISCONNECT", "ENABLE",
                   "DISABLE", "FAULT_RESET"}
        /\ c.t = "HOME" => /\ c.mask \subseteq Axes /\ c.off \in Int
                          /\ {c.limit, c.span} \subseteq BOOLEAN
        /\ c.t \in {"ZERO", "CENTER"} => c.axis \in Axes
        /\ c.t = "RANGE" => c.value \in Int

VARIABLES
    \* shared with the GUI thread
    queue,          \* m_cmds
    want,           \* m_want: the displayed position each axis should go to
    stop,           \* g_stop of motor_api
    quit,           \* m_quit
    look,           \* what the stop button read in telem.homing and has not yet acted on
    telem,          \* m_telem: the last frame published
    \* the worker
    at,             \* where the thread is
    job,            \* the ladder climb it is blocked in
    conn,           \* m_bus open and m_in_op
    ready,          \* m_origin_ready
    kept, keep,     \* m_origin_kept; m_keep_origin, a setting
    gen,            \* m_origin_gen
    origin,         \* m_origin: physical position of the displayed zero
    tgt,            \* m_tgt: the displayed position last sent
    range,          \* m_range
    s,              \* the homing session, and the measurement that may follow it
    latched,        \* m_fault_latched
    tries,          \* m_recover_tries
    maybe_live,     \* m_maybe_live
    \* motor_api and the drives
    cw,             \* the control word in the output image: off; climb up to the rung
                    \* before Enable Operation, last until a frame has energised the
                    \* drive, then on; start until a frame has started its homing, then go
    csp,            \* 607Ah in the output image
    hmode,          \* axes in homing mode; the others are in CSP
    on, fault, out, \* energised, in Fault, not in OP
    pos,            \* where each axis really is
    seen,           \* the mirror of the last full frame
    fresh, bad,     \* mirror_ok; short frames in a row, capped at ArmFrames
    \* bounds and history
    left,           \* what is left of Budget
    asked,          \* axes the GUI has sent somewhere since they were last held,
                    \* stopped or frozen by a fault
    held,           \* axes whose target was set to their position when energised
    pressed,        \* a stop has reached the worker during this session
    stranded,       \* an axis was left by a homing that could not confirm its state
    shown           \* the pairs <<epoch, zero>> ever published

queueVars == <<queue, want, stop>>
guiVars   == <<quit, look, left>>
zeroVars  == <<ready, kept, keep, gen, origin, range>>
busVars   == <<conn, latched, tries, maybe_live>>
imageVars == <<cw, csp, hmode>>
driveVars == <<on, fault, out, pos, seen, fresh, bad>>
histVars  == <<asked, held, pressed, stranded>>
vars == <<queueVars, guiVars, telem, at, job, zeroVars, tgt, s, busVars,
          imageVars, driveVars, histVars, shown>>

All(v) == [a \in Axes |-> v]

\* The axes of a set in the order the code's loops visit them.
ordered(S) == [i \in 1 .. Cardinality(S) |->
                  CHOOSE a \in S : Cardinality({b \in S : b < a}) = i - 1]

NoJob == [kind |-> "none", stage |-> "none", todo |-> <<>>, mode_ok |-> TRUE]

\* culprit is history: the axes that failed by themselves.
NoSession ==
    [homing |-> FALSE, mask |-> {}, batch |-> {}, rc |-> All("RUNNING"), eff |-> All(0),
     culprit |-> {}, timer |-> 0, pending |-> FALSE, back |-> "span", ends |-> <<>>,
     spanning |-> FALSE, smask |-> {}, step |-> All("IDLE"), start |-> All(0),
     p1 |-> All(0), stuck |-> All(0), why |-> All("NONE"), width |-> All(-1)]

\* What a session leaves behind: what it measured, and why it did not.
Idle == [NoSession EXCEPT !.why = s.why, !.width = s.width]

Init ==
    /\ queue = <<>> /\ want = All(0) /\ stop = FALSE /\ quit = FALSE /\ look = "none"
    /\ telem = [homing |-> FALSE, spanning |-> FALSE, comm_bad |-> FALSE]
    /\ at = "top" /\ job = NoJob /\ conn = FALSE /\ ready = FALSE /\ kept = FALSE
    /\ keep \in BOOLEAN
    /\ gen = 0 /\ origin = All(0) /\ tgt = All(0) /\ range = InitRange
    /\ s = NoSession /\ latched = FALSE /\ tries = 0 /\ maybe_live = FALSE
    /\ cw = All("off") /\ csp = All(0) /\ hmode = {}
    /\ on = {} /\ fault = {} /\ out = {}
    /\ pos \in [Axes -> Pos]
    /\ seen = [on |-> {}, fault |-> {}, pos |-> All(0)]
    /\ fresh = FALSE /\ bad = 0
    /\ left = Budget /\ asked = {} /\ held = {} /\ pressed = FALSE /\ stranded = FALSE
    /\ shown = {}

is_enabled(a) == fresh /\ a \in seen.on

\* Axes that a frame has told to search, and nothing since to stop.
going == {a \in on : cw[a] = "go"}

-----------------------------------------------------------------------------
(* The GUI thread *)

Spend(what) ==
    /\ left[what] > 0
    /\ left' = [left EXCEPT ![what] = @ - 1]

\* postConnect ... postRange.
Post(c) ==
    /\ Spend("ops")
    /\ queue' = Append(queue, c)
    /\ UNCHANGED <<want, stop, quit, look, telem, at, job, zeroVars, tgt, s, busVars,
                   imageVars, driveVars, histVars, shown>>

\* setTarget bounds the wish by the range of this moment, not of the move.
setTarget(a, x) ==
    /\ want' = [want EXCEPT ![a] = clamp(x, -range, range)]
    /\ asked' = asked \union {a}

SetTarget ==
    /\ Spend("ops")
    /\ \E a \in Axes, x \in Targets : setTarget(a, x)
    /\ UNCHANGED <<queue, stop, quit, look, telem, at, job, zeroVars, tgt, s, busVars,
                   imageVars, driveVars, held, pressed, stranded, shown>>

\* The stop button reads the last published frame,
StopLook ==
    /\ look = "none"
    /\ Spend("ops")
    /\ look' = IF telem.homing THEN "homing" ELSE "idle"
    /\ UNCHANGED <<queueVars, quit, telem, at, job, zeroVars, tgt, s, busVars,
                   imageVars, driveVars, histVars, shown>>

\* and then either raises the flag or queues a command.
StopAct ==
    /\ look # "none"
    /\ look' = "none"
    /\ \/ /\ look = "homing"
          /\ stop' = TRUE
          /\ pressed' = s.homing
          /\ UNCHANGED queue
       \/ /\ look = "idle"
          /\ queue' = Append(queue, [t |-> "STOP"])
          /\ UNCHANGED <<stop, pressed>>
    /\ UNCHANGED <<want, quit, left, telem, at, job, zeroVars, tgt, s, busVars,
                   imageVars, driveVars, asked, held, stranded, shown>>

requestQuit ==
    /\ Spend("ops") /\ ~quit
    /\ quit' = TRUE
    /\ UNCHANGED <<queueVars, look, telem, at, job, zeroVars, tgt, s, busVars,
                   imageVars, driveVars, histVars, shown>>

-----------------------------------------------------------------------------
(* The surroundings *)

\* An axis without holding torque is pushed by hand, slowly against the frames:
\* the mirror follows it while frames come in full, and stands still when they do
\* not.  While it is being energised nobody pushes it.
Push(a) ==
    /\ Spend("pushes") /\ a \notin on /\ cw[a] = "off" /\ at # "job"
    /\ bad = 0 \/ ~fresh
    /\ \E x \in Pos \ {pos[a]} :
          /\ PushAnywhere \/ abs(x - origin[a]) <= range
          /\ pos' = [pos EXCEPT ![a] = x]
          /\ seen' = IF fresh THEN [seen EXCEPT !.pos[a] = x] ELSE seen
    /\ UNCHANGED <<queueVars, quit, look, telem, at, job, zeroVars, tgt, s, busVars,
                   imageVars, on, fault, out, fresh, bad, histVars, shown>>

\* A drive reports a fault, or falls out of OP: either way it lets go.
Trip(a) ==
    /\ a \notin fault \union out
    /\ \/ Spend("faults") /\ fault' = fault \union {a} /\ UNCHANGED out
       \/ Spend("drops") /\ conn /\ out' = out \union {a} /\ UNCHANGED fault
    /\ on' = on \ {a}
    /\ UNCHANGED <<queueVars, quit, look, telem, at, job, zeroVars, tgt, s, busVars,
                   imageVars, pos, seen, fresh, bad, histVars, shown>>

-----------------------------------------------------------------------------
(* One frame, and what is published after it *)

\* em__cycle.  The drives in OP obey their control word; one that has Enable
\* Operation in it becomes energised, which the ladder writes after a full frame
\* has confirmed the rung before (em__cw_step); an axis in CSP goes to its target
\* or lags one behind, one that is homing goes on searching.
Exchange ==
    LET last     == {a \in Axes : cw[a] = "last" /\ a \notin fault \union out}
        climbing == {a \in Axes : /\ cw[a] = "climb" /\ a \notin fault
                                  /\ at = "job" /\ job.stage = "climb" /\ a = Head(job.todo)}
        kept_on  == {a \in on : cw[a] # "off"}
        moves(a) == IF a \notin on \/ cw[a] = "off" THEN {pos[a]}
                    ELSE IF a \in going THEN {x \in Pos : abs(x - pos[a]) <= 1}
                    ELSE IF a \in hmode \/ csp[a] \notin Pos THEN {pos[a]}
                    ELSE {x \in Pos : /\ abs(csp[a] - x) <= 1
                                      /\ abs(csp[a] - x) + abs(x - pos[a]) = abs(csp[a] - pos[a])}
        short == \/ out # {} /\ UNCHANGED left
                 \/ out = {} /\ Spend("glitches")
        obeyed(full) == [a \in Axes |-> IF a \in last THEN "on"
                                        ELSE IF a \in climbing /\ full THEN "last"
                                        ELSE IF cw[a] = "start" /\ a \in on THEN "go" ELSE cw[a]]
    IN  /\ on' = kept_on \union last
        /\ pos' \in {q \in [Axes -> Pos] : \A a \in Axes : q[a] \in moves(a)}
        /\ \/ /\ out = {} /\ UNCHANGED left
              /\ cw' = obeyed(TRUE)
              /\ seen' = [on |-> on', fault |-> fault, pos |-> pos']
              /\ fresh' = TRUE /\ bad' = 0
           \/ /\ short
              /\ cw' = obeyed(FALSE)
              /\ bad' = lesser(bad + 1, ArmFrames)
              /\ fresh' = (fresh /\ bad' < ShortLimit)
              /\ UNCHANGED seen
        /\ UNCHANGED <<fault, out, csp, hmode>>

\* publish.  On the edge of a fault every wish is set to the target: want1, tgt1
\* and asked1 are their values before.
publish(want1, tgt1, asked1) ==
    LET alarm == seen'.fault # {}
    IN  /\ want' = IF alarm /\ ~latched THEN tgt1 ELSE want1
        /\ asked' = IF alarm /\ ~latched THEN {} ELSE asked1
        /\ latched' = alarm
        /\ telem' = [homing |-> s.homing, spanning |-> s.pending \/ s.spanning,
                     comm_bad |-> comm_bad_from(IF bad' > 0 THEN 0 ELSE 1, 1, bad', BadLimit)]
        /\ shown' = IF kept' THEN shown \union {<<gen', origin'>>} ELSE shown

-----------------------------------------------------------------------------
(* Opening and closing the bus *)

\* teardown: the drives are switched off; where that cannot be confirmed for want
\* of full frames, the motors may be live.
teardown ==
    /\ conn' = FALSE /\ ready' = FALSE /\ latched' = FALSE /\ s' = NoSession
    /\ tgt' = All(0) /\ want' = All(0)
    /\ cw' = All("off") /\ on' = {} /\ fresh' = FALSE /\ bad' = 0
    /\ seen' = [seen EXCEPT !.on = {}, !.fault = {}]
    /\ maybe_live' \in {maybe_live, maybe_live \/ (conn /\ out # {})}
    /\ telem' = [homing |-> FALSE, spanning |-> FALSE, comm_bad |-> FALSE]
    /\ pressed' = FALSE /\ asked' = {}
    /\ UNCHANGED <<kept, keep, gen, origin, range, tries, csp, hmode, fault, pos, held,
                   stranded, shown>>

\* The thread sees quit at the head of its loop only.
Top ==
    /\ at = "top"
    /\ \/ /\ quit /\ teardown /\ at' = "ended"
          /\ UNCHANGED <<queue, stop, guiVars, job, out>>
       \/ /\ ~quit /\ at' = "drain"
          /\ UNCHANGED <<queueVars, guiVars, telem, job, zeroVars, tgt, s, busVars,
                         imageVars, driveVars, histVars, shown>>

-----------------------------------------------------------------------------
(* drainCommands *)

\* A command is taken from the head, and takes a stop request off with it.
Take(t) ==
    /\ at = "drain" /\ ~s.homing /\ queue # <<>> /\ Head(queue).t = t
    /\ queue' = Tail(queue)
    /\ stop' = FALSE

DrainNothing ==
    /\ at = "drain"
    /\ IF s.homing THEN \A i \in DOMAIN queue : queue[i].t # "STOP" ELSE queue = <<>>
    /\ at' = "homing"
    /\ UNCHANGED <<queueVars, guiVars, telem, job, zeroVars, tgt, s, busVars,
                   imageVars, driveVars, histVars, shown>>

\* Wrong: a queued stop is thrown away like any other command.
DrainStopUnheard ==
    /\ at = "drain" /\ s.homing
    /\ \E i \in DOMAIN queue :
          /\ queue[i].t = "STOP"
          /\ queue' = SubSeq(queue, 1, i - 1) \o SubSeq(queue, i + 1, Len(queue))
    /\ pressed' = TRUE /\ at' = "homing"
    /\ UNCHANGED <<want, stop, guiVars, telem, job, zeroVars, tgt, s, busVars,
                   imageVars, driveVars, asked, held, stranded, shown>>

\* While homing only stops are taken, wherever they stand in the queue.
DrainStop ==
    /\ at = "drain" /\ s.homing
    /\ \E i \in DOMAIN queue :
          /\ queue[i].t = "STOP" /\ \A j \in 1 .. i - 1 : queue[j].t # "STOP"
          /\ queue' = SubSeq(queue, 1, i - 1) \o SubSeq(queue, i + 1, Len(queue))
    /\ stop' = TRUE /\ pressed' = TRUE
    /\ at' = "homing"
    /\ UNCHANGED <<want, guiVars, telem, job, zeroVars, tgt, s, busVars,
                   imageVars, driveVars, asked, held, stranded, shown>>

\* doConnect, after which the bus is in OP with every drive answering, or closed.
Connect ==
    /\ Take("CONNECT")
    /\ teardown
    /\ out' = {}
    /\ UNCHANGED <<guiVars, at, job>>

ConnectOk ==
    /\ Take("CONNECT")
    /\ conn' = TRUE /\ ready' = FALSE /\ latched' = FALSE /\ tries' = 0
    /\ s' = NoSession /\ want' = All(0) /\ tgt' = All(0)
    /\ cw' = All("off") /\ on' = {} /\ out' = {}
    /\ seen' = [on |-> {}, fault |-> fault, pos |-> pos] /\ fresh' = FALSE /\ bad' = 0
    /\ maybe_live' \in {maybe_live, maybe_live \/ (conn /\ out # {})}
    /\ telem' = IF conn THEN [homing |-> FALSE, spanning |-> FALSE, comm_bad |-> FALSE] ELSE telem
    /\ pressed' = FALSE /\ asked' = {}
    /\ UNCHANGED <<guiVars, at, job, kept, keep, gen, origin, range, csp, hmode, fault, pos,
                   held, stranded, shown>>

Disconnect ==
    /\ Take("DISCONNECT")
    /\ teardown
    /\ UNCHANGED <<guiVars, at, job, out>>

Ladder(kind, stage, axes) ==
    job' = [kind |-> kind, stage |-> stage, todo |-> ordered(axes), mode_ok |-> TRUE]

\* doEnable up to em_enable_all: every drive that is not enabled is put in CSP.
EnableBegin ==
    /\ Take("ENABLE")
    /\ \/ /\ conn /\ ready /\ fresh
          /\ hmode' = hmode \ {a \in Axes : ~is_enabled(a)}
          /\ Ladder("enable", "arm", Axes) /\ at' = "job"
       \/ /\ conn /\ ready /\ fresh                 \* a drive refuses the mode
          /\ \E done \in SUBSET {a \in Axes : ~is_enabled(a)} : hmode' = hmode \ done
          /\ UNCHANGED <<at, job>>
       \/ ~(conn /\ ready /\ fresh) /\ UNCHANGED <<at, job, hmode>>
    /\ UNCHANGED <<want, guiVars, telem, zeroVars, tgt, s, busVars, cw, csp,
                   driveVars, histVars, shown>>

\* Wrong: the wish from before stays.
HoldTargetOnly(axes) ==
    /\ tgt' = [a \in Axes |-> IF a \in axes THEN seen.pos[a] - origin[a] ELSE tgt[a]]
    /\ asked' = asked \ axes /\ UNCHANGED want

\* The display follows the axis: target and wish are where it is.
hold(axes) ==
    LET here(f) == [a \in Axes |-> IF a \in axes THEN seen.pos[a] - origin[a] ELSE f[a]]
    IN  tgt' = here(tgt) /\ want' = here(want) /\ asked' = asked \ axes

DisableBegin ==
    /\ Take("DISABLE")
    /\ \/ conn /\ Ladder("disable", "off", Axes) /\ at' = "job"
       \/ ~conn /\ UNCHANGED <<job, at>>
    /\ UNCHANGED <<want, tgt, asked, guiVars, telem, zeroVars, s, busVars, imageVars,
                   driveVars, held, pressed, stranded, shown>>

\* doFaultReset: only drives whose statusword is fresh and shows a fault.
ResetBegin ==
    /\ Take("FAULT_RESET")
    /\ LET todo == {a \in Axes : conn /\ reset_gate(TRUE, fresh, a \in seen.fault) = "DO"}
       IN  \/ todo # {} /\ Ladder("reset", "off", todo) /\ at' = "job"
           \/ todo = {} /\ UNCHANGED <<job, at>>
    /\ UNCHANGED <<want, guiVars, telem, zeroVars, tgt, s, busVars, imageVars,
                   driveVars, histVars, shown>>

doStop ==
    /\ Take("STOP")
    /\ want' = tgt /\ asked' = {}
    /\ UNCHANGED <<guiVars, telem, at, job, zeroVars, tgt, s, busVars, imageVars,
                   driveVars, held, pressed, stranded, shown>>

\* doZero reads the position and checks that the axis stands,
ZeroBegin ==
    /\ Take("ZERO")
    /\ LET a == Head(queue).axis
       IN  \/ conn /\ ready /\ want[a] = tgt[a] /\ Ladder("zero", "shift", {a}) /\ at' = "zero"
           \/ ~(conn /\ ready /\ want[a] = tgt[a]) /\ UNCHANGED <<job, at>>
    /\ UNCHANGED <<want, guiVars, telem, zeroVars, tgt, s, busVars, imageVars,
                   driveVars, histVars, shown>>

\* Wrong: the zero moves under its old epoch.
ZeroWithoutEpoch ==
    /\ at = "zero"
    /\ LET a == Head(job.todo)
           disp == seen.pos[a] - origin[a]
       IN  /\ origin' = [origin EXCEPT ![a] = @ + disp]
           /\ tgt' = [tgt EXCEPT ![a] = @ - disp]
           /\ want' = [want EXCEPT ![a] = @ - disp]
    /\ kept' = TRUE /\ job' = NoJob /\ at' = "drain"
    /\ UNCHANGED <<queue, stop, guiVars, telem, ready, gen, keep, range, s, busVars,
                   imageVars, driveVars, histVars, shown>>

\* and shifts zero, target and wish by it, the wish under the lock.
Zero ==
    /\ at = "zero"
    /\ LET a == Head(job.todo)
           disp == seen.pos[a] - origin[a]
       IN  /\ origin' = [origin EXCEPT ![a] = @ + disp]
           /\ tgt' = [tgt EXCEPT ![a] = @ - disp]
           /\ want' = [want EXCEPT ![a] = @ - disp]
    /\ gen' = gen + 1 /\ kept' = TRUE
    /\ job' = NoJob /\ at' = "drain"
    /\ UNCHANGED <<queue, stop, guiVars, telem, ready, keep, range, s, busVars, imageVars,
                   driveVars, histVars, shown>>

doCenter ==
    /\ Take("CENTER")
    /\ \/ conn /\ setTarget(Head(queue).axis, 0)
       \/ ~conn /\ UNCHANGED <<want, asked>>
    /\ UNCHANGED <<guiVars, telem, at, job, zeroVars, tgt, s, busVars, imageVars,
                   driveVars, held, pressed, stranded, shown>>

\* A range that would leave a target outside is refused.
doRange ==
    /\ Take("RANGE")
    /\ LET new == greater(Head(queue).value, MinRange)
       IN  range' = IF new >= range \/ ~conn \/ \A a \in Axes : abs(tgt[a]) <= new
                    THEN new ELSE range
    /\ UNCHANGED <<want, guiVars, telem, at, job, ready, kept, keep, gen, origin, tgt, s,
                   busVars, imageVars, driveVars, histVars, shown>>

-----------------------------------------------------------------------------
(* Homing: startHoming *)

HomeGate(c) ==
    home_batch_refusal(conn, ready, \E a \in Axes : conn /\ want[a] # tgt[a], c.mask,
                       IF conn /\ fresh THEN Axes ELSE {}, IF conn THEN seen.fault ELSE {})

HomeRefused ==
    /\ Take("HOME")
    /\ LET c == Head(queue)
       IN  \/ /\ HomeGate(c).reason # ""
              /\ s' = [s EXCEPT !.pending = c.span]
           \/ /\ HomeGate(c).reason = "" /\ c.span      \* 60FDh of an axis cannot be read
              /\ \E known \in SUBSET Axes : span_dig_refusal(c.mask, known) # {}
              /\ s' = [s EXCEPT !.pending = FALSE]
           \/ /\ HomeGate(c).reason = "" /\ c.limit
              /\ \E m \in LimitMethods, known, p, n \in BOOLEAN :
                    home_lim_refusal(known, home_lim_target_active(m, p, n),
                                     home_lim_other_active(m, p, n)) # ""
              /\ s' = [s EXCEPT !.pending = c.span]
    /\ UNCHANGED <<want, guiVars, telem, at, job, zeroVars, tgt, busVars, imageVars,
                   driveVars, histVars, shown>>

HomeBegin ==
    /\ Take("HOME")
    /\ LET c == Head(queue)
       IN  /\ HomeGate(c).reason = ""
           /\ s' = [Idle EXCEPT
                       !.homing = TRUE, !.mask = c.mask, !.batch = c.mask, !.pending = c.span,
                       !.timer = HomeTmo, !.back = "drain",
                       !.eff = [a \in Axes |-> home_off_decide(c.off, c.limit, range).eff]]
           /\ Ladder("start", "off", {a \in c.mask : is_enabled(a)})
    /\ telem' = [telem EXCEPT !.homing = TRUE]
    /\ at' = "job" /\ pressed' = FALSE
    /\ UNCHANGED <<want, guiVars, zeroVars, tgt, busVars, imageVars, driveVars,
                   asked, held, stranded, shown>>

\* em_home_prepare on every axis, and only then em_home_start: writing the
\* parameters keeps the bus silent.
Prepare ==
    /\ at = "job" /\ job.kind = "start" /\ job.stage = "off" /\ job.todo = <<>>
    /\ LET fit(a) == fresh /\ ~is_enabled(a) /\ a \notin seen.fault
           failed == [b \in Axes |-> IF b \in s.mask THEN "SETUP" ELSE s.rc[b]]
       IN  \/ /\ \A a \in s.mask : fit(a)
              /\ cw' = [a \in Axes |-> IF a \in s.mask THEN "off" ELSE cw[a]]
              /\ Ladder("start", "arm", s.mask)
              /\ UNCHANGED <<s, at>>
           \/ \E a \in s.mask :                         \* the first that fails
              /\ \A b \in s.mask : b < a => fit(b)
              /\ cw' = [b \in Axes |-> IF b \in s.mask /\ (b < a \/ (b = a /\ fit(a))) THEN "off"
                                       ELSE cw[b]]
              /\ s' = [s EXCEPT !.rc = failed, !.culprit = {a}]
              /\ at' = "clear" /\ job' = NoJob
    /\ UNCHANGED <<queueVars, guiVars, telem, zeroVars, tgt, busVars, csp, hmode,
                   driveVars, histVars, shown>>

-----------------------------------------------------------------------------
(* The ladder: em_disable, em_set_mode and em_enable, one axis at a time *)

axis == Head(job.todo)
nextAxis == [job EXCEPT !.todo = Tail(@)]

\* The steps that send frames while they wait.  A rung looks at the stop flag
\* before each of its frames; setting a mode and the pause before a fault is
\* cleared do not.
Waiting ==
    CASE job.stage = "offwait" -> ~stop \/ job.kind = "reset"
      [] job.stage \in {"climb", "go"} -> ~stop
      [] job.stage = "mode" -> TRUE
      [] job.stage = "arm" -> job.kind = "start" /\ job.todo # <<>> /\ axis \notin hmode
      [] job.stage = "begin" -> ~stop /\ job.todo # <<>> /\ s.rc[axis] = "ATTAINED"
      [] OTHER -> FALSE

JobFrame ==
    /\ at = "recover" \/ (at = "job" /\ Waiting)
    /\ Exchange
    /\ UNCHANGED <<zeroVars, tgt>>
    /\ publish(want, tgt, asked)
    /\ held' = held \ (Axes \ on')
    /\ UNCHANGED <<queue, stop, quit, look, at, job, s, conn, tries, maybe_live,
                   pressed, stranded>>

\* em_disable: the control word goes out, and the step ends when the drive is
\* seen off, or gives up on a stop, on a stale mirror or on a fault.
Off ==
    /\ at = "job" /\ job.stage = "off" /\ job.todo # <<>>
    /\ cw' = [cw EXCEPT ![axis] = "off"]
    /\ job' = [job EXCEPT !.stage = "offwait"]
    /\ UNCHANGED <<queueVars, guiVars, telem, at, zeroVars, tgt, s, busVars, csp, hmode,
                   driveVars, histVars, shown>>

\* Wrong: only the drive's answer ends the wait.
OffDoneWhenOff ==
    /\ at = "job" /\ job.stage = "offwait" /\ fresh /\ axis \notin seen.on
    /\ job' = IF job.kind = "finish" THEN [job EXCEPT !.stage = "mode"]
              ELSE [nextAxis EXCEPT !.stage = "off"]
    /\ UNCHANGED <<queueVars, guiVars, telem, at, zeroVars, tgt, s, busVars, imageVars,
                   driveVars, histVars, shown>>

OffDone ==
    /\ at = "job" /\ job.stage = "offwait"
    /\ stop \/ ~fresh \/ axis \notin seen.on \/ axis \in seen.fault
    /\ job' = IF job.kind = "finish" THEN [job EXCEPT !.stage = "mode"]
              ELSE [nextAxis EXCEPT !.stage = "off"]
    \* em_fault_reset goes on until it sees the fault cleared, or gives up.
    /\ \/ /\ job.kind = "reset" /\ ~stop /\ fresh
          /\ fault' = fault \ {axis} /\ seen' = [seen EXCEPT !.fault = @ \ {axis}]
       \/ UNCHANGED <<fault, seen>>
    /\ UNCHANGED <<queueVars, guiVars, telem, at, zeroVars, tgt, s, busVars, imageVars,
                   on, out, pos, fresh, bad, histVars, shown>>

\* em_set_mode at the start (HM) and at the end (CSP) of homing: refused while
\* enabled, given up on a stop, and a drive may not take it.
SetMode ==
    /\ at = "job" /\ job.todo # <<>>
    /\ \/ job.kind = "start" /\ job.stage = "arm" /\ axis \notin hmode
       \/ job.kind = "finish" /\ job.stage = "mode"
    /\ \/ /\ ~is_enabled(axis)
          /\ hmode' = IF job.kind = "start" THEN hmode \union {axis} ELSE hmode \ {axis}
          /\ job' = [job EXCEPT !.stage = "arm"]
          /\ UNCHANGED <<s, at>>
       \/ /\ job.kind = "finish"
          /\ job' = [job EXCEPT !.stage = "end", !.mode_ok = FALSE]
          /\ UNCHANGED <<hmode, s, at>>
       \/ /\ job.kind = "start"
          /\ job' = NoJob /\ at' = "clear"
          /\ s' = [s EXCEPT !.rc = [a \in Axes |-> IF a \notin s.mask THEN @[a]
                                                   ELSE IF a < axis THEN "PEER" ELSE "SETUP"],
                            !.culprit = {axis}]
          /\ UNCHANGED hmode
    /\ UNCHANGED <<queueVars, guiVars, telem, zeroVars, tgt, busVars, cw, csp,
                   driveVars, histVars, shown>>

ReadyToArm == at = "job" /\ job.stage = "arm" /\ job.todo # <<>>
              /\ (job.kind = "start" => axis \in hmode)

\* em_arm and the first rungs: in CSP the target is set to the position.
Arm ==
    /\ ReadyToArm
    /\ fresh /\ axis \notin seen.fault /\ ~is_enabled(axis)
    /\ csp' = IF axis \in hmode THEN csp ELSE [csp EXCEPT ![axis] = seen.pos[axis]]
    /\ cw' = [cw EXCEPT ![axis] = "climb"]
    /\ job' = [job EXCEPT !.stage = "climb"]
    /\ held' = held \ {axis}
    /\ UNCHANGED <<queueVars, guiVars, telem, at, zeroVars, tgt, s, busVars, hmode,
                   driveVars, asked, pressed, stranded, shown>>

\* The drive is seen energised; homing starts with one more control word, which
\* goes into the image before anybody asks for a stop.
Climbed ==
    /\ at = "job" /\ job.stage = "climb" /\ is_enabled(axis)
    /\ cw' = IF job.kind = "start" THEN [cw EXCEPT ![axis] = "start"] ELSE cw
    /\ job' = CASE job.kind = "finish" -> [job EXCEPT !.stage = "end"]
                [] job.kind = "enable" -> [nextAxis EXCEPT !.stage = "arm"]
                [] job.kind = "start"  -> [job EXCEPT !.stage = "go"]
    /\ UNCHANGED <<queueVars, guiVars, telem, at, zeroVars, tgt, s, busVars, csp, hmode,
                   driveVars, histVars, shown>>

\* A full frame without a fault, and the axis counts as searching.
Started ==
    /\ at = "job" /\ job.stage = "go" /\ cw[axis] = "go" /\ fresh /\ axis \notin seen.fault
    /\ job' = [nextAxis EXCEPT !.stage = "arm"]
    /\ UNCHANGED <<queueVars, guiVars, telem, at, zeroVars, tgt, s, busVars, imageVars,
                   driveVars, histVars, shown>>

\* Wrong: a drive that says nothing is waited for.
ArmFailsOnFault ==
    /\ ReadyToArm \/ (at = "job" /\ job.stage \in {"climb", "go"} /\ axis \in seen.fault)
    /\ \/ job.kind = "finish" /\ job' = [job EXCEPT !.stage = "end"] /\ UNCHANGED <<at, s>>
       \/ job.kind = "enable" /\ Ladder("rollback", "off", {}) /\ UNCHANGED <<at, s>>
       \/ /\ job.kind = "start" /\ job' = NoJob /\ at' = "clear"
          /\ s' = [s EXCEPT !.rc = [a \in Axes |-> IF a \in s.mask THEN "SETUP" ELSE @[a]]]
    /\ UNCHANGED <<queueVars, guiVars, telem, zeroVars, tgt, busVars, imageVars,
                   driveVars, histVars, shown>>

\* em_enable refuses (stale, fault, already enabled, not remote), or gives the
\* climb up on a stop, a stale mirror or a fault, wherever the control word is.
ArmFails ==
    /\ \/ ReadyToArm /\ UNCHANGED cw
       \/ /\ at = "job" /\ job.stage \in {"climb", "go"}
          /\ stop \/ ~fresh \/ axis \in seen.fault
          /\ cw' \in {cw} \union IF job.stage = "climb" THEN {[cw EXCEPT ![axis] = "off"]} ELSE {}
    /\ \/ /\ job.kind = "finish"
          /\ job' = [job EXCEPT !.stage = "end"]
          /\ UNCHANGED <<at, s>>
       \/ /\ job.kind = "enable"        \* em_enable_all rolls the others back
          /\ Ladder("rollback", "off", {a \in Axes : a < axis /\ is_enabled(a)})
          /\ UNCHANGED <<at, s>>
       \/ /\ job.kind = "start"
          /\ job' = NoJob /\ at' = "clear"
          /\ LET stopped == job.stage # "arm" /\ stop
                 blame(a) == IF stopped THEN "ABORTED" ELSE IF a < axis THEN "PEER" ELSE "SETUP"
             IN  s' = [s EXCEPT !.rc = [a \in Axes |-> IF a \in s.mask THEN blame(a) ELSE @[a]],
                                !.culprit = IF stopped THEN {} ELSE {axis}]
    /\ UNCHANGED <<queueVars, guiVars, telem, zeroVars, tgt, busVars, csp, hmode,
                   driveVars, histVars, shown>>

JobOver == at = "job" /\ job.todo = <<>>

\* doEnable's last step: every axis is held where it is.
EnableDone ==
    /\ JobOver /\ job.kind = "enable"
    /\ hold(Axes) /\ held' = Axes \intersect on
    /\ job' = NoJob /\ at' = "drain"
    /\ UNCHANGED <<queue, stop, guiVars, telem, zeroVars, s, busVars, imageVars,
                   driveVars, pressed, stranded, shown>>

DisableDone ==
    /\ JobOver /\ job.kind \in {"disable", "rollback", "reset"}
    /\ IF job.kind = "disable" THEN hold(Axes) ELSE UNCHANGED <<tgt, want, asked>>
    /\ job' = NoJob /\ at' = "drain"
    /\ UNCHANGED <<queue, stop, guiVars, telem, zeroVars, s, busVars, imageVars,
                   driveVars, held, pressed, stranded, shown>>

StartDone ==
    /\ JobOver /\ job.kind = "start" /\ job.stage = "arm"
    /\ job' = NoJob /\ at' = "drain"
    /\ s' = [s EXCEPT !.back = "span"]
    /\ UNCHANGED <<queueVars, guiVars, telem, zeroVars, tgt, busVars, imageVars,
                   driveVars, histVars, shown>>

-----------------------------------------------------------------------------
(* Homing: serviceHoming and finishHoming *)

\* Wrong: a drive that says nothing is searched with for ever.
home_step_patient(a) ==
    IF stop THEN {"ABORTED"}
    ELSE IF ~fresh THEN {"RUNNING"}
    ELSE IF a \in seen.fault THEN {"FAULT"}
    ELSE {"HM_ERROR", "RUNNING"} \union IF is_enabled(a) THEN {"ATTAINED"} ELSE {}

\* em_home_step: what one look at one axis may find.
home_step(a) ==
    IF stop THEN {"ABORTED"}
    ELSE IF ~fresh THEN IF s.timer = 0 THEN {"TIMEOUT", "NO_FRAMES"} ELSE {"RUNNING"}
    ELSE IF a \in seen.fault THEN {"FAULT"}
    ELSE {"HM_ERROR", IF s.timer = 0 THEN "TIMEOUT" ELSE "RUNNING"}
         \union IF is_enabled(a) THEN {"ATTAINED"} ELSE {}

\* Wrong: each axis ends on its own.
HomePassAlone(rc) ==
    LET halt == {a \in s.mask : s.rc[a] = "RUNNING" /\ rc[a] \in {"ABORTED", "ATTAINED"}}
    IN  /\ cw' = [a \in Axes |-> IF a \in halt THEN "on" ELSE cw[a]]
        /\ s' = [s EXCEPT !.rc = rc, !.timer = greater(@ - 1, 0)]
        /\ at' = IF \E a \in s.mask : rc[a] = "RUNNING" THEN "span" ELSE "clear"

\* Where one axis failed, those still searching are stopped with it.
HomePass(rc) ==
    LET failed == \E a \in s.mask : s.rc[a] = "RUNNING" /\ rc[a] \in StepFails
        rc1    == [a \in Axes |-> IF a \in s.mask /\ rc[a] = "RUNNING" /\ failed
                                  THEN "PEER" ELSE rc[a]]
        halt   == {a \in s.mask : /\ s.rc[a] = "RUNNING"
                                  /\ rc1[a] \in {"ABORTED", "ATTAINED", "PEER"}}
    IN  /\ cw' = [a \in Axes |-> IF a \in halt THEN "on" ELSE cw[a]]
        /\ s' = [s EXCEPT !.rc = rc1, !.timer = greater(@ - 1, 0),
                          !.culprit = @ \union {a \in s.mask : rc[a] \in StepFails}]
        /\ at' = IF \E a \in s.mask : rc1[a] = "RUNNING" THEN "span" ELSE "clear"

serviceHoming ==
    /\ at = "homing"
    /\ \/ /\ s.homing /\ ~s.spanning
          /\ \E rc \in [Axes -> StepRcs] :
                /\ \A a \in Axes : rc[a] \in IF a \in s.mask /\ s.rc[a] = "RUNNING"
                                             THEN home_step(a) ELSE {s.rc[a]}
                /\ HomePass(rc)
       \/ ~s.homing /\ at' = "span" /\ UNCHANGED <<cw, s>>
       \/ s.spanning /\ at' = "span" /\ UNCHANGED <<cw, s>>
    /\ UNCHANGED <<queueVars, guiVars, telem, job, zeroVars, tgt, busVars, csp, hmode,
                   driveVars, histVars, shown>>

\* finishHoming clears the stop flag first: its ladder must not be cut short.
FinishBegin ==
    /\ at = "clear"
    /\ stop' = FALSE
    /\ at' = "job" /\ Ladder("finish", "begin", s.mask)
    /\ s' = [s EXCEPT !.ends = <<>>]
    /\ UNCHANGED <<queue, want, guiVars, telem, zeroVars, tgt, busVars, imageVars,
                   driveVars, histVars, shown>>

\* Wrong: only an axis that got home is switched off before its mode is changed.
FinishAttained ==
    /\ at = "job" /\ job.kind = "finish" /\ job.stage = "begin" /\ job.todo # <<>>
    /\ job' = [job EXCEPT !.stage = IF s.rc[axis] = "ATTAINED" THEN "off" ELSE "mode",
                          !.mode_ok = TRUE]
    /\ UNCHANGED <<queueVars, guiVars, telem, at, zeroVars, tgt, s, busVars, imageVars,
                   driveVars, histVars, shown>>

\* em_home_finish on the next axis: off where it is enabled, CSP, on again.
FinishAxis ==
    /\ at = "job" /\ job.kind = "finish" /\ job.stage = "begin" /\ job.todo # <<>>
    /\ job' = [job EXCEPT !.stage = IF is_enabled(axis) THEN "off" ELSE "mode", !.mode_ok = TRUE]
    /\ UNCHANGED <<queueVars, guiVars, telem, at, zeroVars, tgt, s, busVars, imageVars,
                   driveVars, histVars, shown>>

\* The displayed zero is anchored anew, whether the axis got home or not.
Anchor ==
    /\ at = "job" /\ job.kind = "finish" /\ job.stage = "end"
    /\ LET a   == axis
           anc == home_anchor(seen.pos[a], s.eff[a])
           end == home_end_state(TRUE, a \in seen.fault, is_enabled(a), IF job.mode_ok THEN 0 ELSE 1)
       IN  /\ origin' = [origin EXCEPT ![a] = anc.origin]
           /\ tgt' = [tgt EXCEPT ![a] = anc.tgt]
           /\ want' = [want EXCEPT ![a] = anc.tgt]
           /\ s' = [s EXCEPT !.mask = @ \ {a}, !.ends = Append(@, end)]
           /\ held' = IF end = "HOLDING" THEN held \union {a} ELSE held \ {a}
           /\ stranded' = (stranded \/ end = "STRANDED")
           /\ asked' = asked \ {a}
    /\ gen' = gen + 1 /\ kept' = TRUE
    /\ job' = [nextAxis EXCEPT !.stage = "begin"]
    /\ UNCHANGED <<queue, stop, guiVars, telem, at, ready, keep, range, busVars, imageVars,
                   driveVars, pressed, shown>>

\* Wrong: an axis on the signal measures from where it stands.
beginSpanHere(mask) ==
    [s EXCEPT !.homing = TRUE, !.mask = mask, !.pending = FALSE, !.back = "span",
              !.spanning = TRUE, !.smask = mask, !.timer = HomeTmo,
              !.start = [a \in Axes |-> seen.pos[a] - origin[a]], !.p1 = [a \in Axes |-> seen.pos[a] - origin[a]],
              !.stuck = All(0), !.why = All("NONE"), !.width = All(-1),
              !.step = [a \in Axes |-> IF a \notin mask THEN "IDLE"
                                       ELSE IF seen.pos[a] \in Sensor THEN "CROSS" ELSE "SEEK"]]

\* beginSpan: the measurement that a homing on all axes leads into.
beginSpan(mask) ==
    [s EXCEPT !.homing = TRUE, !.mask = mask, !.pending = FALSE, !.back = "span",
              !.spanning = TRUE, !.smask = mask, !.timer = HomeTmo,
              !.start = [a \in Axes |-> seen.pos[a] - origin[a]],
              !.p1 = All(0), !.stuck = All(0),
              !.why = [a \in Axes |-> IF a \in mask THEN "NONE" ELSE @[a]],
              !.width = [a \in Axes |-> IF a \in mask THEN -1 ELSE @[a]],
              !.step = [a \in Axes |-> IF a \notin mask THEN "IDLE"
                                       ELSE IF seen.pos[a] \in Sensor THEN "BACKOFF" ELSE "SEEK"]]

\* The ends are stored in the order of the reports and read by axis number.
endOf(a) == IF a + 1 \in DOMAIN s.ends THEN s.ends[a + 1] ELSE "NEVER_STARTED"

FinishEnd ==
    /\ JobOver /\ job.kind = "finish"
    /\ maybe_live' = (maybe_live \/ home_batch_maybe_live([a \in Axes |-> endOf(a)], s.batch))
    /\ LET go == s.pending /\ \A a \in s.batch : s.rc[a] = "ATTAINED"
       IN  /\ s' = IF go THEN beginSpan(s.batch) ELSE Idle
           /\ telem' = [telem EXCEPT !.homing = go]
           /\ pressed' = (pressed /\ go)
    /\ at' = s.back /\ job' = NoJob
    /\ UNCHANGED <<queueVars, guiVars, zeroVars, tgt, conn, latched, tries, imageVars,
                   driveVars, asked, held, stranded, shown>>

-----------------------------------------------------------------------------
(* Measuring the origin signal: serviceSpan *)

Measured == {a \in s.smask : s.step[a] # "DONE"}
disp(a) == seen.pos[a] - origin[a]
signal(a) == seen.pos[a] \in Sensor

\* How far an axis may go from where the measurement started.
travel_cap(a) ==
    IF s.step[a] = "BACKOFF" THEN lesser(span_travel_cap(range), BackoffMax)
    ELSE span_travel_cap(range)

span_why(a) ==
    span_fail_why([stop_req |-> stop, bus_gone |-> ~conn, bus_ready |-> conn,
                   fault |-> a \in seen.fault, enabled |-> is_enabled(a), dig_known |-> TRUE,
                   csp_wrote |-> TRUE, stuck |-> s.stuck[a] >= StuckLimit,
                   over_time |-> s.timer = 0, in_signal |-> signal(a),
                   over_travel |-> abs(disp(a) - s.start[a]) >= travel_cap(a)])

SpanPass ==
    LET failed == {a \in Measured : span_why(a) # "NONE"}
        adv(a) == span_advance(tgt[a], disp(a), Step, Lead, span_dir(s.step[a]))
        step1(a) == IF a \in failed THEN "DONE" ELSE span_next(s.step[a], signal(a))
        peers  == {a \in Measured \ failed : failed # {} /\ step1(a) # "DONE"}
        step2  == [a \in Axes |-> IF a \in peers THEN "DONE"
                                  ELSE IF a \in Measured THEN step1(a) ELSE s.step[a]]
        ran    == Measured \ failed
        over   == \A a \in s.smask : step2[a] = "DONE"
        frozen == IF over THEN s.smask ELSE peers
        next   == [s EXCEPT
                    !.timer = greater(@ - 1, 0), !.step = step2,
                    !.why = [a \in Axes |-> IF a \in failed THEN span_why(a)
                                            ELSE IF a \in peers THEN "PEER" ELSE @[a]],
                    !.stuck = [a \in Axes |-> IF a \notin ran THEN @[a]
                                              ELSE IF adv(a).limited THEN @[a] + 1 ELSE 0],
                    !.p1 = [a \in Axes |-> IF a \in ran /\ s.step[a] = "SEEK" /\ step1(a) = "CROSS"
                                           THEN disp(a) ELSE @[a]],
                    !.width = [a \in Axes |-> IF a \in ran /\ s.step[a] = "CROSS" /\ step1(a) = "DONE"
                                              THEN abs(disp(a) - s.p1[a]) ELSE @[a]]]
    IN  /\ tgt' = [a \in Axes |-> IF a \in frozen THEN disp(a)
                                  ELSE IF a \in ran THEN adv(a).tgt ELSE tgt[a]]
        /\ want' = [a \in Axes |-> IF a \in frozen \union ran THEN tgt'[a] ELSE want[a]]
        /\ csp' = [a \in Axes |-> IF a \in ran THEN origin[a] + adv(a).tgt ELSE csp[a]]
        /\ stop' = (stop /\ ~over)
        /\ pressed' = (pressed /\ ~over)
        /\ asked' = asked \ (frozen \union ran)
        /\ telem' = [telem EXCEPT !.homing = ~over]
        /\ s' = IF over THEN [Idle EXCEPT !.pending = s.pending, !.why = next.why, !.width = next.width]
                ELSE next

serviceSpan ==
    /\ at = "span"
    /\ at' = "move"
    /\ \/ s.spanning /\ SpanPass
       \/ ~s.spanning /\ UNCHANGED <<tgt, want, csp, stop, pressed, asked, telem, s>>
    /\ UNCHANGED <<queue, guiVars, job, zeroVars, busVars, cw, hmode, driveVars,
                   held, stranded, shown>>

-----------------------------------------------------------------------------
(* The frame of a pass: interpolate, em_service, tryInitOrigin, publish *)

\* interpolate leaves the axes that are homing alone.
interpolate ==
    /\ at = "move"
    /\ LET mine == {a \in Axes : conn /\ ready /\ is_enabled(a) /\ a \notin s.mask}
           d(a) == want[a] - tgt[a]
           next(a) == clamp(tgt[a] + clamp(d(a), -Step, Step), -range, range)
       IN  /\ tgt' = [a \in Axes |-> IF a \in mine THEN next(a) ELSE tgt[a]]
           /\ csp' = [a \in Axes |-> IF a \in mine THEN origin[a] + next(a) ELSE csp[a]]
    /\ at' = "frame"
    /\ UNCHANGED <<queueVars, guiVars, telem, job, zeroVars, s, busVars, cw, hmode,
                   driveVars, histVars, shown>>

\* tryInitOrigin: the zero of the last session is kept only if every axis stands
\* within range of it; otherwise the zero is where the axes are.
keepZero == keep /\ kept /\ \A a \in Axes : origin_keep_ok(seen'.pos[a], origin[a], range)

tryInitOrigin ==
    /\ ready' = TRUE /\ kept' = TRUE /\ UNCHANGED <<keep, range>>
    /\ IF keepZero THEN UNCHANGED <<gen, origin>>
       ELSE gen' = gen + 1 /\ origin' = seen'.pos
    /\ tgt' = [a \in Axes |-> seen'.pos[a] - origin'[a]]

\* serviceAutoRecover: only between commands, and only when frames have been
\* going out on time for long while none came back full.
mayRecover(gap, ok_run, self_caused, since) ==
    /\ ~s.homing /\ queue = <<>>
    /\ recover_verdict(gap, 1, ok_run, ArmFrames, tries, MaxTries, self_caused) = "TRY"
    /\ recover_bus_broken(bad', ArmFrames)
    /\ tries = 0 \/ recover_cooldown_ok(since, 1)

Frame ==
    /\ at = "frame" /\ conn
    /\ Exchange
    /\ \/ fresh' /\ ~ready /\ tryInitOrigin /\ publish(tgt', tgt', {})
       \/ ~(fresh' /\ ~ready) /\ UNCHANGED <<zeroVars, tgt>> /\ publish(want, tgt, asked)
    /\ held' = held \ (Axes \ on')
    /\ \E gap \in {0, 2}, ok_run \in {0, ArmFrames}, since \in {0, 1}, self_caused \in BOOLEAN :
          IF mayRecover(gap, ok_run, self_caused, since)
          THEN at' = "recover" /\ tries' = tries + 1
          ELSE at' = "top" /\ UNCHANGED tries
    /\ UNCHANGED <<queue, stop, quit, look, job, s, conn, maybe_live, pressed, stranded>>

FrameClosed ==
    /\ at = "frame" /\ ~conn
    /\ at' = "top"
    /\ latched' = FALSE /\ bad' = 0
    /\ telem' = [homing |-> s.homing, spanning |-> s.pending, comm_bad |-> FALSE]
    /\ shown' = IF kept THEN shown \union {<<gen, origin>>} ELSE shown
    /\ UNCHANGED <<queueVars, guiVars, job, zeroVars, tgt, s, conn, tries, maybe_live,
                   imageVars, on, fault, out, pos, seen, fresh, histVars>>

\* em_recover_op asks the drives that left OP back into it, with their control
\* word at Disable voltage, unless one is gone for good or another may be
\* energised; the worker holds those that came back where they are.
Recover ==
    /\ at = "recover"
    /\ \/ /\ ~\E a \in Axes \ out : a \in seen.on
          /\ cw' = [a \in Axes |-> IF a \in out THEN "off" ELSE cw[a]]
          /\ out' \in SUBSET out
          /\ LET back == out \ out'
             IN  IF ready /\ back # {} THEN hold(back) ELSE UNCHANGED <<tgt, want, asked>>
       \/ UNCHANGED <<cw, out, tgt, want, asked>>
    /\ at' = "top"
    /\ UNCHANGED <<queue, stop, guiVars, telem, job, zeroVars, s, busVars, csp, hmode,
                   on, fault, pos, seen, fresh, bad, held, pressed, stranded, shown>>

-----------------------------------------------------------------------------
Gui ==
    \/ \E c \in Commands : Post(c)
    \/ SetTarget \/ StopLook \/ StopAct \/ requestQuit

Surroundings == \E a \in Axes : Push(a) \/ Trip(a)

Drain ==
    \/ DrainNothing \/ DrainStop
    \/ Connect \/ ConnectOk \/ Disconnect \/ EnableBegin \/ DisableBegin \/ ResetBegin
    \/ doStop \/ ZeroBegin \/ doCenter \/ doRange \/ HomeRefused \/ HomeBegin

Climb ==
    \/ Prepare \/ Off \/ OffDone \/ SetMode \/ Arm \/ Climbed \/ Started \/ ArmFails
    \/ EnableDone \/ DisableDone \/ StartDone
    \/ FinishBegin \/ FinishAxis \/ Anchor \/ FinishEnd

Loop == Top \/ serviceHoming \/ serviceSpan \/ interpolate \/ Frame \/ FrameClosed \/ Recover \/ Zero

Next == Gui \/ Surroundings \/ Drain \/ Climb \/ Loop \/ JobFrame

\* The thread always goes on, and its climbs end: each of their steps has a
\* timeout, so that a frame that could show the drive's answer comes in the end.
Fairness == WF_vars(Drain \/ Climb \/ Loop) /\ WF_vars(JobFrame) /\ WF_vars(StopAct)

Spec == Init /\ [][Next]_vars

FairSpec == Spec /\ Fairness

-----------------------------------------------------------------------------
(* Properties *)

Looping == at \in {"top", "drain", "homing", "span", "move", "frame"}

\* Every value has its type, a climb has an axis to climb with, and a homing
\* session has axes to home exactly while it is on.
TypeOK ==
    /\ \A i \in DOMAIN queue : queue[i] \in Commands \union {[t |-> "STOP"]}
    /\ {want, tgt, csp, origin} \subseteq [Axes -> Int] /\ pos \in [Axes -> Pos]
    /\ {stop, quit, conn, ready, kept, keep, latched, fresh, maybe_live} \subseteq BOOLEAN
    /\ look \in {"none", "homing", "idle"} /\ gen \in Nat /\ range \in Nat \ {0}
    /\ at \in {"top", "drain", "homing", "span", "move", "frame", "job", "zero", "clear",
               "recover", "ended"}
    /\ cw \in [Axes -> {"off", "climb", "last", "on", "start", "go"}]
    /\ {hmode, on, fault, out, held, asked} \subseteq SUBSET Axes
    /\ s.rc \in [Axes -> StepRcs] /\ s.step \in [Axes -> {"IDLE", "BACKOFF", "SEEK", "CROSS", "DONE"}]
    /\ tries \in 0 .. MaxTries /\ bad \in 0 .. ArmFrames
    /\ job.stage \in {"climb", "go", "offwait", "mode", "end", "shift"} => job.todo # <<>>
    /\ s.mask # {} => s.homing

\* Axes whose last measurement has come to something.
measured == {a \in Axes : s.width[a] # -1 \/ s.why[a] # "NONE"}

\* No axis jumps: while an axis is energised, its target has been set to its
\* position and lies within the range, its CSP target (607Ah) changes by no more
\* than one cycle's step at a time, or is taken to within a step of where the axis is
\* seen; a measurement that was cut short may leave the target its lead behind.
\* So it is over connections, homing, measurements, zero points and recoveries
\* (interpolate, serviceSpan, doZero, finishHoming).
NoJump ==
    [][\A a \in (held \intersect held' \intersect on) \ hmode : abs(tgt[a]) <= range =>
          \/ abs(csp'[a] - csp[a]) <= Step
          \/ abs(csp'[a] - seen.pos[a]) <= Step
          \/ a \in measured /\ abs(csp'[a] - csp[a]) <= Step + Lead]_vars

\* The epoch names the zero point: no two zero points are ever shown under one
\* epoch, which is what scans compare (doZero, finishHoming, tryInitOrigin).
EpochNamesZero ==
    \A p, q \in shown : p[1] = q[1] /\ p[1] > 0 => p[2] = q[2]

\* An axis that was energised, stopped, or frozen by a fault of any axis, stands
\* still until somebody asks it to move: a wish from before must not survive
\* (doEnable, finishHoming, serviceAutoRecover, doStop, publish).
StillUntilAsked ==
    Looping => \A a \in held : want[a] # tgt[a] => a \in asked \/ abs(want[a]) > range

\* A stop that reaches the worker during homing is obeyed at the next look at the
\* axes (serviceHoming): none of them goes on searching.
StopEndsSearch ==
    [][pressed /\ ~s.spanning /\ at = "homing" /\ at' # "homing" => going' = {}]_vars

\* One axis that fails stops the others of its batch at the same look.
PeersStop ==
    [][at = "homing" /\ at' # "homing" /\ (\E a \in s.mask : s'.rc[a] \in StepFails) =>
          \A a \in s.mask : a \in going' => s'.rc[a] \in StepFails]_vars

\* Between sessions no axis is searching: the end of a session stops a drive that
\* still is, however the session ended (em_home_finish; comment at
\* ec_motor_motion.c 1383).
NobodySearchesAlone == Looping /\ ~s.homing => going = {}

\* While every drive is in OP this is so: neither faults nor short frames excuse it,
\* as long as fewer of these come in a row than make the mirror stale (em_home_step,
\* finishHoming), and a drive that left OP while it searched does not search when it
\* is brought back (em_recover_op).
NobodySearchesInOp == Looping /\ ~s.homing /\ out = {} => going = {}

\* The summary of a batch that had begun to search tells the operator to look at
\* an axis that failed by itself, not at one that was stopped with it
\* (home_batch_blame over what serviceHoming recorded).
BlameNamesCulprit ==
    [][at = "job" /\ job.kind = "finish" /\ at' # "job" /\ s.back = "span" =>
          home_batch_summary(s.rc, s.batch) \in {-1} \union s.culprit]_vars

\* A width that is shown is that of the origin signal, to within the lead of the
\* target over the axis: whatever the axis was at when the measurement began, and
\* whatever frames came back short during it (beginSpan, serviceSpan, finishSpan).
WidthIsSignal ==
    \A a \in Axes : s.width[a] # -1 => abs(s.width[a] - Cardinality(Sensor)) < Lead

\* Every homing session ends, with or without answers of the drives.
SessionEnds == s.homing ~> ~s.homing

\* Until the thread ends, the queue of commands is emptied again and again,
\* homing or not (drainCommands).
CommandsAreTaken == []<>(queue = <<>> \/ at = "ended")

\* A request to quit ends the thread.
QuitEnds == quit ~> at = "ended"

-----------------------------------------------------------------------------
(* What comments and documents promise and the code does not keep *)

\* Enabling moves nothing, wherever the axis was left (comment at ecatworker.cpp
\* 1158): StillUntilAsked, without leaving out axes that stand beyond the range.
EnablingMovesNothing ==
    Looping => \A a \in held : want[a] # tgt[a] => a \in asked

\* A stop takes effect at once during homing (ecatworker.h 2675): once it has
\* reached the worker, no further axis starts to search,
StopStartsNothing ==
    [][pressed /\ s.homing /\ ~s.spanning => going' \subseteq going]_vars

\* and the measurement that follows homing moves nothing.  One that comes while
\* homing is being finished is kept, and obeyed at the first look of serviceSpan;
\* one that comes after the last look of serviceHoming is cleared by finishHoming.
NoMeasuringAfterStop ==
    [][pressed /\ at = "span" /\ s.spanning => UNCHANGED csp]_vars

\* When one axis cannot be enabled, those enabled before it are taken back
\* (ec_motor_motion.c 309): a frame later no axis is energised that nobody holds.
FailedEnablingIsUndone == at = "top" /\ ~s.homing => on \ hmode \subseteq held

\* Any axis that homing left in an unconfirmed state raises the warning that the
\* motors may be live (comment at ecatworker.cpp 2275).
StrandedIsTold == stranded /\ ~s.homing => maybe_live

\* The summary of a homing batch points at the axis to blame (comment in
\* home_batch_summary, ecatworker.h 1353), also when the batch did not get started.
SummaryNamesCulprit ==
    [][at = "job" /\ job.kind = "finish" /\ at' # "job" =>
          home_batch_summary(s.rc, s.batch) \in {-1} \union s.culprit]_vars

\* A measurement never lands beyond the range (ecatworker.h 1536).
MeasurementEndsInRange ==
    [][s.spanning /\ ~s'.spanning /\ at = "span" =>
          \A a \in s.smask : abs(tgt'[a]) <= range]_vars

\* The telemetry tells what the session at hand is for (ecatworker.h 177): no
\* measurement is shown when nothing is being homed or measured.
NoPhantomMeasurement == telem.spanning => s.homing

\* Drives that left OP are not brought back while another one may hold the load
\* alone; the mirror, stale as it is, errs to the strict side (em_recover_op,
\* ec_motor.c 1930).
MixedIsLeftAlone ==
    [][at = "recover" /\ out' # out => on \ out = {}]_vars

\* When frames have come back short for long, targets are frozen
\* (ecatworker.cpp 3121).
FrozenWhenCommBad == [][telem.comm_bad /\ at = "move" => csp' = csp]_vars
=============================================================================
