-------------------------- MODULE WorkerMotionProofs --------------------------
(***************************************************************************)
(* What holds of the axes the EtherCAT worker moves, for any number of     *)
(* axes, any range, step and lead: an axis that is held stands still until *)
(* it is asked to move, a measured width is that of the origin signal, and *)
(* no axis jumps while enabling and homing get their frames back in full.  *)
(***************************************************************************)
EXTENDS EcatWorkerProofs

-----------------------------------------------------------------------------
(* Wishes: an axis moves because somebody asked                            *)

\* The wish of an axis is where it is sent already, or somebody asked for it, or it
\* lies beyond the range, which is as far as it is followed.
Still(a) == want[a] = tgt[a] \/ a \in asked \/ abs(want[a]) > range

\* A zero point that is about to move was asked for on an axis that stood, or that
\* somebody has sent off since.
WishInv ==
    /\ \A a \in Axes : Still(a)
    /\ at = "zero" => want[axis] = tgt[axis] \/ axis \in asked

\* The range grows only while no wish lies beyond it.
RangeRevivesNothing ==
    [][range' > range => \A a \in Axes : abs(want[a]) <= range]_vars

\* An axis is stopped, held, or sent somewhere: either way it keeps Still, wherever
\* the range is.
Settled(a) == want'[a] = tgt'[a] \/ a \in asked'

LEMMA SettledIsStill == ASSUME NEW a, Settled(a) PROVE Still(a)'
    BY DEF Settled, Still

LEMMA StillAsBefore ==
    ASSUME NEW a, Still(a), UNCHANGED <<want, tgt, range>>, asked \subseteq asked'
    PROVE  Still(a)'
    BY DEF Still

LEMMA HeldIsSettled ==
    ASSUME NEW S, hold(S), NEW a \in S, a \in Axes
    PROVE  Settled(a)
    BY DEF hold, Settled

LEMMA WishGui ==
    WishInv /\ PlacesTyped /\ (Gui \/ Surroundings) => WishInv'
<1> SUFFICES ASSUME WishInv, PlacesTyped, Gui \/ Surroundings PROVE WishInv'
    OBVIOUS
<1>1. UNCHANGED <<at, job, tgt, range>>
    BY DEF Gui, Post, SetTarget, StopLook, StopAct, requestQuit, Surroundings, Push, Trip, zeroVars
<1>2. CASE SetTarget
    <2>1. PICK a \in Axes, x \in Targets : setTarget(a, x)
        BY <1>2 DEF SetTarget
    <2>2. asked' = asked \union {a} /\ \A b \in Axes \ {a} : want'[b] = want[b]
        BY <2>1 DEF setTarget, PlacesTyped
    <2>3. ASSUME NEW b, want'[b] = want[b] \/ b = a PROVE (want[b] = tgt[b] \/ b \in asked) => Settled(b)
        BY <1>1, <2>2, <2>3 DEF Settled
    <2>4. \A b \in Axes : Still(b)'
        BY <1>1, <2>2 DEF WishInv, Still
    <2>5. at = "zero" => Settled(axis)
        <3>1. CASE axis \in Axes
            BY <2>2, <2>3, <3>1 DEF WishInv
        <3>2. CASE axis \notin Axes
            BY <1>1, <2>1, <2>2, <3>2 DEF WishInv, Settled, setTarget, PlacesTyped
        <3> QED
            BY <3>1, <3>2
    <2> QED
        BY <1>1, <2>4, <2>5 DEF WishInv, Settled, axis
<1>3. CASE ~SetTarget
    <2>1. UNCHANGED <<want, asked>>
        BY <1>3 DEF Gui, Post, StopLook, StopAct, requestQuit, Surroundings, Push, Trip, queueVars, histVars
    <2> QED
        BY <1>1, <2>1 DEF WishInv, Still, axis
<1> QED
    BY <1>2, <1>3

LEMMA WishDrain ==
    WishInv /\ PeersInv /\ PlacesTyped /\ Drain /\ (range' > range => \A a \in Axes : abs(want[a]) <= range)
        => WishInv'
<1> SUFFICES ASSUME WishInv, PeersInv, PlacesTyped, Drain,
                    range' > range => \A a \in Axes : abs(want[a]) <= range
             PROVE  WishInv'
    OBVIOUS
<1>0. at' = "zero" => ZeroBegin
    BY DEF Drain, DrainNothing, DrainStop, Connect, ConnectOk, Disconnect, teardown, EnableBegin,
       DisableBegin, ResetBegin, doStop, doCenter, doRange, HomeRefused, HomeBegin, Take
<1>1. CASE Connect \/ ConnectOk \/ Disconnect
    <2>1. tgt' = All(0) /\ want' = All(0)
        BY <1>1 DEF Connect, ConnectOk, Disconnect, teardown
    <2>2. \A a \in Axes : Settled(a)
        BY <2>1 DEF Settled
    <2>3. at' # "zero"
        BY <1>1 DEF Connect, ConnectOk, Disconnect, teardown, Take
    <2> QED
        BY <2>2, <2>3, SettledIsStill DEF WishInv
<1>2. CASE doStop
    <2>1. at' # "zero" /\ \A a \in Axes : Settled(a)
        BY <1>2 DEF doStop, Take, Settled
    <2> QED
        BY <2>1, SettledIsStill DEF WishInv
<1>3. CASE doCenter
    <2>1. at' # "zero" /\ UNCHANGED <<tgt, range>>
        BY <1>3 DEF doCenter, Take, zeroVars
    <2>2. CASE UNCHANGED <<want, asked>>
        BY <2>1, <2>2 DEF WishInv, Still
    <2>3. CASE setTarget(Head(queue).axis, 0)
        <3>1. \A b \in Axes : want'[b] = want[b] \/ b \in asked'
            BY <2>3 DEF setTarget, PlacesTyped
        <3>2. asked \subseteq asked'
            BY <2>3 DEF setTarget
        <3> QED
            BY <2>1, <3>1, <3>2 DEF WishInv, Still
    <2> QED
        BY <1>3, <2>2, <2>3 DEF doCenter
<1>4. CASE doRange
    <2>1. at' # "zero" /\ UNCHANGED <<want, tgt, asked>>
        BY <1>4 DEF doRange, Take, histVars
    <2>2. range' \in Int /\ range \in Int
        <3>1. Head(queue).value \in Int
            BY <1>4, HeadOfQueue DEF doRange
        <3>2. range' = range \/ range' = greater(Head(queue).value, MinRange)
            BY <1>4 DEF doRange
        <3> QED
            BY <3>1, <3>2, WorkerAssumption DEF greater, PlacesTyped
    <2>3. ASSUME NEW a \in Axes PROVE Still(a)'
        <3>1. abs(want[a]) \in Int
            BY DEF abs, PlacesTyped
        <3>2. Still(a)
            BY DEF WishInv
        <3> QED
            BY <2>1, <2>2, <3>1, <3>2 DEF Still
    <2> QED
        BY <2>1, <2>3 DEF WishInv
<1>5. CASE ZeroBegin
    <2>1. UNCHANGED <<want, tgt, range, asked>>
        BY <1>5 DEF ZeroBegin, zeroVars, histVars
    <2>2. \A a \in Axes : Still(a)'
        BY <2>1 DEF WishInv, Still
    <2>3. at' = "zero" => Settled(axis')
        <3>1. SUFFICES ASSUME at' = "zero" PROVE Settled(axis')
            OBVIOUS
        <3> DEFINE a == Head(queue).axis
        <3>2. want[a] = tgt[a] /\ Ladder("zero", "shift", {a}) /\ a \in Axes
            BY <1>5, <3>1, HeadOfQueue DEF ZeroBegin, Take
        <3>3. /\ job'.todo \in Seq(Axes) /\ job'.todo # <<>>
              /\ \A i \in 1 .. Len(job'.todo) : job'.todo[i] = a
            <4>1. {a} \in SUBSET Axes /\ Ladder("zero", "shift", {a})
                BY <3>2
            <4> HIDE DEF a
            <4>2. /\ job'.todo \in Seq(Axes) /\ \E i \in 1 .. Len(job'.todo) : job'.todo[i] = a
                  /\ \A i \in 1 .. Len(job'.todo) : job'.todo[i] \in {a}
                BY <4>1, LadderTodo
            <4> QED
                BY <4>2
        <3>4. axis' = a
            BY <3>3 DEF axis
        <3> QED
            BY <2>1, <3>2, <3>4 DEF Settled
    <2> QED
        BY <2>2, <2>3 DEF WishInv, Settled
<1>6. CASE \/ DrainNothing \/ DrainStop \/ EnableBegin \/ DisableBegin \/ ResetBegin
           \/ HomeRefused \/ HomeBegin
    <2>1. UNCHANGED <<want, tgt, range, asked>>
        BY <1>6 DEF DrainNothing, DrainStop, EnableBegin, DisableBegin, ResetBegin,
           HomeRefused, HomeBegin, queueVars, zeroVars, histVars
    <2>2. at' # "zero"
        BY <1>6 DEF DrainNothing, DrainStop, EnableBegin, DisableBegin, ResetBegin,
           HomeRefused, HomeBegin, Take
    <2> QED
        BY <2>1, <2>2 DEF WishInv, Still
<1> QED
    BY <1>1, <1>2, <1>3, <1>4, <1>5, <1>6 DEF Drain

LEMMA WishClimb == WishInv /\ SessionTyped /\ PlacesTyped /\ Climb => WishInv'
<1> SUFFICES ASSUME WishInv, SessionTyped, PlacesTyped, Climb PROVE WishInv'
    OBVIOUS
<1>0. at' # "zero"
    BY DEF Climb, Prepare, Off, OffDone, SetMode, Arm, ReadyToArm, Climbed, Started, ArmFails, EnableDone,
       DisableDone, StartDone, FinishBegin, FinishAxis, Anchor, FinishEnd, SessionTyped, JobOver
<1>1. CASE EnableDone \/ DisableDone
    <2>1. hold(Axes) \/ UNCHANGED <<tgt, want, asked>>
        BY <1>1 DEF EnableDone, DisableDone
    <2>2. range' = range
        BY <1>1 DEF EnableDone, DisableDone, zeroVars
    <2> QED
        BY <1>0, <2>1, <2>2, HeldIsSettled, SettledIsStill DEF WishInv, Still
<1>2. CASE Anchor
    <2> DEFINE t == home_anchor(seen.pos[axis], s.eff[axis]).tgt
    <2>1. /\ tgt' = [tgt EXCEPT ![axis] = t] /\ want' = [want EXCEPT ![axis] = t]
          /\ asked' = asked \ {axis} /\ range' = range
        BY <1>2 DEF Anchor
    <2> HIDE DEF t
    <2>2. \A a \in Axes : Still(a)'
        BY <2>1 DEF WishInv, Still, PlacesTyped
    <2> QED
        BY <1>0, <2>2 DEF WishInv
<1>3. CASE \/ Prepare \/ Off \/ OffDone \/ SetMode \/ Arm \/ Climbed \/ Started \/ ArmFails
           \/ StartDone \/ FinishBegin \/ FinishAxis \/ FinishEnd
    <2>1. UNCHANGED <<want, tgt, range, asked>>
        BY <1>3 DEF Prepare, Off, OffDone, SetMode, Arm, Climbed, Started, ArmFails,
           StartDone, FinishBegin, FinishAxis, FinishEnd, queueVars, zeroVars, histVars
    <2> QED
        BY <1>0, <2>1 DEF WishInv, Still
<1> QED
    BY <1>1, <1>2, <1>3 DEF Climb

\* A frame stops every axis where a drive reports a fault, and leaves the wishes
\* alone elsewhere.
LEMMA WishPublished ==
    ASSUME NEW w, NEW g, publish(w, tgt', g), NEW a \in Axes, w[a] = tgt'[a] \/ a \in g
    PROVE  Settled(a)
    BY DEF publish, Settled

LEMMA WishInterpolated == WishInv /\ PlacesTyped /\ interpolate => WishInv'
<1> SUFFICES ASSUME WishInv, PlacesTyped, interpolate PROVE WishInv'
    OBVIOUS
<1> DEFINE next(a) == clamp(tgt[a] + clamp(want[a] - tgt[a], -Step, Step), -range, range)
<1>1. UNCHANGED <<want, range, asked>> /\ at' # "zero"
    BY DEF interpolate, queueVars, zeroVars, histVars
<1>2. ASSUME NEW a \in Axes PROVE tgt'[a] = tgt[a] \/ tgt'[a] = next(a)
    BY DEF interpolate
<1>3. ASSUME NEW a \in Axes, want[a] = tgt[a], abs(want[a]) <= range PROVE next(a) = tgt[a]
    <2>1. want[a] \in Int /\ tgt[a] \in Int /\ range \in Nat /\ Step \in Nat
        BY WorkerAssumption DEF PlacesTyped
    <2>2. clamp(want[a] - tgt[a], -Step, Step) = 0
        BY <1>3, <2>1 DEF clamp
    <2> QED
        BY <1>3, <2>1, <2>2 DEF clamp, abs
<1> HIDE DEF next
<1>4. ASSUME NEW a \in Axes PROVE abs(want[a]) \in Int /\ range \in Int
    BY DEF PlacesTyped, abs
<1>5. ASSUME NEW a \in Axes PROVE Still(a)'
    <2>1. Still(a)
        BY DEF WishInv
    <2> QED
        BY <1>1, <1>2, <1>3, <1>4, <2>1 DEF Still
<1> QED
    BY <1>1, <1>5 DEF WishInv

LEMMA WishMeasured == WishInv /\ PlacesTyped /\ DrivesTyped /\ SpanPass /\ range' = range /\ at' # "zero" => WishInv'
<1> SUFFICES ASSUME WishInv, PlacesTyped, DrivesTyped, SpanPass, range' = range, at' # "zero" PROVE WishInv'
    OBVIOUS
<1> DEFINE failed == {a \in Measured : span_why(a) # "NONE"}
           step1(a) == IF a \in failed THEN "DONE" ELSE span_next(s.step[a], signal(a))
           peers  == {a \in Measured \ failed : failed # {} /\ step1(a) # "DONE"}
           step2  == [a \in Axes |-> IF a \in peers THEN "DONE"
                                     ELSE IF a \in Measured THEN step1(a) ELSE s.step[a]]
           ran    == Measured \ failed
           over   == \A a \in s.smask : step2[a] = "DONE"
           frozen == IF over THEN s.smask ELSE peers
           go(a)  == span_advance(tgt[a], disp(a), Step, Lead, span_dir(s.step[a])).tgt
<1>1. /\ tgt' = [a \in Axes |-> IF a \in frozen THEN disp(a) ELSE IF a \in ran THEN go(a) ELSE tgt[a]]
      /\ want' = [a \in Axes |-> IF a \in frozen \union ran THEN tgt'[a] ELSE want[a]]
      /\ asked' = asked \ (frozen \union ran)
    BY DEF SpanPass
<1> HIDE DEF frozen, ran, go
<1>2. ASSUME NEW a \in Axes PROVE Still(a)'
    BY <1>1 DEF WishInv, Still
<1> QED
    BY <1>2 DEF WishInv

LEMMA WishLoop == WishInv /\ TodoInv /\ PlacesTyped /\ DrivesTyped /\ Loop => WishInv'
<1> SUFFICES ASSUME WishInv, TodoInv, PlacesTyped, DrivesTyped, Loop PROVE WishInv'
    OBVIOUS
<1>0. at' # "zero"
    BY DEF Loop, Top, serviceHoming, HomePass, serviceSpan, interpolate, Frame, FrameClosed, Recover, Zero
<1>1. CASE Top
    <2>1. \/ tgt' = All(0) /\ want' = All(0)
          \/ UNCHANGED <<want, tgt, range, asked>>
        BY <1>1 DEF Top, teardown, queueVars, zeroVars, histVars
    <2> QED
        BY <1>0, <2>1 DEF WishInv, Still
<1>2. CASE serviceSpan
    <2>1. range' = range
        BY <1>2 DEF serviceSpan, zeroVars
    <2>2. SpanPass \/ UNCHANGED <<want, tgt, asked>>
        BY <1>2 DEF serviceSpan
    <2> QED
        BY <1>0, <2>1, <2>2, WishMeasured DEF WishInv, Still
<1>3. CASE interpolate
    BY <1>3, WishInterpolated
<1>4. CASE Frame
    <2>1. CASE tryInitOrigin /\ publish(tgt', tgt', {})
        BY <1>0, <2>1, WishPublished, SettledIsStill DEF WishInv
    <2>2. CASE UNCHANGED <<zeroVars, tgt>> /\ publish(want, tgt, asked)
        <3>1. \/ want' = tgt /\ tgt' = tgt
              \/ UNCHANGED <<want, tgt, asked, range>>
            BY <2>2 DEF publish, zeroVars
        <3> QED
            BY <1>0, <3>1 DEF WishInv, Still
    <2> QED
        BY <1>4, <2>1, <2>2 DEF Frame
<1>5. CASE Recover
    <2>1. range' = range
        BY <1>5 DEF Recover, zeroVars
    <2>2. (\E S : hold(S)) \/ UNCHANGED <<want, tgt, asked>>
        BY <1>5 DEF Recover
    <2>3. ASSUME NEW S, hold(S), NEW a \in Axes PROVE Still(a)'
        BY <2>1, <2>3 DEF hold, WishInv, Still
    <2> QED
        BY <1>0, <2>1, <2>2, <2>3 DEF WishInv, Still
<1>6. CASE Zero
    <2> DEFINE d == seen.pos[axis] - origin[axis]
    <2>1. /\ tgt' = [tgt EXCEPT ![axis] = @ - d] /\ want' = [want EXCEPT ![axis] = @ - d]
          /\ UNCHANGED <<asked, range>> /\ at = "zero"
        BY <1>6 DEF Zero, histVars, axis
    <2> HIDE DEF d
    <2>2. ASSUME NEW a \in Axes PROVE Still(a)'
        BY <2>1 DEF WishInv, Still, PlacesTyped
    <2> QED
        BY <1>0, <2>2 DEF WishInv
<1>7. CASE serviceHoming \/ FrameClosed
    <2>1. UNCHANGED <<want, tgt, range, asked>>
        BY <1>7 DEF serviceHoming, FrameClosed, queueVars, zeroVars, histVars
    <2> QED
        BY <1>0, <2>1 DEF WishInv, Still
<1> QED
    BY <1>1, <1>2, <1>3, <1>4, <1>5, <1>6, <1>7 DEF Loop

LEMMA WishKept ==
    Values /\ WishInv /\ [Next]_vars /\ (range' > range => \A a \in Axes : abs(want[a]) <= range) => WishInv'
<1> SUFFICES ASSUME Values, WishInv, [Next]_vars, range' > range => \A a \in Axes : abs(want[a]) <= range
             PROVE  WishInv'
    OBVIOUS
<1>1. PeersInv /\ TodoInv /\ DrivesTyped /\ SessionTyped /\ PlacesTyped
    BY DEF Values
<1>2. CASE JobFrame
    <2>1. \/ want' = tgt /\ tgt' = tgt
          \/ UNCHANGED <<want, tgt, asked>>
        BY <1>2 DEF JobFrame, publish
    <2>2. range' = range /\ at' # "zero"
        BY <1>2 DEF JobFrame, zeroVars
    <2> QED
        BY <2>1, <2>2 DEF WishInv, Still
<1>3. CASE UNCHANGED vars
    BY <1>3 DEF vars, WishInv, Still, axis, queueVars, zeroVars, histVars
<1> QED
    BY <1>1, <1>2, <1>3, WishGui, WishDrain, WishClimb, WishLoop DEF Next

\* While the range grows only where no wish lies beyond it, an axis that was held
\* moves because somebody asked: the wish of every axis that was energised, stopped
\* or frozen is where it stands, or a new one (doEnable, finishHoming, doZero,
\* serviceAutoRecover, doStop, publish).  doRange makes sure of the targets only.
THEOREM HeldAxesStandStill == Spec /\ RangeRevivesNothing => []StillUntilAsked
<1>1. Init => Values /\ WishInv
    BY ValuesBegin DEF Init, WishInv, Still, All
<1>2. Values /\ WishInv /\ [Next]_vars /\ [range' > range => \A a \in Axes : abs(want[a]) <= range]_vars
        => Values' /\ WishInv'
    <2>1. UNCHANGED vars => range' = range
        BY DEF vars, zeroVars
    <2>2. Values => range \in Int
        BY DEF Values, PlacesTyped
    <2>3. Values /\ range' = range => ~(range' > range)
        BY <2>2
    <2> QED
        BY <2>1, <2>3, ValuesKept, WishKept
<1>3. Values /\ WishInv => StillUntilAsked
    <2> SUFFICES ASSUME Values, WishInv, Looping, NEW a \in held, want[a] # tgt[a], a \notin asked
                 PROVE  abs(want[a]) > range
        BY DEF StillUntilAsked
    <2>1. a \in Axes
        BY ValuesAreTyped DEF TypeOK
    <2> QED
        BY <2>1 DEF WishInv, Still
<1> QED
    BY <1>1, <1>2, <1>3, PTL DEF Spec, RangeRevivesNothing

-----------------------------------------------------------------------------
(* What becomes of one axis in a frame                                     *)

\* An axis that cannot be measured any more: it is switched off or has let go, and
\* the stop flag or the mirror says that it is not to go on; or the bus is lost.
Down(a) == cw[a] = "off" \/ (cw[a] = "on" /\ a \notin on)
Dead(a) == Lost \/ (Down(a) /\ (stop \/ a \notin seen.on \/ a \in seen.fault))

\* The mirror that shows an axis without torque also shows where it is.
SeenOut(a) == fresh /\ a \notin seen.on => a \notin on /\ pos[a] = seen.pos[a]

\* An axis that got home and waits for its turn to be finished.
Waits(a) == cw[a] = "on" /\ SeenOut(a)

\* An axis on the ladder or energised in CSP, with its CSP target where it is, and
\* one that is displayed there as well.
InCsp(a)  == a \notin hmode /\ cw[a] \in {"climb", "last", "on"}
AtRest(a) == InCsp(a) /\ csp[a] = pos[a] /\ pos[a] = seen.pos[a]
sent(a)   == origin[a] + tgt[a]
Stands(a) == AtRest(a) /\ sent(a) = seen.pos[a]

Between(x, y, z) == (x <= y /\ y <= z) \/ (z <= y /\ y <= x)

LEMMA BetweenByDistance ==
    ASSUME NEW x \in Int, NEW y \in Int, NEW z \in Int,
           y = x \/ abs(z - y) + abs(y - x) = abs(z - x)
    PROVE  Between(x, y, z)
<1>1. z - y \in Int /\ y - x \in Int /\ z - x \in Int
    OBVIOUS
<1>2. CASE x <= z
    BY <1>2 DEF Between, abs
<1>3. CASE z < x
    BY <1>3 DEF Between, abs
<1> QED
    BY <1>2, <1>3

\* A frame moves an axis in CSP towards its CSP target and not beyond, and no axis
\* without torque; it shows all of them, or none.
LEMMA FrameOfAxis ==
    ASSUME PeersInv, DrivesTyped, PlacesTyped, Exchange, NEW a \in Axes
    PROVE  /\ cw[a] \in {"off", "on"} => cw'[a] = cw[a] /\ (a \in on' => a \in on)
           /\ cw[a] = "off" => a \notin on'
           /\ InCsp(a) => cw'[a] \in {"climb", "last", "on"}
           /\ a \notin on \/ cw[a] = "off" => pos'[a] = pos[a]
           /\ InCsp(a) => Between(pos[a], pos'[a], csp[a])
           /\ \/ seen'.on = on' /\ seen'.fault = fault /\ seen'.pos = pos' /\ fresh' /\ out = {}
              \/ seen' = seen /\ (fresh' => fresh)
           /\ UNCHANGED <<fault, out, csp, hmode>>
<1> DEFINE last     == {b \in Axes : cw[b] = "last" /\ b \notin fault \union out}
           climbing == {b \in Axes : /\ cw[b] = "climb" /\ b \notin fault
                                     /\ at = "job" /\ job.stage = "climb" /\ b = Head(job.todo)}
           kept_on  == {b \in on : cw[b] # "off"}
           moves(b) == IF b \notin on \/ cw[b] = "off" THEN {pos[b]}
                       ELSE IF b \in going THEN {x \in Pos : abs(x - pos[b]) <= 1}
                       ELSE IF b \in hmode \/ csp[b] \notin Pos THEN {pos[b]}
                       ELSE {x \in Pos : /\ abs(csp[b] - x) <= 1
                                         /\ abs(csp[b] - x) + abs(x - pos[b]) = abs(csp[b] - pos[b])}
           obeyed(full) == [b \in Axes |-> IF b \in last THEN "on"
                                           ELSE IF b \in climbing /\ full THEN "last"
                                           ELSE IF cw[b] = "start" /\ b \in on THEN "go" ELSE cw[b]]
<1>1. /\ on' = kept_on \union last
      /\ pos' \in {q \in [Axes -> Pos] : \A b \in Axes : q[b] \in moves(b)}
      /\ \/ cw' = obeyed(TRUE) /\ seen' = [on |-> on', fault |-> fault, pos |-> pos'] /\ fresh' = TRUE /\ out = {}
         \/ cw' = obeyed(FALSE) /\ (fresh' => fresh) /\ seen' = seen
      /\ UNCHANGED <<fault, out, csp, hmode>>
    BY DEF Exchange
<1>2. pos'[a] \in moves(a)
    BY <1>1
<1>3. cw'[a] = obeyed(TRUE)[a] \/ cw'[a] = obeyed(FALSE)[a]
    BY <1>1
<1>4. pos[a] \in Int /\ csp[a] \in Int /\ Pos \subseteq Int
    BY PositionsAreInts DEF DrivesTyped, PlacesTyped
<1>5. InCsp(a) => Between(pos[a], pos'[a], csp[a])
    <2> SUFFICES ASSUME InCsp(a) PROVE Between(pos[a], pos'[a], csp[a])
        OBVIOUS
    <2>1. a \notin going /\ a \notin hmode
        BY DEF InCsp, going
    <2>2. \/ pos'[a] = pos[a]
          \/ pos'[a] \in Pos /\ abs(csp[a] - pos'[a]) + abs(pos'[a] - pos[a]) = abs(csp[a] - pos[a])
        BY <1>2, <2>1
    <2>3. pos'[a] \in Int
        BY <1>4, <2>2
    <2> QED
        BY <1>4, <2>2, <2>3, BetweenByDistance
<1>6. a \in on' <=> (a \in on /\ cw[a] # "off") \/ a \in last
    BY <1>1
<1>7. a \notin on \/ cw[a] = "off" => pos'[a] = pos[a]
    BY <1>2
<1>8. cw[a] \in {"off", "on"} => cw'[a] = cw[a]
    BY <1>3
<1>9. InCsp(a) => cw'[a] \in {"climb", "last", "on"}
    BY <1>3 DEF InCsp
<1>10. \/ seen'.on = on' /\ seen'.fault = fault /\ seen'.pos = pos' /\ fresh' /\ out = {}
       \/ seen' = seen /\ (fresh' => fresh)
    BY <1>1
<1> QED
    BY <1>1, <1>5, <1>6, <1>7, <1>8, <1>9, <1>10

\* A frame leaves an axis that has done as it is.
LEMMA FrameOfRest ==
    ASSUME PeersInv, DrivesTyped, PlacesTyped, Exchange, seen.fault \subseteq fault, stop' = stop, NEW a \in Axes
    PROVE  /\ Dead(a) => Dead(a)'
           /\ SeenOut(a) /\ cw[a] \in {"on", "off"} => SeenOut(a)' /\ cw'[a] = cw[a]
           /\ AtRest(a) => AtRest(a)'
           /\ Stands(a) /\ UNCHANGED <<origin, tgt>> => Stands(a)'
<1>1. Lost => Lost'
    BY SearchExchange
<1>2. Down(a) => Down(a)'
    BY FrameOfAxis DEF Down
<1>3. Dead(a) => Dead(a)'
    <2> SUFFICES ASSUME Down(a), stop \/ a \notin seen.on \/ a \in seen.fault
                 PROVE  stop' \/ a \notin seen'.on \/ a \in seen'.fault
        BY <1>1, <1>2 DEF Dead
    <2>1. CASE seen' = seen
        BY <2>1
    <2>2. CASE seen'.on = on' /\ seen'.fault = fault
        <3>1. a \notin on'
            BY FrameOfAxis DEF Down
        <3> QED
            BY <2>2, <3>1
    <2> QED
        BY <2>1, <2>2, FrameOfAxis
<1>4. SeenOut(a) /\ cw[a] \in {"on", "off"} => SeenOut(a)' /\ cw'[a] = cw[a]
    BY FrameOfAxis DEF SeenOut
<1>5. AtRest(a) => AtRest(a)'
    <2> SUFFICES ASSUME AtRest(a) PROVE AtRest(a)'
        OBVIOUS
    <2>1. Between(pos[a], pos'[a], pos[a]) /\ InCsp(a)' /\ csp'[a] = csp[a]
        BY FrameOfAxis DEF AtRest, InCsp
    <2>2. pos[a] \in Int /\ pos'[a] \in Int
        BY DrivesExchange, PositionsAreInts DEF DrivesTyped
    <2>3. pos'[a] = pos[a]
        BY <2>1, <2>2 DEF Between
    <2> QED
        BY <2>1, <2>3, FrameOfAxis DEF AtRest
<1>6. AtRest(a)' => (seen'.pos[a] = seen.pos[a] \/ ~AtRest(a))
    <2>1. AtRest(a) => pos'[a] = pos[a]
        <3>1. AtRest(a) => Between(pos[a], pos'[a], pos[a])
            BY FrameOfAxis DEF AtRest, InCsp
        <3>2. pos[a] \in Int /\ pos'[a] \in Int
            BY DrivesExchange, PositionsAreInts DEF DrivesTyped
        <3> QED
            BY <3>1, <3>2 DEF Between
    <2> QED
        BY <2>1 DEF AtRest
<1> QED
    BY <1>3, <1>4, <1>5, <1>6 DEF Stands, sent

\* What nobody touches stays as it is.
Untouched(a) ==
    /\ cw'[a] = cw[a] /\ csp'[a] = csp[a] /\ pos'[a] = pos[a] /\ fresh' = fresh
    /\ seen'.on = seen.on /\ seen'.fault = seen.fault /\ seen'.pos[a] = seen.pos[a]
    /\ (a \in hmode' => a \in hmode) /\ (a \in on' => a \in on)
    /\ out \subseteq out' /\ (stop => stop')

LEMMA RestUntouched ==
    ASSUME NEW a, Untouched(a)
    PROVE  /\ Dead(a) => Dead(a)'
           /\ SeenOut(a) => SeenOut(a)'
           /\ Waits(a) => Waits(a)'
           /\ AtRest(a) => AtRest(a)'
           /\ Stands(a) /\ origin'[a] = origin[a] /\ tgt'[a] = tgt[a] => Stands(a)'
<1>1. Lost => Lost'
    BY DEF Lost, Untouched
<1> QED
    BY <1>1 DEF Untouched, Dead, Down, SeenOut, Waits, AtRest, InCsp, Stands, sent

\* Only a push reaches an axis from outside, and only one that is switched off.
LEMMA RestAround ==
    ASSUME DrivesTyped, Gui \/ Surroundings \/ UNCHANGED vars, NEW a \in Axes
    PROVE  /\ UNCHANGED <<s, at, job, origin, tgt>>
           /\ \/ Untouched(a)
              \/ at # "job" /\ cw[a] = "off" /\ (Dead(a) => Dead(a)')
<1>1. UNCHANGED <<s, at, job, origin, tgt, cw, csp, hmode, fresh>>
    BY DEF Gui, Post, SetTarget, StopLook, StopAct, requestQuit, Surroundings, Push, Trip, vars,
       zeroVars, imageVars, driveVars
<1>2. CASE UNCHANGED <<seen, pos>> /\ on' \subseteq on /\ out \subseteq out' /\ (stop => stop')
    BY <1>1, <1>2 DEF Untouched
<1>3. CASE Gui \/ UNCHANGED vars
    <2>1. UNCHANGED <<seen, pos, on, out>> /\ (stop => stop')
        BY <1>3 DEF Gui, Post, SetTarget, StopLook, StopAct, requestQuit, vars, queueVars, driveVars
    <2> QED
        BY <1>2, <2>1
<1>4. CASE Surroundings
    <2>1. PICK b \in Axes : Push(b) \/ Trip(b)
        BY <1>4 DEF Surroundings
    <2>2. CASE Trip(b)
        <3>1. UNCHANGED <<seen, pos, stop>> /\ on' \subseteq on /\ out \subseteq out'
            BY <2>2 DEF Trip, queueVars
        <3> QED
            BY <1>2, <3>1
    <2>3. CASE Push(b)
        <3>1. PICK x \in Pos : /\ pos' = [pos EXCEPT ![b] = x]
                               /\ seen' = IF fresh THEN [seen EXCEPT !.pos[b] = x] ELSE seen
            BY <2>3 DEF Push
        <3>2. /\ seen'.on = seen.on /\ seen'.fault = seen.fault
              /\ \A c \in Axes \ {b} : seen'.pos[c] = seen.pos[c] /\ pos'[c] = pos[c]
            BY <3>1 DEF DrivesTyped, Mirrors
        <3>3. UNCHANGED <<on, out, stop>> /\ cw[b] = "off" /\ at # "job"
            BY <2>3 DEF Push, queueVars
        <3>4. Dead(a) => Dead(a)'
            BY <1>1, <3>2, <3>3 DEF Dead, Lost, Down
        <3>5. a # b => Untouched(a)
            BY <1>1, <3>2, <3>3 DEF Untouched
        <3> QED
            BY <1>1, <3>3, <3>4, <3>5
    <2> QED
        BY <2>1, <2>2, <2>3
<1> QED
    BY <1>1, <1>3, <1>4

-----------------------------------------------------------------------------
(* A measurement on its course                                             *)

\* The origin signal is on in one piece, between its edges.
SensorInOnePiece == \E lo, hi \in Int : Sensor = lo .. hi
EdgeIn  == CHOOSE lo \in Int : \E hi \in Int : Sensor = lo .. hi
EdgeOut == CHOOSE hi \in Int : Sensor = EdgeIn .. hi

LEMMA SensorEdges ==
    ASSUME SensorInOnePiece
    PROVE  EdgeIn \in Int /\ EdgeOut \in Int /\ Sensor = EdgeIn .. EdgeOut
<1>1. EdgeIn \in Int /\ \E hi \in Int : Sensor = EdgeIn .. hi
    BY DEF EdgeIn, SensorInOnePiece
<1> QED
    BY <1>1 DEF EdgeOut

\* Where an axis may be in each step: t is its target, p where it is, q where the
\* mirror shows it, and e where it saw the signal come on, all of them physical.
\* Stepping back, it never turns.  Seeking from below, no target lies more than Lead
\* beyond the last place without the signal, and from where the signal may be on the
\* axis only goes up; an axis above the signal finds nothing.  Crossing, it goes up
\* from the edge, and no further than Lead beyond the signal.
Course(step, t, p, q, e) ==
    \/ step = "BACKOFF" /\ t <= p /\ p <= q /\ q <= EdgeOut
    \/ /\ step = "SEEK"
       /\ t < EdgeIn + Lead
       /\ p >= EdgeIn => p <= t
       /\ q >= EdgeIn => q <= p
    \/ step = "SEEK" /\ EdgeOut < t /\ EdgeOut < p /\ EdgeOut < q
    \/ /\ step = "CROSS"
       /\ EdgeIn <= e /\ e < EdgeIn + Lead /\ e <= EdgeOut
       /\ e <= q /\ q <= p /\ p <= t /\ t <= EdgeOut + Lead

\* A frame keeps it there.
LEMMA CourseInFrame ==
    ASSUME SensorInOnePiece, NEW step, NEW t \in Int, NEW p \in Int, NEW q \in Int, NEW e \in Int,
           Course(step, t, p, q, e), NEW p1 \in Int, NEW q1 \in {q, p1}, Between(p, p1, t)
    PROVE  Course(step, t, p1, q1, e)
<1>1. EdgeIn \in Int /\ EdgeOut \in Int /\ Lead \in Nat \ {0}
    BY SensorEdges, WorkerAssumption
<1>2. CASE q1 = q
    BY <1>1, <1>2 DEF Course, Between
<1>3. CASE q1 = p1
    BY <1>1, <1>3 DEF Course, Between
<1> QED
    BY <1>2, <1>3

\* The target never turns back, and is no further than Lead beyond the axis unless
\* it stays.
LEMMA AdvanceBounds ==
    ASSUME NEW t \in Int, NEW q \in Int, NEW dir \in {-1, 1}
    PROVE  LET n == span_advance(t, q, Step, Lead, dir).tgt
           IN  /\ n \in Int
               /\ dir = -1 => n <= t
               /\ dir = 1 => t <= n /\ (n <= t \/ n <= q + Lead)
               /\ n - t <= Step /\ t - n <= Step
<1> DEFINE want1 == t + greater(Step, 1) * dir
           cap == q + Lead * dir
<1>0. Step \in Nat \ {0} /\ Lead \in Nat \ {0} /\ IntMax \in Nat \ {0}
    BY WorkerAssumption, RulesAssumption
<1>1. want1 = t + Step * dir /\ greater(Step, 1) = Step
    BY <1>0 DEF greater
<1>2. dir = 1 \/ dir = -1
    OBVIOUS
<1>3. /\ want1 \in Int /\ cap \in Int
      /\ dir = 1 => want1 = t + Step /\ cap = q + Lead
      /\ dir = -1 => want1 = t - Step /\ cap = q - Lead
    BY <1>0, <1>1, <1>2
<1> HIDE DEF want1, cap
<1>4. span_advance(t, q, Step, Lead, dir).tgt
        = IF dir < 0 THEN lesser(greater(cap, want1), t) ELSE greater(lesser(cap, want1), t)
    BY <1>0 DEF span_advance, want1, cap
<1> QED
    BY <1>0, <1>2, <1>3, <1>4 DEF lesser, greater

\* A look at the signal keeps it there too, or ends the measurement; where it ends
\* with a width, that is the signal's to within Lead.
LEMMA CourseAtLook ==
    ASSUME SensorInOnePiece, NEW step, NEW t \in Int, NEW p \in Int, NEW q \in Int, NEW e \in Int,
           Course(step, t, p, q, e), NEW n \in Int,
           n <= t \/ step # "BACKOFF",
           step # "BACKOFF" => t <= n /\ (n <= t \/ n <= q + Lead)
    PROVE  LET next == span_next(step, q \in Sensor)
           IN  /\ next = "DONE" \/ Course(next, n, p, q, IF step = "SEEK" /\ next = "CROSS" THEN q ELSE e)
               /\ step = "CROSS" /\ next = "DONE" => abs(abs(q - e) - Cardinality(Sensor)) < Lead
<1>1. EdgeIn \in Int /\ EdgeOut \in Int /\ Lead \in Nat \ {0} /\ Sensor = EdgeIn .. EdgeOut
    BY SensorEdges, WorkerAssumption
<1>2. q \in Sensor <=> EdgeIn <= q /\ q <= EdgeOut
    BY <1>1
<1>3. CASE step = "BACKOFF"
    <2>1. n <= t /\ t <= p /\ p <= q /\ q <= EdgeOut
        BY <1>3 DEF Course
    <2>2. CASE q \in Sensor
        BY <1>1, <1>3, <2>1, <2>2 DEF span_next, Course
    <2>3. CASE q \notin Sensor
        <3>1. q < EdgeIn
            BY <1>1, <1>2, <2>1, <2>3
        <3>2. span_next(step, q \in Sensor) = "SEEK"
            BY <1>3, <2>3 DEF span_next
        <3>3. Course("SEEK", n, p, q, e)
            BY <1>1, <2>1, <3>1 DEF Course
        <3> QED
            BY <1>3, <3>2, <3>3
    <2> QED
        BY <2>2, <2>3
<1>4. CASE step = "SEEK"
    <2>1. CASE q \in Sensor
        <3>1. span_next(step, q \in Sensor) = "CROSS"
            BY <1>4, <2>1 DEF span_next
        <3>2. Course("CROSS", n, p, q, q)
            BY <1>1, <1>2, <1>4, <2>1 DEF Course
        <3> QED
            BY <1>4, <3>1, <3>2
    <2>2. CASE q \notin Sensor
        <3>1. span_next(step, q \in Sensor) = "SEEK"
            BY <1>4, <2>2 DEF span_next
        <3>2. q < EdgeIn \/ q > EdgeOut
            BY <1>1, <1>2, <2>2
        <3>3. CASE q < EdgeIn
            <4>1. Course("SEEK", n, p, q, e)
                BY <1>1, <1>4, <3>3 DEF Course
            <4> QED
                BY <1>4, <3>1, <4>1
        <3>4. CASE q > EdgeOut
            <4>1. Course("SEEK", n, p, q, e)
                BY <1>1, <1>4, <3>4 DEF Course
            <4> QED
                BY <1>4, <3>1, <4>1
        <3> QED
            BY <3>2, <3>3, <3>4
    <2> QED
        BY <2>1, <2>2
<1>5. CASE step = "CROSS"
    <2>0. /\ EdgeIn <= e /\ e < EdgeIn + Lead /\ e <= EdgeOut
          /\ e <= q /\ q <= p /\ p <= t /\ t <= EdgeOut + Lead
        BY <1>5 DEF Course
    <2>1. CASE q \in Sensor
        BY <1>1, <1>2, <1>5, <2>0, <2>1 DEF span_next, Course
    <2>2. CASE q \notin Sensor
        <3>1. span_next(step, q \in Sensor) = "DONE"
            BY <1>5, <2>2 DEF span_next
        <3>2. q > EdgeOut /\ q <= EdgeOut + Lead
            BY <1>1, <1>2, <2>0, <2>2
        <3>3. Cardinality(Sensor) = EdgeOut - EdgeIn + 1
            <4>1. EdgeIn <= EdgeOut
                BY <1>1, <2>0
            <4> QED
                BY <1>1, <4>1, FS_Interval
        <3>4. abs(q - e) = q - e
            BY <2>0 DEF abs
        <3>5. abs(q - e - (EdgeOut - EdgeIn + 1)) < Lead
            BY <1>1, <2>0, <3>2 DEF abs
        <3> QED
            BY <3>1, <3>3, <3>4, <3>5
    <2> QED
        BY <2>1, <2>2
<1> QED
    BY <1>3, <1>4, <1>5 DEF Course

\* An axis that is being measured as it should.
Track(a) ==
    /\ InCsp(a) /\ csp[a] = sent(a) /\ s.p1[a] \in Int
    /\ Course(s.step[a], sent(a), pos[a], seen.pos[a], origin[a] + s.p1[a])

\* Every axis of a measurement is done with, about to fail, or on its course.
SpanInv ==
    s.spanning => /\ s.homing /\ s.smask \subseteq s.mask
                  /\ \A a \in s.smask : s.step[a] = "DONE" \/ Dead(a) \/ Track(a)

\* What the drive or the bus has given up, the next look gives up.
LEMMA DeadIsNoticed == ASSUME NEW a, Dead(a) PROVE span_why(a) # "NONE"
    BY DEF Dead, Lost, span_why, span_fail_why, is_enabled

LEMMA TrackInFrame ==
    ASSUME SensorInOnePiece, PeersInv, DrivesTyped, PlacesTyped, Exchange, UNCHANGED <<s, origin, tgt>>,
           NEW a \in Axes, Track(a)
    PROVE  Track(a)'
<1>1. /\ InCsp(a)' /\ csp'[a] = sent(a) /\ sent(a)' = sent(a)
      /\ Between(pos[a], pos'[a], sent(a)) /\ seen'.pos[a] \in {seen.pos[a], pos'[a]}
    BY FrameOfAxis DEF Track, InCsp, sent
<1>2. /\ pos[a] \in Int /\ pos'[a] \in Int /\ seen.pos[a] \in Int /\ sent(a) \in Int
      /\ origin[a] + s.p1[a] \in Int
    BY DrivesExchange, PositionsAreInts DEF DrivesTyped, Mirrors, PlacesTyped, sent, Track
<1>3. Course(s.step[a], sent(a), pos'[a], seen'.pos[a], origin[a] + s.p1[a])
    BY <1>1, <1>2, CourseInFrame DEF Track
<1> QED
    BY <1>1, <1>3 DEF Track

LEMMA SpanPassKept ==
    ASSUME SensorInOnePiece, PeersInv, DrivesTyped, PlacesTyped, SessionTyped, SpanInv, WidthIsSignal,
           s.spanning, SpanPass, UNCHANGED <<origin, cw, hmode, driveVars>>
    PROVE  SpanInv' /\ WidthIsSignal'
<1> DEFINE failed == {a \in Measured : span_why(a) # "NONE"}
           step1(a) == IF a \in failed THEN "DONE" ELSE span_next(s.step[a], signal(a))
           peers  == {a \in Measured \ failed : failed # {} /\ step1(a) # "DONE"}
           step2  == [a \in Axes |-> IF a \in peers THEN "DONE"
                                     ELSE IF a \in Measured THEN step1(a) ELSE s.step[a]]
           ran    == Measured \ failed
           over   == \A a \in s.smask : step2[a] = "DONE"
           frozen == IF over THEN s.smask ELSE peers
           go(a)  == span_advance(tgt[a], disp(a), Step, Lead, span_dir(s.step[a])).tgt
           p2     == [a \in Axes |-> IF a \in ran /\ s.step[a] = "SEEK" /\ step1(a) = "CROSS"
                                     THEN disp(a) ELSE s.p1[a]]
           width2 == [a \in Axes |-> IF a \in ran /\ s.step[a] = "CROSS" /\ step1(a) = "DONE"
                                     THEN abs(disp(a) - s.p1[a]) ELSE s.width[a]]
<1>0. DOMAIN s = SFields /\ s.smask \subseteq Axes /\ Measured \subseteq s.smask
    BY DEF PeersInv, SessionOk, SpanInv, Measured
<1>1. /\ tgt' = [a \in Axes |-> IF a \in frozen THEN disp(a) ELSE IF a \in ran THEN go(a) ELSE tgt[a]]
      /\ csp' = [a \in Axes |-> IF a \in ran THEN origin[a] + go(a) ELSE csp[a]]
      /\ \/ over /\ \E p, w : s' = [Idle EXCEPT !.pending = p, !.why = w, !.width = width2]
         \/ ~over /\ \E t, w, u : s' = [s EXCEPT !.timer = t, !.step = step2, !.why = w, !.stuck = u,
                                                 !.p1 = p2, !.width = width2]
    BY <1>0 DEF SpanPass, SFields
<1>2. ASSUME NEW a \in ran
      PROVE  /\ Track(a) /\ s.step[a] # "DONE" /\ a \in Axes /\ a \in s.smask
             /\ LET next == span_next(s.step[a], signal(a))
                IN  /\ next = "DONE" \/ Course(next, origin[a] + go(a), pos[a], seen.pos[a],
                                               origin[a] + IF s.step[a] = "SEEK" /\ next = "CROSS"
                                                           THEN disp(a) ELSE s.p1[a])
                    /\ s.step[a] = "CROSS" /\ next = "DONE" =>
                          abs(abs(disp(a) - s.p1[a]) - Cardinality(Sensor)) < Lead
    <2>1. a \in Measured /\ span_why(a) = "NONE"
        BY <1>2
    <2>2. Track(a) /\ s.step[a] # "DONE" /\ a \in Axes /\ a \in s.smask
        BY <1>0, <2>1, DeadIsNoticed DEF SpanInv, Measured
    <2> DEFINE t == sent(a)
               q == seen.pos[a]
               e == origin[a] + s.p1[a]
               n == origin[a] + go(a)
               next == span_next(s.step[a], q \in Sensor)
    <2>3. /\ tgt[a] \in Int /\ origin[a] \in Int /\ disp(a) \in Int /\ s.p1[a] \in Int
          /\ q \in Int /\ pos[a] \in Int /\ disp(a) = q - origin[a] /\ t = origin[a] + tgt[a]
        BY <2>2, PositionsAreInts DEF DrivesTyped, Mirrors, PlacesTyped, Track, disp, sent
    <2>4. /\ go(a) \in Int
          /\ s.step[a] = "BACKOFF" => go(a) <= tgt[a]
          /\ s.step[a] # "BACKOFF" => tgt[a] <= go(a) /\ (go(a) <= tgt[a] \/ go(a) <= disp(a) + Lead)
        BY <2>3, AdvanceBounds DEF span_dir
    <2> HIDE DEF go
    <2>5. /\ n \in Int /\ t \in Int /\ e \in Int
          /\ n <= t \/ s.step[a] # "BACKOFF"
          /\ s.step[a] # "BACKOFF" => t <= n /\ (n <= t \/ n <= q + Lead)
        BY <2>3, <2>4, WorkerAssumption
    <2>6. Course(s.step[a], t, pos[a], q, e)
        BY <2>2 DEF Track
    <2>7. /\ next = "DONE" \/ Course(next, n, pos[a], q, IF s.step[a] = "SEEK" /\ next = "CROSS" THEN q ELSE e)
          /\ s.step[a] = "CROSS" /\ next = "DONE" => abs(abs(q - e) - Cardinality(Sensor)) < Lead
        <3> HIDE DEF t, q, e, n
        <3> QED
            BY <2>3, <2>5, <2>6, CourseAtLook
    <2>8. q = origin[a] + disp(a) /\ q - e = disp(a) - s.p1[a]
        BY <2>3
    <2> QED
        BY <2>2, <2>7, <2>8 DEF signal
<1> HIDE DEF go
<1>3. WidthIsSignal'
    <2>1. s'.width = width2
        BY <1>0, <1>1, IdleOk DEF SFields
    <2>2. ASSUME NEW a \in Axes, width2[a] # -1 PROVE abs(width2[a] - Cardinality(Sensor)) < Lead
        <3>1. CASE a \in ran /\ s.step[a] = "CROSS" /\ step1(a) = "DONE"
            <4>1. span_next(s.step[a], signal(a)) = "DONE" /\ width2[a] = abs(disp(a) - s.p1[a])
                BY <3>1
            <4> QED
                BY <1>2, <3>1, <4>1
        <3>2. CASE ~(a \in ran /\ s.step[a] = "CROSS" /\ step1(a) = "DONE")
            <4>1. width2[a] = s.width[a]
                BY <3>2
            <4> QED
                BY <2>2, <4>1 DEF WidthIsSignal
        <3> QED
            BY <3>1, <3>2
    <2> QED
        BY <2>1, <2>2 DEF WidthIsSignal
<1>4. SpanInv'
    <2>1. CASE over
        <3>1. s'.spanning = Idle.spanning
            BY <1>0, <1>1, <2>1, IdleOk DEF SFields
        <3>2. Idle.spanning = FALSE
            <4>1. Idle.spanning = NoSession.spanning
                BY NoSessionOk DEF Idle, SFields
            <4> QED
                BY <4>1 DEF NoSession
        <3> QED
            BY <3>1, <3>2 DEF SpanInv
    <2>2. CASE ~over
        <3>1. /\ s'.step = step2 /\ s'.p1 = p2
              /\ UNCHANGED <<s.homing, s.mask, s.smask, s.spanning>>
            BY <1>0, <1>1, <2>2 DEF SFields
        <3>2. ASSUME NEW a \in s.smask, step2[a] # "DONE" PROVE Track(a)'
            <4>1. (a \in Axes /\ s.step[a] # "DONE") \/ a \in Measured
                BY <1>0, <3>2
            <4>2. a \in Measured
                BY <1>0, <3>2 DEF Measured
            <4>3. a \in ran /\ a \notin peers /\ step2[a] = span_next(s.step[a], signal(a))
                BY <1>0, <3>2, <4>2
            <4>4. a \notin frozen
                BY <2>2, <4>3
            <4>5. tgt'[a] = go(a) /\ csp'[a] = origin[a] + go(a)
                BY <1>0, <1>1, <4>3, <4>4
            <4>6. p2[a] = IF s.step[a] = "SEEK" /\ span_next(s.step[a], signal(a)) = "CROSS"
                          THEN disp(a) ELSE s.p1[a]
                BY <1>0, <4>3
            <4>7. disp(a) \in Int
                BY <1>0 DEF disp, DrivesTyped, Mirrors, PlacesTyped
            <4>8. InCsp(a)' /\ sent(a)' = origin[a] + go(a) /\ UNCHANGED <<pos, seen>>
                BY <1>2, <4>3, <4>5 DEF Track, InCsp, sent, driveVars
            <4>9. s'.p1[a] \in Int
                BY <1>2, <3>1, <4>3, <4>6, <4>7 DEF Track
            <4>10. Course(step2[a], origin[a] + go(a), pos[a], seen.pos[a], origin[a] + p2[a])
                BY <1>2, <3>2, <4>3, <4>6
            <4> HIDE DEF step2, p2
            <4> QED
                BY <3>1, <4>5, <4>8, <4>9, <4>10 DEF Track
        <3> HIDE DEF step2
        <3> QED
            BY <3>1, <3>2 DEF SpanInv
    <2> QED
        BY <2>1, <2>2
<1> QED
    BY <1>3, <1>4

-----------------------------------------------------------------------------
(* From the search to the measurement                                      *)

\* A session has a zero point, and the thread to itself; and a fault that is seen is
\* there.
AloneInv ==
    /\ s.homing => ready
    /\ at = "zero" \/ (at = "job" /\ job.kind \notin {"start", "finish"}) => ~s.homing
    /\ seen.fault \subseteq fault

LEMMA HomingAsksForZero == ASSUME HomeBegin PROVE ready
    BY DEF HomeBegin, HomeGate, home_batch_refusal, home_refusal

LEMMA FaultsSeenKept ==
    ASSUME PeersInv, DrivesTyped, seen.fault \subseteq fault, [Next]_vars
    PROVE  seen'.fault \subseteq fault'
<1>1. CASE Gui \/ UNCHANGED vars
    BY <1>1 DEF Gui, Post, SetTarget, StopLook, StopAct, requestQuit, vars, driveVars
<1>2. CASE Surroundings
    <2>1. seen'.fault = seen.fault /\ fault \subseteq fault'
        <3>1. PICK a \in Axes : Push(a) \/ Trip(a)
            BY <1>2 DEF Surroundings
        <3>2. CASE Trip(a)
            BY <3>2 DEF Trip
        <3>3. CASE Push(a)
            <4>1. PICK q : seen' = seen \/ seen' = [seen EXCEPT !.pos = q]
                BY <3>3 DEF Push
            <4>2. fault' = fault
                BY <3>3 DEF Push
            <4> QED
                BY <4>1, <4>2 DEF DrivesTyped, Mirrors
        <3> QED
            BY <3>1, <3>2, <3>3
    <2> QED
        BY <2>1
<1>3. CASE JobFrame \/ Frame
    <2>1. Exchange
        BY <1>3 DEF JobFrame, Frame
    <2>2. seen' = seen \/ seen'.fault = fault
        BY <2>1 DEF Exchange
    <2>3. fault' = fault
        BY <2>1 DEF Exchange
    <2> QED
        BY <2>2, <2>3
<1>4. CASE Drain
    <2>1. CASE Connect \/ Disconnect
        <3>1. seen' = [seen EXCEPT !.on = {}, !.fault = {}] /\ fault' = fault
            BY <2>1 DEF Connect, Disconnect, teardown
        <3> QED
            BY <3>1 DEF DrivesTyped, Mirrors
    <2>2. CASE ConnectOk
        BY <2>2 DEF ConnectOk
    <2>3. CASE ~(Connect \/ Disconnect \/ ConnectOk)
        <3>1. UNCHANGED <<seen, fault>>
            BY <1>4, <2>3 DEF Drain, DrainNothing, DrainStop, EnableBegin, DisableBegin, ResetBegin,
               doStop, ZeroBegin, doCenter, doRange, HomeRefused, HomeBegin, driveVars
        <3> QED
            BY <3>1
    <2> QED
        BY <2>1, <2>2, <2>3
<1>5. CASE Climb
    <2>1. CASE OffDone
        <3>1. \/ fault' = fault \ {axis} /\ seen' = [seen EXCEPT !.fault = @ \ {axis}]
              \/ UNCHANGED <<fault, seen>>
            BY <2>1 DEF OffDone
        <3> QED
            BY <3>1 DEF DrivesTyped, Mirrors
    <2>2. CASE ~OffDone
        <3>1. UNCHANGED <<seen, fault>>
            BY <1>5, <2>2 DEF Climb, Prepare, Off, SetMode, Arm, Climbed, Started, ArmFails,
               EnableDone, DisableDone, StartDone, FinishBegin, FinishAxis, Anchor, FinishEnd, driveVars
        <3> QED
            BY <3>1
    <2> QED
        BY <2>1, <2>2
<1>6. CASE Loop /\ ~Frame
    <2>1. \/ UNCHANGED <<seen, fault>>
          \/ fault' = fault /\ seen' = [seen EXCEPT !.on = {}, !.fault = {}]
        BY <1>6 DEF Loop, Top, teardown, serviceHoming, serviceSpan, interpolate, FrameClosed, Recover,
           Zero, driveVars
    <2> QED
        BY <2>1 DEF DrivesTyped, Mirrors
<1> QED
    BY <1>1, <1>2, <1>3, <1>4, <1>5, <1>6 DEF Next

LEMMA AloneKept ==
    ASSUME PeersInv, TodoInv, DrivesTyped, SessionTyped, Where, AloneInv, [Next]_vars
    PROVE  AloneInv'
<1>0. /\ DOMAIN s = SFields /\ s.homing \in BOOLEAN
      /\ seen'.fault \subseteq fault'
    BY FaultsSeenKept DEF PeersInv, SessionOk, AloneInv
<1>1. CASE Gui \/ Surroundings \/ JobFrame \/ UNCHANGED vars
    <2>1. UNCHANGED <<at, job, s, ready>>
        BY <1>1 DEF Gui, Post, SetTarget, StopLook, StopAct, requestQuit, Surroundings, Push,
           Trip, JobFrame, vars, zeroVars
    <2> QED
        BY <1>0, <2>1 DEF AloneInv
<1>2. CASE Drain
    <2>1. ready' = ready \/ s' = NoSession
        BY <1>2 DEF Drain, DrainNothing, DrainStop, Connect, ConnectOk, Disconnect, teardown, EnableBegin,
           DisableBegin, ResetBegin, doStop, ZeroBegin, doCenter, doRange, HomeRefused, HomeBegin, zeroVars
    <2>2. HomeBegin => ready
        BY HomingAsksForZero
    <2> QED
        BY <1>0, <1>2, <2>1, <2>2, DrainMoves, NoSessionOk DEF AloneInv, Starting
<1>3. CASE Climb
    <2>1. ready' = ready
        BY <1>3 DEF Climb, Prepare, Off, OffDone, SetMode, Arm, Climbed, Started, ArmFails, zeroVars,
           EnableDone, DisableDone, StartDone, FinishBegin, FinishAxis, Anchor, FinishEnd
    <2>2. ClimbMoves
        BY <1>3, MovesOfClimb
    <2>3. CASE FinishBegin \/ Anchor \/ FinishEnd
        <3>1. FinishEnd => at' \in {"drain", "span"}
            BY DEF FinishEnd, SessionTyped
        <3> QED
            BY <1>0, <2>1, <2>3, <3>1, FinishMoves DEF AloneInv, Where
    <2>4. CASE ~(FinishBegin \/ Anchor \/ FinishEnd)
        BY <1>0, <2>1, <2>2, <2>4, LadderTodo DEF AloneInv, ClimbMoves, Ladder, Starting
    <2> QED
        BY <2>3, <2>4
<1>4. CASE Loop
    <2>1. ready' = ready \/ ready' = TRUE \/ s' = NoSession
        BY <1>4 DEF Loop, Top, teardown, serviceHoming, serviceSpan, interpolate, Frame, FrameClosed,
           Recover, Zero, tryInitOrigin, zeroVars
    <2>2. at' # "zero" /\ at' # "job"
        BY <1>4 DEF Loop, Top, serviceHoming, HomePass, serviceSpan, interpolate, Frame, FrameClosed,
           Recover, Zero
    <2> QED
        BY <1>0, <1>4, <2>1, <2>2, LoopMoves, NoSessionOk DEF AloneInv
<1> QED
    BY <1>1, <1>2, <1>3, <1>4 DEF Next

\* A finish visits axes of its batch only, and none twice.
FinishList ==
    at = "job" /\ job.kind = "finish" =>
        /\ \A i \in 1 .. Len(job.todo) : job.todo[i] \in s.mask
        /\ \A i, j \in 1 .. Len(job.todo) : job.todo[i] = job.todo[j] => i = j

LEMMA FinishListKept ==
    ASSUME PeersInv, TodoInv, SessionTyped, Where, FinishList, [Next]_vars
    PROVE  FinishList'
<1>0. job.todo \in Seq(Axes) /\ s.mask \in SUBSET Axes
    BY DEF TodoInv, PeersInv, SessionOk
<1>1. CASE Gui \/ Surroundings \/ JobFrame \/ UNCHANGED vars
    <2>1. UNCHANGED <<at, job, s>>
        BY <1>1 DEF Gui, Post, SetTarget, StopLook, StopAct, requestQuit, Surroundings, Push,
           Trip, JobFrame, vars
    <2> QED
        BY <2>1 DEF FinishList
<1>2. CASE Drain
    <2>1. at' = "job" => job'.kind # "finish"
        BY <1>2, DrainMoves DEF Starting
    <2> QED
        BY <2>1 DEF FinishList
<1>3. CASE Climb
    <2>1. CASE FinishBegin
        <3>1. Ladder("finish", "begin", s.mask) /\ s'.mask = s.mask
            BY <2>1, FinishMoves DEF FinishBegin
        <3>2. job'.todo = ordered(s.mask)
            BY <3>1 DEF Ladder
        <3>3. \A i \in 1 .. Len(job'.todo) : job'.todo[i] \in s.mask
            BY <1>0, <3>1, LadderTodo
        <3>4. \A i, j \in 1 .. Len(ordered(s.mask)) : ordered(s.mask)[i] = ordered(s.mask)[j] => i = j
            BY <1>0, OrderedListsAll
        <3>5. \A i, j \in 1 .. Len(job'.todo) : job'.todo[i] = job'.todo[j] => i = j
            BY <3>2, <3>4
        <3> QED
            BY <3>1, <3>3, <3>5 DEF FinishList
    <2>2. CASE Anchor
        <3>1. /\ s'.mask = s.mask \ {axis} /\ job'.todo = Tail(job.todo)
              /\ at = "job" /\ job.kind = "finish" /\ job.todo # <<>>
            BY <2>2, FinishMoves DEF Anchor, TodoInv, Standing
        <3>2. /\ axis = job.todo[1] /\ Len(Tail(job.todo)) = Len(job.todo) - 1 /\ Len(job.todo) \in Nat
              /\ \A i \in 1 .. Len(Tail(job.todo)) : Tail(job.todo)[i] = job.todo[i + 1]
            BY <1>0, <3>1, HeadTailProperties DEF axis
        <3>3. ASSUME NEW i \in 1 .. Len(job'.todo) PROVE job'.todo[i] \in s'.mask
            <4>1. i + 1 \in 1 .. Len(job.todo) /\ 1 \in 1 .. Len(job.todo) /\ i + 1 # 1
                BY <3>1, <3>2
            <4> QED
                BY <3>1, <3>2, <4>1 DEF FinishList
        <3>4. ASSUME NEW i \in 1 .. Len(job'.todo), NEW j \in 1 .. Len(job'.todo), job'.todo[i] = job'.todo[j]
              PROVE  i = j
            <4>1. i + 1 \in 1 .. Len(job.todo) /\ j + 1 \in 1 .. Len(job.todo)
                BY <3>1, <3>2
            <4>2. i + 1 = j + 1
                BY <3>1, <3>2, <3>4, <4>1 DEF FinishList
            <4> QED
                BY <4>2
        <3> QED
            BY <3>3, <3>4 DEF FinishList
    <2>3. CASE FinishEnd
        BY <2>3, FinishMoves, NoJobOk DEF FinishList
    <2>4. CASE ~(FinishBegin \/ Anchor \/ FinishEnd)
        <3>1. ClimbMoves
            BY <1>3, MovesOfClimb
        <3> QED
            BY <2>4, <3>1 DEF FinishList, ClimbMoves
    <2> QED
        BY <2>1, <2>2, <2>3, <2>4
<1>4. CASE Loop
    <2>1. at' # "job"
        BY <1>4, LoopMoves
    <2> QED
        BY <2>1 DEF FinishList
<1> QED
    BY <1>1, <1>2, <1>3, <1>4 DEF Next

\* Whose turn it is in a finish, and how an axis that got home stands on each rung.
Ended(a) == s.rc[a] = "ATTAINED"
Turn(a)  == at = "job" /\ job.kind = "finish" /\ job.todo # <<>> /\ a = axis

Rung(a) ==
    /\ job.stage \in {"begin", "off"} => Waits(a)
    /\ job.stage = "offwait" => cw[a] = "off" /\ SeenOut(a)
    /\ job.stage \in {"mode", "arm"} => cw[a] \in {"off", "on"} /\ SeenOut(a) /\ Dead(a)
    /\ job.stage = "arm" => a \notin hmode
    /\ job.stage = "climb" => AtRest(a)
    /\ job.stage = "end" => Dead(a) \/ AtRest(a)

\* An axis that got home waits, has its turn, or stands where it is displayed.
Finished(a) ==
    IF a \in s.mask THEN IF Turn(a) THEN Rung(a) ELSE Waits(a)
    ELSE at = "job" /\ job.kind = "finish" /\ (Dead(a) \/ Stands(a))

FinishInv == s.homing /\ ~s.spanning => \A a \in s.batch : Ended(a) => Finished(a)

LEMMA UntouchedIsFinished ==
    ASSUME NEW a, Finished(a), Untouched(a), origin'[a] = origin[a], tgt'[a] = tgt[a], s'.mask = s.mask,
           \/ UNCHANGED <<at, job>>
           \/ at # "job" /\ at' # "job"
    PROVE  Finished(a)'
<1>1. /\ Dead(a) => Dead(a)'
      /\ SeenOut(a) => SeenOut(a)'
      /\ Waits(a) => Waits(a)'
      /\ AtRest(a) => AtRest(a)'
      /\ Stands(a) => Stands(a)'
    BY RestUntouched
<1>2. CASE at # "job" /\ at' # "job"
    BY <1>1, <1>2 DEF Finished, Turn
<1>3. CASE UNCHANGED <<at, job>>
    <2>1. Turn(a)' = Turn(a)
        BY <1>3 DEF Turn, axis
    <2>2. Rung(a) => Rung(a)'
        BY <1>1, <1>3 DEF Rung, Untouched
    <2> QED
        BY <1>1, <1>3, <2>1, <2>2 DEF Finished
<1> QED
    BY <1>2, <1>3

LEMMA FinishedInFrame ==
    ASSUME PeersInv, DrivesTyped, PlacesTyped, Exchange, seen.fault \subseteq fault,
           UNCHANGED <<s, job, origin, tgt, stop>>,
           UNCHANGED at \/ (at # "job" /\ at' # "job"),
           NEW a \in Axes, Finished(a)
    PROVE  Finished(a)'
<1>1. /\ Dead(a) => Dead(a)'
      /\ SeenOut(a) /\ cw[a] \in {"on", "off"} => SeenOut(a)' /\ cw'[a] = cw[a]
      /\ AtRest(a) => AtRest(a)'
      /\ Stands(a) => Stands(a)'
      /\ hmode' = hmode
    BY FrameOfRest, FrameOfAxis
<1>2. Waits(a) => Waits(a)'
    BY <1>1 DEF Waits
<1>3. CASE at # "job" /\ at' # "job"
    BY <1>1, <1>2, <1>3 DEF Finished, Turn
<1>4. CASE UNCHANGED at
    <2>1. Turn(a)' = Turn(a)
        BY <1>4 DEF Turn, axis
    <2>2. Rung(a) => Rung(a)'
        BY <1>1, <1>2 DEF Rung
    <2> QED
        BY <1>1, <1>2, <1>4, <2>1, <2>2 DEF Finished
<1> QED
    BY <1>3, <1>4

LEMMA FinishAround ==
    ASSUME PeersInv, DrivesTyped, FinishInv, Gui \/ Surroundings \/ UNCHANGED vars
    PROVE  FinishInv'
<1>1. UNCHANGED <<s, at, job, origin, tgt>>
    BY RestAround, RulesAssumption
<1>2. ASSUME NEW a \in Axes, Finished(a) PROVE Finished(a)'
    <2>1. CASE Untouched(a)
        BY <1>1, <1>2, <2>1, UntouchedIsFinished
    <2>2. CASE at # "job" /\ cw[a] = "off" /\ (Dead(a) => Dead(a)')
        BY <1>2, <2>2 DEF Finished, Turn, Waits
    <2> QED
        BY <2>1, <2>2, RestAround
<1> QED
    BY <1>1, <1>2 DEF FinishInv, Ended, PeersInv, SessionOk

LEMMA FinishFrame ==
    ASSUME Values, AloneInv, FinishInv, JobFrame \/ Frame
    PROVE  FinishInv'
<1>1. PeersInv /\ DrivesTyped /\ PlacesTyped
    BY DEF Values
<1>2. Exchange /\ UNCHANGED <<s, job, stop>> /\ (UNCHANGED at \/ (at # "job" /\ at' # "job"))
    BY DEF JobFrame, Frame
<1>3. s.homing => UNCHANGED <<origin, tgt>>
    BY DEF JobFrame, Frame, AloneInv, zeroVars
<1>4. s.homing => \A a \in Axes : Finished(a) => Finished(a)'
    BY <1>1, <1>2, <1>3, FinishedInFrame DEF AloneInv
<1> QED
    BY <1>1, <1>2, <1>4 DEF FinishInv, Ended, PeersInv, SessionOk

\* Steps that leave every axis untouched.
LEMMA FinishUntouched ==
    ASSUME PeersInv, FinishInv, s.homing => (\A a \in Axes : Untouched(a)), UNCHANGED <<s, job, origin, tgt>>,
           UNCHANGED at \/ (at # "job" /\ at' # "job")
    PROVE  FinishInv'
<1>1. ASSUME NEW a \in Axes, Finished(a), s.homing PROVE Finished(a)'
    BY <1>1, UntouchedIsFinished
<1> QED
    BY <1>1 DEF FinishInv, Ended, PeersInv, SessionOk

LEMMA FinishDrain ==
    ASSUME PeersInv, FinishInv, Drain
    PROVE  FinishInv'
<1>1. CASE HomeBegin
    <2>1. \E p, e : s' = [Idle EXCEPT !.homing = TRUE, !.mask = Head(queue).mask, !.batch = Head(queue).mask,
                                     !.pending = p, !.timer = HomeTmo, !.back = "drain", !.eff = e]
        BY <1>1 DEF HomeBegin
    <2>2. s'.rc = Idle.rc /\ s'.batch = Head(queue).mask
        BY <2>1, IdleOk DEF SFields
    <2>3. Head(queue).mask \subseteq Axes
        BY <1>1, HeadOfQueue DEF HomeBegin
    <2> QED
        BY <2>2, <2>3, IdleOk DEF FinishInv, Ended
<1>2. CASE DrainNothing \/ DrainStop
    <2>1. /\ UNCHANGED <<s, job, origin, tgt, cw, csp, pos, fresh, seen, hmode, on, out>> /\ (stop => stop')
          /\ at # "job" /\ at' # "job"
        BY <1>2 DEF DrainNothing, DrainStop, queueVars, zeroVars, imageVars, driveVars
    <2> QED
        BY <2>1, FinishUntouched DEF Untouched
<1>3. CASE ~HomeBegin /\ ~DrainNothing /\ ~DrainStop
    <2>1. ~s.homing
        BY <1>3 DEF Drain, Connect, ConnectOk, Disconnect, EnableBegin, DisableBegin, ResetBegin, doStop,
           ZeroBegin, doCenter, doRange, HomeRefused, Take
    <2>2. ~s'.homing
        BY <1>3, <2>1, DrainMoves, NoSessionOk
    <2> QED
        BY <2>2 DEF FinishInv
<1> QED
    BY <1>1, <1>2, <1>3

\* While a batch is being started nobody has got home.
LEMMA NobodyEndsInStart ==
    ASSUME PeersInv, Where, Starting, Climb, NEW a \in Axes
    PROVE  ~Ended(a)'
<1>0. DOMAIN s = SFields /\ s.rc \in [Axes -> StepRcs] /\ s.rc[a] = "RUNNING"
    BY DEF PeersInv, SessionOk, Starting
<1>1. CASE UNCHANGED s
    BY <1>0, <1>1 DEF Ended
<1>3. CASE \E b : s' = [s EXCEPT !.back = b]
    BY <1>0, <1>3 DEF Ended, SFields
<1>4. CASE Prepare
    <2>1. s' = s \/ \E c : s' = [s EXCEPT !.rc = [b \in Axes |-> IF b \in s.mask THEN "SETUP" ELSE s.rc[b]],
                                        !.culprit = c]
        BY <1>4 DEF Prepare
    <2>2. s' = s \/ s'.rc = [b \in Axes |-> IF b \in s.mask THEN "SETUP" ELSE s.rc[b]]
        BY <1>0, <2>1 DEF SFields
    <2> QED
        BY <1>0, <1>1, <2>2 DEF Ended
<1>5. CASE SetMode
    <2>1. s' = s \/ s' = [s EXCEPT !.rc = [b \in Axes |-> IF b \notin s.mask THEN @[b]
                                                          ELSE IF b < axis THEN "PEER" ELSE "SETUP"],
                                   !.culprit = {axis}]
        BY <1>5 DEF SetMode
    <2>2. s' = s \/ s'.rc = [b \in Axes |-> IF b \notin s.mask THEN s.rc[b]
                                             ELSE IF b < axis THEN "PEER" ELSE "SETUP"]
        BY <1>0, <2>1 DEF SFields
    <2> QED
        BY <1>0, <1>1, <2>2 DEF Ended
<1>6. CASE ArmFails
    <2> DEFINE stopped == job.stage # "arm" /\ stop
               blame(b) == IF stopped THEN "ABORTED" ELSE IF b < axis THEN "PEER" ELSE "SETUP"
    <2>1. s' = s \/ s' = [s EXCEPT !.rc = [b \in Axes |-> IF b \in s.mask THEN blame(b) ELSE @[b]],
                                   !.culprit = IF stopped THEN {} ELSE {axis}]
        BY <1>6 DEF ArmFails
    <2>2. s' = s \/ s'.rc = [b \in Axes |-> IF b \in s.mask THEN blame(b) ELSE s.rc[b]]
        <3> HIDE DEF stopped, blame
        <3> QED
            BY <1>0, <2>1 DEF SFields
    <2> QED
        BY <1>0, <1>1, <2>2 DEF Ended
<1>7. CASE StartDone
    BY <1>3, <1>7 DEF StartDone
<1>8. CASE Off \/ OffDone \/ Arm \/ Climbed \/ Started \/ EnableDone \/ DisableDone
    BY <1>1, <1>8 DEF Off, OffDone, Arm, Climbed, Started, EnableDone, DisableDone
<1>9. ~(FinishBegin \/ FinishAxis \/ Anchor \/ FinishEnd)
    BY DEF Starting, FinishBegin, FinishAxis, Anchor, FinishEnd
<1> QED
    BY <1>4, <1>5, <1>6, <1>7, <1>8, <1>9 DEF Climb

\* The rungs of a finish, for the axis whose turn it is: switched off, it has either
\* let go where it is seen to be, or somebody has seen to it that it is not measured;
\* on again, its CSP target is where it stands (em_disable, em_set_mode, em_arm).
Rungs == FinishAxis \/ Off \/ OffDone \/ SetMode \/ Arm \/ Climbed \/ ArmFails

LEMMA AxisInMask ==
    ASSUME TodoInv, FinishList, at = "job", job.kind = "finish", job.todo # <<>>
    PROVE  axis \in s.mask /\ axis \in Axes
<1>1. axis = job.todo[1] /\ 1 \in 1 .. Len(job.todo)
    BY HeadTailProperties DEF TodoInv, axis
<1> QED
    BY <1>1, AxisOfJob DEF FinishList

\* What a rung leaves alone.
LEMMA RungTouchesOne ==
    ASSUME PeersInv, TodoInv, DrivesTyped, PlacesTyped, Where, at = "job", job.kind = "finish", Rungs
    PROVE  /\ UNCHANGED <<s, at, origin, tgt, pos, fresh, on, out, stop>> /\ job.todo # <<>>
           /\ job'.kind = "finish" /\ job'.todo = job.todo
           /\ seen' = seen
           /\ \A b \in Axes \ {axis} : Untouched(b)
<1>0. /\ DOMAIN job = JobFields /\ DOMAIN cw = Axes /\ DOMAIN csp = Axes /\ job.stage # "go"
      /\ job.stage \in Standing => job.todo # <<>>
    BY DEF TodoInv, PeersInv, JobOk, PlacesTyped, Where
<1>1. UNCHANGED <<at, s, origin, tgt, pos, fresh, on, out, stop, seen>>
    BY DEF Rungs, FinishAxis, Off, OffDone, SetMode, Arm, Climbed, ArmFails, zeroVars, driveVars, queueVars
<1>2. job.todo # <<>>
    BY <1>0 DEF Rungs, FinishAxis, Off, OffDone, SetMode, Arm, Climbed, ArmFails, ReadyToArm, Standing
<1>3. \E st, m : job' = [job EXCEPT !.stage = st] \/ job' = [job EXCEPT !.stage = st, !.mode_ok = m]
    BY DEF Rungs, FinishAxis, Off, OffDone, SetMode, Arm, Climbed, ArmFails
<1>4. job'.kind = "finish" /\ job'.todo = job.todo
    BY <1>0, <1>3 DEF JobFields
<1>5. /\ cw' = cw \/ \E w : cw' = [cw EXCEPT ![axis] = w]
      /\ csp' = csp \/ \E x : csp' = [csp EXCEPT ![axis] = x]
      /\ hmode' \subseteq hmode
    BY DEF Rungs, FinishAxis, Off, OffDone, SetMode, Arm, Climbed, ArmFails, imageVars
<1>6. ASSUME NEW b \in Axes \ {axis} PROVE Untouched(b)
    <2>1. cw'[b] = cw[b] /\ csp'[b] = csp[b]
        BY <1>0, <1>5
    <2> QED
        BY <1>1, <1>5, <2>1 DEF Untouched
<1> QED
    BY <1>1, <1>2, <1>4, <1>6

\* The mirror that is not seen to show an axis energised shows it without torque, or
\* is stale because the bus is lost.
LEMMA NotEnabled ==
    ASSUME MirrorKept, s.homing, NEW a, ~is_enabled(a)
    PROVE  Lost \/ (fresh /\ a \notin seen.on)
    BY DEF MirrorKept, is_enabled, Lost

LEMMA RungClimbed ==
    ASSUME PeersInv, TodoInv, DrivesTyped, PlacesTyped, Where, MirrorKept, s.homing,
           at = "job", job.kind = "finish", Rungs, Rung(axis), axis \in Axes
    PROVE  Rung(axis)'
<1>0. /\ DOMAIN job = JobFields /\ DOMAIN cw = Axes /\ DOMAIN csp = Axes /\ job.stage # "go"
      /\ UNCHANGED <<s, pos, fresh, on, out, stop, seen>> /\ job.todo # <<>> /\ axis' = axis
    BY RungTouchesOne DEF TodoInv, PeersInv, JobOk, PlacesTyped, Where, axis
<1>1. Lost' = Lost /\ SeenOut(axis)' = SeenOut(axis)
    BY <1>0 DEF Lost, SeenOut
<1>2. CASE FinishAxis
    <2>1. /\ job.stage = "begin" /\ UNCHANGED <<cw, csp, hmode>>
          /\ job'.stage = IF is_enabled(axis) THEN "off" ELSE "mode"
        BY <1>0, <1>2 DEF FinishAxis, imageVars, JobFields
    <2>2. Waits(axis)
        BY <2>1 DEF Rung
    <2>3. ~is_enabled(axis) => Dead(axis)
        BY <2>2, NotEnabled DEF Waits, SeenOut, Dead, Down
    <2>4. Dead(axis)' = Dead(axis) /\ Waits(axis)' = Waits(axis)
        BY <1>0, <1>1, <2>1 DEF Dead, Down, Waits
    <2>5. CASE is_enabled(axis)
        <3>1. job'.stage = "off"
            BY <2>1, <2>5
        <3> QED
            BY <1>0, <2>2, <2>4, <3>1 DEF Rung
    <2>6. CASE ~is_enabled(axis)
        <3>1. job'.stage = "mode"
            BY <2>1, <2>6
        <3>2. cw[axis] = "on" /\ SeenOut(axis) /\ Dead(axis)
            BY <2>2, <2>3, <2>6 DEF Waits
        <3> QED
            BY <1>0, <1>1, <2>1, <2>4, <3>1, <3>2 DEF Rung
    <2> QED
        BY <2>5, <2>6
<1>3. CASE Off
    <2>1. job.stage = "off" /\ cw'[axis] = "off" /\ job'.stage = "offwait"
        BY <1>0, <1>3 DEF Off, JobFields
    <2>2. SeenOut(axis)
        BY <2>1 DEF Rung, Waits
    <2> QED
        BY <1>0, <1>1, <2>1, <2>2 DEF Rung
<1>4. CASE OffDone
    <2>1. /\ job.stage = "offwait" /\ UNCHANGED <<cw, csp, hmode>> /\ job'.stage = "mode"
          /\ stop \/ ~fresh \/ axis \notin seen.on \/ axis \in seen.fault
        BY <1>0, <1>4 DEF OffDone, imageVars, JobFields
    <2>2. cw[axis] = "off" /\ SeenOut(axis)
        BY <2>1 DEF Rung
    <2>3. Dead(axis)
        BY <2>1, <2>2 DEF Dead, Down, MirrorKept, Lost
    <2>4. Dead(axis)'
        BY <1>0, <1>1, <2>1, <2>3 DEF Dead, Down
    <2> QED
        BY <1>0, <1>1, <2>1, <2>2, <2>4 DEF Rung
<1>5. CASE SetMode
    <2>1. /\ job.stage = "mode" /\ UNCHANGED <<cw, csp>>
          /\ \/ job'.stage = "arm" /\ hmode' = hmode \ {axis}
             \/ job'.stage = "end" /\ UNCHANGED hmode
        BY <1>0, <1>5 DEF SetMode, JobFields
    <2>2. cw[axis] \in {"off", "on"} /\ SeenOut(axis) /\ Dead(axis)
        BY <2>1 DEF Rung
    <2>3. Dead(axis)'
        BY <1>0, <1>1, <2>1, <2>2 DEF Dead, Down
    <2> QED
        BY <1>0, <1>1, <2>1, <2>2, <2>3 DEF Rung
<1>6. CASE Arm
    <2>1. /\ job.stage = "arm" /\ job'.stage = "climb" /\ cw'[axis] = "climb" /\ UNCHANGED hmode
          /\ fresh /\ ~is_enabled(axis)
          /\ axis \notin hmode => csp'[axis] = seen.pos[axis]
        BY <1>0, <1>6 DEF Arm, ReadyToArm, JobFields
    <2>2. axis \notin hmode /\ SeenOut(axis)
        BY <2>1 DEF Rung
    <2>3. pos[axis] = seen.pos[axis]
        BY <2>1, <2>2 DEF is_enabled, SeenOut
    <2>4. AtRest(axis)'
        BY <1>0, <2>1, <2>2, <2>3 DEF AtRest, InCsp
    <2> QED
        BY <1>0, <2>1, <2>4 DEF Rung
<1>7. CASE Climbed
    <2>1. job.stage = "climb" /\ UNCHANGED <<cw, csp, hmode>> /\ job'.stage = "end"
        BY <1>0, <1>7 DEF Climbed, JobFields
    <2>2. AtRest(axis)
        BY <2>1 DEF Rung
    <2>3. AtRest(axis)'
        BY <1>0, <2>1, <2>2 DEF AtRest, InCsp
    <2> QED
        BY <1>0, <2>1, <2>3 DEF Rung
<1>8. CASE ArmFails
    <2>1. /\ job'.stage = "end" /\ UNCHANGED <<csp, hmode>>
          /\ \/ job.stage = "arm" /\ UNCHANGED cw
             \/ /\ job.stage = "climb"
                /\ stop \/ ~fresh \/ axis \in seen.fault
                /\ UNCHANGED cw \/ cw'[axis] = "off"
        BY <1>0, <1>8 DEF ArmFails, ReadyToArm, JobFields
    <2>2. CASE job.stage = "arm" /\ UNCHANGED cw
        <3>1. Dead(axis)
            BY <2>2 DEF Rung
        <3>2. Dead(axis)'
            BY <1>0, <1>1, <2>2, <3>1 DEF Dead, Down
        <3> QED
            BY <1>0, <2>1, <3>2 DEF Rung
    <2>3. CASE job.stage = "climb" /\ UNCHANGED cw
        <3>1. AtRest(axis)
            BY <2>3 DEF Rung
        <3>2. AtRest(axis)'
            BY <1>0, <2>1, <2>3, <3>1 DEF AtRest, InCsp
        <3> QED
            BY <1>0, <2>1, <3>2 DEF Rung
    <2>4. CASE cw'[axis] = "off" /\ (stop \/ ~fresh \/ axis \in seen.fault)
        <3>1. Dead(axis)'
            BY <1>0, <1>1, <2>4 DEF Dead, Down, MirrorKept, Lost
        <3> QED
            BY <1>0, <2>1, <3>1 DEF Rung
    <2> QED
        BY <2>1, <2>2, <2>3, <2>4
<1> QED
    BY <1>2, <1>3, <1>4, <1>5, <1>6, <1>7, <1>8 DEF Rungs

LEMMA FinishRung ==
    ASSUME Values, Where, FinishList, MirrorKept, FinishInv, at = "job", job.kind = "finish", Rungs
    PROVE  FinishInv'
<1>0. PeersInv /\ TodoInv /\ DrivesTyped /\ PlacesTyped /\ s.homing /\ ~s.spanning
    BY DEF Values, Where, Finishing
<1>1. /\ UNCHANGED <<s, at, origin, tgt, stop>> /\ job.todo # <<>>
      /\ job'.kind = "finish" /\ job'.todo = job.todo /\ axis' = axis
      /\ \A b \in Axes \ {axis} : Untouched(b)
      /\ axis \in s.mask /\ axis \in Axes
    BY <1>0, RungTouchesOne, AxisInMask DEF axis
<1>2. ASSUME NEW a \in s.batch, Ended(a) PROVE Finished(a)'
    <2>1. Finished(a) /\ a \in Axes
        BY <1>0, <1>2 DEF FinishInv, PeersInv, SessionOk
    <2>2. Turn(a)' = Turn(a) /\ (Turn(a) <=> a = axis)
        BY <1>1 DEF Turn
    <2>3. CASE a = axis
        <3>1. Rung(axis)
            BY <1>1, <2>1, <2>2, <2>3 DEF Finished
        <3>2. Rung(axis)'
            BY <1>0, <1>1, <3>1, RungClimbed
        <3>3. Rung(a)'
            BY <1>1, <2>3, <3>2 DEF Rung, Waits, SeenOut, Dead, Down, AtRest, InCsp
        <3> QED
            BY <1>1, <2>2, <2>3, <3>3 DEF Finished
    <2>4. CASE a # axis
        <3>1. Waits(a) => Waits(a)'
            BY <1>1, <2>1, <2>4, RestUntouched
        <3>2. Dead(a) \/ Stands(a) => Dead(a)' \/ Stands(a)'
            BY <1>1, <2>1, <2>4, RestUntouched
        <3> QED
            BY <1>1, <2>1, <2>2, <2>4, <3>1, <3>2 DEF Finished
    <2> QED
        BY <2>3, <2>4
<1> QED
    BY <1>1, <1>2 DEF FinishInv, Ended

\* A finish begins with every axis that got home waiting.
LEMMA FinishBegins ==
    ASSUME Values, FinishInv, FinishBegin
    PROVE  FinishInv'
<1>0. DOMAIN s = SFields /\ s.batch \subseteq Axes
    BY DEF Values, PeersInv, SessionOk
<1>1. /\ at = "clear" /\ at' = "job" /\ job'.kind = "finish" /\ job'.stage = "begin"
      /\ UNCHANGED <<cw, csp, hmode, on, pos, seen, fresh>>
      /\ s' = [s EXCEPT !.ends = <<>>]
    BY DEF FinishBegin, Ladder, imageVars, driveVars
<1>2. UNCHANGED <<s.homing, s.spanning, s.mask, s.batch, s.rc>>
    BY <1>0, <1>1 DEF SFields
<1>3. \A a : Waits(a)' = Waits(a)
    BY <1>1 DEF Waits, SeenOut
<1>4. ASSUME NEW a \in s.batch, Ended(a), Finished(a) PROVE Finished(a)'
    <2>1. a \in s.mask /\ Waits(a)
        BY <1>1, <1>4 DEF Finished, Turn
    <2>2. Rung(a)'
        BY <1>1, <1>3, <2>1 DEF Rung
    <2> QED
        BY <1>2, <1>3, <2>1, <2>2 DEF Finished
<1> QED
    BY <1>0, <1>1, <1>2, <1>4 DEF FinishInv, Ended

\* The display is put where the axis is: it stands, or it will not be measured.
LEMMA AnchorStands ==
    ASSUME Values, Where, Listed, FinishList, FinishInv, Anchor
    PROVE  FinishInv'
<1>0. /\ PeersInv /\ TodoInv /\ DrivesTyped /\ PlacesTyped /\ SessionTyped
      /\ at = "job" /\ job.kind = "finish" /\ job.stage = "end" /\ job.todo # <<>>
      /\ s.homing /\ ~s.spanning /\ axis \in s.mask /\ axis \in Axes
    BY AxisInMask DEF Anchor, Values, Where, Finishing, TodoInv, Standing
<1>1. DOMAIN s = SFields /\ DOMAIN job = JobFields /\ s.batch \subseteq Axes
    BY <1>0 DEF PeersInv, SessionOk, JobOk
<1>2. PICK e : s' = [s EXCEPT !.mask = @ \ {axis}, !.ends = e]
    BY DEF Anchor
<1>3. UNCHANGED <<s.homing, s.spanning, s.batch, s.rc>> /\ s'.mask = s.mask \ {axis}
    BY <1>1, <1>2 DEF SFields
<1>4. /\ at' = "job" /\ job'.kind = "finish" /\ job'.stage = "begin" /\ job'.todo = Tail(job.todo)
      /\ UNCHANGED <<cw, csp, hmode, on, out, pos, seen, fresh, stop>>
    <2>1. at' = at /\ job' = [nextAxis EXCEPT !.stage = "begin"] /\ UNCHANGED <<cw, csp, hmode, on, out, pos, seen, fresh, stop>>
        BY DEF Anchor, imageVars, driveVars
    <2> QED
        BY <1>0, <1>1, <2>1 DEF nextAxis, JobFields
<1>5. \A a : Untouched(a)
    BY <1>4 DEF Untouched
<1>6. \A c \in Axes \ {axis} : origin'[c] = origin[c] /\ tgt'[c] = tgt[c]
    BY <1>0 DEF Anchor, PlacesTyped
<1>7. PICK b : b = axis
    OBVIOUS
<1>8. b \in Axes /\ b \in s.mask
    BY <1>0, <1>7
<1>9. sent(b)' = seen.pos[b]
    <2>1. /\ origin'[b] = home_anchor(seen.pos[b], s.eff[b]).origin
          /\ tgt'[b] = home_anchor(seen.pos[b], s.eff[b]).tgt
        BY <1>0, <1>7 DEF Anchor, PlacesTyped
    <2>2. seen.pos[b] \in Int /\ s.eff[b] \in Int
        BY <1>0, <1>8 DEF DrivesTyped, Mirrors, SessionTyped
    <2>3. home_anchor(seen.pos[b], s.eff[b]).origin + home_anchor(seen.pos[b], s.eff[b]).tgt = seen.pos[b]
        BY <2>2 DEF home_anchor
    <2> QED
        BY <2>1, <2>3 DEF sent
<1>10. ASSUME NEW a \in s.batch, Ended(a), Finished(a) PROVE Finished(a)'
    <2>1. /\ Dead(a) => Dead(a)'
          /\ Waits(a) => Waits(a)'
          /\ AtRest(a) => AtRest(a)'
          /\ Stands(a) /\ a # b => Stands(a)'
        BY <1>1, <1>5, <1>6, <1>7, RestUntouched
    <2>2. Turn(a) <=> a = b
        BY <1>0, <1>7 DEF Turn
    <2>3. CASE a = b
        <3>1. Dead(a) \/ AtRest(a)
            BY <1>0, <1>8, <1>10, <2>2, <2>3 DEF Finished, Rung
        <3>2. AtRest(a)' => Stands(a)'
            BY <1>4, <1>9, <2>3 DEF Stands
        <3>3. a \notin s'.mask
            BY <1>3, <1>7, <2>3
        <3> QED
            BY <1>4, <2>1, <3>1, <3>2, <3>3 DEF Finished
    <2>4. CASE a # b /\ a \in s.mask
        <3>1. Waits(a)
            BY <1>10, <2>2, <2>4 DEF Finished
        <3>2. Waits(a)' /\ Rung(a)'
            BY <1>4, <2>1, <3>1 DEF Rung
        <3>3. a \in s'.mask
            BY <1>3, <1>7, <2>4
        <3> QED
            BY <3>2, <3>3 DEF Finished
    <2>5. CASE a # b /\ a \notin s.mask
        <3>1. Dead(a) \/ Stands(a)
            BY <1>10, <2>5 DEF Finished
        <3>2. a \notin s'.mask
            BY <1>3, <2>5
        <3> QED
            BY <1>4, <2>1, <2>5, <3>1, <3>2 DEF Finished
    <2> QED
        BY <2>3, <2>4, <2>5
<1> QED
    BY <1>0, <1>1, <1>3, <1>10 DEF FinishInv, Ended

LEMMA FinishClimb ==
    ASSUME Values, Where, Listed, AloneInv, FinishList, MirrorKept, FinishInv, Climb
    PROVE  FinishInv'
<1>0. PeersInv /\ TodoInv /\ DOMAIN s = SFields /\ s.batch \subseteq Axes
    BY DEF Values, PeersInv, SessionOk
<1>1. CASE FinishBegin
    BY <1>1, FinishBegins
<1>2. CASE Anchor
    BY <1>2, AnchorStands
<1>3. CASE FinishEnd
    BY <1>0, <1>3, FinishMoves DEF FinishInv
<1>4. CASE Starting
    <2>1. \A a \in Axes : ~Ended(a)'
        BY <1>0, <1>4, NobodyEndsInStart
    <2>2. s'.batch = s.batch
        <3>1. \/ s' = s
              \/ \E r, c : s' = [s EXCEPT !.rc = r, !.culprit = c]
              \/ \E b : s' = [s EXCEPT !.back = b]
            <4>1. CASE Prepare \/ SetMode \/ ArmFails
                BY <4>1 DEF Prepare, SetMode, ArmFails
            <4>2. CASE StartDone \/ Off \/ OffDone \/ Arm \/ Climbed \/ Started \/ EnableDone \/ DisableDone
                BY <4>2 DEF StartDone, Off, OffDone, Arm, Climbed, Started, EnableDone, DisableDone
            <4>3. ~(FinishBegin \/ FinishAxis \/ Anchor \/ FinishEnd)
                BY <1>4 DEF Starting, FinishBegin, FinishAxis, Anchor, FinishEnd
            <4> QED
                BY <4>1, <4>2, <4>3 DEF Climb
        <3> QED
            BY <1>0, <3>1 DEF SFields
    <2> QED
        BY <1>0, <2>1, <2>2 DEF FinishInv
<1>5. CASE at = "job" /\ job.kind = "finish" /\ ~Anchor /\ ~FinishEnd
    <2>1. job.stage # "go"
        BY <1>5 DEF Where
    <2>2. Rungs
        BY <1>5, <2>1 DEF Climb, Rungs, Prepare, Started, EnableDone, DisableDone, StartDone, FinishBegin, JobOver
    <2> QED
        BY <1>5, <2>2, FinishRung
<1>6. CASE at = "job" /\ job.kind \notin {"start", "finish"}
    <2>1. ~s.homing
        BY <1>6 DEF AloneInv
    <2>2. ~s'.homing
        BY <1>0, <1>6, <2>1, MovesOfClimb, FinishMoves DEF ClimbMoves, Starting, Finishing
    <2> QED
        BY <2>2 DEF FinishInv
<1>7. at = "job" \/ FinishBegin
    BY DEF Climb, Prepare, Off, OffDone, SetMode, Arm, Climbed, Started, ArmFails, ReadyToArm, JobOver,
       EnableDone, DisableDone, StartDone, FinishAxis, Anchor, FinishEnd
<1> QED
    BY <1>1, <1>2, <1>3, <1>4, <1>5, <1>6, <1>7 DEF Starting

\* A look finds an axis at home only where it sees it energised, and stops it there.
LEMMA LookFinds ==
    ASSUME PeersInv, FinishInv, serviceHoming
    PROVE  FinishInv'
<1>0. /\ DOMAIN s = SFields /\ s.batch \subseteq Axes /\ at = "homing"
      /\ UNCHANGED <<job, origin, tgt, csp, hmode, on, out, pos, seen, fresh, stop>>
    BY DEF PeersInv, SessionOk, serviceHoming, zeroVars, driveVars, queueVars
<1>1. CASE UNCHANGED <<cw, s>> /\ at' = "span"
    <2>1. \A a \in Axes : Untouched(a)
        BY <1>0, <1>1 DEF Untouched
    <2> QED
        BY <1>0, <1>1, <2>1, FinishUntouched
<1>2. CASE s.homing /\ ~s.spanning /\ ~(UNCHANGED <<cw, s>> /\ at' = "span")
    <2>1. PICK rc \in [Axes -> StepRcs] :
              /\ \A a \in Axes : rc[a] \in IF a \in s.mask /\ s.rc[a] = "RUNNING" THEN home_step(a) ELSE {s.rc[a]}
              /\ HomePass(rc)
        BY <1>2 DEF serviceHoming
    <2> DEFINE failed == \E a \in s.mask : s.rc[a] = "RUNNING" /\ rc[a] \in StepFails
               rc1 == [a \in Axes |-> IF a \in s.mask /\ rc[a] = "RUNNING" /\ failed THEN "PEER" ELSE rc[a]]
               halt == {a \in s.mask : s.rc[a] = "RUNNING" /\ rc1[a] \in {"ABORTED", "ATTAINED", "PEER"}}
    <2>2. /\ cw' = [a \in Axes |-> IF a \in halt THEN "on" ELSE cw[a]]
          /\ \E t, c : s' = [s EXCEPT !.rc = rc1, !.timer = t, !.culprit = c]
          /\ at' # "job"
        BY <2>1 DEF HomePass
    <2>3. s'.rc = rc1 /\ UNCHANGED <<s.mask, s.batch>>
        <3> HIDE DEF rc1
        <3> QED
            BY <1>0, <2>2 DEF SFields
    <2>4. ASSUME NEW a \in s.batch, s'.rc[a] = "ATTAINED" PROVE Finished(a)'
        <3>1. rc[a] = "ATTAINED" /\ rc1[a] = "ATTAINED" /\ a \in Axes
            BY <1>0, <2>3, <2>4
        <3>2. CASE Ended(a)
            <4>1. a \in s.mask /\ Waits(a)
                BY <1>0, <1>2, <2>4, <3>2 DEF FinishInv, Finished, Turn
            <4>2. cw'[a] = cw[a]
                BY <2>2, <3>1, <3>2 DEF Ended
            <4>3. Waits(a)'
                BY <1>0, <4>1, <4>2 DEF Waits, SeenOut
            <4> QED
                BY <2>2, <2>3, <4>1, <4>3 DEF Finished, Turn
        <3>3. CASE ~Ended(a)
            <4>1. a \in s.mask /\ s.rc[a] = "RUNNING" /\ "ATTAINED" \in home_step(a)
                BY <2>1, <3>1, <3>3 DEF Ended
            <4>2. a \in seen.on
                BY <4>1 DEF home_step, is_enabled
            <4>3. cw'[a] = "on"
                BY <2>2, <3>1, <4>1
            <4>4. Waits(a)'
                BY <1>0, <4>2, <4>3 DEF Waits, SeenOut
            <4> QED
                BY <2>2, <2>3, <4>1, <4>4 DEF Finished, Turn
        <3> QED
            BY <3>2, <3>3
    <2> QED
        BY <2>4, <2>3 DEF FinishInv, Ended
<1>3. CASE ~(s.homing /\ ~s.spanning) /\ ~(UNCHANGED <<cw, s>> /\ at' = "span")
    BY <1>3 DEF serviceHoming
<1> QED
    BY <1>1, <1>2, <1>3

LEMMA FinishLoop ==
    ASSUME Values, Where, AloneInv, FinishInv, Loop
    PROVE  FinishInv'
<1>0. PeersInv /\ DOMAIN s = SFields /\ s.batch \subseteq Axes
    BY DEF Values, PeersInv, SessionOk
<1>1. CASE serviceHoming
    BY <1>0, <1>1, LookFinds
<1>2. CASE Frame
    BY <1>2, FinishFrame
<1>3. CASE ~s'.homing \/ s'.spanning
    BY <1>3 DEF FinishInv
<1>4. CASE ~serviceHoming /\ ~Frame /\ s'.homing /\ ~s'.spanning
    <2>1. /\ s.homing /\ ~s.spanning /\ at # "zero" /\ at # "recover" /\ s' # NoSession
        <3>1. s' # NoSession
            BY <1>4, NoSessionOk
        <3>2. UNCHANGED <<s.homing, s.spanning>>
            BY <1>0, <1>4, <3>1, LoopMoves
        <3> QED
            BY <1>4, <3>1, <3>2 DEF AloneInv, Where
    <2>2. Top \/ serviceSpan \/ interpolate \/ FrameClosed
        BY <1>4, <2>1 DEF Loop, Recover, Zero
    <2>3. /\ at # "job" /\ at' # "job"
          /\ UNCHANGED <<s, job, origin, cw, pos, seen, fresh, on, out, hmode, stop>>
        BY <2>1, <2>2 DEF Top, teardown, serviceSpan, interpolate, FrameClosed, zeroVars, imageVars,
           driveVars, queueVars
    <2>4. CASE ~interpolate
        <3>1. UNCHANGED <<csp, tgt>>
            BY <2>1, <2>2, <2>4 DEF Top, teardown, serviceSpan, FrameClosed, imageVars
        <3> QED
            BY <1>0, <2>3, <3>1, FinishUntouched DEF Untouched
    <2>5. CASE interpolate
        <3>1. ASSUME NEW a \in Axes, a \in s.mask PROVE csp'[a] = csp[a] /\ tgt'[a] = tgt[a]
            BY <2>5, <3>1 DEF interpolate
        <3>2. ASSUME NEW a \in s.batch, Ended(a) PROVE Finished(a)'
            <4>1. Finished(a) /\ a \in s.mask
                BY <2>1, <2>3, <3>2 DEF FinishInv, Finished
            <4>2. Untouched(a) /\ origin'[a] = origin[a] /\ tgt'[a] = tgt[a] /\ s'.mask = s.mask
                BY <1>0, <2>3, <3>1, <4>1 DEF Untouched
            <4> QED
                BY <2>3, <4>1, <4>2, UntouchedIsFinished
        <3> QED
            BY <2>3, <3>2 DEF FinishInv, Ended
    <2> QED
        BY <2>4, <2>5
<1> QED
    BY <1>1, <1>2, <1>3, <1>4

LEMMA FinishKept ==
    ASSUME Values, Where, Listed, AloneInv, FinishList, MirrorKept, FinishInv, [Next]_vars
    PROVE  FinishInv'
<1>1. PeersInv /\ DrivesTyped
    BY DEF Values
<1> QED
    BY <1>1, FinishAround, FinishFrame, FinishDrain, FinishClimb, FinishLoop DEF Next

-----------------------------------------------------------------------------
(* The measurement                                                         *)

\* What leaves an axis alone leaves its measurement alone.
LEMMA TrackUntouched ==
    ASSUME NEW a, Untouched(a), s' = s, origin'[a] = origin[a], tgt'[a] = tgt[a], Dead(a) \/ Track(a)
    PROVE  Dead(a)' \/ Track(a)'
<1>1. CASE Dead(a)
    BY <1>1, RestUntouched
<1>2. CASE Track(a)
    BY <1>2 DEF Track, Untouched, InCsp, sent
<1> QED
    BY <1>1, <1>2

LEMMA SpanUntouched ==
    ASSUME PeersInv, SpanInv, s' = s,
           s.spanning => \A a \in s.smask : Untouched(a) /\ origin'[a] = origin[a] /\ tgt'[a] = tgt[a]
    PROVE  SpanInv'
<1>1. ASSUME s.spanning, NEW a \in s.smask, Dead(a) \/ Track(a) PROVE Dead(a)' \/ Track(a)'
    BY <1>1, TrackUntouched
<1> QED
    BY <1>1 DEF SpanInv

LEMMA SpanAround ==
    ASSUME PeersInv, DrivesTyped, SpanInv, Gui \/ Surroundings \/ UNCHANGED vars
    PROVE  SpanInv'
<1>1. UNCHANGED <<s, at, job, origin, tgt>>
    BY RestAround, RulesAssumption
<1>2. ASSUME NEW a \in Axes, Dead(a) \/ Track(a) PROVE Dead(a)' \/ Track(a)'
    <2>1. CASE Untouched(a)
        BY <1>1, <1>2, <2>1, TrackUntouched
    <2>2. CASE cw[a] = "off" /\ (Dead(a) => Dead(a)')
        BY <1>2, <2>2 DEF Track, InCsp
    <2> QED
        BY <2>1, <2>2, RestAround
<1>3. s.spanning => s.smask \subseteq Axes
    BY DEF SpanInv, PeersInv, SessionOk
<1> QED
    BY <1>1, <1>2, <1>3 DEF SpanInv

LEMMA SpanFrame ==
    ASSUME SensorInOnePiece, Values, AloneInv, SpanInv, JobFrame \/ Frame
    PROVE  SpanInv'
<1>1. PeersInv /\ DrivesTyped /\ PlacesTyped
    BY DEF Values
<1>2. Exchange /\ UNCHANGED <<s, stop>>
    BY DEF JobFrame, Frame
<1>3. s.homing => UNCHANGED <<origin, tgt>>
    BY DEF JobFrame, Frame, AloneInv, zeroVars
<1>4. ASSUME s.homing, NEW a \in Axes, Dead(a) \/ Track(a) PROVE Dead(a)' \/ Track(a)'
    BY <1>1, <1>2, <1>3, <1>4, FrameOfRest, TrackInFrame DEF AloneInv
<1>5. s.spanning => s.smask \subseteq Axes
    BY <1>1 DEF SpanInv, PeersInv, SessionOk
<1> QED
    BY <1>2, <1>4, <1>5 DEF SpanInv

LEMMA SpanDrain ==
    ASSUME PeersInv, SpanInv, Drain
    PROVE  SpanInv'
<1>1. CASE DrainNothing \/ DrainStop
    <2>1. UNCHANGED <<s, origin, tgt, cw, csp, pos, fresh, seen, hmode, on, out>> /\ (stop => stop')
        BY <1>1 DEF DrainNothing, DrainStop, queueVars, zeroVars, imageVars, driveVars
    <2> QED
        BY <2>1, SpanUntouched DEF Untouched
<1>2. CASE ~DrainNothing /\ ~DrainStop
    <2>1. ~s.homing
        BY <1>2 DEF Drain, Connect, ConnectOk, Disconnect, EnableBegin, DisableBegin, ResetBegin, doStop,
           ZeroBegin, doCenter, doRange, HomeRefused, HomeBegin, Take
    <2>2. ~NoSession.spanning
        BY DEF NoSession
    <2>3. ~s'.spanning
        BY <2>1, <2>2, DrainMoves DEF SpanInv
    <2> QED
        BY <2>3 DEF SpanInv
<1> QED
    BY <1>1, <1>2

\* A measurement begins with every axis standing where it is displayed.
LEMMA SpanBegins ==
    ASSUME SensorInOnePiece, Values, Where, Listed, FinishInv, FinishEnd
    PROVE  SpanInv'
<1>0. /\ PeersInv /\ DrivesTyped /\ PlacesTyped /\ DOMAIN s = SFields /\ s.batch \subseteq Axes
      /\ s.mask \subseteq Axes
    BY DEF Values, PeersInv, SessionOk
<1>1. /\ job.todo = <<>> /\ at = "job" /\ job.kind = "finish" /\ s.homing /\ ~s.spanning
      /\ UNCHANGED <<origin, tgt, cw, csp, hmode, on, out, pos, seen, fresh, stop>>
    BY DEF FinishEnd, JobOver, Where, Finishing, zeroVars, imageVars, driveVars, queueVars
<1>2. s.mask = {}
    <2>1. Len(job.todo) = 0
        BY <1>1
    <2> QED
        BY <1>1, <2>1 DEF Listed
<1>3. CASE s' = Idle
    <2>1. ~s'.spanning
        <3>1. Idle.spanning = NoSession.spanning
            BY NoSessionOk DEF Idle, SFields
        <3> QED
            BY <1>3, <3>1 DEF NoSession
    <2> QED
        BY <2>1 DEF SpanInv
<1>4. CASE s' = beginSpan(s.batch) /\ \A a \in s.batch : Ended(a)
    <2>1. /\ s'.homing = TRUE /\ s'.mask = s.batch /\ s'.smask = s.batch /\ s'.p1 = All(0)
          /\ s'.step = [a \in Axes |-> IF a \notin s.batch THEN "IDLE"
                                       ELSE IF seen.pos[a] \in Sensor THEN "BACKOFF" ELSE "SEEK"]
        BY <1>0, <1>4 DEF beginSpan, SFields
    <2>2. ASSUME NEW a \in s.batch PROVE Dead(a)' \/ Track(a)'
        <3>1. Dead(a) \/ Stands(a)
            BY <1>1, <1>2, <1>4 DEF FinishInv, Finished
        <3>2. Dead(a) => Dead(a)'
            BY <1>1 DEF Dead, Down, Lost
        <3>3. CASE Stands(a)
            <4>1. seen.pos[a] \in Int /\ EdgeIn \in Int /\ EdgeOut \in Int /\ Lead \in Nat \ {0} /\ Sensor = EdgeIn .. EdgeOut
                BY <1>0, SensorEdges, WorkerAssumption DEF DrivesTyped, Mirrors
            <4>2. /\ sent(a)' = seen.pos[a] /\ pos'[a] = seen.pos[a] /\ seen'.pos[a] = seen.pos[a]
                  /\ csp'[a] = seen.pos[a] /\ InCsp(a)'
                BY <1>1, <3>3 DEF Stands, AtRest, InCsp, sent
            <4>3. s'.p1[a] \in Int /\ s'.step[a] = IF seen.pos[a] \in Sensor THEN "BACKOFF" ELSE "SEEK"
                BY <1>0, <2>1 DEF All
            <4>4. \A e : Course(s'.step[a], seen.pos[a], seen.pos[a], seen.pos[a], e)
                BY <4>1, <4>3 DEF Course
            <4> QED
                BY <4>2, <4>3, <4>4 DEF Track
        <3> QED
            BY <3>1, <3>2, <3>3
    <2> QED
        BY <2>1, <2>2 DEF SpanInv
<1> QED
    BY <1>3, <1>4 DEF FinishEnd, Ended

LEMMA SpanClimb ==
    ASSUME SensorInOnePiece, Values, Where, Listed, AloneInv, FinishInv, SpanInv, Climb
    PROVE  SpanInv'
<1>0. PeersInv /\ TodoInv
    BY DEF Values
<1>1. CASE FinishEnd
    BY <1>1, SpanBegins
<1>2. CASE ~FinishEnd
    <2>1. at = "job" \/ FinishBegin
        BY DEF Climb, Prepare, Off, OffDone, SetMode, Arm, Climbed, Started, ArmFails, ReadyToArm, JobOver,
           EnableDone, DisableDone, StartDone, FinishAxis, Anchor, FinishEnd
    <2>2. ~s.spanning
        BY <1>0, <2>1, FinishMoves DEF Where, Finishing, Starting, AloneInv, SpanInv
    <2>3. s'.spanning = s.spanning
        BY <1>0, <1>2, MovesOfClimb, FinishMoves DEF ClimbMoves
    <2> QED
        BY <2>2, <2>3 DEF SpanInv
<1> QED
    BY <1>1, <1>2

LEMMA SpanLoop ==
    ASSUME SensorInOnePiece, Values, Where, AloneInv, SpanInv, WidthIsSignal, Loop
    PROVE  SpanInv'
<1>0. /\ PeersInv /\ DrivesTyped /\ PlacesTyped /\ SessionTyped /\ DOMAIN s = SFields
      /\ s.spanning => s.smask \subseteq Axes /\ s.homing
    BY DEF Values, PeersInv, SessionOk, SpanInv
<1>1. CASE Frame
    BY <1>1, SpanFrame
<1>2. CASE serviceSpan /\ s.spanning
    <2>1. SpanPass /\ UNCHANGED <<origin, cw, hmode, driveVars>>
        BY <1>2 DEF serviceSpan, zeroVars
    <2> QED
        BY <1>0, <1>2, <2>1, SpanPassKept
<1>3. CASE ~s'.spanning
    BY <1>3 DEF SpanInv
<1>4. CASE ~Frame /\ ~(serviceSpan /\ s.spanning) /\ s'.spanning
    <2>1. s' # NoSession /\ s.spanning /\ s.homing /\ at # "zero" /\ at # "recover"
        <3>1. s' # NoSession
            BY <1>4 DEF NoSession
        <3>2. s.spanning
            BY <1>0, <1>4, <3>1, LoopMoves DEF SpanInv
        <3> QED
            BY <1>0, <3>1, <3>2 DEF AloneInv, Where
    <2>2. Top \/ serviceHoming \/ interpolate \/ FrameClosed
        BY <1>4, <2>1 DEF Loop, Recover, Zero, serviceSpan
    <2>3. UNCHANGED <<s, origin, cw, pos, seen, fresh, on, out, hmode, stop>>
        BY <2>1, <2>2 DEF Top, teardown, serviceHoming, interpolate, FrameClosed, zeroVars, imageVars,
           driveVars, queueVars
    <2>4. \A a \in s.smask : csp'[a] = csp[a] /\ tgt'[a] = tgt[a]
        <3>1. CASE interpolate
            BY <1>0, <2>1, <3>1 DEF interpolate, SpanInv
        <3>2. CASE ~interpolate
            BY <2>1, <2>2, <3>2 DEF Top, teardown, serviceHoming, FrameClosed, imageVars
        <3> QED
            BY <3>1, <3>2
    <2> QED
        BY <1>0, <2>3, <2>4, SpanUntouched DEF Untouched
<1> QED
    BY <1>1, <1>2, <1>3, <1>4

LEMMA SpanKept ==
    ASSUME SensorInOnePiece, Values, Where, Listed, AloneInv, FinishInv, SpanInv, WidthIsSignal, [Next]_vars
    PROVE  SpanInv'
<1>1. PeersInv /\ DrivesTyped
    BY DEF Values
<1> QED
    BY <1>1, SpanAround, SpanFrame, SpanDrain, SpanClimb, SpanLoop DEF Next

\* Only a look at the signals writes a width; the rest keeps it or clears it.
LEMMA WidthsElsewhere ==
    ASSUME PeersInv, SensorInOnePiece, [Next]_vars, ~(s.spanning /\ serviceSpan), NEW a \in Axes
    PROVE  s'.width[a] \in {s.width[a], -1}
<1>0. DOMAIN s = SFields /\ DOMAIN NoSession = SFields /\ NoSession.width[a] = -1
    BY NoSessionOk DEF PeersInv, SessionOk, NoSession, All
<1>1. Idle.width = s.width /\ DOMAIN Idle = SFields
    BY <1>0 DEF Idle, SFields
<1>2. CASE s' = s \/ s' = NoSession \/ s' = Idle
    BY <1>0, <1>1, <1>2
<1>3. CASE \E p : s' = [s EXCEPT !.pending = p]
    BY <1>0, <1>3 DEF SFields
<1>4. CASE Drain
    <2>1. CASE HomeBegin
        <3>1. \E m, p, e : s' = [Idle EXCEPT !.homing = TRUE, !.mask = m, !.batch = m,
                                         !.pending = p, !.timer = HomeTmo, !.back = "drain", !.eff = e]
            BY <2>1 DEF HomeBegin
        <3>2. s'.width = Idle.width
            BY <1>1, <3>1 DEF SFields
        <3> QED
            BY <1>1, <3>2
    <2>2. CASE ~HomeBegin
        <3>1. s' = s \/ s' = NoSession \/ \E p : s' = [s EXCEPT !.pending = p]
            BY <1>4, <2>2 DEF Drain, DrainNothing, DrainStop, Connect, ConnectOk, Disconnect, teardown,
               EnableBegin, DisableBegin, ResetBegin, doStop, ZeroBegin, doCenter, doRange, HomeRefused
        <3> QED
            BY <1>2, <1>3, <3>1
    <2> QED
        BY <2>1, <2>2
<1>5. CASE Climb
    <2>1. CASE \E r, c : s' = [s EXCEPT !.rc = r, !.culprit = c]
        BY <1>0, <2>1 DEF SFields
    <2>2. CASE Prepare \/ SetMode \/ ArmFails
        <3>1. s' = s \/ \E r, c : s' = [s EXCEPT !.rc = r, !.culprit = c]
            BY <2>2 DEF Prepare, SetMode, ArmFails
        <3> QED
            BY <1>2, <2>1, <3>1
    <2>3. CASE StartDone
        <3>1. s' = [s EXCEPT !.back = "span"]
            BY <2>3 DEF StartDone
        <3> QED
            BY <1>0, <3>1 DEF SFields
    <2>4. CASE FinishBegin
        <3>1. s' = [s EXCEPT !.ends = <<>>]
            BY <2>4 DEF FinishBegin
        <3> QED
            BY <1>0, <3>1 DEF SFields
    <2>5. CASE Anchor
        <3>1. \E m, e : s' = [s EXCEPT !.mask = m, !.ends = e]
            BY <2>5 DEF Anchor
        <3> QED
            BY <1>0, <3>1 DEF SFields
    <2>6. CASE FinishEnd
        <3>1. s' = Idle \/ s' = beginSpan(s.batch)
            BY <2>6 DEF FinishEnd
        <3>2. CASE s' = beginSpan(s.batch)
            <4>1. s'.width = [b \in Axes |-> IF b \in s.batch THEN -1 ELSE s.width[b]]
                BY <1>0, <3>2 DEF beginSpan, SFields
            <4> QED
                BY <4>1
        <3> QED
            BY <1>2, <3>1, <3>2
    <2>7. CASE Off \/ OffDone \/ Arm \/ Climbed \/ Started \/ EnableDone \/ DisableDone \/ FinishAxis
        BY <1>2, <2>7 DEF Off, OffDone, Arm, Climbed, Started, EnableDone, DisableDone, FinishAxis
    <2> QED
        BY <1>5, <2>2, <2>3, <2>4, <2>5, <2>6, <2>7 DEF Climb
<1>6. CASE Loop
    <2>1. CASE serviceHoming
        <3>1. s' = s \/ \E rc : HomePass(rc)
            BY <2>1 DEF serviceHoming
        <3>2. ASSUME NEW rc, HomePass(rc) PROVE s'.width = s.width
            <4>1. \E r, t, c : s' = [s EXCEPT !.rc = r, !.timer = t, !.culprit = c]
                BY <3>2 DEF HomePass
            <4> QED
                BY <1>0, <4>1 DEF SFields
        <3> QED
            BY <1>2, <3>1, <3>2
    <2>2. CASE ~serviceHoming
        <3>1. s' = s \/ s' = NoSession
            BY <1>6, <2>2 DEF Loop, Top, teardown, serviceSpan, interpolate, Frame, FrameClosed, Recover, Zero
        <3> QED
            BY <1>2, <3>1
    <2> QED
        BY <2>1, <2>2
<1>7. CASE Gui \/ Surroundings \/ JobFrame \/ UNCHANGED vars
    <2>1. s' = s
        BY <1>7 DEF Gui, Post, SetTarget, StopLook, StopAct, requestQuit, Surroundings, Push, Trip,
           JobFrame, vars
    <2> QED
        BY <1>2, <2>1
<1> QED
    BY <1>4, <1>5, <1>6, <1>7 DEF Next

\* What a measurement rests on, from the search for home to its end.
MeasureInv == SessionInv /\ AloneInv /\ FinishList /\ FinishInv /\ SpanInv /\ WidthIsSignal

LEMMA MeasureBegins == Init => MeasureInv
<1> SUFFICES ASSUME Init PROVE MeasureInv
    OBVIOUS
<1>1. at = "top" /\ s = NoSession /\ seen.fault = {}
    BY DEF Init
<1>2. AloneInv /\ FinishList /\ FinishInv
    BY <1>1, NoSessionOk DEF AloneInv, FinishList, FinishInv
<1>3. SpanInv /\ WidthIsSignal
    BY <1>1 DEF SpanInv, WidthIsSignal, NoSession, All
<1> QED
    BY <1>2, <1>3, SessionBegins DEF MeasureInv

LEMMA MeasureKept ==
    SensorInOnePiece /\ MeasureInv /\ MirrorKept /\ [Next]_vars => MeasureInv'
<1> SUFFICES ASSUME SensorInOnePiece, MeasureInv, MirrorKept, [Next]_vars PROVE MeasureInv'
    OBVIOUS
<1>1. /\ SessionInv /\ AloneInv /\ FinishList /\ FinishInv /\ SpanInv /\ WidthIsSignal
      /\ Values /\ Where /\ Listed
    BY DEF MeasureInv, SessionInv
<1>2. PeersInv /\ TodoInv /\ DrivesTyped /\ PlacesTyped /\ SessionTyped
    BY <1>1 DEF Values
<1>3. SessionInv' /\ AloneInv' /\ FinishList' /\ FinishInv' /\ SpanInv'
    BY <1>1, <1>2, SessionKept, AloneKept, FinishListKept, FinishKept, SpanKept
<1>4. WidthIsSignal'
    <2>1. CASE s.spanning /\ serviceSpan
        <3>1. SpanPass /\ UNCHANGED <<origin, cw, hmode, driveVars>>
            BY <2>1 DEF serviceSpan, zeroVars
        <3> QED
            BY <1>1, <1>2, <2>1, <3>1, SpanPassKept
    <2>2. CASE ~(s.spanning /\ serviceSpan)
        BY <1>1, <1>2, <2>2, WidthsElsewhere DEF WidthIsSignal
    <2> QED
        BY <2>1, <2>2
<1> QED
    BY <1>3, <1>4 DEF MeasureInv

\* Where the origin signal is on in one piece, a width that is shown is that of the
\* signal to within the lead of the target over the axis, as long as the mirror is
\* fresh whenever a session is on and every drive is in OP: whatever axes are
\* homed, pushed, stopped or in fault meanwhile, and whatever the axis stood on when
\* its measurement began (em_home_finish, beginSpan, serviceSpan, finishSpan).
THEOREM MirrorKeepsWidths ==
    ASSUME SensorInOnePiece
    PROVE  Spec /\ []MirrorKept => []WidthIsSignal
<1>1. Init => MeasureInv
    BY MeasureBegins
<1>2. MeasureInv /\ MirrorKept /\ [Next]_vars => MeasureInv'
    BY MeasureKept
<1>3. MeasureInv => WidthIsSignal
    BY DEF MeasureInv
<1> QED
    BY <1>1, <1>2, <1>3, PTL DEF Spec

\* That the mirror is kept need not be assumed where only drives that left OP cost
\* frames, or where none leaves OP and fewer frames come back short than spoil it.
THEOREM WidthsAreMeasured ==
    ASSUME SensorInOnePiece, Undisturbed
    PROVE  Spec => []WidthIsSignal
    BY MirrorStaysFresh, MirrorKeepsWidths, PTL

-----------------------------------------------------------------------------
(* While every frame of enabling and of a homing session comes back in full *)

\* No drive has left OP, and no frame was short.
EveryFrameFull == out = {} /\ bad = 0

\* So it is while the axes are enabled, and during a homing session.
RisesInFull == (at = "job" /\ job.kind = "enable") \/ s.homing => EveryFrameFull

\* An axis that is held is seen energised, and one that has left OP is not
\* energised; after a full frame the mirror shows what is there; and a bus that is
\* closed energises nobody.
FullInv ==
    /\ held \intersect on \subseteq seen.on /\ on \intersect out = {}
    /\ ready => conn /\ (bad = 0 => fresh /\ on \subseteq seen.on /\ seen.pos = pos)
    /\ ~ready => on = {}

\* An axis in CSP that is not searching, with its CSP target where it is.
Calm(a) == a \notin hmode => /\ cw[a] \in {"off", "climb", "last", "on"}
                             /\ csp[a] = pos[a] /\ pos[a] = seen.pos[a]

\* What a frame does to an axis, and to the mirror, in full or short.
LEMMA AnyExchange ==
    ASSUME PeersInv, DrivesTyped, PlacesTyped, Exchange, NEW a \in Axes
    PROVE  /\ UNCHANGED <<fault, out, csp, hmode>>
           /\ a \in on' => /\ (a \in on \/ cw[a] = "last") /\ cw[a] # "off"
                           /\ a \in on \/ a \notin out
           /\ cw'[a] \in {"climb", "last"} => cw[a] \in {"climb", "last"} /\ (a \in on' => a \in on)
           /\ cw[a] = "off" => cw'[a] = "off"
           /\ \/ seen'.on = on' /\ seen'.pos = pos' /\ fresh' = TRUE /\ bad' = 0
              \/ seen' = seen /\ bad' # 0
<1> DEFINE last     == {b \in Axes : cw[b] = "last" /\ b \notin fault \union out}
           climbing == {b \in Axes : /\ cw[b] = "climb" /\ b \notin fault
                                     /\ at = "job" /\ job.stage = "climb" /\ b = Head(job.todo)}
           kept_on  == {b \in on : cw[b] # "off"}
           obeyed(full) == [b \in Axes |-> IF b \in last THEN "on"
                                           ELSE IF b \in climbing /\ full THEN "last"
                                           ELSE IF cw[b] = "start" /\ b \in on THEN "go" ELSE cw[b]]
<1>1. bad \in Nat => lesser(bad + 1, ArmFrames) # 0
    BY WorkerAssumption DEF lesser
<1>2. /\ on' = kept_on \union last
      /\ \E full \in BOOLEAN : cw' = obeyed(full)
      /\ \/ seen' = [on |-> on', fault |-> fault, pos |-> pos'] /\ fresh' = TRUE /\ bad' = 0
         \/ seen' = seen /\ bad' = lesser(bad + 1, ArmFrames)
      /\ UNCHANGED <<fault, out, csp, hmode>>
    BY DEF Exchange
<1>3. a \in on' <=> (a \in on /\ cw[a] # "off") \/ a \in last
    BY <1>2
<1>4. PICK full \in BOOLEAN :
          cw'[a] = IF a \in last THEN "on"
                   ELSE IF a \in climbing /\ full THEN "last"
                   ELSE IF cw[a] = "start" /\ a \in on THEN "go" ELSE cw[a]
    BY <1>2
<1>5. \/ seen'.on = on' /\ seen'.pos = pos' /\ fresh' = TRUE /\ bad' = 0
      \/ seen' = seen /\ bad' # 0
    BY <1>1, <1>2 DEF DrivesTyped
<1> QED
    BY <1>2, <1>3, <1>4, <1>5

\* After a full one the mirror shows what is there, and an axis that was calm is.
LEMMA FullExchange ==
    ASSUME PeersInv, DrivesTyped, PlacesTyped, Exchange, EveryFrameFull', NEW a \in Axes
    PROVE  /\ seen'.on = on' /\ seen'.pos = pos'
           /\ Calm(a) => Calm(a)'
<1>1. seen'.on = on' /\ seen'.pos = pos' /\ UNCHANGED <<csp, hmode>>
    BY AnyExchange DEF EveryFrameFull
<1>2. CASE cw[a] = "off"
    BY <1>1, <1>2, AnyExchange, FrameOfAxis DEF Calm
<1>3. CASE cw[a] # "off" /\ a \notin hmode /\ Calm(a)
    <2>1. Between(pos[a], pos'[a], pos[a]) /\ cw'[a] \in {"climb", "last", "on"}
        BY <1>3, FrameOfAxis DEF InCsp, Calm
    <2>2. pos[a] \in Int /\ pos'[a] \in Int
        BY DrivesExchange, PositionsAreInts DEF DrivesTyped
    <2>3. pos'[a] = pos[a]
        BY <2>1, <2>2 DEF Between
    <2> QED
        BY <1>1, <1>3, <2>1, <2>3 DEF Calm
<1>4. CASE a \in hmode
    BY <1>1, <1>4 DEF Calm
<1> QED
    BY <1>1, <1>2, <1>3, <1>4

\* An axis a climb has passed, and one it stands at.
Passed(a) == \A i \in 1 .. Len(job.todo) : job.todo[i] # a
AtRung(a, stage) == job.stage = stage /\ job.todo # <<>> /\ a = axis

\* Enabling, the axes that have been armed stay where they are.
EnableInv ==
    at = "job" /\ job.kind = "enable" =>
        /\ job.stage \in {"arm", "climb"} /\ ready
        /\ \A a \in Axes : Passed(a) \/ AtRung(a, "climb") => Calm(a)

\* An axis on the ladder has no torque, and is held by nobody.
Rising(a) == cw[a] \in {"climb", "last"}
LadderInv == \A a \in Axes : Rising(a) => ready /\ a \notin seen.on \union on \union held

\* The steps that touch the drives: a frame, a push, the loss of a drive, the end of
\* a connection, a fault that is cleared.
LEMMA FullKept ==
    ASSUME PeersInv, TodoInv, DrivesTyped, PlacesTyped, FlagsTyped, FullInv, EnableInv, LadderInv, [Next]_vars,
           RisesInFull
    PROVE  FullInv'
<1>1. CASE Gui \/ UNCHANGED vars
    BY <1>1 DEF Gui, Post, SetTarget, StopLook, StopAct, requestQuit, vars, driveVars, zeroVars,
       busVars, histVars, FullInv
<1>2. CASE Surroundings
    <2>1. PICK a \in Axes : Push(a) \/ Trip(a)
        BY <1>2 DEF Surroundings
    <2>2. CASE Push(a)
        <3>1. PICK x \in Pos : /\ pos' = [pos EXCEPT ![a] = x]
                               /\ seen' = IF fresh THEN [seen EXCEPT !.pos[a] = x] ELSE seen
            BY <2>2 DEF Push
        <3>2. seen'.on = seen.on /\ (fresh => seen'.pos = [seen.pos EXCEPT ![a] = x])
            BY <3>1 DEF DrivesTyped, Mirrors
        <3>3. UNCHANGED <<on, out, held, fresh, bad, ready, conn>> /\ seen'.on = seen.on
            <4>1. UNCHANGED <<on, out, held, fresh, bad, ready, conn>>
                BY <2>2 DEF Push, zeroVars, busVars, histVars
            <4> QED
                BY <3>1, <3>2, <4>1
        <3>4. bad = 0 /\ ready => seen'.pos = pos'
            BY <3>1, <3>2 DEF FullInv
        <3> QED
            BY <3>3, <3>4 DEF FullInv
    <2>3. CASE Trip(a)
        <3>1. /\ on' = on \ {a} /\ out' \subseteq out \union {a}
              /\ UNCHANGED <<held, seen, pos, fresh, bad, ready, conn>>
            BY <2>3 DEF Trip, zeroVars, busVars, histVars
        <3> QED
            BY <3>1 DEF FullInv
    <2> QED
        BY <2>1, <2>2, <2>3
<1>3. CASE JobFrame \/ Frame
    <2>1. Exchange /\ conn' = conn /\ held' = held \ (Axes \ on') /\ (JobFrame => UNCHANGED ready)
        BY <1>3 DEF JobFrame, Frame, zeroVars
    <2>2. on' \subseteq Axes
        BY <2>1, DrivesExchange DEF DrivesTyped
    <2>3. \A a \in on' : (a \in on \/ (cw[a] = "last" /\ a \notin held /\ ready)) /\ a \notin out
        BY <2>1, <2>2, AnyExchange DEF LadderInv, Rising, FullInv
    <2>4. out' = out /\ \/ seen'.on = on' /\ seen'.pos = pos' /\ fresh' = TRUE /\ bad' = 0
                        \/ seen' = seen /\ bad' # 0
        BY <2>1, AnyExchange, RulesAssumption
    <2>5. held' \intersect on' \subseteq seen'.on /\ on' \intersect out' = {}
        BY <2>1, <2>2, <2>3, <2>4 DEF FullInv
    <2>6. ready' => conn' /\ (bad' = 0 => fresh' /\ on' \subseteq seen'.on /\ seen'.pos = pos')
        <3>1. ready' => ready \/ conn
            BY <1>3, <2>1 DEF Frame
        <3> QED
            BY <2>1, <2>4, <3>1 DEF FullInv
    <2>7. ready => ready'
        BY <1>3 DEF JobFrame, Frame, tryInitOrigin, zeroVars
    <2> QED
        BY <2>3, <2>5, <2>6, <2>7 DEF FullInv
<1>4. CASE Connect \/ ConnectOk \/ Disconnect \/ (Top /\ quit)
    BY <1>4 DEF Connect, ConnectOk, Disconnect, Top, teardown, FullInv
<1>5. CASE Drain /\ ~(Connect \/ ConnectOk \/ Disconnect)
    <2>1. UNCHANGED <<on, out, pos, seen, fresh, bad, ready, conn, held>>
        BY <1>5 DEF Drain, DrainNothing, DrainStop, EnableBegin, DisableBegin, ResetBegin, doStop, ZeroBegin,
           doCenter, doRange, HomeRefused, HomeBegin, driveVars, zeroVars, busVars, histVars
    <2> QED
        BY <2>1 DEF FullInv
<1>6. CASE Climb /\ ~OffDone
    <2>1. UNCHANGED <<on, out, pos, seen, fresh, bad, ready, conn>>
        BY <1>6 DEF Climb, Prepare, Off, SetMode, Arm, Climbed, Started, ArmFails, EnableDone,
           DisableDone, StartDone, FinishBegin, FinishAxis, Anchor, FinishEnd, driveVars, zeroVars, busVars
    <2>2. held' \intersect on \subseteq seen.on
        <3>1. CASE EnableDone
            <4>1. at = "job" /\ job.kind = "enable"
                BY <3>1 DEF EnableDone, JobOver
            <4> QED
                BY <4>1 DEF EnableInv, FullInv, RisesInFull, EveryFrameFull
        <3>2. CASE Anchor
            <4>1. held' \subseteq held \/ (held' = held \union {axis} /\ is_enabled(axis))
                BY <3>2 DEF Anchor, home_end_state
            <4> QED
                BY <4>1 DEF FullInv, is_enabled
        <3>3. CASE ~EnableDone /\ ~Anchor
            <4>1. held' = held \/ held' = held \ {axis}
                BY <1>6, <3>3 DEF Climb, Prepare, Off, SetMode, Arm, Climbed, Started, ArmFails, DisableDone, StartDone,
                   FinishBegin, FinishAxis, FinishEnd, histVars
            <4> QED
                BY <4>1 DEF FullInv
        <3> QED
            BY <3>1, <3>2, <3>3
    <2> QED
        BY <2>1, <2>2 DEF FullInv
<1>7. CASE OffDone
    <2>1. seen' = seen \/ seen' = [seen EXCEPT !.fault = @ \ {axis}]
        BY <1>7 DEF OffDone
    <2>2. seen'.on = seen.on /\ seen'.pos = seen.pos
        BY <2>1 DEF DrivesTyped, Mirrors
    <2>3. UNCHANGED <<on, out, pos, fresh, bad, ready, conn, held>>
        BY <1>7 DEF OffDone, zeroVars, busVars, histVars
    <2> QED
        BY <2>2, <2>3 DEF FullInv
<1>8. CASE Loop /\ ~Frame /\ ~(Top /\ quit)
    <2>1. /\ UNCHANGED <<on, pos, seen, fresh, ready, conn, held>> /\ out' \subseteq out
          /\ bad' = bad \/ ~conn
        <3>1. CASE Recover
            BY <3>1 DEF Recover, zeroVars, busVars
        <3>2. CASE ~Recover
            BY <1>8, <3>2 DEF Loop, Top, serviceHoming, serviceSpan, interpolate, FrameClosed,
               Zero, driveVars, zeroVars, busVars, histVars
        <3> QED
            BY <3>1, <3>2
    <2> QED
        BY <2>1 DEF FullInv
<1> QED
    BY <1>1, <1>2, <1>3, <1>4, <1>5, <1>6, <1>7, <1>8 DEF Next

LEMMA LadderKept ==
    ASSUME PeersInv, TodoInv, DrivesTyped, PlacesTyped, FlagsTyped, Where, AloneInv, FullInv, EnableInv,
           LadderInv, [Next]_vars, RisesInFull
    PROVE  LadderInv'
<1>1. CASE /\ seen'.on = seen.on /\ on' \subseteq on /\ ready' = ready
           /\ \A a \in Axes : Rising(a)' => Rising(a)
           /\ \A a \in Axes : Rising(a) => (a \in held' => a \in held)
    BY <1>1 DEF LadderInv
<1>2. CASE Gui \/ UNCHANGED vars
    <2>1. UNCHANGED <<cw, seen, on, held, ready>>
        BY <1>2 DEF Gui, Post, SetTarget, StopLook, StopAct, requestQuit, vars, driveVars, zeroVars,
           imageVars, histVars
    <2> QED
        BY <2>1 DEF LadderInv, Rising
<1>3. CASE Surroundings
    <2>1. PICK a \in Axes : Push(a) \/ Trip(a)
        BY <1>3 DEF Surroundings
    <2>2. UNCHANGED <<cw, held, ready>> /\ on' \subseteq on /\ \E q : seen' = seen \/ seen' = [seen EXCEPT !.pos = q]
        BY <2>1 DEF Push, Trip, zeroVars, imageVars, histVars
    <2>3. seen'.on = seen.on
        BY <2>2 DEF DrivesTyped, Mirrors
    <2> QED
        BY <2>2, <2>3 DEF LadderInv, Rising
<1>4. CASE JobFrame \/ Frame
    <2>1. Exchange /\ held' \subseteq held /\ (ready => ready')
        BY <1>4 DEF JobFrame, Frame, tryInitOrigin, zeroVars
    <2>2. ASSUME NEW a \in Axes, Rising(a)' PROVE ready' /\ a \notin seen'.on \union on' \union held'
        <3>1. Rising(a) /\ (a \in on' => a \in on) /\ (seen'.on = on' \/ seen' = seen)
            BY <2>1, <2>2, AnyExchange DEF Rising
        <3> QED
            BY <2>1, <3>1 DEF LadderInv
    <2> QED
        BY <2>2 DEF LadderInv
<1>5. CASE Connect \/ ConnectOk \/ Disconnect \/ (Top /\ quit)
    <2>1. cw' = All("off")
        BY <1>5 DEF Connect, ConnectOk, Disconnect, Top, teardown
    <2> QED
        BY <2>1 DEF LadderInv, Rising, All
<1>6. CASE Drain /\ ~(Connect \/ ConnectOk \/ Disconnect)
    <2>1. UNCHANGED <<cw, seen, on, ready, held>>
        BY <1>6 DEF Drain, DrainNothing, DrainStop, EnableBegin, DisableBegin, ResetBegin, doStop, ZeroBegin,
           doCenter, doRange, HomeRefused, HomeBegin, driveVars, zeroVars, imageVars, histVars
    <2> QED
        BY <2>1 DEF LadderInv, Rising
<1>7. CASE Climb
    <2>0. /\ job.stage \in Standing => job.todo # <<>>
          /\ cw \in [Axes -> ControlWords]
        BY DEF TodoInv, DrivesTyped
    <2>1. ready' = ready /\ on' = on
        BY <1>7 DEF Climb, Prepare, Off, OffDone, SetMode, Arm, Climbed, Started, ArmFails, EnableDone,
           DisableDone, StartDone, FinishBegin, FinishAxis, Anchor, FinishEnd, zeroVars, driveVars
    <2>2. seen'.on = seen.on
        <3>1. seen' = seen \/ seen' = [seen EXCEPT !.fault = @ \ {axis}]
            BY <1>7 DEF Climb, Prepare, Off, OffDone, SetMode, Arm, Climbed, Started, ArmFails, EnableDone,
               DisableDone, StartDone, FinishBegin, FinishAxis, Anchor, FinishEnd, driveVars
        <3> QED
            BY <3>1 DEF DrivesTyped, Mirrors
    <2>3. CASE Prepare
        <3>1. held' = held
            BY <2>3 DEF Prepare, histVars
        <3>2. ASSUME NEW a \in Axes, Rising(a)' PROVE Rising(a)
            <4>1. cw'[a] = "off" \/ cw'[a] = cw[a]
                BY <2>3 DEF Prepare
            <4> QED
                BY <3>2, <4>1 DEF Rising
        <3> QED
            BY <1>1, <2>1, <2>2, <3>1, <3>2
    <2>4. CASE Off \/ Climbed \/ ArmFails
        <3>1. held' = held
            BY <2>4 DEF Off, Climbed, ArmFails, histVars
        <3>2. cw' = cw \/ \E w \in {"off", "start"} : cw' = [cw EXCEPT ![axis] = w]
            BY <2>4 DEF Off, Climbed, ArmFails
        <3>3. ASSUME NEW a \in Axes, Rising(a)' PROVE Rising(a)
            BY <2>0, <3>2, <3>3 DEF Rising
        <3> QED
            BY <1>1, <2>1, <2>2, <3>1, <3>3
    <2>5. CASE Arm
        <3>1. /\ cw' = [cw EXCEPT ![axis] = "climb"] /\ held' = held \ {axis}
              /\ axis \notin seen.on /\ at = "job" /\ job.stage = "arm"
            BY <2>5 DEF Arm, ReadyToArm, is_enabled
        <3>2. job.kind \in {"enable", "start", "finish"}
            BY <3>1 DEF PeersInv, JobOk
        <3>3. ready
            BY <3>1, <3>2 DEF EnableInv, Where, AloneInv, Starting, Finishing
        <3>5. axis \notin on
            BY <3>1, <3>2, <3>3 DEF Where, Starting, Finishing, FullInv, RisesInFull, EveryFrameFull
        <3>4. ASSUME NEW a \in Axes, Rising(a)', a # axis PROVE Rising(a)
            BY <2>0, <3>1, <3>4 DEF Rising
        <3> QED
            BY <2>1, <2>2, <3>1, <3>3, <3>4, <3>5 DEF LadderInv
    <2>6. CASE EnableDone
        <3>1. cw' = cw /\ held' = Axes \intersect on
            BY <2>6 DEF EnableDone, imageVars
        <3> QED
            BY <2>1, <2>2, <3>1 DEF LadderInv, Rising
    <2>7. CASE Anchor
        <3>1. cw' = cw
            BY <2>7 DEF Anchor, imageVars
        <3>2. held' \subseteq held \/ (held' = held \union {axis} /\ is_enabled(axis))
            BY <2>7 DEF Anchor, home_end_state
        <3> QED
            BY <2>1, <2>2, <3>1, <3>2 DEF LadderInv, Rising, is_enabled
    <2>8. CASE \/ OffDone \/ SetMode \/ Started \/ DisableDone \/ StartDone \/ FinishBegin \/ FinishAxis
               \/ FinishEnd
        <3>1. UNCHANGED <<cw, held>>
            BY <2>8 DEF OffDone, SetMode, Started, DisableDone, StartDone, FinishBegin, FinishAxis,
               FinishEnd, imageVars, histVars
        <3> QED
            BY <2>1, <2>2, <3>1 DEF LadderInv, Rising
    <2> QED
        BY <1>7, <2>3, <2>4, <2>5, <2>6, <2>7, <2>8 DEF Climb
<1>8. CASE Loop /\ ~Frame /\ ~(Top /\ quit)
    <2>1. UNCHANGED <<seen, on, ready, held>>
        BY <1>8 DEF Loop, Top, serviceHoming, serviceSpan, interpolate, FrameClosed, Recover, Zero,
           driveVars, zeroVars, histVars
    <2>2. ASSUME NEW a \in Axes PROVE cw'[a] = cw[a] \/ cw'[a] \in {"on", "off"}
        <3>1. CASE serviceHoming
            BY <3>1 DEF serviceHoming, HomePass
        <3>2. CASE Recover
            BY <3>2 DEF Recover
        <3>3. CASE ~serviceHoming /\ ~Recover
            BY <1>8, <3>3 DEF Loop, Top, serviceSpan, interpolate, FrameClosed, Zero, imageVars
        <3> QED
            BY <3>1, <3>2, <3>3
    <2> QED
        BY <2>1, <2>2 DEF LadderInv, Rising
<1> QED
    BY <1>2, <1>3, <1>4, <1>5, <1>6, <1>7, <1>8 DEF Next

\* A climb that goes on has passed the axis it stood at; one that begins has passed
\* none of its axes.
LEMMA PassedNext ==
    ASSUME TodoInv, job.todo # <<>>, job'.todo = Tail(job.todo), NEW a, Passed(a)', a # axis
    PROVE  Passed(a)
<1>1. ASSUME NEW j \in 1 .. Len(job.todo), job.todo[j] = a PROVE FALSE
    <2>1. job.todo[j] # Head(job.todo)
        BY <1>1 DEF axis
    <2>2. \E i \in 1 .. Len(Tail(job.todo)) : Tail(job.todo)[i] = job.todo[j]
        BY <2>1, TailOfList DEF TodoInv
    <2> QED
        BY <1>1, <2>2 DEF Passed
<1> QED
    BY <1>1 DEF Passed

LEMMA PassedNone ==
    ASSUME NEW kind, NEW stage, NEW S \in SUBSET Axes, Ladder(kind, stage, S), NEW a \in S
    PROVE  ~Passed(a)'
    BY LadderTodo DEF Passed

LEMMA CalmUntouched ==
    ASSUME NEW a, UNCHANGED <<cw, csp, hmode, pos, seen>>
    PROVE  Calm(a)' = Calm(a)
    BY DEF Calm

LEMMA EnableKept ==
    ASSUME PeersInv, TodoInv, DrivesTyped, PlacesTyped, Where, FullInv, EnableInv, [Next]_vars,
           RisesInFull, RisesInFull'
    PROVE  EnableInv'
<1>1. CASE UNCHANGED <<at, job, ready, cw, csp, hmode, pos, seen>>
    BY <1>1 DEF EnableInv, Passed, AtRung, Calm, axis
<1>2. CASE Gui \/ UNCHANGED vars
    <2>1. UNCHANGED <<at, job, ready, cw, csp, hmode, pos, seen>>
        BY <1>2 DEF Gui, Post, SetTarget, StopLook, StopAct, requestQuit, vars, driveVars, zeroVars,
           imageVars
    <2> QED
        BY <1>1, <2>1
<1>3. CASE Surroundings
    <2>1. PICK a \in Axes : Push(a) \/ Trip(a)
        BY <1>3 DEF Surroundings
    <2>2. CASE Push(a)
        BY <2>2 DEF Push, EnableInv
    <2>3. CASE Trip(a)
        <3>1. UNCHANGED <<at, job, ready, cw, csp, hmode, pos, seen>>
            BY <2>3 DEF Trip, zeroVars, imageVars
        <3> QED
            BY <1>1, <3>1
    <2> QED
        BY <2>1, <2>2, <2>3
<1>4. CASE JobFrame
    <2>1. Exchange /\ UNCHANGED <<at, job, ready>>
        BY <1>4 DEF JobFrame, zeroVars
    <2>2. ASSUME at = "job", job.kind = "enable" PROVE \A a \in Axes : Calm(a) => Calm(a)'
        <3>1. EveryFrameFull'
            BY <2>1, <2>2 DEF RisesInFull
        <3> QED
            BY <2>1, <3>1, FullExchange
    <2>3. \A a \in Axes : Passed(a)' = Passed(a) /\ AtRung(a, "climb")' = AtRung(a, "climb")
        BY <2>1 DEF Passed, AtRung, axis
    <2> QED
        BY <2>1, <2>2, <2>3 DEF EnableInv
<1>5. CASE EnableBegin
    <2>1. UNCHANGED <<at, job>> \/ (Ladder("enable", "arm", Axes) /\ ready /\ ready' = ready)
        BY <1>5 DEF EnableBegin, zeroVars
    <2>2. at = "drain"
        BY <1>5 DEF EnableBegin, Take
    <2>3. CASE Ladder("enable", "arm", Axes) /\ ready /\ ready' = ready
        <3>1. job'.stage = "arm" /\ \A a \in Axes : ~Passed(a)'
            BY <2>3, PassedNone, LadderTodo
        <3> QED
            BY <2>3, <3>1 DEF EnableInv, AtRung
    <2> QED
        BY <2>1, <2>2, <2>3 DEF EnableInv
<1>6. CASE Drain /\ ~EnableBegin
    <2>1. at' # "job" \/ \E kind \in {"disable", "reset", "start"} : \E stage, S : Ladder(kind, stage, S)
        BY <1>6 DEF Drain, DrainNothing, DrainStop, Connect, ConnectOk, Disconnect, teardown, DisableBegin,
           ResetBegin, doStop, ZeroBegin, doCenter, doRange, HomeRefused, HomeBegin, Take
    <2>2. at' # "job" \/ job'.kind # "enable"
        BY <2>1 DEF Ladder
    <2> QED
        BY <2>2 DEF EnableInv
<1>7. CASE Climb
    <2> SUFFICES ASSUME at' = "job", job'.kind = "enable" PROVE EnableInv'
        BY DEF EnableInv
    <2>0. /\ ~(FinishBegin \/ Anchor \/ FinishEnd)
          /\ DOMAIN job = JobFields /\ cw \in [Axes -> ControlWords] /\ csp \in [Axes -> Int]
        <3>1. NoJob.kind # "enable"
            BY DEF NoJob
        <3> QED
            BY <3>1, FinishMoves DEF PeersInv, JobOk, DrivesTyped, PlacesTyped
    <2>1. at = "job" /\ job.kind = "enable"
        <3>1. ClimbMoves
            BY <1>7, MovesOfClimb
        <3>2. Ladder("start", "arm", s.mask) => job'.kind # "enable"
            BY DEF Ladder
        <3> QED
            BY <2>0, <3>1, <3>2 DEF ClimbMoves
    <2>2. job.stage \in {"arm", "climb"} /\ ready /\ \A a \in Axes : Passed(a) \/ AtRung(a, "climb") => Calm(a)
        BY <2>1 DEF EnableInv
    <2>3. CASE Arm
        <3>1. /\ fresh /\ job.todo # <<>> /\ job' = [job EXCEPT !.stage = "climb"]
              /\ csp' = IF axis \in hmode THEN csp ELSE [csp EXCEPT ![axis] = seen.pos[axis]]
              /\ cw' = [cw EXCEPT ![axis] = "climb"]
              /\ UNCHANGED <<ready, hmode, pos, seen>>
            BY <2>3 DEF Arm, ReadyToArm, zeroVars, driveVars
        <3>2. job'.stage = "climb" /\ job'.todo = job.todo /\ axis' = axis /\ axis \in Axes
            BY <2>0, <3>1, AxisOfJob DEF JobFields, axis
        <3>3. Calm(axis)'
            BY <2>0, <2>1, <2>2, <3>1, <3>2 DEF Calm, FullInv, RisesInFull, EveryFrameFull
        <3>4. ASSUME NEW a \in Axes, Passed(a)', a # axis PROVE Calm(a)'
            <4>1. Passed(a)
                BY <3>2, <3>4 DEF Passed
            <4>2. cw'[a] = cw[a] /\ csp'[a] = csp[a]
                BY <2>0, <3>1, <3>4
            <4> QED
                BY <2>2, <3>1, <4>1, <4>2 DEF Calm
        <3> QED
            BY <2>2, <3>1, <3>2, <3>3, <3>4 DEF EnableInv, AtRung
    <2>4. CASE Climbed
        <3>1. job.stage = "climb" /\ job.todo # <<>> /\ job' = [nextAxis EXCEPT !.stage = "arm"]
            BY <2>1, <2>4 DEF Climbed, TodoInv, Standing
        <3>2. UNCHANGED <<ready, cw, csp, hmode, pos, seen>>
            BY <2>1, <2>4 DEF Climbed, zeroVars, driveVars
        <3>3. job'.stage = "arm" /\ job'.todo = Tail(job.todo)
            BY <2>0, <3>1 DEF nextAxis, JobFields
        <3>4. ASSUME NEW a \in Axes, Passed(a)' PROVE Calm(a)'
            <4>1. Passed(a) \/ AtRung(a, "climb")
                BY <3>1, <3>3, <3>4, PassedNext DEF AtRung
            <4> QED
                BY <2>2, <3>2, <4>1, CalmUntouched
        <3> QED
            BY <2>2, <3>2, <3>3, <3>4 DEF EnableInv, AtRung
    <2>5. CASE ArmFails
        <3>1. \E S : Ladder("rollback", "off", S)
            BY <2>1, <2>5 DEF ArmFails
        <3> QED
            BY <3>1 DEF Ladder
    <2>6. ~(Prepare \/ Off \/ OffDone \/ SetMode \/ Started \/ DisableDone \/ StartDone \/ FinishAxis)
        BY <2>1, <2>2 DEF Prepare, Off, OffDone, SetMode, Started, DisableDone, StartDone, FinishAxis, JobOver
    <2>7. ~EnableDone
        BY DEF EnableDone
    <2> QED
        BY <1>7, <2>0, <2>3, <2>4, <2>5, <2>6, <2>7 DEF Climb
<1>8. CASE Loop
    BY <1>8, LoopMoves DEF EnableInv
<1> QED
    BY <1>2, <1>3, <1>4, <1>5, <1>6, <1>7, <1>8 DEF Next

\* What no climb sees of the steps between its own.
LEMMA ClimbSeesNothing ==
    ASSUME [Next]_vars, at = "job", ~Climb, ~JobFrame
    PROVE  UNCHANGED <<at, job, s, ready, cw, csp, hmode, pos, seen>>
<1>1. CASE Gui \/ UNCHANGED vars
    BY <1>1 DEF Gui, Post, SetTarget, StopLook, StopAct, requestQuit, vars, driveVars, zeroVars, imageVars
<1>2. CASE Surroundings
    <2>1. PICK a \in Axes : Push(a) \/ Trip(a)
        BY <1>2 DEF Surroundings
    <2> QED
        BY <2>1 DEF Push, Trip, zeroVars, imageVars
<1>3. ~Drain
    BY DEF Drain, DrainNothing, DrainStop, Connect, ConnectOk, Disconnect, EnableBegin, DisableBegin,
       ResetBegin, doStop, ZeroBegin, doCenter, doRange, HomeRefused, HomeBegin, Take
<1>4. ~Loop
    BY DEF Loop, Top, serviceHoming, serviceSpan, interpolate, Frame, FrameClosed, Recover, Zero
<1> QED
    BY <1>1, <1>2, <1>3, <1>4 DEF Next

\* A climb is begun by a command, or by the end of a search.
LEMMA ClimbBegins ==
    ASSUME PeersInv, [Next]_vars, at # "job", at' = "job"
    PROVE  \/ EnableBegin /\ job'.kind = "enable"
           \/ DisableBegin /\ job'.kind = "disable"
           \/ ResetBegin /\ job'.kind = "reset"
           \/ HomeBegin /\ job'.kind = "start" /\ job'.stage = "off"
           \/ FinishBegin /\ job'.kind = "finish" /\ job'.stage = "begin"
<1>1. ~(Gui \/ UNCHANGED vars \/ JobFrame)
    BY DEF Gui, Post, SetTarget, StopLook, StopAct, requestQuit, vars, JobFrame
<1>2. ~Surroundings
    BY DEF Surroundings, Push, Trip
<1>3. ~Loop
    BY LoopMoves
<1>4. Climb => FinishBegin
    BY DEF Climb, Prepare, Off, OffDone, SetMode, Arm, ReadyToArm, Climbed, Started, ArmFails, EnableDone,
       DisableDone, StartDone, FinishAxis, Anchor, FinishEnd, JobOver
<1>5. Drain => EnableBegin \/ DisableBegin \/ ResetBegin \/ HomeBegin
    BY DEF Drain, DrainNothing, DrainStop, Connect, ConnectOk, Disconnect, teardown, doStop, ZeroBegin,
       doCenter, doRange, HomeRefused, Take
<1>6. /\ EnableBegin => at' = at \/ \E S : Ladder("enable", "arm", S)
      /\ DisableBegin => at' = at \/ \E S : Ladder("disable", "off", S)
    BY DEF EnableBegin, DisableBegin
<1>7. ResetBegin => at' = at \/ \E S : Ladder("reset", "off", S)
    BY DEF ResetBegin
<1>8. HomeBegin => \E S : Ladder("start", "off", S)
    BY DEF HomeBegin
<1>9. FinishBegin => \E S : Ladder("finish", "begin", S)
    BY DEF FinishBegin
<1>10. \A kind, stage, S : Ladder(kind, stage, S) => job'.kind = kind /\ job'.stage = stage
    BY DEF Ladder
<1>11. EnableBegin \/ DisableBegin \/ ResetBegin \/ HomeBegin \/ FinishBegin
    BY <1>1, <1>2, <1>3, <1>4, <1>5 DEF Next
<1> QED
    BY <1>6, <1>7, <1>8, <1>9, <1>10, <1>11

\* Disabling, the axes that have been visited have been told to switch off.
DisableInv ==
    at = "job" /\ job.kind = "disable" =>
        /\ job.stage \in {"off", "offwait"}
        /\ \A a \in Axes : Passed(a) \/ AtRung(a, "offwait") => cw[a] = "off"

LEMMA DisableKept ==
    ASSUME PeersInv, TodoInv, DrivesTyped, PlacesTyped, Where, DisableInv, [Next]_vars
    PROVE  DisableInv'
<1> SUFFICES ASSUME at' = "job", job'.kind = "disable" PROVE DisableInv'
    BY DEF DisableInv
<1>1. CASE at # "job"
    <2>1. DisableBegin
        BY <1>1, ClimbBegins
    <2>2. Ladder("disable", "off", Axes)
        BY <1>1, <2>1 DEF DisableBegin
    <2>3. job'.stage = "off" /\ \A a \in Axes : ~Passed(a)'
        BY <2>2, PassedNone, LadderTodo
    <2> QED
        BY <2>3 DEF DisableInv, AtRung
<1>2. CASE at = "job" /\ JobFrame
    <2>1. Exchange /\ UNCHANGED <<at, job>>
        BY <1>2 DEF JobFrame
    <2>2. \A a \in Axes : cw[a] = "off" => cw'[a] = "off"
        BY <2>1, AnyExchange
    <2>3. \A a \in Axes : Passed(a)' = Passed(a) /\ AtRung(a, "offwait")' = AtRung(a, "offwait")
        BY <2>1 DEF Passed, AtRung, axis
    <2> QED
        BY <2>1, <2>2, <2>3 DEF DisableInv
<1>3. CASE at = "job" /\ ~Climb /\ ~JobFrame
    <2>1. UNCHANGED <<at, job, cw>>
        BY <1>3, ClimbSeesNothing
    <2> QED
        BY <2>1 DEF DisableInv, Passed, AtRung, axis
<1>4. CASE at = "job" /\ Climb
    <2>0. /\ ~(FinishBegin \/ Anchor \/ FinishEnd)
          /\ DOMAIN job = JobFields /\ cw \in [Axes -> ControlWords]
        <3>1. NoJob.kind # "disable"
            BY DEF NoJob
        <3> QED
            BY <3>1, FinishMoves DEF PeersInv, JobOk, DrivesTyped
    <2>1. job.kind = "disable"
        <3>1. ClimbMoves
            BY <1>4, MovesOfClimb
        <3>2. Ladder("start", "arm", s.mask) => job'.kind # "disable"
            BY DEF Ladder
        <3> QED
            BY <2>0, <3>1, <3>2 DEF ClimbMoves
    <2>2. job.stage \in {"off", "offwait"} /\ \A a \in Axes : Passed(a) \/ AtRung(a, "offwait") => cw[a] = "off"
        BY <1>4, <2>1 DEF DisableInv
    <2>3. CASE Off
        <3>1. job.todo # <<>> /\ job' = [job EXCEPT !.stage = "offwait"] /\ cw' = [cw EXCEPT ![axis] = "off"]
            BY <2>3 DEF Off
        <3>2. job'.stage = "offwait" /\ job'.todo = job.todo /\ axis' = axis /\ axis \in Axes
            BY <2>0, <3>1, AxisOfJob DEF JobFields, axis
        <3>3. ASSUME NEW a \in Axes, Passed(a)' \/ a = axis PROVE cw'[a] = "off"
            <4>1. a # axis => Passed(a)
                BY <3>2, <3>3 DEF Passed
            <4> QED
                BY <2>0, <2>2, <3>1, <4>1
        <3> QED
            BY <3>2, <3>3 DEF DisableInv, AtRung
    <2>4. CASE OffDone
        <3>1. job.todo # <<>> /\ job.stage = "offwait" /\ job' = [nextAxis EXCEPT !.stage = "off"] /\ cw' = cw
            BY <2>1, <2>4 DEF OffDone, TodoInv, Standing, imageVars
        <3>2. job'.stage = "off" /\ job'.todo = Tail(job.todo)
            BY <2>0, <3>1 DEF nextAxis, JobFields
        <3>3. ASSUME NEW a \in Axes, Passed(a)' PROVE cw'[a] = "off"
            <4>1. Passed(a) \/ AtRung(a, "offwait")
                BY <3>1, <3>2, <3>3, PassedNext DEF AtRung
            <4> QED
                BY <2>2, <3>1, <4>1
        <3> QED
            BY <3>2, <3>3 DEF DisableInv, AtRung
    <2>5. ~(Prepare \/ SetMode \/ Arm \/ Climbed \/ Started \/ ArmFails \/ StartDone \/ FinishAxis)
        BY <2>1, <2>2 DEF Prepare, SetMode, Arm, ReadyToArm, Climbed, Started, ArmFails, StartDone,
           FinishAxis, JobOver
    <2>6. ~(EnableDone \/ DisableDone)
        BY DEF EnableDone, DisableDone
    <2> QED
        BY <1>4, <2>0, <2>3, <2>4, <2>5, <2>6 DEF Climb
<1> QED
    BY <1>1, <1>2, <1>3, <1>4

\* Starting, the axes that have been visited are in homing mode; and so are all axes of
\* a batch that is searching.
StartInv ==
    /\ Starting => /\ job.stage \in {"off", "offwait", "arm", "climb", "go"}
                   /\ job.stage \notin {"off", "offwait"} =>
                         \A a \in s.mask : Passed(a) \/ AtRung(a, "climb") \/ AtRung(a, "go") => a \in hmode
    /\ s.homing /\ ~s.spanning /\ ~Finishing /\ ~Starting => s.mask \subseteq hmode

LEMMA StartUntouched ==
    ASSUME StartInv, UNCHANGED <<at, job, s, hmode>>
    PROVE  StartInv'
    BY DEF StartInv, Starting, Finishing, Passed, AtRung, axis

LEMMA StartClimb ==
    ASSUME PeersInv, TodoInv, Where, StartInv, Starting, Climb
    PROVE  StartInv'
<1>0. /\ DOMAIN job = JobFields /\ DOMAIN s = SFields /\ s.mask \subseteq Axes
      /\ at = "job" /\ job.kind = "start" /\ job.stage \in {"off", "offwait", "arm", "climb", "go"}
    BY DEF PeersInv, SessionOk, JobOk, Starting, StartInv
<1>1. CASE at' = "clear"
    BY <1>1 DEF StartInv, Finishing, Starting
<1>2. CASE at' # "clear" /\ Prepare
    <2>1. Ladder("start", "arm", s.mask) /\ at' = at /\ s' = s
        BY <1>2 DEF Prepare
    <2>2. job'.kind = "start" /\ job'.stage = "arm" /\ \A a \in s.mask : ~Passed(a)'
        BY <1>0, <2>1, PassedNone, LadderTodo
    <2> QED
        BY <1>0, <2>1, <2>2 DEF StartInv, Starting, AtRung
<1>3. CASE at' # "clear" /\ (Off \/ OffDone)
    <2>1. at' = at /\ s' = s /\ (job' = [job EXCEPT !.stage = "offwait"] \/ job' = [nextAxis EXCEPT !.stage = "off"])
        BY <1>0, <1>3 DEF Off, OffDone
    <2>2. job'.kind = "start" /\ job'.stage \in {"off", "offwait"}
        BY <1>0, <2>1 DEF nextAxis, JobFields
    <2> QED
        BY <1>0, <2>1, <2>2 DEF StartInv, Starting
<1>4. CASE at' # "clear" /\ SetMode
    <2>1. /\ job.stage = "arm" /\ job' = [job EXCEPT !.stage = "arm"] /\ at' = at /\ s' = s
          /\ hmode \subseteq hmode'
        BY <1>0, <1>4 DEF SetMode
    <2>2. job'.kind = "start" /\ job'.stage = "arm" /\ job'.todo = job.todo
        BY <1>0, <2>1 DEF JobFields
    <2> QED
        BY <1>0, <2>1, <2>2 DEF StartInv, Starting, Passed, AtRung
<1>5. CASE at' # "clear" /\ Arm
    <2>1. /\ job.stage = "arm" /\ job' = [job EXCEPT !.stage = "climb"] /\ UNCHANGED <<at, s, hmode>>
          /\ axis \in hmode
        BY <1>0, <1>5 DEF Arm, ReadyToArm
    <2>2. job'.kind = "start" /\ job'.stage = "climb" /\ job'.todo = job.todo /\ axis' = axis
        BY <1>0, <2>1 DEF JobFields, axis
    <2> QED
        BY <1>0, <2>1, <2>2 DEF StartInv, Starting, Passed, AtRung
<1>6. CASE at' # "clear" /\ Climbed
    <2>1. /\ job.stage = "climb" /\ job' = [job EXCEPT !.stage = "go"] /\ UNCHANGED <<at, s, hmode>>
          /\ job.todo # <<>>
        BY <1>0, <1>6 DEF Climbed, TodoInv, Standing
    <2>2. job'.kind = "start" /\ job'.stage = "go" /\ job'.todo = job.todo /\ axis' = axis
        BY <1>0, <2>1 DEF JobFields, axis
    <2> QED
        BY <1>0, <2>1, <2>2 DEF StartInv, Starting, Passed, AtRung
<1>7. CASE at' # "clear" /\ Started
    <2>1. /\ job.stage = "go" /\ job' = [nextAxis EXCEPT !.stage = "arm"] /\ UNCHANGED <<at, s, hmode>>
          /\ job.todo # <<>>
        BY <1>0, <1>7 DEF Started, TodoInv, Standing, imageVars
    <2>2. job'.kind = "start" /\ job'.stage = "arm" /\ job'.todo = Tail(job.todo)
        BY <1>0, <2>1 DEF nextAxis, JobFields
    <2>3. ASSUME NEW a \in s.mask, Passed(a)' PROVE a \in hmode
        <3>1. Passed(a) \/ AtRung(a, "go")
            BY <2>1, <2>2, <2>3, PassedNext DEF AtRung
        <3> QED
            BY <1>0, <2>1, <3>1 DEF StartInv
    <2> QED
        BY <1>0, <2>1, <2>2, <2>3 DEF StartInv, Starting, AtRung
<1>8. CASE at' # "clear" /\ StartDone
    <2>1. job.stage = "arm" /\ job.todo = <<>> /\ at' = "drain" /\ s' = [s EXCEPT !.back = "span"] /\ hmode' = hmode
        BY <1>8 DEF StartDone, JobOver, imageVars
    <2>2. s'.mask = s.mask
        BY <1>0, <2>1 DEF SFields
    <2>3. \A a \in s.mask : Passed(a)
        BY <2>1 DEF Passed
    <2> QED
        BY <1>0, <2>1, <2>2, <2>3 DEF StartInv, Starting
<1>9. at' # "clear" => ~ArmFails
    BY <1>0 DEF ArmFails
<1>10. ~(EnableDone \/ DisableDone \/ FinishBegin \/ FinishAxis \/ Anchor \/ FinishEnd)
    BY <1>0 DEF EnableDone, DisableDone, FinishBegin, FinishAxis, Anchor, FinishEnd
<1> QED
    BY <1>1, <1>2, <1>3, <1>4, <1>5, <1>6, <1>7, <1>8, <1>9, <1>10 DEF Climb

LEMMA StartKept ==
    ASSUME PeersInv, TodoInv, SessionTyped, Where, AloneInv, StartInv, [Next]_vars
    PROVE  StartInv'
<1>0. DOMAIN s = SFields
    BY DEF PeersInv, SessionOk
<1>1. CASE Gui \/ Surroundings \/ JobFrame \/ UNCHANGED vars
    <2>1. UNCHANGED <<at, job, s>>
        BY <1>1 DEF Gui, Post, SetTarget, StopLook, StopAct, requestQuit, Surroundings, Push,
           Trip, JobFrame, vars
    <2>2. hmode' = hmode
        BY <1>1 DEF Gui, Post, SetTarget, StopLook, StopAct, requestQuit, Surroundings, Push,
           Trip, JobFrame, Exchange, vars, imageVars
    <2> QED
        BY <2>1, <2>2, StartUntouched
<1>2. CASE Drain
    <2>1. CASE HomeBegin
        <3>1. at' = "job" /\ job'.kind = "start" /\ job'.stage = "off"
            BY <2>1 DEF HomeBegin, Ladder
        <3> QED
            BY <3>1 DEF StartInv, Starting
    <2>2. CASE ~HomeBegin
        <3>1. at = "drain" /\ ~Starting' /\ ~Finishing' /\ ~Starting /\ ~Finishing
            BY <1>2, <2>2, DrainMoves DEF Starting, Finishing
        <3>2. ~s'.homing \/ UNCHANGED <<s.homing, s.mask, s.spanning>>
            BY <1>2, <2>2, DrainMoves, NoSessionOk
        <3>3. s.homing => hmode' = hmode
            BY <1>2 DEF Drain, DrainNothing, DrainStop, Connect, ConnectOk, Disconnect, teardown, EnableBegin,
               DisableBegin, ResetBegin, doStop, ZeroBegin, doCenter, doRange, HomeRefused, HomeBegin, Take, imageVars
        <3> QED
            BY <3>1, <3>2, <3>3 DEF StartInv
    <2> QED
        BY <2>1, <2>2
<1>3. CASE Climb
    <2>1. CASE Starting
        BY <1>3, <2>1, StartClimb
    <2>2. CASE FinishBegin \/ Anchor
        <3>1. Finishing' /\ ~Starting'
            BY <2>2, FinishMoves DEF Finishing, Starting
        <3> QED
            BY <3>1 DEF StartInv
    <2>3. CASE FinishEnd
        <3>1. ~s'.homing \/ s'.spanning
            BY <2>3, FinishMoves
        <3>2. ~Starting'
            BY <2>3, FinishMoves, NoJobOk DEF Starting
        <3> QED
            BY <3>1, <3>2 DEF StartInv
    <2>4. CASE ~Starting /\ ~(FinishBegin \/ Anchor \/ FinishEnd)
        <3>1. ClimbMoves
            BY <1>3, MovesOfClimb
        <3>2. at = "job" /\ job.kind # "start" /\ s' = s
            BY <2>4, <3>1 DEF ClimbMoves, Starting
        <3>3. CASE job.kind = "finish"
            <4>1. at' = "job" /\ job'.kind = "finish"
                BY <2>4, <3>1, <3>3 DEF ClimbMoves, Starting
            <4> QED
                BY <4>1 DEF StartInv, Finishing, Starting
        <3>4. CASE job.kind # "finish"
            <4>1. ~s'.homing
                BY <3>2, <3>4 DEF AloneInv
            <4>2. ~Starting'
                BY <2>4, <3>1, <3>2, NoJobOk DEF ClimbMoves, Starting
            <4> QED
                BY <4>1, <4>2 DEF StartInv
        <3> QED
            BY <3>3, <3>4
    <2> QED
        BY <2>1, <2>2, <2>3, <2>4
<1>4. CASE Loop
    <2>1. ~Starting' /\ ~Starting /\ ~Finishing
        BY <1>4, LoopMoves
    <2>2. ~s'.homing \/ UNCHANGED <<s.homing, s.mask, s.spanning>>
        BY <1>4, LoopMoves, NoSessionOk
    <2>3. hmode' = hmode
        BY <1>4 DEF Loop, Top, teardown, serviceHoming, serviceSpan, interpolate, Frame, Exchange, FrameClosed,
           Recover, Zero, imageVars
    <2> QED
        BY <2>1, <2>2, <2>3 DEF StartInv
<1> QED
    BY <1>1, <1>2, <1>3, <1>4 DEF Next

\* Finishing, the axis whose turn it is: before it is armed it has no torque; from
\* then on, until its zero is anchored, it stays where it is.
TurnInv ==
    at = "job" /\ job.kind = "finish" =>
        /\ job.stage = "arm" => axis \notin seen.on
        /\ job.stage = "climb" => Calm(axis)
        /\ job.stage = "end" /\ job.mode_ok /\ axis \in seen.on /\ axis \notin seen.fault => Calm(axis)

LEMMA TurnKept ==
    ASSUME PeersInv, TodoInv, DrivesTyped, PlacesTyped, Where, AloneInv, FullInv, TurnInv, [Next]_vars,
           RisesInFull, RisesInFull'
    PROVE  TurnInv'
<1> SUFFICES ASSUME at' = "job", job'.kind = "finish" PROVE TurnInv'
    BY DEF TurnInv
<1>1. CASE FinishBegin \/ Anchor \/ FinishEnd
    <2>1. ~FinishEnd
        BY FinishMoves, NoJobOk
    <2>2. job'.stage = "begin"
        BY <1>1, <2>1, FinishMoves
    <2> QED
        BY <2>2 DEF TurnInv
<1>2. CASE at # "job" /\ ~FinishBegin
    BY <1>2, ClimbBegins
<1>3. CASE at = "job" /\ ~Climb /\ ~JobFrame
    <2>1. UNCHANGED <<at, job, cw, csp, hmode, pos, seen>>
        BY <1>3, ClimbSeesNothing
    <2> QED
        BY <2>1 DEF TurnInv, Calm, axis
<1>4. CASE at = "job" /\ JobFrame
    <2>1. Exchange /\ UNCHANGED <<at, job>> /\ Waiting
        BY <1>4 DEF JobFrame
    <2>2. job.kind = "finish" /\ job.stage \notin {"arm", "end"} /\ axis' = axis
        BY <2>1 DEF Waiting, axis
    <2>3. CASE job.stage = "climb"
        <3>1. PICK b : b = axis
            OBVIOUS
        <3>2. b \in Axes /\ Calm(b) /\ axis' = b
            BY <1>4, <2>2, <2>3, <3>1, AxisOfJob DEF TurnInv, TodoInv, Standing
        <3>3. EveryFrameFull'
            BY <1>4, <2>1, <2>2 DEF Where, Finishing, RisesInFull, JobFrame
        <3>4. Calm(b)'
            BY <2>1, <3>2, <3>3, FullExchange
        <3> QED
            BY <2>1, <2>3, <3>2, <3>4 DEF TurnInv, Calm
    <2>4. CASE job.stage # "climb"
        BY <2>1, <2>2, <2>4 DEF TurnInv
    <2> QED
        BY <2>3, <2>4
<1>5. CASE at = "job" /\ Climb /\ ~(FinishBegin \/ Anchor \/ FinishEnd)
    <2>0. /\ DOMAIN job = JobFields /\ cw \in [Axes -> ControlWords] /\ csp \in [Axes -> Int]
          /\ NoJob.kind # "finish"
        BY DEF PeersInv, JobOk, DrivesTyped, PlacesTyped, NoJob
    <2>1. job.kind = "finish" /\ job'.todo = job.todo
        <3>1. ClimbMoves
            BY <1>5, MovesOfClimb
        <3>2. Ladder("start", "arm", s.mask) => job'.kind # "finish"
            BY DEF Ladder
        <3> QED
            BY <1>5, <2>0, <3>1, <3>2 DEF ClimbMoves, Starting
    <2>2. axis' = axis /\ fresh /\ seen.pos = pos
        <3>1. axis' = axis /\ ready /\ s.homing
            BY <1>5, <2>1 DEF axis, Where, Finishing, AloneInv
        <3> QED
            BY <3>1 DEF FullInv, RisesInFull, EveryFrameFull
    <2>3. job.stage # "go"
        BY <2>1 DEF Where
    <2>4. CASE FinishAxis \/ Off \/ OffDone
        <3>1. \E st : job' = [job EXCEPT !.stage = st] \/ job' = [job EXCEPT !.stage = st, !.mode_ok = TRUE]
            BY <2>4, <2>1 DEF FinishAxis, Off, OffDone
        <3>2. job'.stage \in {"off", "offwait", "mode"}
            BY <2>0, <2>4, <2>1 DEF FinishAxis, Off, OffDone, JobFields
        <3> QED
            BY <3>2 DEF TurnInv
    <2>5. CASE SetMode
        <3>1. seen' = seen /\ \/ job' = [job EXCEPT !.stage = "arm"] /\ ~is_enabled(axis)
                              \/ job' = [job EXCEPT !.stage = "end", !.mode_ok = FALSE]
            BY <2>1, <2>5 DEF SetMode, driveVars
        <3>2. CASE job' = [job EXCEPT !.stage = "arm"] /\ ~is_enabled(axis)
            <4>1. job'.stage = "arm"
                BY <2>0, <3>2 DEF JobFields
            <4> QED
                BY <2>2, <3>1, <3>2, <4>1 DEF TurnInv, is_enabled
        <3>3. CASE job' = [job EXCEPT !.stage = "end", !.mode_ok = FALSE]
            <4>1. job'.stage = "end" /\ job'.mode_ok = FALSE
                BY <2>0, <3>3 DEF JobFields
            <4> QED
                BY <4>1 DEF TurnInv
        <3> QED
            BY <3>1, <3>2, <3>3
    <2>6. CASE Arm
        <3>1. /\ job' = [job EXCEPT !.stage = "climb"] /\ job.todo # <<>>
              /\ csp' = IF axis \in hmode THEN csp ELSE [csp EXCEPT ![axis] = seen.pos[axis]]
              /\ cw' = [cw EXCEPT ![axis] = "climb"]
              /\ UNCHANGED <<hmode, pos, seen>>
            BY <2>6 DEF Arm, ReadyToArm, driveVars
        <3>2. job'.stage = "climb" /\ axis \in Axes
            BY <2>0, <3>1, AxisOfJob DEF JobFields
        <3>3. Calm(axis)'
            BY <2>0, <2>2, <3>1, <3>2 DEF Calm
        <3> QED
            BY <3>2, <3>3 DEF TurnInv
    <2>7. CASE Climbed
        <3>1. /\ job.stage = "climb" /\ job' = [job EXCEPT !.stage = "end"]
              /\ UNCHANGED <<cw, csp, hmode, pos, seen>>
            BY <2>1, <2>7 DEF Climbed, driveVars
        <3>2. job'.stage = "end"
            BY <2>0, <3>1 DEF JobFields
        <3>3. Calm(axis)
            BY <1>5, <2>1, <3>1 DEF TurnInv
        <3>4. Calm(axis)'
            BY <2>2, <3>1, <3>3 DEF Calm
        <3> QED
            BY <3>2, <3>4 DEF TurnInv
    <2>8. CASE ArmFails
        <3>1. /\ job' = [job EXCEPT !.stage = "end"] /\ UNCHANGED <<csp, hmode, pos, seen>>
              /\ \/ job.stage = "arm" /\ UNCHANGED cw
                 \/ job.stage = "climb" /\ (cw' = cw \/ cw' = [cw EXCEPT ![axis] = "off"])
            BY <2>1, <2>3, <2>8 DEF ArmFails, ReadyToArm, driveVars
        <3>2. job'.stage = "end"
            BY <2>0, <3>1 DEF JobFields
        <3>3. CASE job.stage = "arm"
            BY <1>5, <2>1, <2>2, <3>1, <3>2, <3>3 DEF TurnInv
        <3>4. CASE job.stage = "climb"
            <4>1. Calm(axis) /\ axis \in Axes
                BY <1>5, <2>1, <3>4, AxisOfJob DEF TurnInv, TodoInv, Standing
            <4>2. cw'[axis] \in {cw[axis], "off"}
                BY <2>0, <3>1, <3>4, <4>1
            <4>3. Calm(axis)'
                BY <2>2, <3>1, <4>1, <4>2 DEF Calm
            <4> QED
                BY <3>2, <4>3 DEF TurnInv
        <3> QED
            BY <3>1, <3>3, <3>4
    <2>9. ~(Prepare \/ Started \/ EnableDone \/ DisableDone \/ StartDone)
        BY <2>1, <2>3 DEF Prepare, Started, EnableDone, DisableDone, StartDone
    <2> QED
        BY <1>5, <2>4, <2>5, <2>6, <2>7, <2>8, <2>9 DEF Climb
<1>6. Climb => at = "job" \/ FinishBegin
    BY DEF Climb, Prepare, Off, OffDone, SetMode, Arm, Climbed, Started, ArmFails, ReadyToArm, JobOver,
       EnableDone, DisableDone, StartDone, FinishAxis, Anchor, FinishEnd
<1> QED
    BY <1>1, <1>2, <1>3, <1>4, <1>5, <1>6

\* The CSP target of an axis that is held is what was last sent to it; or, where a
\* measurement or a command to disable has just been finished, the axis is seen there.
Align(a) == \/ csp[a] = sent(a)
            \/ seen.pos[a] = sent(a) /\ (cw[a] = "off" \/ (at = "move" /\ s.mask = {} /\ fresh))
AlignInv == \A a \in (held \intersect on) \ hmode : Align(a)

\* Steps that leave the drives' images, the zero and the targets alone.
LEMMA AlignUntouched ==
    ASSUME AlignInv, UNCHANGED <<csp, on, held, seen.pos, origin, tgt>>,
           held \intersect on \intersect hmode \subseteq hmode',
           \A a \in (held \intersect on) \ hmode : cw'[a] \in {cw[a], "off"},
           at # "move" \/ UNCHANGED <<at, s.mask, fresh>>
    PROVE  AlignInv'
<1>1. ASSUME NEW a \in (held' \intersect on') \ hmode' PROVE Align(a)'
    <2>1. a \in (held \intersect on) \ hmode /\ Align(a)
        BY <1>1 DEF AlignInv
    <2>2. sent(a)' = sent(a) /\ seen'.pos[a] = seen.pos[a] /\ csp'[a] = csp[a] /\ cw'[a] \in {cw[a], "off"}
        BY <2>1 DEF sent
    <2> QED
        BY <2>1, <2>2 DEF Align
<1> QED
    BY <1>1 DEF AlignInv

\* A held axis is on a bus that is open, with its zero known, and seen energised:
\* the mirror counts as long as it is fresh, as it is in full frames.
LEMMA HeldIsSeen ==
    ASSUME FullInv, DrivesTyped, NEW a \in held \intersect on
    PROVE  /\ ready /\ conn /\ (bad = 0 => fresh) /\ a \in seen.on /\ a \in Axes
           /\ is_enabled(a) <=> fresh
    BY DEF FullInv, is_enabled, DrivesTyped

LEMMA AlignAround ==
    ASSUME DrivesTyped, AlignInv, Gui \/ Surroundings \/ UNCHANGED vars
    PROVE  AlignInv'
<1>1. CASE Gui \/ UNCHANGED vars
    <2>1. UNCHANGED <<csp, on, held, seen, origin, tgt, hmode, cw, at, s, fresh>>
        BY <1>1 DEF Gui, Post, SetTarget, StopLook, StopAct, requestQuit, vars, driveVars, zeroVars,
           imageVars, histVars
    <2> QED
        BY <2>1, AlignUntouched
<1>2. CASE Surroundings
    <2>1. PICK b \in Axes : Push(b) \/ Trip(b)
        BY <1>2 DEF Surroundings
    <2>2. UNCHANGED <<csp, held, origin, tgt, hmode, cw, at, s, fresh>> /\ on' \subseteq on
        BY <2>1 DEF Push, Trip, zeroVars, imageVars, histVars
    <2>3. ASSUME NEW a \in on' PROVE seen'.pos[a] = seen.pos[a]
        <3>1. CASE Trip(b)
            BY <3>1 DEF Trip
        <3>2. CASE Push(b)
            <4>1. PICK x : seen' = seen \/ seen' = [seen EXCEPT !.pos[b] = x]
                BY <3>2 DEF Push
            <4>2. a # b /\ a \in Axes
                BY <2>2, <2>3, <3>2 DEF Push, DrivesTyped
            <4> QED
                BY <4>1, <4>2 DEF DrivesTyped, Mirrors
        <3> QED
            BY <2>1, <3>1, <3>2
    <2>4. ASSUME NEW a \in (held' \intersect on') \ hmode' PROVE Align(a)'
        <3>1. Align(a) /\ seen'.pos[a] = seen.pos[a]
            BY <2>2, <2>3, <2>4 DEF AlignInv
        <3> QED
            BY <2>2, <3>1 DEF Align, sent
    <2> QED
        BY <2>4 DEF AlignInv
<1> QED
    BY <1>1, <1>2

\* A frame energises nobody who was held before, and moves no target.
LEMMA AlignFrame ==
    ASSUME PeersInv, DrivesTyped, PlacesTyped, FullInv, LadderInv, AlignInv, JobFrame \/ Frame
    PROVE  AlignInv'
<1>1. /\ Exchange /\ held' = held \ (Axes \ on') /\ at # "move"
      /\ \/ UNCHANGED <<zeroVars, tgt>>
         \/ ~ready
    BY DEF JobFrame, Frame
<1>2. ASSUME NEW a \in (held' \intersect on') \ hmode' PROVE Align(a)'
    <2>1. on' \subseteq Axes
        BY <1>1, DrivesExchange DEF DrivesTyped
    <2>2. a \in Axes /\ a \in held
        BY <1>1, <1>2, <2>1
    <2>3. cw[a] # "last"
        BY <2>2 DEF LadderInv, Rising
    <2>4. a \in on /\ cw[a] # "off" /\ UNCHANGED <<csp, hmode>>
        BY <1>1, <1>2, <2>2, <2>3, AnyExchange
    <2>5. csp[a] = sent(a)
        BY <1>1, <1>2, <2>2, <2>4 DEF AlignInv, Align
    <2>6. sent(a)' = sent(a)
        BY <1>1, <2>2, <2>4, HeldIsSeen DEF sent, zeroVars
    <2> QED
        BY <2>4, <2>5, <2>6 DEF Align
<1> QED
    BY <1>2 DEF AlignInv

LEMMA AlignDrain ==
    ASSUME DrivesTyped, FullInv, AlignInv, Drain
    PROVE  AlignInv'
<1>1. CASE Connect \/ ConnectOk \/ Disconnect
    <2>1. on' = {}
        BY <1>1 DEF Connect, ConnectOk, Disconnect, teardown
    <2> QED
        BY <2>1 DEF AlignInv
<1>2. CASE Drain /\ ~(Connect \/ ConnectOk \/ Disconnect)
    <2>1. at # "move" /\ UNCHANGED <<csp, on, held, seen, origin, tgt, cw>>
        BY <1>2 DEF Drain, DrainNothing, DrainStop, EnableBegin, DisableBegin, ResetBegin, doStop, ZeroBegin,
           doCenter, doRange, HomeRefused, HomeBegin, Take, driveVars, zeroVars, imageVars, histVars
    <2>2. held \intersect on \intersect hmode \subseteq hmode'
        <3>1. CASE EnableBegin
            <4>1. \/ hmode' = hmode
                  \/ fresh /\ \E done \in SUBSET {a \in Axes : ~is_enabled(a)} : hmode' = hmode \ done
                BY <3>1 DEF EnableBegin
            <4> QED
                BY <4>1, HeldIsSeen
        <3>2. CASE ~EnableBegin
            <4>1. hmode' = hmode
                BY <1>2, <3>2 DEF Drain, DrainNothing, DrainStop, DisableBegin, ResetBegin, doStop, ZeroBegin,
                   doCenter, doRange, HomeRefused, HomeBegin, imageVars
            <4> QED
                BY <4>1
        <3> QED
            BY <3>1, <3>2
    <2> QED
        BY <2>1, <2>2, AlignUntouched
<1> QED
    BY <1>1, <1>2

LEMMA AlignClimb ==
    ASSUME PeersInv, TodoInv, SessionTyped, DrivesTyped, PlacesTyped, Where, Listed, FullInv, EnableInv,
           DisableInv, StartInv, TurnInv, AlignInv, Climb, RisesInFull
    PROVE  AlignInv'
<1>0. /\ cw \in [Axes -> ControlWords] /\ {tgt, want, csp, origin} \subseteq [Axes -> Int]
      /\ at # "move" /\ seen.pos \in [Axes -> Int] /\ s.eff \in [Axes -> Int]
    BY DEF DrivesTyped, Mirrors, PlacesTyped, SessionTyped, Climb, Prepare, Off, OffDone, SetMode, Arm, Climbed,
       Started, ArmFails, ReadyToArm, JobOver, EnableDone, DisableDone, StartDone, FinishBegin, FinishAxis,
       Anchor, FinishEnd
<1>1. CASE Prepare \/ Off
    <2>1. UNCHANGED <<csp, hmode, on, held, seen, origin, tgt>>
        BY <1>1 DEF Prepare, Off, driveVars, zeroVars, histVars
    <2>2. \A a \in on : cw'[a] \in {cw[a], "off"}
        <3>1. CASE Prepare
            BY <3>1 DEF Prepare, DrivesTyped
        <3>2. CASE Off
            BY <1>0, <3>2 DEF Off, DrivesTyped
        <3> QED
            BY <1>1, <3>1, <3>2
    <2> QED
        BY <1>0, <2>1, <2>2, AlignUntouched
<1>2. CASE OffDone
    <2>1. UNCHANGED <<csp, hmode, on, held, origin, tgt, cw>>
        BY <1>2 DEF OffDone, imageVars, zeroVars, histVars
    <2>2. seen' = seen \/ seen' = [seen EXCEPT !.fault = @ \ {axis}]
        BY <1>2 DEF OffDone
    <2>3. seen'.pos = seen.pos
        BY <2>2 DEF DrivesTyped, Mirrors
    <2> QED
        BY <1>0, <2>1, <2>3, AlignUntouched
<1>3. CASE SetMode
    <2>1. UNCHANGED <<csp, cw, on, held, seen, origin, tgt>>
        BY <1>3 DEF SetMode, driveVars, zeroVars, histVars
    <2>2. hmode \subseteq hmode' \/ (~is_enabled(axis) /\ hmode' = hmode \ {axis})
        BY <1>3 DEF SetMode
    <2>3. bad = 0
        BY <1>3 DEF SetMode, Where, Starting, Finishing, RisesInFull, EveryFrameFull
    <2>4. held \intersect on \intersect hmode \subseteq hmode'
        BY <2>2, <2>3, HeldIsSeen
    <2> QED
        BY <1>0, <2>1, <2>4, AlignUntouched
<1>4. CASE Arm
    <2>1. /\ UNCHANGED <<hmode, on, seen, origin, tgt>> /\ held' = held \ {axis}
          /\ csp' = csp \/ \E x : csp' = [csp EXCEPT ![axis] = x]
          /\ cw' = [cw EXCEPT ![axis] = "climb"]
        BY <1>4 DEF Arm, driveVars, zeroVars
    <2>2. ASSUME NEW a \in (held' \intersect on') \ hmode' PROVE Align(a)'
        <3>1. Align(a) /\ a # axis /\ a \in Axes
            BY <2>1, <2>2 DEF AlignInv, DrivesTyped
        <3>2. csp'[a] = csp[a] /\ cw'[a] = cw[a]
            BY <1>0, <2>1, <3>1
        <3> QED
            BY <1>0, <2>1, <3>1, <3>2 DEF Align, sent
    <2> QED
        BY <2>2 DEF AlignInv
<1>5. CASE Climbed
    <2>1. /\ UNCHANGED <<csp, hmode, on, held, seen, origin, tgt>>
          /\ cw' = cw \/ (job.kind = "start" /\ cw' = [cw EXCEPT ![axis] = "start"])
          /\ at = "job" /\ job.stage = "climb"
        BY <1>5 DEF Climbed, driveVars, zeroVars, histVars
    <2>2. ASSUME job.kind = "start" PROVE axis \in hmode
        <3>1. Starting /\ job.todo # <<>>
            BY <2>1, <2>2 DEF Starting, TodoInv, Standing
        <3>2. axis = job.todo[1] /\ 1 \in 1 .. Len(job.todo)
            BY <3>1, HeadTailProperties DEF TodoInv, axis
        <3>3. axis \in s.mask
            BY <3>1, <3>2 DEF Listed
        <3> QED
            BY <2>1, <3>1, <3>3 DEF StartInv, AtRung
    <2>3. \A a \in (held \intersect on) \ hmode : cw'[a] = cw[a]
        BY <1>0, <2>1, <2>2 DEF DrivesTyped
    <2> QED
        BY <1>0, <2>1, <2>3, AlignUntouched
<1>6. CASE ArmFails
    <2>1. UNCHANGED <<csp, hmode, on, held, seen, origin, tgt>> /\ (cw' = cw \/ cw' = [cw EXCEPT ![axis] = "off"])
        BY <1>6 DEF ArmFails, driveVars, zeroVars, histVars
    <2>2. \A a \in on : cw'[a] \in {cw[a], "off"}
        BY <1>0, <2>1 DEF DrivesTyped
    <2> QED
        BY <1>0, <2>1, <2>2, AlignUntouched
<1>7. CASE Started \/ StartDone \/ FinishBegin \/ FinishAxis \/ FinishEnd
    <2>1. UNCHANGED <<csp, cw, hmode, on, held, seen, origin, tgt>>
        BY <1>7 DEF Started, StartDone, FinishBegin, FinishAxis, FinishEnd, imageVars, driveVars, zeroVars, histVars
    <2> QED
        BY <1>0, <2>1, AlignUntouched
<1>8. ASSUME NEW a \in Axes, tgt'[a] = seen.pos[a] - origin[a], UNCHANGED <<csp, cw, seen, origin>>,
             csp[a] = seen.pos[a] \/ cw[a] = "off"
      PROVE  Align(a)'
    <2>1. sent(a)' = origin[a] + (seen.pos[a] - origin[a])
        BY <1>8 DEF sent
    <2>2. seen.pos[a] \in Int /\ origin[a] \in Int
        BY <1>0
    <2>3. sent(a)' = seen.pos[a]
        BY <2>1, <2>2
    <2> QED
        BY <1>8, <2>3 DEF Align
<1>9. CASE EnableDone
    <2>1. /\ at = "job" /\ job.kind = "enable" /\ job.todo = <<>>
          /\ UNCHANGED <<csp, cw, hmode, on, seen, origin>> /\ hold(Axes)
        BY <1>9 DEF EnableDone, JobOver, imageVars, driveVars, zeroVars
    <2>2. ASSUME NEW a \in (held' \intersect on') \ hmode' PROVE Align(a)'
        <3>1. a \in Axes /\ Passed(a)
            BY <2>1, <2>2 DEF DrivesTyped, Passed
        <3>2. csp[a] = seen.pos[a]
            BY <2>1, <2>2, <3>1 DEF EnableInv, Calm
        <3>3. tgt'[a] = seen.pos[a] - origin[a]
            BY <2>1, <3>1 DEF hold
        <3> QED
            BY <1>8, <2>1, <3>1, <3>2, <3>3
    <2> QED
        BY <2>2 DEF AlignInv
<1>10. CASE DisableDone
    <2>1. /\ at = "job" /\ job.todo = <<>> /\ UNCHANGED <<csp, cw, hmode, on, seen, origin, held>>
          /\ IF job.kind = "disable" THEN hold(Axes) ELSE UNCHANGED tgt
        BY <1>10 DEF DisableDone, JobOver, imageVars, driveVars, zeroVars
    <2>2. CASE job.kind # "disable"
        BY <1>0, <2>1, <2>2, AlignUntouched
    <2>3. CASE job.kind = "disable"
        <3>1. ASSUME NEW a \in (held' \intersect on') \ hmode' PROVE Align(a)'
            <4>1. a \in Axes /\ Passed(a)
                BY <2>1, <3>1 DEF DrivesTyped, Passed
            <4>2. cw[a] = "off"
                BY <2>1, <2>3, <4>1 DEF DisableInv
            <4>3. tgt'[a] = seen.pos[a] - origin[a]
                BY <2>1, <2>3, <4>1 DEF hold
            <4> QED
                BY <1>8, <2>1, <4>1, <4>2, <4>3
        <3> QED
            BY <3>1 DEF AlignInv
    <2> QED
        BY <2>2, <2>3
<1>11. CASE Anchor
    <2>1. PICK b : b = axis
        OBVIOUS
    <2>2. /\ at = "job" /\ job.kind = "finish" /\ job.stage = "end" /\ job.todo # <<>>
          /\ UNCHANGED <<csp, cw, hmode, on, seen>> /\ b \in Axes
        BY <1>11, <2>1, AxisOfJob DEF Anchor, imageVars, driveVars, TodoInv, Standing
    <2> DEFINE end == home_end_state(TRUE, b \in seen.fault, is_enabled(b), IF job.mode_ok THEN 0 ELSE 1)
    <2>3. /\ origin' = [origin EXCEPT ![b] = home_anchor(seen.pos[b], s.eff[b]).origin]
          /\ tgt' = [tgt EXCEPT ![b] = home_anchor(seen.pos[b], s.eff[b]).tgt]
          /\ held' = IF end = "HOLDING" THEN held \union {b} ELSE held \ {b}
        BY <1>11, <2>1 DEF Anchor
    <2>4. sent(b)' = seen.pos[b]
        <3>1. seen.pos[b] \in Int /\ s.eff[b] \in Int
            BY <1>0, <2>2
        <3>2. home_anchor(seen.pos[b], s.eff[b]).origin + home_anchor(seen.pos[b], s.eff[b]).tgt = seen.pos[b]
            BY <3>1 DEF home_anchor
        <3> QED
            BY <1>0, <2>2, <2>3, <3>2 DEF sent
    <2>5. end = "HOLDING" => b \in seen.on /\ b \notin seen.fault /\ job.mode_ok
        BY DEF home_end_state, is_enabled
    <2> HIDE DEF end
    <2>6. ASSUME NEW a \in (held' \intersect on') \ hmode' PROVE Align(a)'
        <3>1. CASE a = b
            <4>1. end = "HOLDING"
                BY <2>3, <2>6, <3>1
            <4>2. Calm(b)
                BY <2>1, <2>2, <2>5, <4>1 DEF TurnInv
            <4>3. csp[b] = seen.pos[b]
                BY <2>2, <2>6, <3>1, <4>2 DEF Calm
            <4> QED
                BY <2>2, <2>4, <3>1, <4>3 DEF Align
        <3>2. CASE a # b
            <4>1. a \in held /\ a \in on /\ a \notin hmode /\ a \in Axes
                BY <2>2, <2>3, <2>6, <3>2 DEF DrivesTyped
            <4>2. Align(a) /\ origin'[a] = origin[a] /\ tgt'[a] = tgt[a]
                BY <1>0, <2>3, <3>2, <4>1 DEF AlignInv
            <4> QED
                BY <1>0, <2>2, <4>2 DEF Align, sent
        <3> QED
            BY <3>1, <3>2
    <2> QED
        BY <2>6 DEF AlignInv
<1> QED
    BY <1>1, <1>2, <1>3, <1>4, <1>5, <1>6, <1>7, <1>9, <1>10, <1>11 DEF Climb

\* A measurement is one of axes, in a session.
SpanAxes == s.spanning => s.smask \subseteq Axes /\ s.homing

LEMMA SpanAxesKept ==
    ASSUME PeersInv, SpanAxes, [Next]_vars
    PROVE  SpanAxes'
<1>0. DOMAIN s = SFields /\ s.batch \subseteq Axes
    BY DEF PeersInv, SessionOk
<1>1. ~NoSession.spanning /\ ~Idle.spanning
    <2>1. NoSession.spanning = FALSE
        BY DEF NoSession
    <2>2. Idle.spanning = NoSession.spanning
        BY NoSessionOk DEF Idle, SFields
    <2> QED
        BY <2>1, <2>2
<1>2. CASE \/ s' = s \/ s' = NoSession
    BY <1>0, <1>1, <1>2 DEF SpanAxes
<1>3. CASE Gui \/ Surroundings \/ JobFrame \/ UNCHANGED vars
    BY <1>2, <1>3 DEF Gui, Post, SetTarget, StopLook, StopAct, requestQuit, Surroundings, Push, Trip, JobFrame, vars
<1>4. CASE Drain
    <2>1. CASE HomeBegin
        <3>1. s'.spanning = Idle.spanning
            BY <2>1, IdleOk DEF HomeBegin, SFields
        <3> QED
            BY <1>1, <3>1 DEF SpanAxes
    <2>2. CASE HomeRefused
        <3>1. \E p : s' = [s EXCEPT !.pending = p]
            BY <2>2 DEF HomeRefused
        <3> QED
            BY <1>0, <3>1 DEF SpanAxes, SFields
    <2>3. CASE ~HomeBegin /\ ~HomeRefused
        <3>1. s' = s \/ s' = NoSession
            BY <1>4, <2>3 DEF Drain, DrainNothing, DrainStop, Connect, ConnectOk, Disconnect, teardown, EnableBegin,
               DisableBegin, ResetBegin, doStop, ZeroBegin, doCenter, doRange
        <3> QED
            BY <1>2, <3>1
    <2> QED
        BY <2>1, <2>2, <2>3
<1>5. CASE Climb
    <2>1. CASE FinishEnd
        <3>1. s' = Idle \/ s' = beginSpan(s.batch)
            BY <2>1 DEF FinishEnd
        <3>2. beginSpan(s.batch).smask = s.batch /\ beginSpan(s.batch).homing
            BY <1>0 DEF beginSpan, SFields
        <3> QED
            BY <1>0, <1>1, <3>1, <3>2 DEF SpanAxes
    <2>2. CASE ~FinishEnd
        <3>1. \/ s' = s
              \/ \E rc, c : s' = [s EXCEPT !.rc = rc, !.culprit = c]
              \/ \E m, e : s' = [s EXCEPT !.mask = m, !.ends = e]
              \/ \E e : s' = [s EXCEPT !.ends = e]
              \/ \E k : s' = [s EXCEPT !.back = k]
            <4>1. CASE Prepare \/ SetMode \/ ArmFails
                BY <4>1 DEF Prepare, SetMode, ArmFails
            <4>2. CASE StartDone \/ FinishBegin
                BY <4>2 DEF StartDone, FinishBegin
            <4>4. CASE Anchor
                <5>1. \E e : s' = [s EXCEPT !.mask = @ \ {axis}, !.ends = e]
                    BY <4>4 DEF Anchor
                <5> QED
                    BY <5>1
            <4>3. CASE Off \/ OffDone \/ Arm \/ Climbed \/ Started \/ EnableDone \/ DisableDone \/ FinishAxis
                BY <4>3 DEF Off, OffDone, Arm, Climbed, Started, EnableDone, DisableDone, FinishAxis
            <4> QED
                BY <1>5, <2>2, <4>1, <4>2, <4>3, <4>4 DEF Climb
        <3>2. UNCHANGED <<s.spanning, s.smask, s.homing>>
            BY <1>0, <3>1 DEF SFields
        <3> QED
            BY <3>2 DEF SpanAxes
    <2> QED
        BY <2>1, <2>2
<1>6. CASE Loop
    <2>1. CASE serviceHoming
        <3>1. s' = s \/ \E rc \in [Axes -> StepRcs] : HomePass(rc)
            BY <2>1 DEF serviceHoming
        <3>2. ASSUME NEW rc, HomePass(rc) PROVE UNCHANGED <<s.spanning, s.smask, s.homing>>
            BY <1>0, <3>2 DEF HomePass, SFields
        <3> QED
            BY <3>1, <3>2 DEF SpanAxes
    <2>2. CASE serviceSpan /\ s.spanning
        <3>0. SpanPass
            BY <2>2 DEF serviceSpan
        <3>1. \/ \E p, w, x : s' = [Idle EXCEPT !.pending = p, !.why = w, !.width = x]
              \/ \E t, st, w, u, p, x : s' = [s EXCEPT !.timer = t, !.step = st, !.why = w, !.stuck = u,
                                                      !.p1 = p, !.width = x]
            BY <3>0 DEF SpanPass
        <3>2. s'.spanning = Idle.spanning \/ UNCHANGED <<s.spanning, s.smask, s.homing>>
            BY <1>0, <3>1, IdleOk DEF SFields
        <3> QED
            BY <1>1, <3>2 DEF SpanAxes
    <2>3. CASE ~serviceHoming /\ ~(serviceSpan /\ s.spanning)
        <3>1. s' = s \/ s' = NoSession
            BY <1>6, <2>3 DEF Loop, Top, teardown, serviceSpan, interpolate, Frame, FrameClosed, Recover, Zero
        <3> QED
            BY <1>2, <3>1
    <2> QED
        BY <2>1, <2>2, <2>3
<1> QED
    BY <1>3, <1>4, <1>5, <1>6 DEF Next

\* A pass of a measurement takes the CSP target along with the target, a step at
\* most; where it is over, the target is where the axis is seen, and so is the wish.
LEMMA SpanPassAligns ==
    ASSUME DrivesTyped, PlacesTyped, SpanAxes, s.spanning, SpanPass, at' = "move",
           UNCHANGED <<origin, cw, seen, fresh>>, fresh, NEW a \in Axes, Align(a), at = "span"
    PROVE  /\ Align(a)'
           /\ abs(csp'[a] - csp[a]) <= Step \/ abs(csp'[a] - seen.pos[a]) <= Step
<1> DEFINE failed == {b \in Measured : span_why(b) # "NONE"}
           step1(b) == IF b \in failed THEN "DONE" ELSE span_next(s.step[b], signal(b))
           peers  == {b \in Measured \ failed : failed # {} /\ step1(b) # "DONE"}
           step2  == [b \in Axes |-> IF b \in peers THEN "DONE"
                                     ELSE IF b \in Measured THEN step1(b) ELSE s.step[b]]
           ran    == Measured \ failed
           over   == \A b \in s.smask : step2[b] = "DONE"
           frozen == IF over THEN s.smask ELSE peers
           go(b)  == span_advance(tgt[b], disp(b), Step, Lead, span_dir(s.step[b])).tgt
<1>0. /\ Measured \subseteq s.smask /\ s.smask \subseteq Axes
      /\ tgt[a] \in Int /\ origin[a] \in Int /\ csp[a] \in Int /\ seen.pos[a] \in Int
      /\ disp(a) \in Int /\ disp(a) = seen.pos[a] - origin[a] /\ Step \in Nat \ {0}
    BY WorkerAssumption DEF SpanAxes, Measured, DrivesTyped, Mirrors, PlacesTyped, disp
<1>1. /\ tgt' = [b \in Axes |-> IF b \in frozen THEN disp(b) ELSE IF b \in ran THEN go(b) ELSE tgt[b]]
      /\ csp' = [b \in Axes |-> IF b \in ran THEN origin[b] + go(b) ELSE csp[b]]
      /\ over => \E p, w, x : s' = [Idle EXCEPT !.pending = p, !.why = w, !.width = x]
    BY DEF SpanPass
<1>2. go(a) \in Int /\ go(a) - tgt[a] <= Step /\ tgt[a] - go(a) <= Step
    BY <1>0, AdvanceBounds DEF span_dir
<1>3. a \in frozen => over
    <2>1. ASSUME peers # {}, NEW b \in s.smask PROVE step2[b] = "DONE"
        <3>1. failed # {} /\ b \in Axes
            BY <1>0, <2>1
        <3>2. CASE b \in Measured
            BY <3>1, <3>2
        <3>3. CASE b \notin Measured
            BY <2>1, <3>1, <3>3 DEF Measured
        <3> QED
            BY <3>2, <3>3
    <2> QED
        BY <2>1
<1>4. over => s'.mask = {}
    BY <1>1, IdleOk DEF SFields
<1> HIDE DEF go, frozen, ran, over
<1>5. ASSUME a \in frozen PROVE Align(a)'
    <2>1. tgt'[a] = disp(a)
        BY <1>1, <1>5
    <2>2. sent(a)' = seen.pos[a]
        BY <1>0, <2>1 DEF sent
    <2> QED
        BY <1>3, <1>4, <1>5, <2>2 DEF Align
<1>6. ASSUME a \notin frozen PROVE Align(a)'
    <2>1. CASE a \in ran
        BY <1>1, <1>6, <2>1 DEF Align, sent
    <2>2. CASE a \notin ran
        BY <1>1, <1>6, <2>2 DEF Align, sent
    <2> QED
        BY <2>1, <2>2
<1>7. ASSUME a \in ran PROVE abs(csp'[a] - csp[a]) <= Step \/ abs(csp'[a] - seen.pos[a]) <= Step
    <2>1. csp'[a] = origin[a] + go(a)
        BY <1>1, <1>7
    <2>2. csp[a] = origin[a] + tgt[a] \/ seen.pos[a] = origin[a] + tgt[a]
        BY DEF Align, sent
    <2>3. abs((origin[a] + go(a)) - (origin[a] + tgt[a])) <= Step
        BY <1>0, <1>2 DEF abs
    <2> QED
        BY <2>1, <2>2, <2>3
<1>8. a \notin ran => csp'[a] = csp[a]
    BY <1>1
<1>9. abs(csp[a] - csp[a]) <= Step
    BY <1>0 DEF abs
<1> QED
    BY <1>5, <1>6, <1>7, <1>8, <1>9

\* The interpolator takes the CSP target of every axis that is held to its target, a
\* step at most, but for those that are homing.
LEMMA InterpolateAligns ==
    ASSUME DrivesTyped, PlacesTyped, FullInv, interpolate, NEW a \in held \intersect on, Align(a)
    PROVE  /\ Align(a)'
           /\ abs(tgt[a]) <= range => abs(csp'[a] - csp[a]) <= Step \/ abs(csp'[a] - seen.pos[a]) <= Step
<1> DEFINE mine == {b \in Axes : conn /\ ready /\ is_enabled(b) /\ b \notin s.mask}
           next(b) == clamp(tgt[b] + clamp(want[b] - tgt[b], -Step, Step), -range, range)
<1>0. /\ tgt[a] \in Int /\ want[a] \in Int /\ origin[a] \in Int /\ csp[a] \in Int /\ seen.pos[a] \in Int
      /\ Step \in Nat \ {0} /\ range \in Nat \ {0} /\ a \in Axes /\ conn /\ ready
      /\ is_enabled(a) <=> fresh
    BY WorkerAssumption, HeldIsSeen DEF DrivesTyped, Mirrors, PlacesTyped
<1>1. /\ tgt' = [b \in Axes |-> IF b \in mine THEN next(b) ELSE tgt[b]]
      /\ csp' = [b \in Axes |-> IF b \in mine THEN origin[b] + next(b) ELSE csp[b]]
      /\ at = "move" /\ UNCHANGED <<origin, cw, seen, fresh, s>>
    BY DEF interpolate, zeroVars, driveVars
<1>2. /\ next(a) \in Int
      /\ abs(tgt[a]) <= range => next(a) - tgt[a] <= Step /\ tgt[a] - next(a) <= Step
    BY <1>0 DEF clamp, abs
<1>3. a \in mine <=> fresh /\ a \notin s.mask
    BY <1>0
<1> HIDE DEF mine, next
<1>4. CASE a \in s.mask \/ ~fresh
    <2>1. tgt'[a] = tgt[a] /\ csp'[a] = csp[a] /\ (s.mask # {} \/ ~fresh)
        BY <1>0, <1>1, <1>3, <1>4
    <2>2. abs(csp[a] - csp[a]) <= Step
        BY <1>0 DEF abs
    <2> QED
        BY <1>1, <2>1, <2>2 DEF Align, sent
<1>5. CASE a \notin s.mask /\ fresh
    <2>1. tgt'[a] = next(a) /\ csp'[a] = origin[a] + next(a)
        BY <1>0, <1>1, <1>3, <1>5
    <2>2. Align(a)'
        BY <1>1, <2>1 DEF Align, sent
    <2>3. csp[a] = origin[a] + tgt[a] \/ seen.pos[a] = origin[a] + tgt[a]
        BY DEF Align, sent
    <2>4. abs(tgt[a]) <= range => abs((origin[a] + next(a)) - (origin[a] + tgt[a])) <= Step
        BY <1>0, <1>2 DEF abs
    <2> QED
        BY <2>1, <2>2, <2>3, <2>4
<1> QED
    BY <1>4, <1>5

LEMMA AlignLoop ==
    ASSUME PeersInv, DrivesTyped, PlacesTyped, FlagsTyped, SpanAxes, Where, FullInv, LadderInv, StartInv, AlignInv,
           Loop, RisesInFull
    PROVE  AlignInv'
<1>1. CASE Top
    <2>1. on' = {} \/ (at # "move" /\ UNCHANGED <<csp, hmode, cw, on, held, seen, origin, tgt>>)
        BY <1>1 DEF Top, teardown, imageVars, driveVars, zeroVars, histVars
    <2> QED
        BY <2>1, AlignUntouched DEF AlignInv
<1>2. CASE serviceHoming
    <2>1. at = "homing" /\ UNCHANGED <<csp, hmode, on, held, seen, origin, tgt>>
        BY <1>2 DEF serviceHoming, driveVars, zeroVars, histVars
    <2>2. \A a \in Axes \ hmode : cw'[a] = cw[a]
        <3>1. CASE cw' = cw
            BY <3>1
        <3>2. CASE cw' # cw
            <4>1. s.homing /\ ~s.spanning /\ \E rc : HomePass(rc)
                BY <1>2, <3>2 DEF serviceHoming
            <4>2. s.mask \subseteq hmode
                BY <2>1, <4>1 DEF StartInv, Finishing, Starting
            <4>3. \E halt \in SUBSET s.mask : cw' = [a \in Axes |-> IF a \in halt THEN "on" ELSE cw[a]]
                BY <4>1 DEF HomePass
            <4> QED
                BY <4>2, <4>3
        <3> QED
            BY <3>1, <3>2
    <2>3. \A a \in (held \intersect on) \ hmode : cw'[a] = cw[a]
        BY <2>2 DEF DrivesTyped
    <2> QED
        BY <2>1, <2>3, AlignUntouched
<1>3. CASE serviceSpan
    <2>1. at = "span" /\ at' = "move" /\ UNCHANGED <<cw, hmode, on, held, seen, origin>>
        BY <1>3 DEF serviceSpan, driveVars, zeroVars
    <2>2. CASE s.spanning
        <3>1. SpanPass
            BY <1>3, <2>2 DEF serviceSpan
        <3>2. ASSUME NEW a \in (held' \intersect on') \ hmode' PROVE Align(a)'
            <4>1. a \in Axes /\ Align(a) /\ a \in held \intersect on
                BY <2>1, <3>2 DEF AlignInv, DrivesTyped
            <4>2. fresh /\ fresh' = fresh
                BY <1>3, <2>2, <4>1, HeldIsSeen DEF SpanAxes, RisesInFull, EveryFrameFull, serviceSpan, driveVars
            <4> QED
                BY <2>1, <2>2, <3>1, <4>1, <4>2, SpanPassAligns
        <3> QED
            BY <3>2 DEF AlignInv
    <2>3. CASE ~s.spanning
        <3>1. UNCHANGED <<tgt, csp>>
            BY <1>3, <2>3 DEF serviceSpan
        <3> QED
            BY <2>1, <3>1, AlignUntouched
    <2> QED
        BY <2>2, <2>3
<1>4. CASE interpolate
    <2>1. UNCHANGED <<hmode, on, held>>
        BY <1>4 DEF interpolate, driveVars, histVars
    <2>2. ASSUME NEW a \in (held' \intersect on') \ hmode' PROVE Align(a)'
        BY <1>4, <2>1, <2>2, InterpolateAligns DEF AlignInv
    <2> QED
        BY <2>2 DEF AlignInv
<1>5. CASE Frame
    BY <1>5, AlignFrame
<1>6. CASE FrameClosed
    <2>1. ~conn /\ on' = on
        BY <1>6 DEF FrameClosed
    <2>2. on = {}
        BY <2>1 DEF FullInv
    <2> QED
        BY <2>1, <2>2 DEF AlignInv
<1>7. CASE Recover
    <2>1. /\ at = "recover" /\ UNCHANGED <<csp, hmode, on, held, seen, origin>>
          /\ cw' = cw \/ cw' = [a \in Axes |-> IF a \in out THEN "off" ELSE cw[a]]
          /\ tgt' = tgt \/ \E back \in SUBSET out : hold(back)
        BY <1>7 DEF Recover, zeroVars
    <2>2. ASSUME NEW a \in (held' \intersect on') \ hmode' PROVE Align(a)'
        <3>1. Align(a) /\ a \in Axes /\ a \notin out /\ tgt[a] \in Int
            BY <2>1, <2>2 DEF AlignInv, DrivesTyped, FullInv, PlacesTyped
        <3>2. cw'[a] = cw[a] /\ tgt'[a] = tgt[a]
            BY <2>1, <3>1 DEF hold
        <3> QED
            BY <2>1, <3>1, <3>2 DEF Align, sent
    <2> QED
        BY <2>2 DEF AlignInv
<1>8. CASE Zero
    <2>1. PICK b : b = Head(job.todo)
        OBVIOUS
    <2>2. /\ at = "zero" /\ UNCHANGED <<csp, cw, hmode, on, held, seen>>
          /\ origin' = [origin EXCEPT ![b] = @ + (seen.pos[b] - origin[b])]
          /\ tgt' = [tgt EXCEPT ![b] = @ - (seen.pos[b] - origin[b])]
        BY <1>8, <2>1 DEF Zero, imageVars, driveVars, histVars
    <2>3. ASSUME NEW a \in (held' \intersect on') \ hmode' PROVE Align(a)'
        <3>1. a \in Axes /\ Align(a)
            BY <2>2, <2>3 DEF AlignInv, DrivesTyped
        <3>2. tgt[a] \in Int /\ origin[a] \in Int /\ seen.pos[a] \in Int
            BY <3>1 DEF DrivesTyped, Mirrors, PlacesTyped
        <3>3. CASE a = b
            <4>1. /\ origin'[a] = origin[a] + (seen.pos[a] - origin[a])
                  /\ tgt'[a] = tgt[a] - (seen.pos[a] - origin[a])
                BY <2>2, <3>1, <3>3 DEF PlacesTyped
            <4>2. sent(a)' = sent(a)
                BY <3>2, <4>1 DEF sent
            <4> QED
                BY <2>2, <3>1, <4>2 DEF Align
        <3>4. CASE a # b
            <4>1. origin'[a] = origin[a] /\ tgt'[a] = tgt[a]
                BY <2>2, <3>1, <3>4 DEF PlacesTyped
            <4> QED
                BY <2>2, <3>1, <4>1 DEF Align, sent
        <3> QED
            BY <3>3, <3>4
    <2> QED
        BY <2>3 DEF AlignInv
<1> QED
    BY <1>1, <1>2, <1>3, <1>4, <1>5, <1>6, <1>7, <1>8 DEF Loop

-----------------------------------------------------------------------------
(* No axis jumps                                                           *)

\* What holds of a step: NoJump, with nothing left behind by a measurement.
StepOrSeen ==
    \A a \in (held \intersect held' \intersect on) \ hmode : abs(tgt[a]) <= range =>
        abs(csp'[a] - csp[a]) <= Step \/ abs(csp'[a] - seen.pos[a]) <= Step

LEMMA NobodyJumps ==
    ASSUME DrivesTyped, PlacesTyped, SpanAxes, FullInv, AlignInv, [Next]_vars, RisesInFull
    PROVE  StepOrSeen
<1> SUFFICES ASSUME NEW a \in (held \intersect held' \intersect on) \ hmode, abs(tgt[a]) <= range
             PROVE  abs(csp'[a] - csp[a]) <= Step \/ abs(csp'[a] - seen.pos[a]) <= Step
    BY DEF StepOrSeen
<1>0. a \in Axes /\ csp[a] \in Int /\ Align(a) /\ Step \in Nat
    BY WorkerAssumption DEF DrivesTyped, PlacesTyped, AlignInv
<1>1. CASE csp'[a] = csp[a]
    BY <1>0, <1>1 DEF abs
<1>2. CASE interpolate
    BY <1>0, <1>2, InterpolateAligns
<1>3. CASE serviceSpan /\ s.spanning
    <2>1. SpanPass /\ at = "span" /\ at' = "move" /\ UNCHANGED <<origin, cw, seen, fresh>>
        BY <1>3 DEF serviceSpan, driveVars, zeroVars
    <2>2. fresh
        BY <1>3, HeldIsSeen DEF SpanAxes, RisesInFull, EveryFrameFull
    <2> QED
        BY <1>0, <1>3, <2>1, <2>2, SpanPassAligns
<1>4. CASE Arm
    <2>1. held' = held \ {axis} /\ (csp' = csp \/ \E x : csp' = [csp EXCEPT ![axis] = x])
        BY <1>4 DEF Arm
    <2>2. csp'[a] = csp[a]
        BY <1>0, <2>1 DEF PlacesTyped
    <2> QED
        BY <1>1, <2>2
<1>5. CASE ~interpolate /\ ~(serviceSpan /\ s.spanning) /\ ~Arm
    <2>1. CASE Gui \/ Surroundings \/ JobFrame \/ UNCHANGED vars
        <3>1. csp' = csp
            BY <2>1 DEF Gui, Post, SetTarget, StopLook, StopAct, requestQuit, Surroundings, Push, Trip, JobFrame,
               Exchange, vars, imageVars
        <3> QED
            BY <1>1, <3>1
    <2>2. CASE Drain
        <3>1. csp' = csp
            BY <2>2 DEF Drain, DrainNothing, DrainStop, Connect, ConnectOk, Disconnect, teardown, EnableBegin,
               DisableBegin, ResetBegin, doStop, ZeroBegin, doCenter, doRange, HomeRefused, HomeBegin, imageVars
        <3> QED
            BY <1>1, <3>1
    <2>3. CASE Climb
        <3>1. csp' = csp
            BY <1>5, <2>3 DEF Climb, Prepare, Off, OffDone, SetMode, Climbed, Started, ArmFails, EnableDone,
               DisableDone, StartDone, FinishBegin, FinishAxis, Anchor, FinishEnd, imageVars
        <3> QED
            BY <1>1, <3>1
    <2>4. CASE Loop
        <3>1. csp' = csp
            BY <1>5, <2>4 DEF Loop, Top, teardown, serviceHoming, serviceSpan, Frame, Exchange, FrameClosed,
               Recover, Zero, imageVars
        <3> QED
            BY <1>1, <3>1
    <2> QED
        BY <2>1, <2>2, <2>3, <2>4 DEF Next
<1> QED
    BY <1>2, <1>3, <1>4, <1>5

\* All of it together.
JumpInv ==
    /\ Values /\ Where /\ Listed /\ AloneInv /\ SpanAxes
    /\ FullInv /\ LadderInv /\ EnableInv /\ DisableInv /\ StartInv /\ TurnInv /\ AlignInv

LEMMA JumpBegins == Init => JumpInv
<1> SUFFICES ASSUME Init PROVE JumpInv
    OBVIOUS
<1>1. Values /\ Where /\ Listed
    BY SessionBegins DEF SessionInv
<1>2. /\ s = NoSession /\ at = "top" /\ on = {} /\ fault = {} /\ ready = FALSE /\ fresh = FALSE
      /\ seen = [on |-> {}, fault |-> {}, pos |-> All(0)] /\ cw = All("off")
    BY DEF Init
<1>3. ~s.homing /\ s.spanning = FALSE
    BY <1>2, NoSessionOk DEF NoSession
<1>4. FullInv /\ LadderInv /\ AlignInv
    BY <1>2 DEF FullInv, LadderInv, Rising, AlignInv, All
<1>5. AloneInv /\ SpanAxes /\ EnableInv /\ DisableInv /\ StartInv /\ TurnInv
    BY <1>2, <1>3 DEF AloneInv, SpanAxes, EnableInv, DisableInv, StartInv, TurnInv, Starting, Finishing
<1> QED
    BY <1>1, <1>4, <1>5 DEF JumpInv

LEMMA JumpKept ==
    ASSUME JumpInv, [Next]_vars, RisesInFull, RisesInFull'
    PROVE  JumpInv' /\ StepOrSeen
<1>0. PeersInv /\ TodoInv /\ DrivesTyped /\ SessionTyped /\ PlacesTyped /\ FlagsTyped
    BY DEF JumpInv, Values
<1>1. Values' /\ Where' /\ Listed'
    BY <1>0, ValuesKept, WhereKept, ListedKept DEF JumpInv
<1>2. AloneInv' /\ SpanAxes' /\ StartInv'
    BY <1>0, AloneKept, SpanAxesKept, StartKept DEF JumpInv
<1>3. FullInv' /\ LadderInv'
    BY <1>0, FullKept, LadderKept DEF JumpInv
<1>4. EnableInv' /\ DisableInv' /\ TurnInv'
    BY <1>0, EnableKept, DisableKept, TurnKept DEF JumpInv
<1>5. AlignInv'
    BY <1>0, AlignAround, AlignFrame, AlignDrain, AlignClimb, AlignLoop DEF JumpInv, Next
<1>6. StepOrSeen
    BY <1>0, NobodyJumps DEF JumpInv
<1> QED
    BY <1>1, <1>2, <1>3, <1>4, <1>5, <1>6 DEF JumpInv

\* As long as no frame is short and no drive has left OP while the axes are enabled
\* or homed, no axis that is held jumps, whatever is commanded, pushed by hand,
\* lost and recovered: its CSP target (607Ah) moves by one cycle's step at most, or is
\* taken to within a step of where the axis is seen (interpolate, serviceSpan,
\* finishHoming, doEnable, doZero, serviceAutoRecover).
THEOREM FullRisesNoJump == Spec /\ []RisesInFull => NoJump /\ [][StepOrSeen]_vars
<1>1. Init => JumpInv
    BY JumpBegins
<1>2. JumpInv /\ [Next]_vars /\ RisesInFull /\ RisesInFull' => JumpInv' /\ StepOrSeen
    BY JumpKept
<1>3. [StepOrSeen]_vars => [\A a \in (held \intersect held' \intersect on) \ hmode : abs(tgt[a]) <= range =>
                              \/ abs(csp'[a] - csp[a]) <= Step
                              \/ abs(csp'[a] - seen.pos[a]) <= Step
                              \/ a \in measured /\ abs(csp'[a] - csp[a]) <= Step + Lead]_vars
    BY DEF StepOrSeen
<1> QED
    BY <1>1, <1>2, <1>3, PTL DEF Spec, NoJump
===============================================================================
