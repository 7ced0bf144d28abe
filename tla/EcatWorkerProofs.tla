--------------------------- MODULE EcatWorkerProofs ---------------------------
(***************************************************************************)
(* What holds of the EtherCAT worker for any number of axes, any commands  *)
(* and any surroundings: its pure rules move no axis and turn no           *)
(* measurement back, an epoch names one zero point, automatic recovery     *)
(* gives up, an axis that fails takes its batch with it, every value has   *)
(* its type, a summary names an axis that failed, a stop ends the search,  *)
(* and no axis searches between sessions.                                  *)
(***************************************************************************)
EXTENDS EcatWorker, FiniteSetTheorems, SequenceTheorems, WellFoundedInduction,
        TLAPS

(***************************************************************************)
(* The pure rules.                                                         *)
(***************************************************************************)

\* Where homing puts zero and target, they add up to where the axis is, and both
\* fit into 32 bits (ecatcmd::home_anchor): the next CSP target, origin plus
\* target, is where the axis stands.
THEOREM AnchorIsWhereTheAxisIs ==
    ASSUME NEW landing \in Int32, NEW off \in Int
    PROVE  LET anc == home_anchor(landing, off)
           IN  anc.origin + anc.tgt = landing /\ {anc.origin, anc.tgt} \subseteq Int32
<1>0. IntMax \in Nat \ {0}
    BY RulesAssumption
<1>1. CASE {landing + off, -off} \subseteq Int32
    BY <1>0, <1>1 DEF home_anchor, Int32
<1>2. CASE ~({landing + off, -off} \subseteq Int32)
    BY <1>0, <1>2 DEF home_anchor, Int32
<1> QED
    BY <1>1, <1>2

\* Whatever offset the preferences hold, and behind a limit or not, an axis that
\* is homed stands within range of its displayed zero (home_off_from_pref,
\* home_off_decide, home_anchor): the interpolator need not move it.
THEOREM HomedWithinRange ==
    ASSUME NEW landing \in Int32, NEW v \in Int, NEW def \in -OffMax .. OffMax,
           NEW is_limit \in BOOLEAN, NEW width \in Nat \ {0}
    PROVE  LET eff == home_off_decide(home_off_from_pref(v, def), is_limit, width).eff
           IN  abs(home_anchor(landing, eff).tgt) <= width
<1> DEFINE pref == home_off_from_pref(v, def)
           req == clamp(pref, -OffMax, OffMax)
           eff == home_off_decide(pref, is_limit, width).eff
<1>0. IntMax \in Nat /\ OffMax \in Nat
    BY RulesAssumption
<1>1. pref \in Int
    BY <1>0 DEF home_off_from_pref, clamp
<1>2. req \in Int
    BY <1>0, <1>1 DEF clamp
<1>3. eff \in Int /\ abs(eff) <= width
    <2>1. eff = IF is_limit \/ ~home_off_fits(req, width) THEN 0 ELSE req
        BY DEF home_off_decide
    <2> QED
        BY <1>2, <2>1 DEF home_off_fits, abs
<1>4. home_anchor(landing, eff).tgt \in {-eff, 0}
    BY DEF home_anchor
<1>5. abs(home_anchor(landing, eff).tgt) <= width
    <2> HIDE DEF eff
    <2> QED
        BY <1>3, <1>4 DEF abs
<1> QED
    BY <1>5

\* A measurement never turns back, advances by at most its step, and never asks
\* for more than the lead beyond the axis unless it already had
\* (ecatcmd::span_advance): a stuck axis is not wound up.
THEOREM MeasuringNeverTurnsBack ==
    ASSUME NEW goal \in Int, NEW place \in Int, NEW step \in Nat \ {0}, NEW lead \in Nat \ {0}
    PROVE  /\ LET next == span_advance(goal, place, step, lead, 1).tgt
              IN  next \in goal .. goal + step /\ next <= greater(goal, place + lead)
           /\ LET next == span_advance(goal, place, step, lead, -1).tgt
              IN  next \in goal - step .. goal /\ next >= lesser(goal, place - lead)
    BY DEF span_advance, greater, lesser, clamp

\* The first axis of a batch exists.
LEMMA FirstIsAMember ==
    ASSUME NEW S, S \subseteq Nat, S # {}
    PROVE  first(S) \in S
<1> DEFINE less == {p \in Nat \X Nat : p[1] < p[2]}
<1>0. IsWellFoundedOn(less, Nat)
    BY NatLessThanWellFounded DEF OpToRel
<1>1. PICK x \in S : \A y \in S : ~(<<y, x>> \in less)
    BY <1>0, WFMin
<1>2. ASSUME NEW y \in S PROVE x <= y
    <2>1. x \in Nat /\ y \in Nat /\ <<y, x>> \in Nat \X Nat
        OBVIOUS
    <2>2. ~(y < x)
        BY <1>1, <2>1
    <2> QED
        BY <2>1, <2>2
<1> QED
    BY <1>2 DEF first

\* Where an axis of a batch failed by itself, the summary names one that did, or
\* nobody: never one that was stopped, or that got home (home_batch_blame,
\* home_batch_summary).
THEOREM BlamedAxisFailed ==
    ASSUME NEW mask \in SUBSET Axes, NEW rc \in [Axes -> StepRcs],
           \E a \in mask : rc[a] \in StepFails,
           home_batch_summary(rc, mask) # -1
    PROVE  home_batch_summary(rc, mask) \in {a \in mask : rc[a] \in StepFails}
<1> DEFINE failed == {a \in mask : rc[a] \in StepFails}
<1>1. failed # {} /\ failed \subseteq Nat
    BY RulesAssumption
<1>2. home_batch_summary(rc, mask) = home_batch_blame(rc, mask)
    BY DEF home_batch_summary
<1>3. home_batch_blame(rc, mask) = first(failed)
    BY <1>1 DEF home_batch_blame
<1> QED
    BY <1>1, <1>2, <1>3, FirstIsAMember

(***************************************************************************)
(* The epoch.  EpochNamesZero says nothing of the zero point at hand, so   *)
(* it is not inductive: publishing could add a second zero under an epoch. *)
(* EpochInv adds that the present epoch is the greatest ever shown, and    *)
(* names the present zero.                                                 *)
(***************************************************************************)
EpochInv ==
    /\ gen \in Nat
    /\ \A p \in shown : p[1] \in Nat /\ p[1] <= gen /\ (p[1] = gen => p[2] = origin)
    /\ EpochNamesZero

\* What a step may do to the zero point, its epoch and what was shown of them.
EpochStep ==
    /\ \/ gen' = gen /\ origin' = origin
       \/ gen' = gen + 1
    /\ \/ shown' = shown
       \/ shown' = shown \union {<<gen', origin'>>}

\* No handler moves the zero under its old epoch, and none shows anything but
\* the pair at hand.
LEMMA StepsOfTheEpoch == [Next]_vars => EpochStep
<1> SUFFICES ASSUME [Next]_vars PROVE EpochStep
    OBVIOUS
<1> USE DEF EpochStep, zeroVars
<1>1. CASE Gui
    BY <1>1 DEF Gui, Post, SetTarget, setTarget, StopLook, StopAct, requestQuit
<1>2. CASE Surroundings
    BY <1>2 DEF Surroundings, Push, Trip
<1>3. CASE Drain
    <2>1. CASE DrainNothing \/ DrainStop \/ EnableBegin \/ DisableBegin \/ ResetBegin
        BY <2>1 DEF DrainNothing, DrainStop, EnableBegin, DisableBegin, ResetBegin
    <2>2. CASE Connect \/ ConnectOk \/ Disconnect
        BY <2>2 DEF Connect, ConnectOk, Disconnect, teardown
    <2>3. CASE doStop \/ ZeroBegin \/ doCenter \/ doRange \/ HomeRefused \/ HomeBegin
        BY <2>3 DEF doStop, ZeroBegin, doCenter, doRange, HomeRefused, HomeBegin
    <2> QED
        BY <1>3, <2>1, <2>2, <2>3 DEF Drain
<1>4. CASE Climb
    <2>1. CASE Prepare \/ Off \/ OffDone \/ SetMode \/ Arm \/ Climbed \/ Started \/ ArmFails
        BY <2>1 DEF Prepare, Off, OffDone, SetMode, Arm, Climbed, Started, ArmFails
    <2>2. CASE EnableDone \/ DisableDone \/ StartDone \/ FinishBegin \/ FinishAxis \/ FinishEnd
        BY <2>2 DEF EnableDone, DisableDone, StartDone, FinishBegin, FinishAxis, FinishEnd
    <2>3. CASE Anchor
        BY <2>3 DEF Anchor
    <2> QED
        BY <1>4, <2>1, <2>2, <2>3 DEF Climb
<1>5. CASE Loop
    <2>1. CASE Top \/ serviceHoming \/ serviceSpan \/ interpolate \/ Recover
        BY <2>1 DEF Top, teardown, serviceHoming, serviceSpan, interpolate, Recover
    <2>2. CASE Frame
        <3>1. shown' = shown \/ shown' = shown \union {<<gen', origin'>>}
            BY <2>2 DEF Frame, publish
        <3>2. \/ gen' = gen /\ origin' = origin
              \/ gen' = gen + 1
            BY <2>2 DEF Frame, tryInitOrigin
        <3> QED
            BY <3>1, <3>2
    <2>3. CASE FrameClosed
        BY <2>3 DEF FrameClosed
    <2>4. CASE Zero
        BY <2>4 DEF Zero
    <2> QED
        BY <1>5, <2>1, <2>2, <2>3, <2>4 DEF Loop
<1>6. CASE JobFrame
    BY <1>6 DEF JobFrame, publish
<1>7. CASE UNCHANGED vars
    BY <1>7 DEF vars
<1> QED
    BY <1>1, <1>2, <1>3, <1>4, <1>5, <1>6, <1>7 DEF Next

\* Such a step keeps the invariant.
LEMMA EpochInvKept == EpochInv /\ EpochStep => EpochInv'
<1> SUFFICES ASSUME EpochInv, EpochStep PROVE EpochInv'
    OBVIOUS
<1>1. gen' \in Nat /\ gen <= gen' /\ (gen' = gen => origin' = origin)
    BY DEF EpochInv, EpochStep
<1>2. ASSUME NEW p \in shown'
      PROVE  p[1] \in Nat /\ p[1] <= gen' /\ (p[1] = gen' => p[2] = origin')
    <2>1. CASE p \in shown
        BY <1>1, <2>1 DEF EpochInv
    <2>2. CASE p = <<gen', origin'>>
        BY <1>1, <2>2
    <2> QED
        BY <1>2, <2>1, <2>2 DEF EpochStep
<1>3. ASSUME NEW p \in shown', NEW q \in shown', p[1] = q[1], p[1] > 0
      PROVE  p[2] = q[2]
    <2>1. CASE p \in shown /\ q \in shown
        BY <1>3, <2>1 DEF EpochInv, EpochNamesZero
    <2>2. CASE p = <<gen', origin'>> \/ q = <<gen', origin'>>
        BY <1>2, <1>3, <2>2
    <2> QED
        BY <1>3, <2>1, <2>2 DEF EpochStep
<1> QED
    BY <1>1, <1>2, <1>3 DEF EpochInv, EpochNamesZero

\* However often the bus is closed and opened, axes are homed and zeros are set,
\* no two zero points are ever shown under one epoch (m_origin_gen).
THEOREM EpochOfOneZero == Spec => []EpochNamesZero
<1>1. Init => EpochInv
    BY DEF Init, EpochInv, EpochNamesZero
<1>2. EpochInv /\ [Next]_vars => EpochInv'
    BY StepsOfTheEpoch, EpochInvKept
<1>3. EpochInv => EpochNamesZero
    BY DEF EpochInv
<1> QED
    BY <1>1, <1>2, <1>3, PTL DEF Spec

-----------------------------------------------------------------------------
(* Automatic recovery *)

\* The worker asks the drives back into OP at most MaxTries times after a
\* connection (m_recover_tries; recover_verdict says GIVEUP from then on).
RecoveryGivesUp == tries \in 0 .. MaxTries

\* The count of attempts goes up by one below its limit, or starts anew.
LEMMA TriesAreCounted == [Next]_vars => tries' \in {tries, 0} \/ (~(tries >= MaxTries) /\ tries' = tries + 1)
<1> SUFFICES ASSUME [Next]_vars
             PROVE  tries' \in {tries, 0} \/ (~(tries >= MaxTries) /\ tries' = tries + 1)
    OBVIOUS
<1> USE DEF busVars
<1>1. CASE Gui
    BY <1>1 DEF Gui, Post, SetTarget, setTarget, StopLook, StopAct, requestQuit
<1>2. CASE Surroundings
    BY <1>2 DEF Surroundings, Push, Trip
<1>3. CASE Drain
    BY <1>3 DEF Drain, DrainNothing, DrainStop, EnableBegin, DisableBegin, ResetBegin, Connect,
       ConnectOk, Disconnect, teardown, doStop, ZeroBegin, doCenter, doRange, HomeRefused, HomeBegin
<1>4. CASE Climb
    BY <1>4 DEF Climb, Prepare, Off, OffDone, SetMode, Arm, Climbed, Started, ArmFails, EnableDone,
       DisableDone, StartDone, FinishBegin, FinishAxis, FinishEnd, Anchor
<1>5. CASE Loop
    <2>1. CASE Frame
        <3>1. PICK gap, ok_run, since, self_caused :
                 IF mayRecover(gap, ok_run, self_caused, since)
                 THEN at' = "recover" /\ tries' = tries + 1
                 ELSE at' = "top" /\ UNCHANGED tries
            BY <2>1 DEF Frame
        <3>2. ASSUME mayRecover(gap, ok_run, self_caused, since) PROVE ~(tries >= MaxTries)
            BY <3>2 DEF mayRecover, recover_verdict
        <3>3. CASE mayRecover(gap, ok_run, self_caused, since)
            <4>1. tries' = tries + 1
                BY <3>1, <3>3
            <4> QED
                BY <3>2, <3>3, <4>1
        <3> QED
            BY <3>1, <3>3
    <2>2. CASE Top \/ serviceHoming \/ serviceSpan \/ interpolate \/ Recover \/ FrameClosed \/ Zero
        BY <2>2 DEF Top, teardown, serviceHoming, serviceSpan, interpolate, Recover, FrameClosed, Zero
    <2> QED
        BY <1>5, <2>1, <2>2 DEF Loop
<1>6. CASE JobFrame
    BY <1>6 DEF JobFrame
<1>7. CASE UNCHANGED vars
    BY <1>7 DEF vars
<1> QED
    BY <1>1, <1>2, <1>3, <1>4, <1>5, <1>6, <1>7 DEF Next

\* Recovery gives up, whatever the bus does and however long it stays broken.
THEOREM RecoveryEnds == Spec => []RecoveryGivesUp
<1>0. MaxTries \in Nat
    BY WorkerAssumption
<1>1. Init => RecoveryGivesUp
    BY <1>0 DEF Init, RecoveryGivesUp
<1>2. RecoveryGivesUp /\ [Next]_vars => RecoveryGivesUp'
    BY <1>0, TriesAreCounted DEF RecoveryGivesUp
<1> QED
    BY <1>1, <1>2, PTL DEF Spec

-----------------------------------------------------------------------------
(* One axis fails: the others of its batch stop *)

QueueOf == Commands \union {[t |-> "STOP"]}

\* The commands that wait are commands somebody posted.
LEMMA QueueStep == queue \in Seq(QueueOf) /\ [Next]_vars => queue' \in Seq(QueueOf)
<1> SUFFICES ASSUME queue \in Seq(QueueOf), [Next]_vars PROVE queue' \in Seq(QueueOf)
    OBVIOUS
<1> USE DEF queueVars
<1>1. CASE Gui
    <2>1. ASSUME NEW c \in Commands, Post(c) PROVE queue' \in Seq(QueueOf)
        <3>1. c \in QueueOf
            BY DEF QueueOf
        <3> QED
            BY <2>1, <3>1, AppendProperties DEF Post
    <2>2. CASE StopAct
        <3>1. [t |-> "STOP"] \in QueueOf
            BY DEF QueueOf
        <3> QED
            BY <2>2, <3>1, AppendProperties DEF StopAct
    <2>3. CASE SetTarget \/ StopLook \/ requestQuit
        BY <2>3 DEF SetTarget, StopLook, requestQuit
    <2> QED
        BY <1>1, <2>1, <2>2, <2>3 DEF Gui
<1>2. CASE Surroundings
    BY <1>2 DEF Surroundings, Push, Trip
<1>3. CASE Drain
    <2>1. ASSUME NEW t, Take(t) PROVE queue' \in Seq(QueueOf)
        BY <2>1, HeadTailProperties DEF Take
    <2>2. CASE DrainStop
        <3>1. PICK i \in DOMAIN queue :
                 queue' = SubSeq(queue, 1, i - 1) \o SubSeq(queue, i + 1, Len(queue))
            BY <2>2 DEF DrainStop
        <3>2. i \in 1 .. Len(queue) /\ \A j \in 1 .. Len(queue) : queue[j] \in QueueOf
            BY <3>1, ElementOfSeq
        <3>3. SubSeq(queue, 1, i - 1) \in Seq(QueueOf)
            BY <3>2, SubSeqProperties
        <3>4. SubSeq(queue, i + 1, Len(queue)) \in Seq(QueueOf)
            BY <3>2, SubSeqProperties
        <3> QED
            BY <3>1, <3>3, <3>4, ConcatProperties
    <2>3. CASE DrainNothing
        BY <2>3 DEF DrainNothing
    <2> QED
        BY <1>3, <2>1, <2>2, <2>3 DEF Drain, Connect, ConnectOk, Disconnect, EnableBegin,
           DisableBegin, ResetBegin, doStop, ZeroBegin, doCenter, doRange, HomeRefused, HomeBegin
<1>4. CASE Climb
    BY <1>4 DEF Climb, Prepare, Off, OffDone, SetMode, Arm, Climbed, Started, ArmFails, EnableDone,
       DisableDone, StartDone, FinishBegin, FinishAxis, FinishEnd, Anchor
<1>5. CASE Loop
    BY <1>5 DEF Loop, Top, teardown, serviceHoming, serviceSpan, interpolate, Frame, Recover,
       FrameClosed, Zero
<1>6. CASE JobFrame
    BY <1>6 DEF JobFrame
<1>7. CASE UNCHANGED vars
    BY <1>7 DEF vars
<1> QED
    BY <1>1, <1>2, <1>3, <1>4, <1>5, <1>6, <1>7 DEF Next

SFields == {"homing", "mask", "batch", "rc", "eff", "culprit", "timer", "pending", "back", "ends",
            "spanning", "smask", "step", "start", "p1", "stuck", "why", "width"}
JobFields == {"kind", "stage", "todo", "mode_ok"}

\* What the fields hold that decide who stops.
SessionOk ==
    /\ DOMAIN s = SFields
    /\ s.homing \in BOOLEAN /\ s.mask \subseteq Axes /\ s.batch \subseteq Axes
    /\ s.rc \in [Axes -> StepRcs]
    /\ ~s.homing => s.mask = {}
JobOk ==
    /\ DOMAIN job = JobFields
    /\ job.stage \in {"arm", "climb", "go"} => job.kind \in {"enable", "start", "finish"}
    /\ DOMAIN cw = Axes /\ on \subseteq Axes

\* No drive that attained home has a start in its control word; while a batch is
\* being started all its axes count as running; and outside of a finish none of
\* its axes has failed, since one that fails leads straight into it.
Quiet(a) == cw[a] \notin {"start", "go"}
PeersInv ==
    /\ queue \in Seq(QueueOf) /\ SessionOk /\ JobOk
    /\ \A a \in Axes : s.rc[a] = "ATTAINED" => Quiet(a)
    /\ at = "job" /\ job.kind = "start" => \A a \in Axes : s.rc[a] = "RUNNING"
    /\ at # "clear" /\ ~(at = "job" /\ job.kind = "finish") =>
          \A a \in s.mask : s.rc[a] \in {"RUNNING", "ATTAINED"}

\* What the actions need of it and must give: everything but the queue.
Session == <<s, job, at, cw, on>>

\* What a session looks like before anything was homed,
LEMMA NoSessionOk ==
    /\ DOMAIN NoSession = SFields /\ ~NoSession.homing /\ NoSession.homing \in BOOLEAN
    /\ NoSession.mask = {} /\ NoSession.batch = {}
    /\ NoSession.rc \in [Axes -> StepRcs] /\ \A a \in Axes : NoSession.rc[a] = "RUNNING"
    BY DEF NoSession, SFields, All, StepRcs

\* and what one leaves behind.
LEMMA IdleOk ==
    /\ DOMAIN Idle = SFields /\ ~Idle.homing /\ Idle.homing \in BOOLEAN
    /\ Idle.mask = {} /\ Idle.batch = {}
    /\ Idle.rc \in [Axes -> StepRcs] /\ \A a \in Axes : Idle.rc[a] = "RUNNING"
    BY NoSessionOk DEF Idle, SFields

\* The GUI, the surroundings and the steps that leave all of this alone.
LEMMA PeersUnchanged ==
    PeersInv /\ queue' \in Seq(QueueOf) /\ UNCHANGED Session => PeersInv'
    BY DEF PeersInv, SessionOk, JobOk, Quiet, Session

\* The bus is opened or closed: no session is left.
LEMMA PeersNoSession ==
    ASSUME PeersInv, queue' \in Seq(QueueOf), s' = NoSession, cw' = All("off"), on' = {},
           job' = job, at' = at \/ at' = "ended"
    PROVE  PeersInv'
<1>1. SessionOk'
    BY NoSessionOk DEF SessionOk
<1>2. JobOk'
    BY DEF PeersInv, JobOk, All
<1>3. \A a \in Axes : Quiet(a)'
    BY DEF Quiet, All
<1> QED
    BY <1>1, <1>2, <1>3, NoSessionOk DEF PeersInv

\* The GUI and the surroundings touch no session.
LEMMA PeersGui == PeersInv /\ queue' \in Seq(QueueOf) /\ (Gui \/ Surroundings) => PeersInv'
<1> SUFFICES ASSUME PeersInv, queue' \in Seq(QueueOf), Gui \/ Surroundings PROVE PeersInv'
    OBVIOUS
<1>1. CASE Gui
    <2>1. UNCHANGED Session
        BY <1>1 DEF Gui, Post, SetTarget, StopLook, StopAct, requestQuit, Session, imageVars, driveVars
    <2> QED
        BY <2>1, PeersUnchanged
<1>2. CASE Surroundings
    <2>1. UNCHANGED <<s, job, at, cw>> /\ on' \subseteq on
        BY <1>2 DEF Surroundings, Push, Trip, imageVars
    <2> QED
        BY <2>1 DEF PeersInv, SessionOk, JobOk, Quiet
<1> QED
    BY <1>1, <1>2

\* A command that begins a climb, or a zero point to be moved.
LEMMA PeersLadder ==
    ASSUME PeersInv, queue' \in Seq(QueueOf), at = "drain", at' \in {"job", "zero"},
           UNCHANGED <<s, cw, on>>,
           NEW kind \in {"enable", "disable", "reset", "zero"}, NEW stage, NEW S,
           stage = "arm" => kind = "enable", stage \in {"arm", "off", "shift"},
           Ladder(kind, stage, S)
    PROVE  PeersInv'
<1>1. DOMAIN job' = JobFields /\ job'.kind = kind /\ job'.stage = stage
    BY DEF Ladder, JobFields
<1>2. JobOk'
    BY <1>1 DEF PeersInv, JobOk
<1> QED
    BY <1>1, <1>2 DEF PeersInv, SessionOk, Quiet

\* Commands: those that begin something find no batch at work.
LEMMA PeersDrain == PeersInv /\ queue' \in Seq(QueueOf) /\ Drain => PeersInv'
<1> SUFFICES ASSUME PeersInv, queue' \in Seq(QueueOf), Drain PROVE PeersInv'
    OBVIOUS
<1>1. CASE DrainNothing \/ DrainStop
    <2>1. at = "drain" /\ at' = "homing" /\ UNCHANGED <<s, job, cw, on>>
        BY <1>1 DEF DrainNothing, DrainStop, imageVars, driveVars
    <2> QED
        BY <2>1 DEF PeersInv, SessionOk, JobOk, Quiet
<1>2. CASE Connect \/ ConnectOk \/ Disconnect
    BY <1>2, PeersNoSession DEF Connect, ConnectOk, Disconnect, teardown
<1>3. CASE doStop \/ doCenter \/ doRange
    <2>1. UNCHANGED Session
        BY <1>3 DEF doStop, doCenter, doRange, Session, imageVars, driveVars
    <2> QED
        BY <2>1, PeersUnchanged
<1>4. CASE EnableBegin \/ DisableBegin \/ ResetBegin \/ ZeroBegin
    <2>1. at = "drain" /\ UNCHANGED <<s, cw, on>>
        BY <1>4 DEF EnableBegin, DisableBegin, ResetBegin, ZeroBegin, Take, imageVars, driveVars
    <2>2. CASE UNCHANGED <<job, at>>
        BY <2>1, <2>2, PeersUnchanged DEF Session
    <2>3. CASE EnableBegin /\ ~UNCHANGED <<job, at>>
        <3>1. Ladder("enable", "arm", Axes) /\ at' = "job"
            BY <2>3 DEF EnableBegin
        <3> QED
            BY <2>1, <3>1, PeersLadder
    <2>4. CASE DisableBegin /\ ~UNCHANGED <<job, at>>
        <3>1. Ladder("disable", "off", Axes) /\ at' = "job"
            BY <2>4 DEF DisableBegin
        <3> QED
            BY <2>1, <3>1, PeersLadder
    <2>5. CASE ResetBegin /\ ~UNCHANGED <<job, at>>
        <3>1. PICK S : Ladder("reset", "off", S) /\ at' = "job"
            BY <2>5 DEF ResetBegin
        <3> QED
            BY <2>1, <3>1, PeersLadder
    <2>6. CASE ZeroBegin /\ ~UNCHANGED <<job, at>>
        <3>1. PICK S : Ladder("zero", "shift", S) /\ at' = "zero"
            BY <2>6 DEF ZeroBegin
        <3> QED
            BY <2>1, <3>1, PeersLadder
    <2> QED
        BY <1>4, <2>2, <2>3, <2>4, <2>5, <2>6
<1>5. CASE HomeRefused
    <2>1. /\ at = "drain" /\ UNCHANGED <<at, job, cw, on>>
          /\ \E b : s' = [s EXCEPT !.pending = b]
        BY <1>5 DEF HomeRefused, Take, imageVars, driveVars
    <2> QED
        BY <2>1 DEF PeersInv, SessionOk, JobOk, Quiet, SFields
<1>6. CASE HomeBegin
    <2>1. queue # <<>> /\ Head(queue).t = "HOME" /\ Head(queue) \in QueueOf
        BY <1>6, HeadTailProperties DEF HomeBegin, Take, PeersInv
    <2>2. Head(queue).mask \subseteq Axes
        BY <2>1, CommandsAssumption DEF QueueOf
    <2>3. /\ DOMAIN s' = SFields /\ s'.homing = TRUE
          /\ s'.mask = Head(queue).mask /\ s'.batch = Head(queue).mask /\ s'.rc = Idle.rc
        BY <1>6, IdleOk DEF HomeBegin, SFields
    <2>4. at' = "job" /\ UNCHANGED <<cw, on>>
        BY <1>6 DEF HomeBegin, imageVars, driveVars
    <2>5. DOMAIN job' = JobFields /\ job'.kind = "start" /\ job'.stage = "off"
        BY <1>6 DEF HomeBegin, Ladder, JobFields
    <2>6. SessionOk' /\ JobOk'
        BY <2>2, <2>3, <2>4, <2>5, IdleOk DEF SessionOk, JobOk, PeersInv
    <2>7. \A a \in Axes : s'.rc[a] = "RUNNING"
        BY <2>3, IdleOk
    <2> QED
        BY <2>2, <2>3, <2>4, <2>5, <2>6, <2>7 DEF PeersInv
<1> QED
    BY <1>1, <1>2, <1>3, <1>4, <1>5, <1>6 DEF Drain

\* A step of a climb that leaves the session alone.
LEMMA PeersClimbing ==
    ASSUME PeersInv, queue' \in Seq(QueueOf), at = "job", at' = "job", s' = s, on' = on,
           DOMAIN job' = JobFields, job'.kind = job.kind, DOMAIN cw' = Axes,
           job'.stage \in {"arm", "climb", "go"} => job.kind \in {"enable", "start", "finish"},
           \A a \in Axes : s.rc[a] = "ATTAINED" => Quiet(a)'
    PROVE  PeersInv'
    BY DEF PeersInv, SessionOk, JobOk

\* A climb of homing's start fails: the session goes to its finish.
LEMMA PeersGivenUp ==
    ASSUME PeersInv, queue' \in Seq(QueueOf), at' = "clear", DOMAIN job' = JobFields,
           job'.stage = "none", on' = on, DOMAIN cw' = Axes,
           DOMAIN s' = SFields, UNCHANGED <<s.homing, s.mask, s.batch>>,
           s'.rc \in [Axes -> StepRcs],
           \A a \in Axes : s'.rc[a] = "ATTAINED" => Quiet(a)'
    PROVE  PeersInv'
    BY DEF PeersInv, SessionOk, JobOk

\* A thread that climbs nothing.
LEMMA NoJobOk == DOMAIN NoJob = JobFields /\ NoJob.kind = "none" /\ NoJob.stage = "none"
    BY DEF NoJob, JobFields

\* The parameters of homing are written, or refused for the whole batch.
LEMMA PeersPrepare == PeersInv /\ queue' \in Seq(QueueOf) /\ Prepare => PeersInv'
<1> SUFFICES ASSUME PeersInv, queue' \in Seq(QueueOf), Prepare PROVE PeersInv'
    OBVIOUS
<1>1. /\ at = "job" /\ job.kind = "start" /\ on' = on
      /\ \A a \in Axes : s.rc[a] = "RUNNING"
    BY DEF Prepare, driveVars, PeersInv
<1>2. DOMAIN cw = Axes /\ DOMAIN s = SFields /\ s.mask \subseteq Axes /\ s.rc \in [Axes -> StepRcs]
    BY DEF PeersInv, JobOk, SessionOk
<1>3. CASE UNCHANGED <<s, at>> /\ Ladder("start", "arm", s.mask)
    <2>1. DOMAIN job' = JobFields /\ job'.kind = "start"
        BY <1>3 DEF Ladder, JobFields
    <2>2. DOMAIN cw' = Axes
        BY <1>3 DEF Prepare
    <2> QED
        BY <1>1, <1>3, <2>1, <2>2, PeersClimbing
<1>4. CASE at' = "clear"
    <2>1. PICK a \in s.mask :
             s' = [s EXCEPT !.rc = [b \in Axes |-> IF b \in s.mask THEN "SETUP" ELSE s.rc[b]],
                            !.culprit = {a}]
        BY <1>1, <1>4 DEF Prepare
    <2>2. DOMAIN cw' = Axes /\ job' = NoJob
        BY <1>1, <1>4 DEF Prepare
    <2>3. /\ DOMAIN s' = SFields /\ UNCHANGED <<s.homing, s.mask, s.batch>>
          /\ s'.rc = [b \in Axes |-> IF b \in s.mask THEN "SETUP" ELSE s.rc[b]]
        BY <1>2, <2>1 DEF SFields
    <2>4. s'.rc \in [Axes -> StepRcs] /\ \A b \in Axes : s'.rc[b] # "ATTAINED"
        BY <1>1, <1>2, <2>3 DEF StepRcs, StepFails
    <2> QED
        BY <1>1, <1>4, <2>2, <2>3, <2>4, NoJobOk, PeersGivenUp
<1> QED
    BY <1>1, <1>3, <1>4 DEF Prepare

\* The rungs of the ladder, up and down.
LEMMA PeersRungs ==
    PeersInv /\ queue' \in Seq(QueueOf) /\ (Off \/ OffDone \/ Arm \/ Climbed \/ Started \/ FinishAxis)
    => PeersInv'
<1> SUFFICES ASSUME PeersInv, queue' \in Seq(QueueOf),
                    Off \/ OffDone \/ Arm \/ Climbed \/ Started \/ FinishAxis
             PROVE  PeersInv'
    OBVIOUS
<1>1. at = "job" /\ at' = "job" /\ s' = s /\ on' = on
    BY DEF Off, OffDone, Arm, Climbed, Started, FinishAxis, ReadyToArm, driveVars
<1>2. /\ DOMAIN job = JobFields /\ DOMAIN cw = Axes
      /\ job.stage \in {"arm", "climb", "go"} => job.kind \in {"enable", "start", "finish"}
      /\ \A a \in Axes : s.rc[a] = "ATTAINED" => Quiet(a)
    BY DEF PeersInv, JobOk
<1>3. CASE Off \/ OffDone \/ Started \/ FinishAxis
    <2>1. DOMAIN job' = JobFields /\ job'.kind = job.kind
        BY <1>2, <1>3 DEF Off, OffDone, Started, FinishAxis, nextAxis, JobFields
    <2>2. job'.stage \in {"arm", "climb", "go"} => job.kind \in {"enable", "start", "finish"}
        BY <1>2, <1>3 DEF Off, OffDone, Started, FinishAxis, nextAxis, JobFields
    <2>3. cw' = cw \/ cw' = [cw EXCEPT ![axis] = "off"]
        BY <1>3 DEF Off, OffDone, Started, FinishAxis, imageVars
    <2> QED
        BY <1>1, <1>2, <2>1, <2>2, <2>3, PeersClimbing DEF Quiet
<1>4. CASE Arm
    <2>1. DOMAIN job' = JobFields /\ job'.kind = job.kind /\ job.kind \in {"enable", "start", "finish"}
        BY <1>2, <1>4 DEF Arm, ReadyToArm, JobFields
    <2>2. cw' = [cw EXCEPT ![axis] = "climb"]
        BY <1>4 DEF Arm
    <2> QED
        BY <1>1, <1>2, <2>1, <2>2, PeersClimbing DEF Quiet
<1>5. CASE Climbed
    <2>1. job.kind \in {"enable", "start", "finish"}
        BY <1>2, <1>5 DEF Climbed
    <2>2. DOMAIN job' = JobFields /\ job'.kind = job.kind
        BY <1>2, <1>5, <2>1 DEF Climbed, nextAxis, JobFields
    <2>3. cw' = cw \/ (job.kind = "start" /\ cw' = [cw EXCEPT ![axis] = "start"])
        BY <1>5 DEF Climbed
    <2>4. job.kind = "start" => \A a \in Axes : s.rc[a] = "RUNNING"
        BY <1>1 DEF PeersInv
    <2>5. DOMAIN cw' = Axes /\ \A a \in Axes : s.rc[a] = "ATTAINED" => Quiet(a)'
        BY <1>2, <2>3, <2>4 DEF Quiet
    <2> QED
        BY <1>1, <2>1, <2>2, <2>5, PeersClimbing
<1> QED
    BY <1>3, <1>4, <1>5

\* A mode that is set, and a climb that fails.
LEMMA PeersModes == PeersInv /\ queue' \in Seq(QueueOf) /\ (SetMode \/ ArmFails) => PeersInv'
<1> SUFFICES ASSUME PeersInv, queue' \in Seq(QueueOf), SetMode \/ ArmFails PROVE PeersInv'
    OBVIOUS
<1>1. at = "job" /\ on' = on
    BY DEF SetMode, ArmFails, ReadyToArm, driveVars
<1>2. /\ DOMAIN job = JobFields /\ DOMAIN cw = Axes /\ DOMAIN s = SFields
      /\ s.rc \in [Axes -> StepRcs] /\ s.mask \subseteq Axes
      /\ job.stage \in {"arm", "climb", "go"} => job.kind \in {"enable", "start", "finish"}
      /\ \A a \in Axes : s.rc[a] = "ATTAINED" => Quiet(a)
    BY DEF PeersInv, JobOk, SessionOk
<1>3. CASE SetMode
    <2>1. cw' = cw /\ job.kind \in {"start", "finish"}
        BY <1>3 DEF SetMode
    <2>2. CASE s' = s /\ at' = at
        <3>1. DOMAIN job' = JobFields /\ job'.kind = job.kind
            BY <1>2, <1>3, <2>2 DEF SetMode, JobFields, NoJob
        <3> QED
            BY <1>1, <1>2, <2>1, <2>2, <3>1, PeersClimbing DEF Quiet
    <2>3. CASE job.kind = "start" /\ job' = NoJob /\ at' = "clear"
        <3>1. s' = [s EXCEPT !.rc = [a \in Axes |-> IF a \notin s.mask THEN @[a]
                                                   ELSE IF a < axis THEN "PEER" ELSE "SETUP"],
                            !.culprit = {axis}]
            BY <1>1, <1>3, <2>3 DEF SetMode
        <3>2. /\ DOMAIN s' = SFields /\ UNCHANGED <<s.homing, s.mask, s.batch>>
              /\ s'.rc = [a \in Axes |-> IF a \notin s.mask THEN s.rc[a]
                                         ELSE IF a < axis THEN "PEER" ELSE "SETUP"]
            BY <1>2, <3>1 DEF SFields
        <3>3. /\ s'.rc \in [Axes -> StepRcs]
              /\ \A a \in Axes : s'.rc[a] = "ATTAINED" => Quiet(a)'
            BY <1>2, <2>1, <3>2 DEF StepRcs, StepFails, Quiet
        <3> QED
            BY <1>1, <1>2, <2>1, <2>3, <3>2, <3>3, NoJobOk, PeersGivenUp
    <2> QED
        BY <1>1, <1>3, <2>2, <2>3 DEF SetMode
<1>4. CASE ArmFails
    <2>1. cw' = cw \/ cw' = [cw EXCEPT ![axis] = "off"]
        BY <1>4 DEF ArmFails
    <2>2. CASE job.kind = "finish" /\ job' = [job EXCEPT !.stage = "end"] /\ UNCHANGED <<at, s>>
        <3>1. DOMAIN job' = JobFields /\ job'.kind = job.kind /\ job'.stage = "end"
            BY <1>2, <2>2 DEF JobFields
        <3> QED
            BY <1>1, <1>2, <2>1, <2>2, <3>1, PeersClimbing DEF Quiet
    <2>3. CASE job.kind = "enable" /\ UNCHANGED <<at, s>> /\ \E S : Ladder("rollback", "off", S)
        <3>1. DOMAIN job' = JobFields /\ job'.kind = "rollback" /\ job'.stage = "off"
            BY <2>3 DEF Ladder, JobFields
        <3> QED
            BY <1>1, <1>2, <2>1, <2>3, <3>1 DEF PeersInv, SessionOk, JobOk, Quiet
    <2>4. CASE job.kind = "start" /\ job' = NoJob /\ at' = "clear"
        <3> DEFINE stopped == job.stage # "arm" /\ stop
                   blame(a) == IF stopped THEN "ABORTED" ELSE IF a < axis THEN "PEER" ELSE "SETUP"
        <3>1. s' = [s EXCEPT !.rc = [a \in Axes |-> IF a \in s.mask THEN blame(a) ELSE @[a]],
                             !.culprit = IF stopped THEN {} ELSE {axis}]
            BY <1>4, <2>4 DEF ArmFails
        <3>2. /\ DOMAIN s' = SFields /\ UNCHANGED <<s.homing, s.mask, s.batch>>
              /\ s'.rc = [a \in Axes |-> IF a \in s.mask THEN blame(a) ELSE s.rc[a]]
            BY <1>2, <3>1 DEF SFields
        <3>3. /\ s'.rc \in [Axes -> StepRcs]
              /\ \A a \in Axes : s'.rc[a] = "ATTAINED" => Quiet(a)'
            BY <1>2, <2>1, <3>2 DEF StepRcs, StepFails, Quiet
        <3> QED
            BY <1>1, <1>2, <2>1, <2>4, <3>2, <3>3, NoJobOk, PeersGivenUp
    <2> QED
        BY <1>4, <2>2, <2>3, <2>4 DEF ArmFails
<1> QED
    BY <1>3, <1>4

\* The ends of the commands that climb.
LEMMA PeersEnds ==
    PeersInv /\ queue' \in Seq(QueueOf) /\ (EnableDone \/ DisableDone \/ StartDone) => PeersInv'
<1> SUFFICES ASSUME PeersInv, queue' \in Seq(QueueOf), EnableDone \/ DisableDone \/ StartDone
             PROVE  PeersInv'
    OBVIOUS
<1>1. /\ at = "job" /\ at' = "drain" /\ job' = NoJob /\ UNCHANGED <<cw, on>>
      /\ job.kind \in {"enable", "disable", "rollback", "reset", "start"}
      /\ s' = s \/ s' = [s EXCEPT !.back = "span"]
    BY DEF EnableDone, DisableDone, StartDone, JobOver, imageVars, driveVars
<1>2. DOMAIN s = SFields
    BY DEF PeersInv, SessionOk
<1>3. DOMAIN s' = SFields /\ UNCHANGED <<s.homing, s.mask, s.batch, s.rc>>
    BY <1>1, <1>2 DEF SFields
<1>4. SessionOk' /\ JobOk'
    BY <1>1, <1>3, NoJobOk DEF PeersInv, SessionOk, JobOk
<1> QED
    BY <1>1, <1>3, <1>4, NoJobOk DEF PeersInv, Quiet

\* finishHoming, which empties the mask axis by axis.
LEMMA PeersFinishing ==
    PeersInv /\ queue' \in Seq(QueueOf) /\ (FinishBegin \/ Anchor) => PeersInv'
<1> SUFFICES ASSUME PeersInv, queue' \in Seq(QueueOf), FinishBegin \/ Anchor PROVE PeersInv'
    OBVIOUS
<1>1. DOMAIN s = SFields /\ DOMAIN job = JobFields /\ SessionOk /\ JobOk
    BY DEF PeersInv, SessionOk, JobOk
<1>2. at' = "job" /\ UNCHANGED <<cw, on>>
    BY DEF FinishBegin, Anchor, imageVars, driveVars
<1>3. DOMAIN job' = JobFields /\ job'.kind = "finish" /\ job'.stage = "begin"
    <2>1. CASE FinishBegin
        BY <2>1 DEF FinishBegin, Ladder, JobFields
    <2>2. CASE Anchor
        BY <1>1, <2>2 DEF Anchor, nextAxis, JobFields
    <2> QED
        BY <2>1, <2>2
<1>4. /\ DOMAIN s' = SFields /\ UNCHANGED <<s.homing, s.batch, s.rc>> /\ s'.mask \subseteq s.mask
    <2>1. CASE FinishBegin
        BY <1>1, <2>1 DEF FinishBegin, SFields
    <2>2. CASE Anchor
        <3>1. PICK end : s' = [s EXCEPT !.mask = @ \ {axis}, !.ends = Append(@, end)]
            BY <2>2 DEF Anchor
        <3> QED
            BY <1>1, <3>1 DEF SFields
    <2> QED
        BY <2>1, <2>2
<1>5. SessionOk' /\ JobOk'
    BY <1>1, <1>2, <1>3, <1>4 DEF SessionOk, JobOk
<1> QED
    BY <1>2, <1>3, <1>4, <1>5 DEF PeersInv, Quiet

\* The end of a batch, or the beginning of its measurement.
LEMMA PeersFinishEnd == PeersInv /\ queue' \in Seq(QueueOf) /\ FinishEnd => PeersInv'
<1> SUFFICES ASSUME PeersInv, queue' \in Seq(QueueOf), FinishEnd PROVE PeersInv'
    OBVIOUS
<1>1. DOMAIN s = SFields /\ SessionOk /\ JobOk
    BY DEF PeersInv, SessionOk, JobOk
<1>2. job' = NoJob /\ UNCHANGED <<cw, on>>
    BY DEF FinishEnd, imageVars, driveVars
<1>3. JobOk'
    BY <1>1, <1>2, NoJobOk DEF JobOk
<1>4. CASE s' = Idle
    BY <1>1, <1>2, <1>3, <1>4, IdleOk, NoJobOk DEF PeersInv, SessionOk, Quiet
<1>5. CASE s' = beginSpan(s.batch) /\ \A a \in s.batch : s.rc[a] = "ATTAINED"
    <2>1. /\ DOMAIN s' = SFields /\ s'.homing = TRUE /\ s'.mask = s.batch
          /\ UNCHANGED <<s.batch, s.rc>>
        BY <1>1, <1>5 DEF beginSpan, SFields
    <2>2. SessionOk'
        BY <1>1, <2>1 DEF SessionOk
    <2> QED
        BY <1>2, <1>3, <1>5, <2>1, <2>2, NoJobOk DEF PeersInv, Quiet
<1> QED
    BY <1>4, <1>5 DEF FinishEnd

\* What a frame does to the control words: no drive starts that was not told to.
LEMMA PeersExchange ==
    ASSUME PeersInv, queue' \in Seq(QueueOf), Exchange, UNCHANGED <<s, job>>,
           at' = at \/ (at = "frame" /\ at' \in {"top", "recover"})
    PROVE  PeersInv'
<1>1. DOMAIN cw' = Axes /\ \A a \in Axes : Quiet(a) => Quiet(a)'
    BY DEF Exchange, Quiet
<1>2. on' \subseteq Axes
    BY DEF Exchange, PeersInv, JobOk
<1> QED
    BY <1>1, <1>2 DEF PeersInv, SessionOk, JobOk

\* What HomePass makes of a look at the axes, and why peers stop.  A look finds
\* all the searching axes aborted, or none.
LEMMA PeersPass ==
    ASSUME PeersInv, at = "homing", NEW rc \in [Axes -> StepRcs],
           \A a \in Axes : ~(a \in s.mask /\ s.rc[a] = "RUNNING") => rc[a] = s.rc[a],
           \/ \A a \in s.mask : s.rc[a] = "RUNNING" => rc[a] = "ABORTED"
           \/ \A a \in s.mask : s.rc[a] = "RUNNING" => rc[a] \in StepFails \union {"RUNNING", "ATTAINED"},
           HomePass(rc)
    PROVE  /\ DOMAIN s' = SFields /\ UNCHANGED <<s.homing, s.mask, s.batch>>
           /\ s'.rc \in [Axes -> StepRcs] /\ DOMAIN cw' = Axes
           /\ \A a \in Axes : s'.rc[a] = "ATTAINED" => Quiet(a)'
           /\ at' \in {"span", "clear"}
           /\ at' = "span" => \A a \in s.mask : s'.rc[a] \in {"RUNNING", "ATTAINED"}
           /\ (\E a \in s.mask : s'.rc[a] \in StepFails) =>
                 \A a \in s.mask : cw'[a] = "go" => s'.rc[a] \in StepFails
<1> DEFINE failed == \E a \in s.mask : s.rc[a] = "RUNNING" /\ rc[a] \in StepFails
           rc1 == [a \in Axes |-> IF a \in s.mask /\ rc[a] = "RUNNING" /\ failed
                                  THEN "PEER" ELSE rc[a]]
           halt == {a \in s.mask : /\ s.rc[a] = "RUNNING"
                                   /\ rc1[a] \in {"ABORTED", "ATTAINED", "PEER"}}
<1>1. /\ cw' = [a \in Axes |-> IF a \in halt THEN "on" ELSE cw[a]]
      /\ s' = [s EXCEPT !.rc = rc1, !.timer = greater(@ - 1, 0),
                        !.culprit = @ \union {a \in s.mask : rc[a] \in StepFails}]
      /\ at' = IF \E a \in s.mask : rc1[a] = "RUNNING" THEN "span" ELSE "clear"
    BY DEF HomePass
<1>2. /\ DOMAIN s = SFields /\ s.mask \subseteq Axes /\ s.rc \in [Axes -> StepRcs]
      /\ \A a \in s.mask : s.rc[a] \in {"RUNNING", "ATTAINED"}
      /\ \A a \in Axes : s.rc[a] = "ATTAINED" => Quiet(a)
    BY DEF PeersInv, SessionOk
<1>3. DOMAIN s' = SFields /\ UNCHANGED <<s.homing, s.mask, s.batch>> /\ s'.rc = rc1
    BY <1>1, <1>2 DEF SFields
<1>4. rc1 \in [Axes -> StepRcs]
    BY DEF StepRcs
<1>5. ASSUME NEW a \in Axes, rc1[a] = "ATTAINED" PROVE Quiet(a)'
    BY <1>1, <1>2, <1>5 DEF Quiet
<1>6. ASSUME NEW a \in s.mask, rc1[a] = "RUNNING", NEW b \in s.mask
      PROVE  rc1[b] \in {"RUNNING", "ATTAINED"}
    <2>1. ~failed /\ rc[a] = "RUNNING" /\ rc1[b] = rc[b]
        BY <1>2, <1>6
    <2>2. s.rc[a] = "RUNNING"
        BY <1>2, <1>6, <2>1
    <2> QED
        BY <1>2, <1>6, <2>1, <2>2 DEF StepFails
<1>7. ASSUME NEW a \in s.mask, rc1[a] \in StepFails, NEW b \in s.mask, cw'[b] = "go"
      PROVE  rc1[b] \in StepFails
    <2>1. failed
        BY <1>2, <1>7 DEF StepFails
    <2>2. s.rc[b] = "RUNNING" /\ b \notin halt
        BY <1>1, <1>2, <1>7 DEF Quiet
    <2>3. rc1[b] \notin {"ABORTED", "ATTAINED", "PEER"} /\ rc1[b] # "RUNNING"
        BY <1>2, <1>7, <2>1, <2>2
    <2>4. rc[b] \in StepFails
        BY <1>2, <1>7, <2>2, <2>3
    <2> QED
        BY <1>2, <1>7, <2>4 DEF StepFails
<1> QED
    BY <1>1, <1>2, <1>3, <1>4, <1>5, <1>6, <1>7

\* serviceHoming: a pass over a batch, or nothing.
LEMMA PeersLook ==
    ASSUME PeersInv, serviceHoming
    PROVE  /\ DOMAIN s' = SFields /\ UNCHANGED <<s.homing, s.mask, s.batch, job, on>>
           /\ s'.rc \in [Axes -> StepRcs] /\ DOMAIN cw' = Axes
           /\ \A a \in Axes : s'.rc[a] = "ATTAINED" => Quiet(a)'
           /\ at' \in {"span", "clear"}
           /\ at' = "span" => \A a \in s.mask : s'.rc[a] \in {"RUNNING", "ATTAINED"}
           /\ (\E a \in s.mask : s'.rc[a] \in StepFails) =>
                 \A a \in s.mask : cw'[a] = "go" => s'.rc[a] \in StepFails
<1>1. at = "homing" /\ UNCHANGED <<job, on>>
    BY DEF serviceHoming, driveVars
<1>2. CASE at' = "span" /\ UNCHANGED <<cw, s>>
    BY <1>1, <1>2 DEF PeersInv, SessionOk, JobOk, Quiet, StepFails
<1>3. CASE ~(at' = "span" /\ UNCHANGED <<cw, s>>)
    <2>1. PICK rc \in [Axes -> StepRcs] :
             /\ \A a \in Axes : rc[a] \in IF a \in s.mask /\ s.rc[a] = "RUNNING"
                                          THEN home_step(a) ELSE {s.rc[a]}
             /\ HomePass(rc)
        BY <1>3 DEF serviceHoming
    <2>2. \A a \in Axes : ~(a \in s.mask /\ s.rc[a] = "RUNNING") => rc[a] = s.rc[a]
        BY <2>1
    <2>3. s.mask \subseteq Axes
        BY DEF PeersInv, SessionOk
    <2>4. CASE stop
        BY <1>1, <2>1, <2>2, <2>3, <2>4, PeersPass DEF home_step
    <2>5. CASE ~stop
        <3>1. \A a \in s.mask : home_step(a) \subseteq StepFails \union {"RUNNING", "ATTAINED"}
            BY <2>5 DEF home_step, StepFails
        <3> QED
            BY <1>1, <2>1, <2>2, <2>3, <3>1, PeersPass
    <2> QED
        BY <2>4, <2>5
<1> QED
    BY <1>2, <1>3

\* The other steps of the loop.
LEMMA PeersLoop == PeersInv /\ queue' \in Seq(QueueOf) /\ Loop => PeersInv'
<1> SUFFICES ASSUME PeersInv, queue' \in Seq(QueueOf), Loop PROVE PeersInv'
    OBVIOUS
<1>1. DOMAIN s = SFields /\ SessionOk /\ JobOk
    BY DEF PeersInv, SessionOk
<1>2. CASE Top
    <2>1. CASE quit
        BY <1>2, <2>1, PeersNoSession DEF Top, teardown
    <2>2. CASE ~quit
        <3>1. at = "top" /\ at' = "drain" /\ UNCHANGED <<s, job, cw, on>>
            BY <1>2, <2>2 DEF Top, imageVars, driveVars
        <3> QED
            BY <3>1 DEF PeersInv, SessionOk, JobOk, Quiet
    <2> QED
        BY <2>1, <2>2
<1>3. CASE serviceHoming
    <2>1. at = "homing"
        BY <1>3 DEF serviceHoming
    <2> QED
        BY <1>1, <1>3, <2>1, PeersLook DEF PeersInv, SessionOk, JobOk
<1>4. CASE serviceSpan
    <2>1. at = "span" /\ at' = "move" /\ UNCHANGED <<job, cw, on>>
        BY <1>4 DEF serviceSpan, driveVars
    <2>2. CASE /\ DOMAIN s' = SFields /\ UNCHANGED <<s.homing, s.mask, s.batch, s.rc>>
        BY <1>1, <2>1, <2>2 DEF PeersInv, SessionOk, JobOk, Quiet
    <2>3. CASE s' = [Idle EXCEPT !.pending = s'.pending, !.why = s'.why, !.width = s'.width]
        <3>1. /\ DOMAIN s' = SFields /\ s'.homing = FALSE /\ s'.mask = {} /\ s'.batch = {}
              /\ s'.rc = Idle.rc
            BY <2>3, IdleOk DEF SFields
        <3> QED
            BY <1>1, <2>1, <3>1, IdleOk DEF PeersInv, SessionOk, JobOk, Quiet
    <2>4. CASE s.spanning /\ SpanPass
        BY <1>1, <2>2, <2>3, <2>4, IdleOk DEF SpanPass, SFields
    <2>5. CASE UNCHANGED s
        BY <1>1, <2>2, <2>5
    <2> QED
        BY <1>4, <2>4, <2>5 DEF serviceSpan
<1>5. CASE interpolate \/ FrameClosed \/ Recover \/ Zero
    <2>1. /\ at \in {"move", "frame", "recover", "zero"} /\ at' \in {"frame", "top", "drain"}
          /\ UNCHANGED <<s, on>> /\ (job' = job \/ job' = NoJob)
        BY <1>5 DEF interpolate, FrameClosed, Recover, Zero, driveVars
    <2>2. cw' = cw \/ cw' = [a \in Axes |-> IF a \in out THEN "off" ELSE cw[a]]
        BY <1>5 DEF interpolate, FrameClosed, Recover, Zero, imageVars
    <2> QED
        BY <1>1, <2>1, <2>2, NoJobOk DEF PeersInv, SessionOk, JobOk, Quiet
<1>6. CASE Frame
    <2>1. at = "frame" /\ at' \in {"top", "recover"} /\ Exchange /\ UNCHANGED <<s, job>>
        BY <1>6 DEF Frame
    <2> QED
        BY <2>1, PeersExchange
<1> QED
    BY <1>2, <1>3, <1>4, <1>5, <1>6 DEF Loop

\* PeersInv is inductive.
LEMMA PeersKept == PeersInv /\ [Next]_vars => PeersInv'
<1> SUFFICES ASSUME PeersInv, [Next]_vars PROVE PeersInv'
    OBVIOUS
<1>1. queue' \in Seq(QueueOf)
    BY QueueStep DEF PeersInv
<1>2. CASE Climb
    BY <1>1, <1>2, PeersPrepare, PeersRungs, PeersModes, PeersEnds, PeersFinishing,
       PeersFinishEnd DEF Climb
<1>3. CASE JobFrame
    BY <1>1, <1>3, PeersExchange DEF JobFrame
<1>4. CASE UNCHANGED vars
    BY <1>1, <1>4, PeersUnchanged DEF vars, Session, imageVars, driveVars
<1> QED
    BY <1>1, <1>2, <1>3, <1>4, PeersGui, PeersDrain, PeersLoop DEF Next

\* Only serviceHoming leaves the place where the axes are looked at.
LEMMA OnlyALookLeaves == [Next]_vars /\ at = "homing" /\ at' # "homing" => serviceHoming
<1> SUFFICES ASSUME [Next]_vars, at = "homing", at' # "homing" PROVE serviceHoming
    OBVIOUS
<1>1. ~Gui /\ ~Surroundings
    BY DEF Gui, Surroundings, Post, SetTarget, StopLook, StopAct, requestQuit, Push, Trip
<1>2. ~Drain
    BY DEF Drain, DrainNothing, DrainStop, Connect, ConnectOk, Disconnect, EnableBegin,
       DisableBegin, ResetBegin, doStop, ZeroBegin, doCenter, doRange, HomeRefused, HomeBegin, Take
<1>3. ~Climb
    BY DEF Climb, Prepare, Off, OffDone, SetMode, Arm, Climbed, Started, ArmFails, ReadyToArm,
       EnableDone, DisableDone, StartDone, JobOver, FinishBegin, FinishAxis, Anchor, FinishEnd
<1>4. ~Top /\ ~serviceSpan /\ ~interpolate /\ ~Frame /\ ~FrameClosed /\ ~Recover /\ ~Zero
    BY DEF Top, serviceSpan, interpolate, Frame, FrameClosed, Recover, Zero
<1>5. ~JobFrame /\ ~UNCHANGED vars
    BY DEF JobFrame, vars
<1> QED
    BY <1>1, <1>2, <1>3, <1>4, <1>5 DEF Next, Loop

\* A worker that starts has no session.
LEMMA PeersBegin == Init => PeersInv
<1> SUFFICES ASSUME Init PROVE PeersInv
    OBVIOUS
<1>1. queue = <<>> /\ s = NoSession /\ job = NoJob /\ at = "top" /\ cw = All("off") /\ on = {}
    BY DEF Init
<1>2. queue \in Seq(QueueOf)
    BY <1>1
<1>3. SessionOk /\ JobOk
    BY <1>1, NoSessionOk, NoJobOk DEF SessionOk, JobOk, All
<1> QED
    BY <1>1, <1>2, <1>3, NoSessionOk DEF PeersInv, All

\* PeersStop as a formula of one step.
PeersStopNow ==
    at = "homing" /\ at' # "homing" /\ (\E a \in s.mask : s'.rc[a] \in StepFails) =>
        \A a \in s.mask : a \in going' => s'.rc[a] \in StepFails

\* One axis that fails stops the others of its batch at the same look, for any
\* number of axes (serviceHoming).
THEOREM BatchStopsTogether == Spec => PeersStop
<1>1. Init => PeersInv
    BY PeersBegin
<1>2. PeersInv /\ [Next]_vars => PeersInv'
    BY PeersKept
<1>3. PeersInv /\ [Next]_vars => PeersStopNow
    <2> SUFFICES ASSUME PeersInv, [Next]_vars, at = "homing", at' # "homing",
                        \E a \in s.mask : s'.rc[a] \in StepFails,
                        NEW a \in s.mask, a \in going'
                 PROVE  s'.rc[a] \in StepFails
        BY DEF PeersStopNow
    <2>1. cw'[a] = "go"
        BY DEF going
    <2> QED
        BY <2>1, OnlyALookLeaves, PeersLook
<1> QED
    BY <1>1, <1>2, <1>3, PTL DEF Spec, PeersStop, PeersStopNow


-----------------------------------------------------------------------------
(* The axes of a climb, in the order they are visited                      *)

\* A list of axes that a loop of the code visits is one of the axes it was made
\* of, leaves none of them out, and names none twice (ordered).
LEMMA OrderedListsAll ==
    ASSUME NEW S \in SUBSET Axes
    PROVE  /\ ordered(S) \in Seq(S)
           /\ \A a \in S : \E i \in 1 .. Len(ordered(S)) : ordered(S)[i] = a
           /\ \A i, j \in 1 .. Len(ordered(S)) : ordered(S)[i] = ordered(S)[j] => i = j
<1> DEFINE below(a) == {b \in S : b < a}
           rank(a) == Cardinality(below(a))
           n == Cardinality(S)
           r == [a \in S |-> rank(a) + 1]
<1>1. IsFiniteSet(S) /\ S \subseteq Nat /\ n \in Nat
    BY RulesAssumption, FS_Subset, FS_CardinalityType
<1>2. ASSUME NEW a \in S PROVE rank(a) \in Nat /\ rank(a) < n
    <2>1. below(a) \in SUBSET S /\ below(a) # S
        <3>1. ~(a < a)
            BY <1>1
        <3> QED
            BY <3>1
    <2> HIDE DEF below
    <2>2. IsFiniteSet(below(a)) /\ Cardinality(below(a)) <= Cardinality(S)
        BY <1>1, <2>1, FS_Subset
    <2>3. Cardinality(below(a)) # Cardinality(S)
        BY <1>1, <2>1, FS_Subset
    <2>4. Cardinality(below(a)) \in Nat
        BY <2>2, FS_CardinalityType
    <2> QED
        BY <1>1, <2>2, <2>3, <2>4
<1>3. ASSUME NEW a \in S, NEW b \in S, a < b PROVE rank(a) < rank(b)
    <2>1. below(a) \in SUBSET below(b) /\ below(a) # below(b)
        <3>1. \A c \in S : c < a => c < b
            BY <1>1, <1>3
        <3>2. a \in below(b) /\ a \notin below(a)
            BY <1>1, <1>3
        <3> QED
            BY <3>1, <3>2
    <2>2. below(b) \in SUBSET S
        OBVIOUS
    <2> HIDE DEF below
    <2>3. IsFiniteSet(below(b))
        BY <1>1, <2>2, FS_Subset
    <2>4. Cardinality(below(a)) <= Cardinality(below(b)) /\ Cardinality(below(a)) # Cardinality(below(b))
        BY <2>1, <2>3, FS_Subset
    <2> QED
        BY <1>2, <2>4
<1> HIDE DEF below
<1>4. ASSUME NEW a \in S, NEW b \in S, rank(a) = rank(b) PROVE a = b
    <2>1. a \in Nat /\ b \in Nat /\ ~(a < b) /\ ~(b < a)
        BY <1>1, <1>2, <1>3, <1>4
    <2> QED
        BY <2>1
<1> HIDE DEF rank
<1>5. r \in [S -> 1 .. n]
    BY <1>1, <1>2
<1>6. \A a, b \in S : r[a] = r[b] => a = b
    BY <1>2, <1>4
<1>7. r \in Surjection(S, 1 .. n)
    <2>1. r \in Injection(S, 1 .. n)
        BY <1>5, <1>6 DEF Injection, IsInjective
    <2>2. IsFiniteSet(1 .. n) /\ Cardinality(1 .. n) = n
        BY <1>1, FS_Interval
    <2> HIDE DEF r
    <2> QED
        BY <2>1, <2>2, FS_Injection
<1>8. ASSUME NEW i \in 1 .. n PROVE \E a \in S : rank(a) = i - 1
    <2>1. PICK a \in S : r[a] = i
        BY <1>7 DEF Surjection
    <2> QED
        BY <1>2, <2>1
<1>9. ordered(S) = [i \in 1 .. n |-> CHOOSE a \in S : rank(a) = i - 1]
    BY DEF ordered, rank, below
<1>10. ASSUME NEW i \in 1 .. n PROVE ordered(S)[i] \in S /\ rank(ordered(S)[i]) = i - 1
    BY <1>8, <1>9
<1>11. ordered(S) \in Seq(S) /\ Len(ordered(S)) = n
    BY <1>1, <1>9, <1>10
<1>12. ASSUME NEW a \in S PROVE \E i \in 1 .. Len(ordered(S)) : ordered(S)[i] = a
    <2>1. rank(a) + 1 \in 1 .. n
        BY <1>1, <1>2
    <2>2. ordered(S)[rank(a) + 1] \in S /\ rank(ordered(S)[rank(a) + 1]) = rank(a)
        BY <1>2, <1>10, <2>1
    <2> QED
        BY <1>4, <1>11, <2>1, <2>2
<1>13. ASSUME NEW i \in 1 .. Len(ordered(S)), NEW j \in 1 .. Len(ordered(S)), ordered(S)[i] = ordered(S)[j]
       PROVE  i = j
    <2>1. i \in 1 .. n /\ j \in 1 .. n
        BY <1>11
    <2>2. i - 1 = rank(ordered(S)[i]) /\ j - 1 = rank(ordered(S)[j])
        BY <1>10, <2>1
    <2> QED
        BY <1>1, <1>13, <2>1, <2>2
<1> QED
    BY <1>11, <1>12, <1>13


\* The axes a climb has still to visit are axes, and where it stands at one of
\* them there is one.
Standing == {"climb", "go", "offwait", "mode", "end", "shift"}

TodoInv ==
    /\ DOMAIN job = JobFields
    /\ job.todo \in Seq(Axes)
    /\ job.stage \in Standing => job.todo # <<>>

LEMMA NoJobTodo == DOMAIN NoJob = JobFields /\ NoJob.todo \in Seq(Axes) /\ NoJob.stage = "none"
    BY DEF NoJob, JobFields

\* A climb that begins visits all of its axes.
LEMMA LadderTodo ==
    ASSUME NEW kind, NEW stage, NEW S \in SUBSET Axes, Ladder(kind, stage, S)
    PROVE  /\ DOMAIN job' = JobFields /\ job'.kind = kind /\ job'.stage = stage
           /\ job'.todo \in Seq(Axes)
           /\ \A a \in S : \E i \in 1 .. Len(job'.todo) : job'.todo[i] = a
           /\ \A i \in 1 .. Len(job'.todo) : job'.todo[i] \in S
<1>1. job' = [kind |-> kind, stage |-> stage, todo |-> ordered(S), mode_ok |-> TRUE]
    BY DEF Ladder
<1>2. ordered(S) \in Seq(S) /\ ordered(S) \in Seq(Axes)
    BY OrderedListsAll, SeqMonotonic
<1>3. \A i \in 1 .. Len(ordered(S)) : ordered(S)[i] \in S
    BY <1>2, ElementOfSeq
<1> QED
    BY <1>1, <1>2, <1>3, OrderedListsAll DEF JobFields

LEMMA LadderKeepsTodo ==
    ASSUME NEW kind, NEW stage, NEW S \in SUBSET Axes, Ladder(kind, stage, S),
           stage \in Standing => S # {}
    PROVE  TodoInv'
<1>1. /\ DOMAIN job' = JobFields /\ job'.stage = stage /\ job'.todo \in Seq(Axes)
      /\ \A a \in S : \E i \in 1 .. Len(job'.todo) : job'.todo[i] = a
    BY LadderTodo
<1>2. S # {} => job'.todo # <<>>
    BY <1>1
<1> QED
    BY <1>1, <1>2 DEF TodoInv

\* The command at the head of the queue.
LEMMA HeadOfQueue ==
    ASSUME PeersInv, NEW t, Take(t)
    PROVE  /\ Head(queue) \in QueueOf /\ Head(queue).t = t
           /\ at = "drain" /\ ~s.homing
           /\ t = "HOME" => /\ Head(queue).mask \subseteq Axes /\ Head(queue).off \in Int
                            /\ {Head(queue).limit, Head(queue).span} \subseteq BOOLEAN
           /\ t \in {"ZERO", "CENTER"} => Head(queue).axis \in Axes
           /\ t = "RANGE" => Head(queue).value \in Int
<1>1. Head(queue) \in QueueOf /\ Head(queue).t = t /\ at = "drain" /\ ~s.homing
    BY HeadTailProperties DEF Take, PeersInv
<1>2. t # "STOP" => Head(queue) \in Commands
    BY <1>1 DEF QueueOf
<1> QED
    BY <1>1, <1>2, CommandsAssumption

\* The axis a climb stands at.
LEMMA AxisOfJob ==
    ASSUME TodoInv, job.todo # <<>>
    PROVE  axis \in Axes /\ Tail(job.todo) \in Seq(Axes)
    BY HeadTailProperties DEF TodoInv, axis

LEMMA TodoDrain == PeersInv /\ TodoInv /\ Drain => TodoInv'
<1> SUFFICES ASSUME PeersInv, TodoInv, Drain PROVE TodoInv'
    OBVIOUS
<1>0. CASE job' = job
    BY <1>0 DEF TodoInv
<1>1. CASE EnableBegin \/ DisableBegin \/ ResetBegin
    <2>1. job' = job \/ \E kind \in {"enable", "disable", "reset"}, stage \in {"arm", "off"}, S \in SUBSET Axes :
              Ladder(kind, stage, S)
        BY <1>1 DEF EnableBegin, DisableBegin, ResetBegin
    <2> QED
        BY <1>0, <2>1, LadderKeepsTodo DEF Standing
<1>2. CASE ZeroBegin
    <2>1. job' = job \/ Ladder("zero", "shift", {Head(queue).axis})
        BY <1>2 DEF ZeroBegin
    <2>2. Head(queue).axis \in Axes
        BY <1>2, HeadOfQueue DEF ZeroBegin
    <2> QED
        BY <1>0, <2>1, <2>2, LadderKeepsTodo DEF Standing
<1>3. CASE HomeBegin
    <2>1. Ladder("start", "off", {a \in Head(queue).mask : is_enabled(a)})
        BY <1>3 DEF HomeBegin
    <2>2. Head(queue).mask \subseteq Axes
        BY <1>3, HeadOfQueue DEF HomeBegin
    <2> QED
        BY <2>1, <2>2, LadderKeepsTodo DEF Standing
<1>4. CASE \/ DrainNothing \/ DrainStop \/ Connect \/ ConnectOk \/ Disconnect \/ doStop
           \/ doCenter \/ doRange \/ HomeRefused
    BY <1>0, <1>4 DEF DrainNothing, DrainStop, Connect, ConnectOk, Disconnect, doStop, doCenter,
       doRange, HomeRefused
<1> QED
    BY <1>1, <1>2, <1>3, <1>4 DEF Drain

\* A step up or down a rung, or on to the next axis.
LEMMA TodoClimb == PeersInv /\ TodoInv /\ Climb => TodoInv'
<1> SUFFICES ASSUME PeersInv, TodoInv, Climb PROVE TodoInv'
    OBVIOUS
<1>0. /\ DOMAIN job = JobFields /\ job.todo \in Seq(Axes)
      /\ job.stage \in Standing => job.todo # <<>>
      /\ s.mask \subseteq Axes
    BY DEF TodoInv, PeersInv, SessionOk
<1>1. CASE job' = NoJob
    BY <1>1, NoJobTodo DEF TodoInv, Standing
<1>2. CASE \E st : job' = [job EXCEPT !.stage = st] /\ job.todo # <<>>
    BY <1>0, <1>2 DEF TodoInv, JobFields
<1>3. CASE \E st \in {"off", "arm", "begin"} : job' = [nextAxis EXCEPT !.stage = st] /\ job.todo # <<>>
    <2>1. PICK st \in {"off", "arm", "begin"} : job' = [nextAxis EXCEPT !.stage = st]
        BY <1>3
    <2>2. DOMAIN job' = JobFields /\ job'.todo = Tail(job.todo) /\ job'.stage = st
        BY <1>0, <2>1 DEF nextAxis, JobFields
    <2>3. Tail(job.todo) \in Seq(Axes)
        BY <1>3, AxisOfJob
    <2> QED
        BY <2>2, <2>3 DEF TodoInv, Standing
<1>4. CASE Prepare
    <2>1. job' = NoJob \/ Ladder("start", "arm", s.mask)
        BY <1>4 DEF Prepare
    <2> QED
        BY <1>0, <1>1, <2>1, LadderKeepsTodo DEF Standing
<1>5. CASE FinishBegin
    <2>1. Ladder("finish", "begin", s.mask)
        BY <1>5 DEF FinishBegin
    <2> QED
        BY <1>0, <2>1, LadderKeepsTodo DEF Standing
<1>6. CASE Off \/ Arm
    BY <1>2, <1>6 DEF Off, Arm, ReadyToArm
<1>7. CASE OffDone
    BY <1>0, <1>2, <1>3, <1>7 DEF OffDone, Standing
<1>8. CASE SetMode
    <2>1. CASE job' = [job EXCEPT !.stage = "end", !.mode_ok = FALSE]
        BY <1>0, <1>8, <2>1 DEF SetMode, TodoInv, JobFields
    <2> QED
        BY <1>1, <1>2, <1>8, <2>1 DEF SetMode
<1>9. CASE Climbed
    <2>1. job.stage = "climb" /\ job.todo # <<>> /\ job.kind \in {"enable", "start", "finish"}
        BY <1>0, <1>9 DEF Climbed, Standing, PeersInv, JobOk
    <2> QED
        BY <1>2, <1>3, <1>9, <2>1 DEF Climbed
<1>10. CASE Started \/ Anchor
    BY <1>0, <1>3, <1>10 DEF Started, Anchor, Standing
<1>11. CASE ArmFails
    <2>1. job.todo # <<>>
        BY <1>0, <1>11 DEF ArmFails, ReadyToArm, Standing
    <2>2. \/ job' = NoJob
          \/ job' = [job EXCEPT !.stage = "end"]
          \/ Ladder("rollback", "off", {a \in Axes : a < axis /\ is_enabled(a)})
        BY <1>11 DEF ArmFails
    <2> QED
        BY <1>1, <1>2, <2>1, <2>2, LadderKeepsTodo DEF Standing
<1>12. CASE EnableDone \/ DisableDone \/ StartDone \/ FinishEnd
    BY <1>1, <1>12 DEF EnableDone, DisableDone, StartDone, FinishEnd
<1>13. CASE FinishAxis
    <2>1. PICK st \in {"off", "mode"} : job' = [job EXCEPT !.stage = st, !.mode_ok = TRUE]
        BY <1>13 DEF FinishAxis
    <2>2. DOMAIN job' = JobFields /\ job'.todo = job.todo /\ job.todo # <<>>
        BY <1>0, <1>13, <2>1 DEF FinishAxis, JobFields
    <2> QED
        BY <1>0, <2>2 DEF TodoInv
<1> QED
    BY <1>4, <1>5, <1>6, <1>7, <1>8, <1>9, <1>10, <1>11, <1>12, <1>13 DEF Climb

LEMMA TodoKept == PeersInv /\ TodoInv /\ [Next]_vars => TodoInv'
<1> SUFFICES ASSUME PeersInv, TodoInv, [Next]_vars PROVE TodoInv'
    OBVIOUS
<1>0. CASE job' = job
    BY <1>0 DEF TodoInv
<1>1. CASE Gui \/ Surroundings \/ JobFrame \/ UNCHANGED vars
    BY <1>0, <1>1 DEF Gui, Post, SetTarget, StopLook, StopAct, requestQuit, Surroundings, Push,
       Trip, JobFrame, vars
<1>2. CASE Loop
    <2>1. job' = job \/ job' = NoJob
        BY <1>2 DEF Loop, Top, serviceHoming, serviceSpan, interpolate, Frame, FrameClosed,
           Recover, Zero
    <2> QED
        BY <1>0, <2>1, NoJobTodo DEF TodoInv, Standing
<1> QED
    BY <1>1, <1>2, TodoDrain, TodoClimb DEF Next

-----------------------------------------------------------------------------
(* The values of the drives and of the image                               *)

ControlWords == {"off", "climb", "last", "on", "start", "go"}
Mirrors == [on : SUBSET Axes, fault : SUBSET Axes, pos : [Axes -> Int]]

DrivesTyped ==
    /\ cw \in [Axes -> ControlWords]
    /\ hmode \subseteq Axes /\ on \subseteq Axes /\ fault \subseteq Axes /\ out \subseteq Axes
    /\ pos \in [Axes -> Pos] /\ seen \in Mirrors
    /\ fresh \in BOOLEAN /\ bad \in 0 .. ArmFrames

LEMMA PositionsAreInts == Pos \subseteq Int /\ [Axes -> Pos] \subseteq [Axes -> Int]
<1>1. Int32 \subseteq Int
    BY RulesAssumption DEF Int32
<1>2. Pos \subseteq Int
    BY <1>1, WorkerAssumption
<1> QED
    BY <1>2

\* What a frame does to the drives and the mirror.
LEMMA DrivesExchange == DrivesTyped /\ Exchange => DrivesTyped'
<1> SUFFICES ASSUME DrivesTyped, Exchange PROVE DrivesTyped'
    OBVIOUS
<1>1. hmode' \subseteq Axes /\ fault' \subseteq Axes /\ out' \subseteq Axes /\ pos' \in [Axes -> Pos]
    BY DEF DrivesTyped, Exchange
<1>2. on' \subseteq Axes
    BY DEF DrivesTyped, Exchange
<1>3. cw' \in [Axes -> ControlWords]
    BY DEF DrivesTyped, Exchange, ControlWords
<1>4. seen' = seen \/ seen' = [on |-> on', fault |-> fault, pos |-> pos']
    BY DEF Exchange
<1>5. seen' \in Mirrors
    BY <1>1, <1>2, <1>4, PositionsAreInts DEF DrivesTyped, Mirrors
<1>6. bad' = 0 \/ bad' = lesser(bad + 1, ArmFrames)
    BY DEF Exchange
<1>7. bad' \in 0 .. ArmFrames
    BY <1>6, WorkerAssumption DEF DrivesTyped, lesser
<1>8. fresh' \in BOOLEAN
    <2>1. fresh' = TRUE \/ fresh' = (fresh /\ bad' < ShortLimit)
        BY DEF Exchange
    <2> QED
        BY <2>1
<1> QED
    BY <1>1, <1>2, <1>3, <1>5, <1>7, <1>8 DEF DrivesTyped

\* The bus is opened or closed.
LEMMA DrivesOff ==
    ASSUME DrivesTyped, cw' = All("off"), on' = {}, fresh' = FALSE, bad' = 0,
           UNCHANGED <<hmode, fault, pos>>, out' \subseteq Axes,
           \/ seen' = [seen EXCEPT !.on = {}, !.fault = {}]
           \/ seen' = [on |-> {}, fault |-> fault, pos |-> pos]
    PROVE  DrivesTyped'
<1>1. cw' \in [Axes -> ControlWords]
    BY DEF All, ControlWords
<1>2. seen' \in Mirrors
    <2>1. seen \in Mirrors /\ fault \subseteq Axes /\ pos \in [Axes -> Int]
        BY PositionsAreInts DEF DrivesTyped
    <2>2. CASE seen' = [seen EXCEPT !.on = {}, !.fault = {}]
        BY <2>1, <2>2 DEF Mirrors
    <2>3. CASE seen' = [on |-> {}, fault |-> fault, pos |-> pos]
        BY <2>1, <2>3 DEF Mirrors
    <2> QED
        BY <2>2, <2>3
<1>3. bad' \in 0 .. ArmFrames
    BY WorkerAssumption
<1> QED
    BY <1>1, <1>2, <1>3 DEF DrivesTyped

LEMMA DrivesGui == DrivesTyped /\ (Gui \/ Surroundings) => DrivesTyped'
<1> SUFFICES ASSUME DrivesTyped, Gui \/ Surroundings PROVE DrivesTyped'
    OBVIOUS
<1>1. CASE Gui
    <2>1. UNCHANGED <<imageVars, driveVars>>
        BY <1>1 DEF Gui, Post, SetTarget, StopLook, StopAct, requestQuit
    <2> QED
        BY <2>1 DEF DrivesTyped, imageVars, driveVars
<1>2. CASE Surroundings
    <2>1. PICK a \in Axes : Push(a) \/ Trip(a)
        BY <1>2 DEF Surroundings
    <2>2. CASE Push(a)
        <3>1. PICK x \in Pos : /\ pos' = [pos EXCEPT ![a] = x]
                               /\ seen' = IF fresh THEN [seen EXCEPT !.pos[a] = x] ELSE seen
            BY <2>2 DEF Push
        <3>2. UNCHANGED <<imageVars, on, fault, out, fresh, bad>>
            BY <2>2 DEF Push
        <3>3. seen' \in Mirrors
            BY <3>1, PositionsAreInts DEF DrivesTyped, Mirrors
        <3> QED
            BY <3>1, <3>2, <3>3 DEF DrivesTyped, imageVars
    <2>3. CASE Trip(a)
        BY <2>1, <2>3 DEF Trip, DrivesTyped, imageVars
    <2> QED
        BY <2>1, <2>2, <2>3
<1> QED
    BY <1>1, <1>2

LEMMA DrivesDrain == PeersInv /\ DrivesTyped /\ Drain => DrivesTyped'
<1> SUFFICES ASSUME PeersInv, DrivesTyped, Drain PROVE DrivesTyped'
    OBVIOUS
<1>1. CASE Connect \/ ConnectOk \/ Disconnect
    <2>1. /\ cw' = All("off") /\ on' = {} /\ fresh' = FALSE /\ bad' = 0
          /\ UNCHANGED <<hmode, fault, pos>> /\ (out' = {} \/ out' = out)
          /\ \/ seen' = [seen EXCEPT !.on = {}, !.fault = {}]
             \/ seen' = [on |-> {}, fault |-> fault, pos |-> pos]
        BY <1>1 DEF Connect, ConnectOk, Disconnect, teardown
    <2> QED
        BY <2>1, DrivesOff DEF DrivesTyped
<1>2. CASE EnableBegin
    <2>1. UNCHANGED <<cw, driveVars>> /\ hmode' \subseteq hmode
        BY <1>2 DEF EnableBegin
    <2> QED
        BY <2>1 DEF DrivesTyped, driveVars
<1>3. CASE \/ DrainNothing \/ DrainStop \/ DisableBegin \/ ResetBegin \/ doStop \/ ZeroBegin
           \/ doCenter \/ doRange \/ HomeRefused \/ HomeBegin
    <2>1. UNCHANGED <<imageVars, driveVars>>
        BY <1>3 DEF DrainNothing, DrainStop, DisableBegin, ResetBegin, doStop, ZeroBegin,
           doCenter, doRange, HomeRefused, HomeBegin
    <2> QED
        BY <2>1 DEF DrivesTyped, imageVars, driveVars
<1> QED
    BY <1>1, <1>2, <1>3 DEF Drain

LEMMA DrivesClimb == PeersInv /\ TodoInv /\ DrivesTyped /\ Climb => DrivesTyped'
<1> SUFFICES ASSUME PeersInv, TodoInv, DrivesTyped, Climb PROVE DrivesTyped'
    OBVIOUS
<1>0. job.stage \in Standing => job.todo # <<>>
    BY DEF TodoInv
<1>1. CASE Prepare
    <2>1. UNCHANGED <<hmode, driveVars>>
        BY <1>1 DEF Prepare
    <2>2. PICK T : cw' = [b \in Axes |-> IF b \in T THEN "off" ELSE cw[b]]
        <3> DEFINE fit(a) == fresh /\ ~is_enabled(a) /\ a \notin seen.fault
        <3>1. CASE cw' = [a \in Axes |-> IF a \in s.mask THEN "off" ELSE cw[a]]
            BY <3>1
        <3>2. ASSUME NEW a \in s.mask,
                     cw' = [b \in Axes |-> IF b \in s.mask /\ (b < a \/ (b = a /\ fit(a))) THEN "off"
                                           ELSE cw[b]]
              PROVE  \E T : cw' = [b \in Axes |-> IF b \in T THEN "off" ELSE cw[b]]
            <4> DEFINE T == {b \in s.mask : b < a \/ (b = a /\ fit(a))}
            <4>1. cw' = [b \in Axes |-> IF b \in T THEN "off" ELSE cw[b]]
                BY <3>2
            <4> QED
                BY <4>1
        <3> QED
            BY <1>1, <3>1, <3>2 DEF Prepare
    <2>3. cw' \in [Axes -> ControlWords]
        BY <2>2 DEF DrivesTyped, ControlWords
    <2> QED
        BY <2>1, <2>3 DEF DrivesTyped, driveVars
<1>2. CASE Off \/ Arm \/ Climbed \/ ArmFails
    <2>1. axis \in Axes
        BY <1>0, <1>2, AxisOfJob DEF Off, Arm, Climbed, ArmFails, ReadyToArm, Standing
    <2>2. UNCHANGED <<hmode, driveVars>>
        BY <1>2 DEF Off, Arm, Climbed, ArmFails
    <2>3. cw' = cw \/ \E w \in ControlWords : cw' = [cw EXCEPT ![axis] = w]
        BY <1>2 DEF Off, Arm, Climbed, ArmFails, ControlWords
    <2>4. cw' \in [Axes -> ControlWords]
        BY <2>1, <2>3 DEF DrivesTyped
    <2> QED
        BY <2>2, <2>4 DEF DrivesTyped, driveVars
<1>3. CASE OffDone
    <2>1. UNCHANGED <<imageVars, on, out, pos, fresh, bad>> /\ fault' \subseteq fault
        BY <1>3 DEF OffDone
    <2>2. seen' = seen \/ seen' = [seen EXCEPT !.fault = @ \ {axis}]
        BY <1>3 DEF OffDone
    <2>3. seen' \in Mirrors
        BY <2>2 DEF DrivesTyped, Mirrors
    <2> QED
        BY <2>1, <2>3 DEF DrivesTyped, imageVars
<1>4. CASE SetMode
    <2>1. axis \in Axes
        BY <1>4, AxisOfJob DEF SetMode
    <2>2. UNCHANGED <<cw, driveVars>> /\ hmode' \subseteq hmode \union {axis}
        BY <1>4 DEF SetMode
    <2> QED
        BY <2>1, <2>2 DEF DrivesTyped, driveVars
<1>5. CASE \/ Started \/ EnableDone \/ DisableDone \/ StartDone \/ FinishBegin \/ FinishAxis
           \/ Anchor \/ FinishEnd
    <2>1. UNCHANGED <<imageVars, driveVars>>
        BY <1>5 DEF Started, EnableDone, DisableDone, StartDone, FinishBegin, FinishAxis, Anchor,
           FinishEnd
    <2> QED
        BY <2>1 DEF DrivesTyped, imageVars, driveVars
<1> QED
    BY <1>1, <1>2, <1>3, <1>4, <1>5 DEF Climb

LEMMA DrivesLoop == PeersInv /\ DrivesTyped /\ Loop => DrivesTyped'
<1> SUFFICES ASSUME PeersInv, DrivesTyped, Loop PROVE DrivesTyped'
    OBVIOUS
<1>1. CASE Top
    <2>1. CASE quit
        <3>1. /\ cw' = All("off") /\ on' = {} /\ fresh' = FALSE /\ bad' = 0
              /\ UNCHANGED <<hmode, fault, pos, out>>
              /\ seen' = [seen EXCEPT !.on = {}, !.fault = {}]
            BY <1>1, <2>1 DEF Top, teardown
        <3> QED
            BY <3>1, DrivesOff DEF DrivesTyped
    <2>2. CASE ~quit
        <3>1. UNCHANGED <<imageVars, driveVars>>
            BY <1>1, <2>2 DEF Top
        <3> QED
            BY <3>1 DEF DrivesTyped, imageVars, driveVars
    <2> QED
        BY <2>1, <2>2
<1>2. CASE serviceHoming
    <2>1. UNCHANGED <<hmode, driveVars>>
        BY <1>2 DEF serviceHoming
    <2>2. cw' = cw \/ \E T : cw' = [a \in Axes |-> IF a \in T THEN "on" ELSE cw[a]]
        <3>1. ASSUME NEW rc, HomePass(rc)
              PROVE  \E T : cw' = [a \in Axes |-> IF a \in T THEN "on" ELSE cw[a]]
            BY <3>1 DEF HomePass
        <3> QED
            BY <1>2, <3>1 DEF serviceHoming
    <2>3. cw' \in [Axes -> ControlWords]
        BY <2>2 DEF DrivesTyped, ControlWords
    <2> QED
        BY <2>1, <2>3 DEF DrivesTyped, driveVars
<1>3. CASE serviceSpan \/ interpolate
    <2>1. UNCHANGED <<cw, hmode, driveVars>>
        BY <1>3 DEF serviceSpan, interpolate
    <2> QED
        BY <2>1 DEF DrivesTyped, driveVars
<1>4. CASE Frame
    BY <1>4, DrivesExchange DEF Frame
<1>5. CASE FrameClosed
    <2>1. UNCHANGED <<imageVars, on, fault, out, pos, seen, fresh>> /\ bad' = 0
        BY <1>5 DEF FrameClosed
    <2> QED
        BY <2>1, WorkerAssumption DEF DrivesTyped, imageVars
<1>6. CASE Recover
    <2>1. UNCHANGED <<hmode, on, fault, pos, seen, fresh, bad>>
        BY <1>6 DEF Recover
    <2>2. /\ cw' = cw \/ cw' = [a \in Axes |-> IF a \in out THEN "off" ELSE cw[a]]
          /\ out' \subseteq out
        BY <1>6 DEF Recover
    <2>3. cw' \in [Axes -> ControlWords]
        BY <2>2 DEF DrivesTyped, ControlWords
    <2> QED
        BY <2>1, <2>2, <2>3 DEF DrivesTyped
<1>7. CASE Zero
    BY <1>7 DEF Zero, DrivesTyped, imageVars, driveVars
<1> QED
    BY <1>1, <1>2, <1>3, <1>4, <1>5, <1>6, <1>7 DEF Loop

LEMMA DrivesKept == PeersInv /\ TodoInv /\ DrivesTyped /\ [Next]_vars => DrivesTyped'
<1> SUFFICES ASSUME PeersInv, TodoInv, DrivesTyped, [Next]_vars PROVE DrivesTyped'
    OBVIOUS
<1>1. CASE JobFrame
    BY <1>1, DrivesExchange DEF JobFrame
<1>2. CASE UNCHANGED vars
    BY <1>2 DEF vars, DrivesTyped, imageVars, driveVars
<1> QED
    BY <1>1, <1>2, DrivesGui, DrivesDrain, DrivesClimb, DrivesLoop DEF Next

-----------------------------------------------------------------------------
(* The values of a session                                                 *)

SpanSteps == {"IDLE", "BACKOFF", "SEEK", "CROSS", "DONE"}

SessionTyped ==
    /\ s.eff \in [Axes -> Int] /\ s.step \in [Axes -> SpanSteps]
    /\ s.back \in {"drain", "span"}

LEMMA FreshSessionsTyped ==
    /\ NoSession.eff \in [Axes -> Int] /\ NoSession.step \in [Axes -> SpanSteps]
    /\ Idle.eff \in [Axes -> Int] /\ Idle.step \in [Axes -> SpanSteps]
    /\ NoSession.back = "span" /\ Idle.back = "span"
<1>1. /\ NoSession.eff \in [Axes -> Int] /\ NoSession.step \in [Axes -> SpanSteps]
      /\ NoSession.back = "span"
    BY DEF NoSession, All, SpanSteps
<1>2. DOMAIN NoSession = SFields
    BY NoSessionOk
<1>3. Idle.eff = NoSession.eff /\ Idle.step = NoSession.step /\ Idle.back = NoSession.back
    BY <1>2 DEF Idle, SFields
<1> QED
    BY <1>1, <1>3

\* The steps that look at a session leave its offsets and its measurement alone.
LEMMA SessionTypedClimb == PeersInv /\ SessionTyped /\ Climb => SessionTyped'
<1> SUFFICES ASSUME PeersInv, SessionTyped, Climb PROVE SessionTyped'
    OBVIOUS
<1>0. DOMAIN s = SFields
    BY DEF PeersInv, SessionOk
<1>1. CASE s' = s
    BY <1>1 DEF SessionTyped
<1>2. CASE \E r, c : s' = [s EXCEPT !.rc = r, !.culprit = c]
    BY <1>0, <1>2 DEF SessionTyped, SFields
<1>3. CASE Prepare
    <2>1. s' = s \/ \E r, c : s' = [s EXCEPT !.rc = r, !.culprit = c]
        BY <1>3 DEF Prepare
    <2> QED
        BY <1>1, <1>2, <2>1
<1>4. CASE SetMode
    <2>1. s' = s \/ \E r, c : s' = [s EXCEPT !.rc = r, !.culprit = c]
        BY <1>4 DEF SetMode
    <2> QED
        BY <1>1, <1>2, <2>1
<1>5. CASE ArmFails
    <2>1. s' = s \/ \E r, c : s' = [s EXCEPT !.rc = r, !.culprit = c]
        BY <1>5 DEF ArmFails
    <2> QED
        BY <1>1, <1>2, <2>1
<1>6. CASE StartDone
    BY <1>0, <1>6 DEF StartDone, SessionTyped, SFields
<1>7. CASE FinishBegin
    BY <1>0, <1>7 DEF FinishBegin, SessionTyped, SFields
<1>8. CASE Anchor
    <2>1. PICK m, e : s' = [s EXCEPT !.mask = m, !.ends = e]
        BY <1>8 DEF Anchor
    <2> QED
        BY <1>0, <2>1 DEF SessionTyped, SFields
<1>9. CASE FinishEnd
    <2>1. s' = Idle \/ s' = beginSpan(s.batch)
        BY <1>9 DEF FinishEnd
    <2>2. CASE s' = Idle
        BY <2>2, FreshSessionsTyped DEF SessionTyped
    <2>3. CASE s' = beginSpan(s.batch)
        <3>1. s'.eff = s.eff /\ s'.back = "span"
            BY <1>0, <2>3 DEF beginSpan, SFields
        <3>2. s'.step = [a \in Axes |-> IF a \notin s.batch THEN "IDLE"
                                        ELSE IF seen.pos[a] \in Sensor THEN "BACKOFF" ELSE "SEEK"]
            BY <1>0, <2>3 DEF beginSpan, SFields
        <3> QED
            BY <3>1, <3>2 DEF SessionTyped, SpanSteps
    <2> QED
        BY <2>1, <2>2, <2>3
<1>10. CASE Off \/ OffDone \/ Arm \/ Climbed \/ Started \/ EnableDone \/ DisableDone \/ FinishAxis
    BY <1>1, <1>10 DEF Off, OffDone, Arm, Climbed, Started, EnableDone, DisableDone, FinishAxis
<1> QED
    BY <1>3, <1>4, <1>5, <1>6, <1>7, <1>8, <1>9, <1>10 DEF Climb

\* A pass of the measurement takes its axes from step to step.
LEMMA SessionTypedSpan == PeersInv /\ SessionTyped /\ SpanPass => SessionTyped'
<1> SUFFICES ASSUME PeersInv, SessionTyped, SpanPass PROVE SessionTyped'
    OBVIOUS
<1>0. DOMAIN s = SFields
    BY DEF PeersInv, SessionOk
<1> DEFINE failed == {a \in Measured : span_why(a) # "NONE"}
           step1(a) == IF a \in failed THEN "DONE" ELSE span_next(s.step[a], signal(a))
           peers  == {a \in Measured \ failed : failed # {} /\ step1(a) # "DONE"}
           step2  == [a \in Axes |-> IF a \in peers THEN "DONE"
                                     ELSE IF a \in Measured THEN step1(a) ELSE s.step[a]]
<1>1. ASSUME NEW a \in Axes PROVE step2[a] \in SpanSteps
    <2>1. s.step[a] \in SpanSteps
        BY DEF SessionTyped
    <2>2. span_next(s.step[a], signal(a)) \in SpanSteps
        BY <2>1 DEF span_next, SpanSteps
    <2> QED
        BY <2>1, <2>2 DEF SpanSteps
<1>2. step2 \in [Axes -> SpanSteps]
    BY <1>1
<1>3. \/ \E p, w, x : s' = [Idle EXCEPT !.pending = p, !.why = w, !.width = x]
      \/ \E t, w, u, p, x : s' = [s EXCEPT !.timer = t, !.step = step2, !.why = w, !.stuck = u,
                                           !.p1 = p, !.width = x]
    BY DEF SpanPass
<1> HIDE DEF step2
<1>4. CASE \E p, w, x : s' = [Idle EXCEPT !.pending = p, !.why = w, !.width = x]
    <2>1. s'.eff = Idle.eff /\ s'.step = Idle.step /\ s'.back = Idle.back
        BY <1>4, IdleOk DEF SFields
    <2> QED
        BY <2>1, FreshSessionsTyped DEF SessionTyped
<1>5. CASE \E t, w, u, p, x : s' = [s EXCEPT !.timer = t, !.step = step2, !.why = w, !.stuck = u,
                                             !.p1 = p, !.width = x]
    <2>1. s'.eff = s.eff /\ s'.step = step2 /\ s'.back = s.back
        BY <1>0, <1>5 DEF SFields
    <2> QED
        BY <1>2, <2>1 DEF SessionTyped
<1> QED
    BY <1>3, <1>4, <1>5

LEMMA SessionTypedKept == PeersInv /\ SessionTyped /\ [Next]_vars => SessionTyped'
<1> SUFFICES ASSUME PeersInv, SessionTyped, [Next]_vars PROVE SessionTyped'
    OBVIOUS
<1>0. DOMAIN s = SFields
    BY DEF PeersInv, SessionOk
<1>1. CASE s' = s
    BY <1>1 DEF SessionTyped
<1>2. CASE s' = NoSession
    BY <1>2, FreshSessionsTyped DEF SessionTyped
<1>3. CASE Gui \/ Surroundings \/ JobFrame \/ UNCHANGED vars
    BY <1>1, <1>3 DEF Gui, Post, SetTarget, StopLook, StopAct, requestQuit, Surroundings, Push,
       Trip, JobFrame, vars
<1>4. CASE Drain
    <2>1. CASE HomeRefused
        <3>1. PICK b : s' = [s EXCEPT !.pending = b]
            BY <2>1 DEF HomeRefused
        <3> QED
            BY <1>0, <3>1 DEF SessionTyped, SFields
    <2>2. CASE HomeBegin
        <3> DEFINE c == Head(queue)
                   e == [a \in Axes |-> home_off_decide(c.off, c.limit, range).eff]
        <3>1. c.off \in Int
            BY <2>2, HeadOfQueue DEF HomeBegin
        <3>2. home_off_decide(c.off, c.limit, range).eff \in Int
            <4>1. clamp(c.off, -OffMax, OffMax) \in Int
                BY <3>1, RulesAssumption DEF clamp
            <4>2. home_off_decide(c.off, c.limit, range).eff \in {0, clamp(c.off, -OffMax, OffMax)}
                BY DEF home_off_decide
            <4> QED
                BY <4>1, <4>2
        <3>3. s'.eff = e /\ s'.step = Idle.step /\ s'.back = "drain"
            BY <2>2, IdleOk DEF HomeBegin, SFields
        <3>4. e \in [Axes -> Int]
            BY <3>2
        <3> QED
            BY <3>3, <3>4, FreshSessionsTyped DEF SessionTyped
    <2>3. CASE Connect \/ ConnectOk \/ Disconnect
        BY <1>2, <2>3 DEF Connect, ConnectOk, Disconnect, teardown
    <2>4. CASE \/ DrainNothing \/ DrainStop \/ EnableBegin \/ DisableBegin \/ ResetBegin \/ doStop
               \/ ZeroBegin \/ doCenter \/ doRange
        BY <1>1, <2>4 DEF DrainNothing, DrainStop, EnableBegin, DisableBegin, ResetBegin, doStop,
           ZeroBegin, doCenter, doRange
    <2> QED
        BY <1>4, <2>1, <2>2, <2>3, <2>4 DEF Drain
<1>5. CASE Loop
    <2>1. CASE serviceHoming
        <3>1. s' = s \/ \E rc \in [Axes -> StepRcs] : HomePass(rc)
            BY <2>1 DEF serviceHoming
        <3>2. ASSUME NEW rc, HomePass(rc) PROVE s'.eff = s.eff /\ s'.step = s.step /\ s'.back = s.back
            BY <1>0, <3>2 DEF HomePass, SFields
        <3> QED
            BY <1>1, <3>1, <3>2 DEF SessionTyped
    <2>2. CASE serviceSpan
        BY <1>1, <2>2, SessionTypedSpan DEF serviceSpan
    <2>3. CASE Top \/ interpolate \/ Frame \/ FrameClosed \/ Recover \/ Zero
        BY <1>1, <1>2, <2>3 DEF Top, teardown, interpolate, Frame, FrameClosed, Recover, Zero
    <2> QED
        BY <1>5, <2>1, <2>2, <2>3 DEF Loop
<1> QED
    BY <1>3, <1>4, <1>5, SessionTypedClimb DEF Next

-----------------------------------------------------------------------------
(* The places: zero points, targets and wishes                             *)

PlacesTyped ==
    /\ want \in [Axes -> Int] /\ tgt \in [Axes -> Int]
    /\ csp \in [Axes -> Int] /\ origin \in [Axes -> Int]
    /\ range \in Nat \ {0}

LEMMA ZerosAreInts == All(0) \in [Axes -> Int]
    BY DEF All

LEMMA ClampIsInt ==
    ASSUME NEW x \in Int, NEW lo \in Int, NEW hi \in Int PROVE clamp(x, lo, hi) \in Int
    BY DEF clamp

\* Where a measurement sends an axis next.
LEMMA AdvanceIsInt ==
    ASSUME NEW t \in Int, NEW p \in Int, NEW dir \in {-1, 1}
    PROVE  span_advance(t, p, Step, Lead, dir).tgt \in Int
<1> DEFINE want1 == t + greater(Step, 1) * dir
           cap == p + Lead * dir
<1>0. Step \in Nat \ {0} /\ Lead \in Nat \ {0} /\ IntMax \in Nat \ {0}
    BY WorkerAssumption, RulesAssumption
<1>1. want1 \in Int /\ cap \in Int
    <2>1. greater(Step, 1) \in Int
        BY <1>0 DEF greater
    <2>2. dir = 1 \/ dir = -1
        OBVIOUS
    <2> QED
        BY <1>0, <2>1, <2>2
<1> HIDE DEF want1, cap
<1>2. span_advance(t, p, Step, Lead, dir).tgt
        = IF dir < 0 THEN lesser(greater(cap, want1), t) ELSE greater(lesser(cap, want1), t)
    BY <1>0 DEF span_advance, want1, cap
<1>3. lesser(greater(cap, want1), t) \in Int /\ greater(lesser(cap, want1), t) \in Int
    BY <1>1 DEF lesser, greater
<1> QED
    BY <1>2, <1>3

\* The display follows some axes.
LEMMA HeldPlaces ==
    ASSUME PlacesTyped, DrivesTyped, NEW S, hold(S)
    PROVE  tgt' \in [Axes -> Int] /\ want' \in [Axes -> Int]
<1>1. \A a \in Axes : seen.pos[a] - origin[a] \in Int
    BY DEF PlacesTyped, DrivesTyped, Mirrors
<1>2. /\ tgt' = [a \in Axes |-> IF a \in S THEN seen.pos[a] - origin[a] ELSE tgt[a]]
      /\ want' = [a \in Axes |-> IF a \in S THEN seen.pos[a] - origin[a] ELSE want[a]]
    BY DEF hold
<1> QED
    BY <1>1, <1>2 DEF PlacesTyped

LEMMA PlacesGui == PlacesTyped /\ DrivesTyped /\ (Gui \/ Surroundings) => PlacesTyped'
<1> SUFFICES ASSUME PlacesTyped, DrivesTyped, Gui \/ Surroundings PROVE PlacesTyped'
    OBVIOUS
<1>1. UNCHANGED <<zeroVars, tgt, csp>>
    BY DEF Gui, Post, SetTarget, StopLook, StopAct, requestQuit, Surroundings, Push, Trip, imageVars
<1>2. want' \in [Axes -> Int]
    <2>1. CASE SetTarget
        <3>1. PICK a \in Axes, x \in Targets : want' = [want EXCEPT ![a] = clamp(x, -range, range)]
            BY <2>1 DEF SetTarget, setTarget
        <3>2. x \in Int /\ range \in Int
            BY <3>1, WorkerAssumption, RulesAssumption DEF Int32, PlacesTyped
        <3> QED
            BY <3>1, <3>2, ClampIsInt DEF PlacesTyped
    <2>2. CASE ~SetTarget
        <3>1. want' = want
            BY <2>2 DEF Gui, Post, StopLook, StopAct, requestQuit, Surroundings, Push, Trip, queueVars
        <3> QED
            BY <3>1 DEF PlacesTyped
    <2> QED
        BY <2>1, <2>2
<1> QED
    BY <1>1, <1>2 DEF PlacesTyped, zeroVars

LEMMA PlacesDrain == PeersInv /\ DrivesTyped /\ PlacesTyped /\ Drain => PlacesTyped'
<1> SUFFICES ASSUME PeersInv, DrivesTyped, PlacesTyped, Drain PROVE PlacesTyped'
    OBVIOUS
<1>1. CASE Connect \/ ConnectOk \/ Disconnect
    <2>1. tgt' = All(0) /\ want' = All(0) /\ UNCHANGED <<csp, origin, range>>
        BY <1>1 DEF Connect, ConnectOk, Disconnect, teardown
    <2> QED
        BY <2>1, ZerosAreInts DEF PlacesTyped
<1>2. CASE doStop
    BY <1>2 DEF doStop, PlacesTyped, zeroVars, imageVars
<1>3. CASE doCenter
    <2>1. Head(queue).axis \in Axes
        BY <1>3, HeadOfQueue DEF doCenter
    <2>2. UNCHANGED <<zeroVars, tgt, csp>>
        BY <1>3 DEF doCenter, imageVars
    <2>3. want' = want \/ want' = [want EXCEPT ![Head(queue).axis] = clamp(0, -range, range)]
        BY <1>3 DEF doCenter, setTarget
    <2>4. clamp(0, -range, range) \in Int
        BY ClampIsInt DEF PlacesTyped
    <2>5. want' \in [Axes -> Int]
        BY <2>1, <2>3, <2>4 DEF PlacesTyped
    <2> QED
        BY <2>2, <2>5 DEF PlacesTyped, zeroVars
<1>4. CASE doRange
    <2>1. Head(queue).value \in Int
        BY <1>4, HeadOfQueue DEF doRange
    <2>2. range' = range \/ range' = greater(Head(queue).value, MinRange)
        BY <1>4 DEF doRange
    <2>3. range' \in Nat \ {0}
        BY <2>1, <2>2, WorkerAssumption DEF PlacesTyped, greater
    <2>4. UNCHANGED <<want, origin, tgt, csp>>
        BY <1>4 DEF doRange, imageVars
    <2> QED
        BY <2>3, <2>4 DEF PlacesTyped
<1>5. CASE \/ DrainNothing \/ DrainStop \/ EnableBegin \/ DisableBegin \/ ResetBegin \/ ZeroBegin
           \/ HomeRefused \/ HomeBegin
    <2>1. UNCHANGED <<want, zeroVars, tgt, csp>>
        BY <1>5 DEF DrainNothing, DrainStop, EnableBegin, DisableBegin, ResetBegin, ZeroBegin,
           HomeRefused, HomeBegin, imageVars, queueVars
    <2> QED
        BY <2>1 DEF PlacesTyped, zeroVars
<1> QED
    BY <1>1, <1>2, <1>3, <1>4, <1>5 DEF Drain

LEMMA PlacesClimb ==
    PeersInv /\ TodoInv /\ DrivesTyped /\ SessionTyped /\ PlacesTyped /\ Climb => PlacesTyped'
<1> SUFFICES ASSUME PeersInv, TodoInv, DrivesTyped, SessionTyped, PlacesTyped, Climb
             PROVE  PlacesTyped'
    OBVIOUS
<1>0. job.stage \in Standing => job.todo # <<>>
    BY DEF TodoInv
<1>1. CASE Arm
    <2>1. UNCHANGED <<want, zeroVars, tgt>>
        BY <1>1 DEF Arm, queueVars
    <2>2. csp' = csp \/ csp' = [csp EXCEPT ![axis] = seen.pos[axis]]
        BY <1>1 DEF Arm
    <2>3. axis \in Axes
        BY <1>1, AxisOfJob DEF Arm, ReadyToArm
    <2>4. seen.pos[axis] \in Int
        BY <2>3 DEF DrivesTyped, Mirrors
    <2>5. csp' \in [Axes -> Int]
        BY <2>2, <2>3, <2>4 DEF PlacesTyped
    <2> QED
        BY <2>1, <2>5 DEF PlacesTyped, zeroVars
<1>2. CASE EnableDone \/ DisableDone
    <2>1. UNCHANGED <<zeroVars, csp>>
        BY <1>2 DEF EnableDone, DisableDone, imageVars
    <2>2. hold(Axes) \/ UNCHANGED <<tgt, want>>
        BY <1>2 DEF EnableDone, DisableDone
    <2> QED
        BY <2>1, <2>2, HeldPlaces DEF PlacesTyped, zeroVars
<1>3. CASE Anchor
    <2> DEFINE anc == home_anchor(seen.pos[axis], s.eff[axis])
    <2>1. axis \in Axes
        BY <1>0, <1>3, AxisOfJob DEF Anchor, Standing
    <2>2. /\ origin' = [origin EXCEPT ![axis] = anc.origin]
          /\ tgt' = [tgt EXCEPT ![axis] = anc.tgt]
          /\ want' = [want EXCEPT ![axis] = anc.tgt]
          /\ UNCHANGED <<csp, range>>
        BY <1>3 DEF Anchor, imageVars
    <2>3. seen.pos[axis] \in Int /\ s.eff[axis] \in Int
        BY <2>1 DEF DrivesTyped, Mirrors, SessionTyped
    <2>4. anc.origin \in Int /\ anc.tgt \in Int
        BY <2>3 DEF home_anchor
    <2> HIDE DEF anc
    <2> QED
        BY <2>1, <2>2, <2>4 DEF PlacesTyped
<1>4. CASE \/ Prepare \/ Off \/ OffDone \/ SetMode \/ Climbed \/ Started \/ ArmFails \/ StartDone
           \/ FinishBegin \/ FinishAxis \/ FinishEnd
    <2>1. UNCHANGED <<want, zeroVars, tgt, csp>>
        BY <1>4 DEF Prepare, Off, OffDone, SetMode, Climbed, Started, ArmFails, StartDone,
           FinishBegin, FinishAxis, FinishEnd, imageVars, queueVars
    <2> QED
        BY <2>1 DEF PlacesTyped, zeroVars
<1> QED
    BY <1>1, <1>2, <1>3, <1>4 DEF Climb

\* A pass of the measurement.
LEMMA PlacesSpan == DrivesTyped /\ PlacesTyped /\ SpanPass => {tgt', want', csp'} \subseteq [Axes -> Int]
<1> SUFFICES ASSUME DrivesTyped, PlacesTyped, SpanPass
             PROVE  tgt' \in [Axes -> Int] /\ want' \in [Axes -> Int] /\ csp' \in [Axes -> Int]
    OBVIOUS
<1> DEFINE go(a) == span_advance(tgt[a], disp(a), Step, Lead, span_dir(s.step[a])).tgt
<1>1. ASSUME NEW a \in Axes PROVE disp(a) \in Int /\ go(a) \in Int /\ origin[a] + go(a) \in Int
    <2>1. disp(a) \in Int /\ tgt[a] \in Int /\ origin[a] \in Int
        BY DEF DrivesTyped, PlacesTyped, Mirrors, disp
    <2>2. span_dir(s.step[a]) \in {-1, 1}
        BY DEF span_dir
    <2>3. go(a) \in Int
        BY <2>1, <2>2, AdvanceIsInt
    <2> HIDE DEF go
    <2> QED
        BY <2>1, <2>3
<1> DEFINE failed == {a \in Measured : span_why(a) # "NONE"}
           step1(a) == IF a \in failed THEN "DONE" ELSE span_next(s.step[a], signal(a))
           peers  == {a \in Measured \ failed : failed # {} /\ step1(a) # "DONE"}
           step2  == [a \in Axes |-> IF a \in peers THEN "DONE"
                                     ELSE IF a \in Measured THEN step1(a) ELSE s.step[a]]
           ran    == Measured \ failed
           over   == \A a \in s.smask : step2[a] = "DONE"
           frozen == IF over THEN s.smask ELSE peers
<1>2.    /\ tgt' = [a \in Axes |-> IF a \in frozen THEN disp(a) ELSE IF a \in ran THEN go(a) ELSE tgt[a]]
         /\ want' = [a \in Axes |-> IF a \in frozen \union ran THEN tgt'[a] ELSE want[a]]
         /\ csp' = [a \in Axes |-> IF a \in ran THEN origin[a] + go(a) ELSE csp[a]]
    BY DEF SpanPass
<1> HIDE DEF go, ran, frozen
<1>3. tgt' \in [Axes -> Int]
    BY <1>1, <1>2 DEF PlacesTyped
<1>4. want' \in [Axes -> Int]
    BY <1>2, <1>3 DEF PlacesTyped
<1>5. csp' \in [Axes -> Int]
    BY <1>1, <1>2 DEF PlacesTyped
<1> QED
    BY <1>3, <1>4, <1>5

LEMMA PlacesInterpolated == PlacesTyped /\ interpolate => PlacesTyped'
<1> SUFFICES ASSUME PlacesTyped, interpolate PROVE PlacesTyped'
    OBVIOUS
<1> DEFINE mine == {a \in Axes : conn /\ ready /\ is_enabled(a) /\ a \notin s.mask}
           next(a) == clamp(tgt[a] + clamp(want[a] - tgt[a], -Step, Step), -range, range)
<1>1. /\ tgt' = [a \in Axes |-> IF a \in mine THEN next(a) ELSE tgt[a]]
      /\ csp' = [a \in Axes |-> IF a \in mine THEN origin[a] + next(a) ELSE csp[a]]
      /\ UNCHANGED <<want, zeroVars>>
    BY DEF interpolate, queueVars
<1> HIDE DEF mine
<1>2. ASSUME NEW a \in Axes PROVE next(a) \in Int
    <2>1. want[a] - tgt[a] \in Int /\ tgt[a] \in Int /\ range \in Int /\ Step \in Int
        BY WorkerAssumption DEF PlacesTyped
    <2>2. clamp(want[a] - tgt[a], -Step, Step) \in Int
        BY <2>1, ClampIsInt
    <2> QED
        BY <2>1, <2>2, ClampIsInt
<1> HIDE DEF next
<1> QED
    BY <1>1, <1>2 DEF PlacesTyped, zeroVars

LEMMA PlacesLoop == PeersInv /\ TodoInv /\ DrivesTyped /\ PlacesTyped /\ Loop => PlacesTyped'
<1> SUFFICES ASSUME PeersInv, TodoInv, DrivesTyped, PlacesTyped, Loop PROVE PlacesTyped'
    OBVIOUS
<1>1. CASE Top
    <2>1. CASE quit
        BY <1>1, <2>1, ZerosAreInts DEF Top, teardown, PlacesTyped
    <2>2. CASE ~quit
        BY <1>1, <2>2 DEF Top, PlacesTyped, queueVars, zeroVars, imageVars
    <2> QED
        BY <2>1, <2>2
<1>2. CASE serviceHoming \/ FrameClosed
    <2>1. UNCHANGED <<want, zeroVars, tgt, csp>>
        BY <1>2 DEF serviceHoming, FrameClosed, queueVars, imageVars
    <2> QED
        BY <2>1 DEF PlacesTyped, zeroVars
<1>3. CASE serviceSpan
    <2>1. UNCHANGED zeroVars
        BY <1>3 DEF serviceSpan
    <2>2. CASE SpanPass
        BY <2>1, <2>2, PlacesSpan DEF PlacesTyped, zeroVars
    <2>3. CASE UNCHANGED <<tgt, want, csp>>
        BY <2>1, <2>3 DEF PlacesTyped, zeroVars
    <2> QED
        BY <1>3, <2>2, <2>3 DEF serviceSpan
<1>4. CASE interpolate
    BY <1>4, PlacesInterpolated
<1>5. CASE Frame
    <2>1. csp' = csp /\ seen' \in Mirrors
        BY <1>5, DrivesExchange DEF Frame, Exchange, DrivesTyped
    <2>2. CASE UNCHANGED <<zeroVars, tgt>> /\ publish(want, tgt, asked)
        <3>1. want' = tgt \/ want' = want
            BY <2>2 DEF publish
        <3> QED
            BY <2>1, <2>2, <3>1 DEF PlacesTyped, zeroVars
    <2>3. CASE tryInitOrigin /\ publish(tgt', tgt', {})
        <3>1. origin' \in [Axes -> Int]
            BY <2>1, <2>3 DEF tryInitOrigin, PlacesTyped, Mirrors
        <3>2. tgt' \in [Axes -> Int]
            BY <2>1, <2>3, <3>1 DEF tryInitOrigin, Mirrors
        <3>3. want' = tgt' /\ range' = range
            BY <2>3 DEF tryInitOrigin, publish
        <3> QED
            BY <2>1, <3>1, <3>2, <3>3 DEF PlacesTyped
    <2> QED
        BY <1>5, <2>2, <2>3 DEF Frame
<1>6. CASE Recover
    <2>1. UNCHANGED <<zeroVars, csp>>
        BY <1>6 DEF Recover
    <2>2. (\E S : hold(S)) \/ UNCHANGED <<tgt, want>>
        BY <1>6 DEF Recover
    <2> QED
        BY <2>1, <2>2, HeldPlaces DEF PlacesTyped, zeroVars
<1>7. CASE Zero
    <2> DEFINE a == Head(job.todo)
               d == seen.pos[a] - origin[a]
    <2>1. /\ origin' = [origin EXCEPT ![a] = @ + d]
          /\ tgt' = [tgt EXCEPT ![a] = @ - d]
          /\ want' = [want EXCEPT ![a] = @ - d]
          /\ UNCHANGED <<range, csp>>
        BY <1>7 DEF Zero, imageVars
    <2>2. ASSUME NEW b \in Axes, b = a
          PROVE  origin[b] + d \in Int /\ tgt[b] - d \in Int /\ want[b] - d \in Int
        <3>1. origin[b] \in Int /\ tgt[b] \in Int /\ want[b] \in Int /\ seen.pos[b] \in Int
            BY DEF PlacesTyped, DrivesTyped, Mirrors
        <3> QED
            BY <2>2, <3>1
    <2> HIDE DEF a, d
    <2> QED
        BY <2>1, <2>2 DEF PlacesTyped
<1> QED
    BY <1>1, <1>2, <1>3, <1>4, <1>5, <1>6, <1>7 DEF Loop

LEMMA PlacesKept ==
    PeersInv /\ TodoInv /\ DrivesTyped /\ SessionTyped /\ PlacesTyped /\ [Next]_vars => PlacesTyped'
<1> SUFFICES ASSUME PeersInv, TodoInv, DrivesTyped, SessionTyped, PlacesTyped, [Next]_vars
             PROVE  PlacesTyped'
    OBVIOUS
<1>1. CASE JobFrame
    <2>1. csp' = csp /\ UNCHANGED <<zeroVars, tgt>> /\ (want' = want \/ want' = tgt)
        BY <1>1 DEF JobFrame, Exchange, publish
    <2> QED
        BY <2>1 DEF PlacesTyped, zeroVars
<1>2. CASE UNCHANGED vars
    BY <1>2 DEF vars, PlacesTyped, queueVars, zeroVars, imageVars
<1> QED
    BY <1>1, <1>2, PlacesGui, PlacesDrain, PlacesClimb, PlacesLoop DEF Next

-----------------------------------------------------------------------------
(* The flags, the place of the thread, and the axes of the history         *)

Places == {"top", "drain", "homing", "span", "move", "frame", "job", "zero", "clear", "recover",
           "ended"}

FlagsTyped ==
    /\ at \in Places /\ look \in {"none", "homing", "idle"}
    /\ stop \in BOOLEAN /\ quit \in BOOLEAN /\ conn \in BOOLEAN /\ ready \in BOOLEAN
    /\ kept \in BOOLEAN /\ keep \in BOOLEAN /\ latched \in BOOLEAN /\ maybe_live \in BOOLEAN
    /\ asked \subseteq Axes /\ held \subseteq Axes

\* Every step leads to a place of the thread.
LEMMA PlaceOfThread == at \in Places /\ SessionTyped /\ [Next]_vars => at' \in Places
<1> SUFFICES ASSUME at \in Places, SessionTyped, [Next]_vars PROVE at' \in Places
    OBVIOUS
<1> USE DEF Places
<1>1. CASE Gui \/ Surroundings \/ JobFrame \/ UNCHANGED vars
    BY <1>1 DEF Gui, Post, SetTarget, StopLook, StopAct, requestQuit, Surroundings, Push, Trip,
       JobFrame, vars
<1>2. CASE Drain
    <2>1. at' \in {at, "homing", "job", "zero"}
        BY <1>2 DEF Drain, DrainNothing, DrainStop, Connect, ConnectOk, Disconnect, EnableBegin,
           DisableBegin, ResetBegin, doStop, ZeroBegin, doCenter, doRange, HomeRefused, HomeBegin
    <2> QED
        BY <2>1
<1>3. CASE Climb
    <2>1. CASE FinishEnd
        <3>1. at' = s.back
            BY <2>1 DEF FinishEnd
        <3> QED
            BY <3>1 DEF SessionTyped
    <2>2. CASE ~FinishEnd
        BY <1>3, <2>2 DEF Climb, Prepare, Off, OffDone, SetMode, Arm, Climbed, Started, ArmFails,
           EnableDone, DisableDone, StartDone, FinishBegin, FinishAxis, Anchor
    <2> QED
        BY <2>1, <2>2
<1>4. CASE Loop
    BY <1>4 DEF Loop, Top, serviceHoming, HomePass, serviceSpan, interpolate, Frame, FrameClosed,
       Recover, Zero
<1> QED
    BY <1>1, <1>2, <1>3, <1>4 DEF Next

\* What a flag of the worker becomes is a truth value again.
flags == <<stop, quit, conn, ready, kept, keep, latched, maybe_live, look>>

LEMMA FlagsOfWorker ==
    FlagsTyped /\ [Next]_vars =>
        /\ stop' \in BOOLEAN /\ quit' \in BOOLEAN /\ conn' \in BOOLEAN /\ ready' \in BOOLEAN
        /\ kept' \in BOOLEAN /\ keep' \in BOOLEAN /\ latched' \in BOOLEAN
        /\ maybe_live' \in BOOLEAN /\ look' \in {"none", "homing", "idle"}
<1> SUFFICES ASSUME FlagsTyped, [Next]_vars
             PROVE  /\ stop' \in BOOLEAN /\ quit' \in BOOLEAN /\ conn' \in BOOLEAN
                    /\ ready' \in BOOLEAN /\ kept' \in BOOLEAN /\ keep' \in BOOLEAN
                    /\ latched' \in BOOLEAN /\ maybe_live' \in BOOLEAN
                    /\ look' \in {"none", "homing", "idle"}
    OBVIOUS
<1> USE DEF queueVars, guiVars, zeroVars, busVars
<1>0. CASE UNCHANGED flags
    BY <1>0 DEF flags, FlagsTyped
<1>1. CASE Gui
    <2>1. CASE (\E c \in Commands : Post(c)) \/ SetTarget
        <3>1. UNCHANGED flags
            BY <2>1 DEF Post, SetTarget, flags
        <3> QED
            BY <1>0, <3>1
    <2>2. CASE StopLook
        BY <2>2 DEF StopLook, FlagsTyped
    <2>3. CASE StopAct
        <3>1. UNCHANGED <<quit, conn, ready, kept, keep, latched, maybe_live>> /\ look' = "none"
            BY <2>3 DEF StopAct
        <3>2. stop' = TRUE \/ UNCHANGED stop
            BY <2>3 DEF StopAct
        <3> QED
            BY <3>1, <3>2 DEF FlagsTyped
    <2>4. CASE requestQuit
        BY <2>4 DEF requestQuit, FlagsTyped
    <2> QED
        BY <1>1, <2>1, <2>2, <2>3, <2>4 DEF Gui
<1>2. CASE Drain
    <2>1. CASE Connect \/ ConnectOk \/ Disconnect
        BY <2>1 DEF Connect, ConnectOk, Disconnect, teardown, Take, FlagsTyped
    <2>2. CASE DrainNothing
        <3>1. UNCHANGED flags
            BY <2>2 DEF DrainNothing, flags
        <3> QED
            BY <1>0, <3>1
    <2>3. CASE ~(Connect \/ ConnectOk \/ Disconnect) /\ ~DrainNothing
        <3>1. UNCHANGED <<quit, conn, ready, kept, keep, latched, maybe_live, look>>
            BY <1>2, <2>3 DEF Drain, DrainStop, EnableBegin, DisableBegin, ResetBegin, doStop,
               ZeroBegin, doCenter, doRange, HomeRefused, HomeBegin
        <3>2. stop' = TRUE \/ stop' = FALSE
            BY <1>2, <2>3 DEF Drain, DrainStop, EnableBegin, DisableBegin, ResetBegin, doStop,
               ZeroBegin, doCenter, doRange, HomeRefused, HomeBegin, Take
        <3> QED
            BY <3>1, <3>2 DEF FlagsTyped
    <2> QED
        BY <2>1, <2>2, <2>3
<1>3. CASE Climb
    <2>1. CASE FinishEnd
        BY <2>1 DEF FinishEnd, FlagsTyped
    <2>2. CASE FinishBegin
        BY <2>2 DEF FinishBegin, FlagsTyped
    <2>3. CASE Anchor
        BY <2>3 DEF Anchor, FlagsTyped
    <2>4. CASE ~FinishEnd /\ ~FinishBegin /\ ~Anchor
        <3>1. UNCHANGED flags
            BY <1>3, <2>4 DEF Climb, Prepare, Off, OffDone, SetMode, Arm, Climbed, Started,
               ArmFails, EnableDone, DisableDone, StartDone, FinishAxis, flags
        <3> QED
            BY <1>0, <3>1
    <2> QED
        BY <2>1, <2>2, <2>3, <2>4
<1>4. CASE Loop
    <2>1. CASE Frame
        <3>1. latched' \in BOOLEAN
            BY <2>1 DEF Frame, publish
        <3>2. UNCHANGED <<stop, quit, look, conn, maybe_live, keep>>
            BY <2>1 DEF Frame, tryInitOrigin
        <3>3. ready' \in BOOLEAN /\ kept' \in BOOLEAN
            BY <2>1 DEF Frame, tryInitOrigin, FlagsTyped
        <3> QED
            BY <3>1, <3>2, <3>3 DEF FlagsTyped
    <2>2. CASE serviceHoming \/ interpolate \/ Recover \/ (Top /\ ~quit)
        <3>1. UNCHANGED flags
            BY <2>2 DEF serviceHoming, interpolate, Recover, Top, flags
        <3> QED
            BY <1>0, <3>1
    <2>3. CASE serviceSpan
        <3>1. stop' \in BOOLEAN
            BY <2>3 DEF serviceSpan, SpanPass, FlagsTyped
        <3>2. UNCHANGED <<quit, conn, ready, kept, keep, latched, maybe_live, look>>
            BY <2>3 DEF serviceSpan
        <3> QED
            BY <3>1, <3>2 DEF FlagsTyped
    <2>4. CASE Top /\ quit
        BY <2>4 DEF Top, teardown, FlagsTyped
    <2>5. CASE FrameClosed
        BY <2>5 DEF FrameClosed, FlagsTyped
    <2>6. CASE Zero
        BY <2>6 DEF Zero, FlagsTyped
    <2> QED
        BY <1>4, <2>1, <2>2, <2>3, <2>4, <2>5, <2>6 DEF Loop
<1>5. CASE JobFrame
    <2>1. latched' \in BOOLEAN
        BY <1>5 DEF JobFrame, publish
    <2>2. UNCHANGED <<stop, quit, conn, ready, kept, keep, maybe_live, look>>
        BY <1>5 DEF JobFrame
    <2> QED
        BY <2>1, <2>2 DEF FlagsTyped
<1>6. CASE Surroundings \/ UNCHANGED vars
    <2>1. UNCHANGED flags
        BY <1>6 DEF Surroundings, Push, Trip, vars, flags
    <2> QED
        BY <1>0, <2>1
<1> QED
    BY <1>1, <1>2, <1>3, <1>4, <1>5, <1>6 DEF Next

\* The axes that were asked to go somewhere, and those that are held, are axes.
LEMMA AxesOfHistory ==
    PeersInv /\ TodoInv /\ FlagsTyped /\ [Next]_vars => asked' \subseteq Axes /\ held' \subseteq Axes
<1> SUFFICES ASSUME PeersInv, TodoInv, FlagsTyped, [Next]_vars
             PROVE  asked' \subseteq Axes /\ held' \subseteq Axes
    OBVIOUS
<1> USE DEF FlagsTyped, histVars
<1>1. CASE Gui \/ Surroundings \/ UNCHANGED vars
    BY <1>1 DEF Gui, Post, SetTarget, setTarget, StopLook, StopAct, requestQuit, Surroundings,
       Push, Trip, vars
<1>2. CASE Drain
    <2>1. CASE doCenter
        <3>1. Head(queue).axis \in Axes
            BY <2>1, HeadOfQueue DEF doCenter
        <3> QED
            BY <2>1, <3>1 DEF doCenter, setTarget
    <2>2. CASE ~doCenter
        BY <1>2, <2>2 DEF Drain, DrainNothing, DrainStop, Connect, ConnectOk, Disconnect, teardown,
           EnableBegin, DisableBegin, ResetBegin, doStop, ZeroBegin, doRange, HomeRefused, HomeBegin
    <2> QED
        BY <2>1, <2>2
<1>3. CASE Climb
    <2>1. CASE Anchor
        <3>1. axis \in Axes
            BY <2>1, AxisOfJob DEF Anchor, TodoInv, Standing
        <3> QED
            BY <2>1, <3>1 DEF Anchor
    <2>2. CASE EnableDone \/ DisableDone
        BY <2>2 DEF EnableDone, DisableDone, hold
    <2>3. CASE ~Anchor /\ ~EnableDone /\ ~DisableDone
        BY <1>3, <2>3 DEF Climb, Prepare, Off, OffDone, SetMode, Arm, Climbed, Started, ArmFails,
           StartDone, FinishBegin, FinishAxis, FinishEnd
    <2> QED
        BY <2>1, <2>2, <2>3
<1>4. CASE Loop
    <2>1. CASE Frame
        BY <2>1 DEF Frame, publish
    <2>2. CASE serviceSpan
        BY <2>2 DEF serviceSpan, SpanPass
    <2>3. CASE Top \/ serviceHoming \/ interpolate \/ FrameClosed \/ Recover \/ Zero
        BY <2>3 DEF Top, teardown, serviceHoming, interpolate, FrameClosed, Recover, hold, Zero
    <2> QED
        BY <1>4, <2>1, <2>2, <2>3 DEF Loop
<1>5. CASE JobFrame
    BY <1>5 DEF JobFrame, publish
<1> QED
    BY <1>1, <1>2, <1>3, <1>4, <1>5 DEF Next

LEMMA FlagsKept == PeersInv /\ TodoInv /\ SessionTyped /\ FlagsTyped /\ [Next]_vars => FlagsTyped'
    BY PlaceOfThread, FlagsOfWorker, AxesOfHistory DEF FlagsTyped

\* The inductive invariant of the values.  It adds to TypeOK the values that the
\* typed ones are computed from: the mirror, the offsets, the list of axes a climb
\* has still to visit, and what BatchStopsTogether rests on.
Values ==
    /\ PeersInv /\ TodoInv
    /\ DrivesTyped /\ SessionTyped /\ PlacesTyped /\ FlagsTyped
    /\ gen \in Nat /\ RecoveryGivesUp

LEMMA ValuesBegin == Init => Values
<1> SUFFICES ASSUME Init PROVE Values
    OBVIOUS
<1>1. PeersInv
    BY PeersBegin
<1>2. TodoInv
    BY NoJobTodo DEF Init, TodoInv, Standing
<1>3. DrivesTyped
    <2>1. cw \in [Axes -> ControlWords]
        BY DEF Init, All, ControlWords
    <2>2. seen \in Mirrors
        BY ZerosAreInts DEF Init, Mirrors
    <2>3. bad \in 0 .. ArmFrames
        BY WorkerAssumption DEF Init
    <2>4. hmode = {} /\ on = {} /\ fault = {} /\ out = {} /\ pos \in [Axes -> Pos] /\ fresh = FALSE
        BY DEF Init
    <2> QED
        BY <2>1, <2>2, <2>3, <2>4 DEF DrivesTyped
<1>4. SessionTyped
    BY FreshSessionsTyped DEF Init, SessionTyped
<1>5. PlacesTyped
    BY ZerosAreInts, WorkerAssumption DEF Init, PlacesTyped
<1>6. FlagsTyped
    BY DEF Init, FlagsTyped, Places
<1>7. gen \in Nat /\ RecoveryGivesUp
    BY WorkerAssumption DEF Init, RecoveryGivesUp
<1> QED
    BY <1>1, <1>2, <1>3, <1>4, <1>5, <1>6, <1>7 DEF Values

LEMMA ValuesKept == Values /\ [Next]_vars => Values'
<1> SUFFICES ASSUME Values, [Next]_vars PROVE Values'
    OBVIOUS
<1>0. /\ PeersInv /\ TodoInv /\ DrivesTyped /\ SessionTyped /\ PlacesTyped /\ FlagsTyped
      /\ gen \in Nat /\ RecoveryGivesUp
    BY DEF Values
<1>1. gen' \in Nat
    BY <1>0, StepsOfTheEpoch DEF EpochStep
<1>2. RecoveryGivesUp'
    BY <1>0, TriesAreCounted, WorkerAssumption DEF RecoveryGivesUp
<1> QED
    BY <1>0, <1>1, <1>2, PeersKept, TodoKept, DrivesKept, SessionTypedKept, PlacesKept, FlagsKept
    DEF Values

\* What it says of the values.
LEMMA ValuesAreTyped == Values => TypeOK
<1> SUFFICES ASSUME Values PROVE TypeOK
    OBVIOUS
<1>1. \A i \in DOMAIN queue : queue[i] \in Commands \union {[t |-> "STOP"]}
    BY ElementOfSeq DEF Values, PeersInv, QueueOf
<1>2. {want, tgt, csp, origin} \subseteq [Axes -> Int] /\ pos \in [Axes -> Pos] /\ range \in Nat \ {0}
    BY DEF Values, PlacesTyped, DrivesTyped
<1>3. {stop, quit, conn, ready, kept, keep, latched, fresh, maybe_live} \subseteq BOOLEAN
    BY DEF Values, FlagsTyped, DrivesTyped
<1>4. {hmode, on, fault, out, held, asked} \subseteq SUBSET Axes
    BY DEF Values, FlagsTyped, DrivesTyped
<1>5. /\ look \in {"none", "homing", "idle"} /\ gen \in Nat /\ at \in Places
      /\ cw \in [Axes -> ControlWords]
      /\ s.rc \in [Axes -> StepRcs] /\ s.step \in [Axes -> SpanSteps]
      /\ tries \in 0 .. MaxTries /\ bad \in 0 .. ArmFrames
      /\ job.stage \in Standing => job.todo # <<>>
    BY DEF Values, FlagsTyped, DrivesTyped, PeersInv, SessionOk, SessionTyped, RecoveryGivesUp, TodoInv
<1>6. s.mask # {} => s.homing
    BY DEF Values, PeersInv, SessionOk
<1> QED
    BY <1>1, <1>2, <1>3, <1>4, <1>5, <1>6 DEF TypeOK, Places, ControlWords, SpanSteps, Standing

\* For any number of axes, any positions, commands and surroundings, every value
\* of the worker keeps its type: automatic recovery gives up, a climb that stands
\* at an axis has one, and axes are being homed only while a session is on.
THEOREM WorkerTypeCorrect == Spec => []TypeOK
    BY ValuesBegin, ValuesKept, ValuesAreTyped, PTL DEF Spec

-----------------------------------------------------------------------------
(* Who is to blame                                                         *)

\* From the look that ends a search to the summary of its batch.
Finishing == at = "clear" \/ (at = "job" /\ job.kind = "finish")
Starting == at = "job" /\ job.kind = "start"

\* What the record of a batch that had begun to search says of it: each axis that
\* failed is a culprit, and where one was stopped with a peer there is a failure.
Recorded ==
    /\ \A a \in s.batch : s.rc[a] \in StepFails => a \in s.culprit
    /\ \A a \in s.batch : s.rc[a] = "PEER" => \E b \in s.batch : s.rc[b] \in StepFails

\* Until its end a batch has all of its axes, and a batch that did not begin to
\* search is known by where its finish returns to.
BlameInv ==
    /\ ~Finishing => s.mask = s.batch
    /\ Starting => s.back = "drain"
    /\ Finishing /\ s.back = "span" => Recorded

\* The summary of such a record names an axis that failed by itself.
LEMMA SummaryOfRecord ==
    ASSUME PeersInv, Recorded
    PROVE  home_batch_summary(s.rc, s.batch) \in {-1} \union s.culprit
<1>0. s.batch \subseteq Axes /\ s.rc \in [Axes -> StepRcs]
    BY DEF PeersInv, SessionOk
<1>1. CASE \E a \in s.batch : s.rc[a] \in StepFails
    <2>1. CASE home_batch_summary(s.rc, s.batch) = -1
        BY <2>1
    <2>2. CASE home_batch_summary(s.rc, s.batch) # -1
        <3>1. home_batch_summary(s.rc, s.batch) \in {a \in s.batch : s.rc[a] \in StepFails}
            BY <1>0, <1>1, <2>2, BlamedAxisFailed
        <3> QED
            BY <3>1 DEF Recorded
    <2> QED
        BY <2>1, <2>2
<1>2. CASE ~\E a \in s.batch : s.rc[a] \in StepFails
    <2>1. {a \in s.batch : s.rc[a] \in StepFails} = {} /\ {a \in s.batch : s.rc[a] # "PEER"} = s.batch
        BY <1>2 DEF Recorded
    <2>2. home_batch_blame(s.rc, s.batch) = -1
        BY <2>1 DEF home_batch_blame
    <2> QED
        BY <2>2 DEF home_batch_summary
<1> QED
    BY <1>1, <1>2

\* A look that ends the search writes such a record.
LEMMA LookIsRecorded ==
    ASSUME PeersInv, BlameInv, serviceHoming
    PROVE  BlameInv'
<1>0. /\ DOMAIN s = SFields /\ s.mask \subseteq Axes /\ at = "homing" /\ job' = job
      /\ s.mask = s.batch /\ \A a \in s.mask : s.rc[a] \in {"RUNNING", "ATTAINED"}
    BY DEF PeersInv, SessionOk, BlameInv, Finishing, serviceHoming
<1>1. CASE at' = "span" /\ UNCHANGED s
    BY <1>0, <1>1 DEF BlameInv, Finishing, Starting
<1>2. CASE ~(at' = "span" /\ UNCHANGED s)
    <2>1. PICK rc \in [Axes -> StepRcs] :
             /\ \A a \in Axes : rc[a] \in IF a \in s.mask /\ s.rc[a] = "RUNNING"
                                          THEN home_step(a) ELSE {s.rc[a]}
             /\ HomePass(rc)
        BY <1>2 DEF serviceHoming
    <2> DEFINE failed == \E a \in s.mask : s.rc[a] = "RUNNING" /\ rc[a] \in StepFails
               rc1 == [a \in Axes |-> IF a \in s.mask /\ rc[a] = "RUNNING" /\ failed
                                      THEN "PEER" ELSE rc[a]]
    <2>2. \A a \in s.mask : rc[a] # "PEER"
        <3>1. \A a \in Axes : "PEER" \notin home_step(a)
            BY DEF home_step
        <3> QED
            BY <1>0, <2>1, <3>1
    <2>3. /\ s'.rc = rc1 /\ s'.culprit = s.culprit \union {a \in s.mask : rc[a] \in StepFails}
          /\ s'.mask = s.mask /\ s'.batch = s.batch /\ s'.back = s.back
          /\ at' \in {"span", "clear"}
        BY <1>0, <2>1 DEF HomePass, SFields
    <2>4. Recorded'
        <3>1. ASSUME NEW a \in s.batch, rc1[a] \in StepFails PROVE a \in s'.culprit
            <4>1. rc[a] \in StepFails
                BY <1>0, <3>1 DEF StepFails
            <4> QED
                BY <1>0, <2>3, <4>1
        <3>2. ASSUME NEW a \in s.batch, rc1[a] = "PEER" PROVE \E b \in s.batch : rc1[b] \in StepFails
            <4>1. PICK b \in s.mask : rc[b] \in StepFails
                BY <1>0, <2>2, <3>2
            <4>2. rc1[b] = rc[b]
                BY <1>0, <4>1 DEF StepFails
            <4> QED
                BY <1>0, <4>1, <4>2
        <3> QED
            BY <2>3, <3>1, <3>2 DEF Recorded
    <2> QED
        BY <1>0, <2>3, <2>4 DEF BlameInv, Finishing, Starting
<1> QED
    BY <1>1, <1>2

\* Where no finish and no start is under way, only the mask matters.
LEMMA BlameElsewhere ==
    ASSUME s'.mask = s'.batch, ~Finishing', ~Starting'
    PROVE  BlameInv'
    BY DEF BlameInv

LEMMA BlameOfNobody ==
    /\ s' = NoSession \/ s' = Idle => s'.mask = s'.batch
    BY NoSessionOk, IdleOk

LEMMA BlameDrain == PeersInv /\ BlameInv /\ Drain => BlameInv'
<1> SUFFICES ASSUME PeersInv, BlameInv, Drain PROVE BlameInv'
    OBVIOUS
<1>0. DOMAIN s = SFields /\ at = "drain" /\ s.mask = s.batch
    BY DEF PeersInv, SessionOk, BlameInv, Finishing, Drain, DrainNothing, DrainStop, Connect, ConnectOk,
       Disconnect, EnableBegin, DisableBegin, ResetBegin, doStop, ZeroBegin, doCenter, doRange,
       HomeRefused, HomeBegin, Take
<1>1. CASE HomeBegin
    <2>1. s'.mask = Head(queue).mask /\ s'.batch = Head(queue).mask /\ s'.back = "drain"
        BY <1>1, IdleOk DEF HomeBegin, SFields
    <2>2. at' = "job" /\ job'.kind = "start"
        BY <1>1 DEF HomeBegin, Ladder
    <2> QED
        BY <2>1, <2>2 DEF BlameInv, Finishing, Starting
<1>2. CASE Connect \/ ConnectOk \/ Disconnect
    <2>1. s' = NoSession /\ at' = at
        BY <1>2 DEF Connect, ConnectOk, Disconnect, teardown
    <2> QED
        BY <1>0, <2>1, NoSessionOk, BlameElsewhere DEF Finishing, Starting
<1>3. CASE EnableBegin \/ DisableBegin \/ ResetBegin \/ ZeroBegin
    <2>1. s' = s
        BY <1>3 DEF EnableBegin, DisableBegin, ResetBegin, ZeroBegin
    <2>2. at' = at \/ at' = "zero" \/ (at' = "job" /\ job'.kind \in {"enable", "disable", "reset"})
        <3>1. CASE EnableBegin
            BY <3>1 DEF EnableBegin, Ladder
        <3>2. CASE DisableBegin
            BY <3>2 DEF DisableBegin, Ladder
        <3>3. CASE ResetBegin
            <4>1. at' = at \/ (at' = "job" /\ \E S : Ladder("reset", "off", S))
                BY <3>3 DEF ResetBegin
            <4> QED
                BY <4>1 DEF Ladder
        <3>4. CASE ZeroBegin
            BY <3>4 DEF ZeroBegin
        <3> QED
            BY <1>3, <3>1, <3>2, <3>3, <3>4
    <2> QED
        BY <1>0, <2>1, <2>2, BlameElsewhere DEF Finishing, Starting
<1>4. CASE DrainNothing \/ DrainStop \/ doStop \/ doCenter \/ doRange \/ HomeRefused
    <2>1. s' = s \/ \E b : s' = [s EXCEPT !.pending = b]
        BY <1>4 DEF DrainNothing, DrainStop, doStop, doCenter, doRange, HomeRefused
    <2>2. s'.mask = s.mask /\ s'.batch = s.batch
        BY <1>0, <2>1 DEF SFields
    <2>3. at' \in {"drain", "homing"}
        BY <1>0, <1>4 DEF DrainNothing, DrainStop, doStop, doCenter, doRange, HomeRefused
    <2> QED
        BY <1>0, <2>2, <2>3, BlameElsewhere DEF Finishing, Starting
<1> QED
    BY <1>1, <1>2, <1>3, <1>4 DEF Drain

\* A step of a climb that goes on keeps what is known of its batch.
LEMMA BlameClimbing ==
    ASSUME BlameInv, at = "job", at' = "job", job'.kind = job.kind,
           UNCHANGED <<s.batch, s.rc, s.culprit, s.back>>, job.kind = "finish" \/ s' = s
    PROVE  BlameInv'
    BY DEF BlameInv, Finishing, Starting, Recorded

LEMMA BlameClimb == PeersInv /\ SessionTyped /\ BlameInv /\ Climb => BlameInv'
<1> SUFFICES ASSUME PeersInv, SessionTyped, BlameInv, Climb PROVE BlameInv'
    OBVIOUS
<1>0. DOMAIN s = SFields /\ DOMAIN job = JobFields
    BY DEF PeersInv, SessionOk, JobOk
<1>1. CASE Starting /\ at' = "clear" /\ \E r, c : s' = [s EXCEPT !.rc = r, !.culprit = c]
    <2>1. s'.back = "drain"
        BY <1>0, <1>1 DEF BlameInv, SFields
    <2> QED
        BY <1>1, <2>1 DEF BlameInv, Finishing, Starting
<1>2. CASE Prepare
    <2>1. CASE UNCHANGED <<s, at>> /\ Ladder("start", "arm", s.mask)
        <3>1. job'.kind = job.kind /\ at = "job"
            BY <1>2, <2>1 DEF Prepare, Ladder
        <3> QED
            BY <2>1, <3>1, BlameClimbing
    <2>2. CASE at' = "clear"
        BY <1>1, <1>2, <2>2 DEF Prepare, Starting
    <2> QED
        BY <1>2, <2>1, <2>2 DEF Prepare
<1>3. CASE SetMode
    <2>1. CASE UNCHANGED <<s, at>>
        <3>1. job'.kind = job.kind
            BY <1>0, <1>3, <2>1 DEF SetMode, JobFields
        <3> QED
            BY <1>3, <2>1, <3>1, BlameClimbing DEF SetMode
    <2>2. CASE at' = "clear" /\ job.kind = "start"
        BY <1>1, <1>3, <2>2 DEF SetMode, Starting
    <2> QED
        BY <1>3, <2>1, <2>2 DEF SetMode
<1>4. CASE ArmFails
    <2>0. at = "job"
        BY <1>4 DEF ArmFails, ReadyToArm
    <2>1. CASE job.kind = "finish" /\ job' = [job EXCEPT !.stage = "end"] /\ UNCHANGED <<at, s>>
        <3>1. job'.kind = job.kind
            BY <1>0, <2>1 DEF JobFields
        <3> QED
            BY <2>0, <2>1, <3>1, BlameClimbing
    <2>2. CASE job.kind = "enable" /\ UNCHANGED <<at, s>> /\ \E S : Ladder("rollback", "off", S)
        <3>1. job'.kind = "rollback"
            BY <2>2 DEF Ladder
        <3> QED
            BY <2>0, <2>2, <3>1, BlameElsewhere DEF BlameInv, Finishing, Starting
    <2>3. CASE job.kind = "start" /\ at' = "clear"
        <3>1. \E r, c : s' = [s EXCEPT !.rc = r, !.culprit = c]
            BY <1>4, <2>3 DEF ArmFails
        <3> QED
            BY <1>1, <2>0, <2>3, <3>1 DEF Starting
    <2> QED
        BY <1>4, <2>1, <2>2, <2>3 DEF ArmFails
<1>5. CASE Off \/ OffDone \/ Arm \/ Climbed \/ Started \/ FinishAxis
    <2>1. at = "job" /\ at' = at /\ s' = s
        BY <1>5 DEF Off, OffDone, Arm, ReadyToArm, Climbed, Started, FinishAxis
    <2>2. CASE Off \/ Arm
        <3>1. job'.kind = job.kind
            BY <1>0, <2>2 DEF Off, Arm, JobFields
        <3> QED
            BY <2>1, <3>1, BlameClimbing
    <2>3. CASE OffDone
        <3>1. job'.kind = job.kind
            BY <1>0, <2>3 DEF OffDone, nextAxis, JobFields
        <3> QED
            BY <2>1, <3>1, BlameClimbing
    <2>4. CASE Climbed
        <3>1. job.kind \in {"enable", "start", "finish"}
            BY <2>4 DEF Climbed, PeersInv, JobOk
        <3>2. job'.kind = job.kind
            BY <1>0, <2>4, <3>1 DEF Climbed, nextAxis, JobFields
        <3> QED
            BY <2>1, <3>2, BlameClimbing
    <2>5. CASE Started \/ FinishAxis
        <3>1. job'.kind = job.kind
            BY <1>0, <2>5 DEF Started, FinishAxis, nextAxis, JobFields
        <3> QED
            BY <2>1, <3>1, BlameClimbing
    <2> QED
        BY <1>5, <2>2, <2>3, <2>4, <2>5
<1>6. CASE EnableDone \/ DisableDone \/ StartDone
    <2>1. /\ at = "job" /\ job.kind # "finish" /\ at' = "drain"
          /\ s' = s \/ s' = [s EXCEPT !.back = "span"]
        BY <1>6 DEF EnableDone, DisableDone, StartDone, JobOver
    <2>2. s'.mask = s.mask /\ s'.batch = s.batch
        BY <1>0, <2>1 DEF SFields
    <2> QED
        BY <2>1, <2>2, BlameElsewhere DEF BlameInv, Finishing, Starting
<1>7. CASE FinishBegin
    <2>1. at = "clear" /\ at' = "job" /\ job'.kind = "finish" /\ s' = [s EXCEPT !.ends = <<>>]
        BY <1>7 DEF FinishBegin, Ladder
    <2>2. UNCHANGED <<s.batch, s.rc, s.culprit, s.back>>
        BY <1>0, <2>1 DEF SFields
    <2> QED
        BY <2>1, <2>2 DEF BlameInv, Finishing, Starting, Recorded
<1>8. CASE Anchor
    <2>1. PICK m, e : s' = [s EXCEPT !.mask = m, !.ends = e]
        BY <1>8 DEF Anchor
    <2>2. UNCHANGED <<s.batch, s.rc, s.culprit, s.back>>
        BY <1>0, <2>1 DEF SFields
    <2>3. job'.kind = job.kind /\ at = "job" /\ at' = "job" /\ job.kind = "finish"
        BY <1>0, <1>8 DEF Anchor, nextAxis, JobFields
    <2> QED
        BY <2>2, <2>3, BlameClimbing
<1>9. CASE FinishEnd
    <2>1. s' = Idle \/ s' = beginSpan(s.batch)
        BY <1>9 DEF FinishEnd
    <2>2. job'.kind = "none"
        BY <1>9, NoJobOk DEF FinishEnd
    <2>3. s'.mask = s'.batch
        <3>1. CASE s' = Idle
            BY <3>1, IdleOk
        <3>2. CASE s' = beginSpan(s.batch)
            BY <1>0, <3>2 DEF beginSpan, SFields
        <3> QED
            BY <2>1, <3>1, <3>2
    <2>4. at' \in {"drain", "span"}
        BY <1>9 DEF FinishEnd, SessionTyped
    <2> QED
        BY <2>2, <2>3, <2>4, BlameElsewhere DEF Finishing, Starting
<1> QED
    BY <1>2, <1>3, <1>4, <1>5, <1>6, <1>7, <1>8, <1>9 DEF Climb

LEMMA BlameLoop == PeersInv /\ BlameInv /\ Loop => BlameInv'
<1> SUFFICES ASSUME PeersInv, BlameInv, Loop PROVE BlameInv'
    OBVIOUS
<1>0. DOMAIN s = SFields
    BY DEF PeersInv, SessionOk
<1>1. CASE serviceHoming
    BY <1>1, LookIsRecorded
<1>2. CASE ~serviceHoming
    <2>1. at' \in {"top", "drain", "move", "frame", "recover", "ended"} /\ at \notin {"job", "clear"}
        BY <1>2 DEF Loop, Top, serviceSpan, interpolate, Frame, FrameClosed, Recover, Zero
    <2>2. s' = s \/ s' = NoSession \/ (s.spanning /\ SpanPass)
        BY <1>2 DEF Loop, Top, teardown, serviceSpan, interpolate, Frame, FrameClosed, Recover, Zero
    <2>3. CASE s.spanning /\ SpanPass
        <3>1. \/ \E p, w, x : s' = [Idle EXCEPT !.pending = p, !.why = w, !.width = x]
              \/ \E t, st, w, u, p, x : s' = [s EXCEPT !.timer = t, !.step = st, !.why = w, !.stuck = u,
                                                      !.p1 = p, !.width = x]
            BY <2>3 DEF SpanPass
        <3>2. \/ s'.mask = Idle.mask /\ s'.batch = Idle.batch
              \/ s'.mask = s.mask /\ s'.batch = s.batch
            BY <1>0, <3>1, IdleOk DEF SFields
        <3> QED
            BY <2>1, <3>2, IdleOk, BlameElsewhere DEF BlameInv, Finishing, Starting
    <2>4. CASE s' = s \/ s' = NoSession
        BY <2>1, <2>4, NoSessionOk, BlameElsewhere DEF BlameInv, Finishing, Starting
    <2> QED
        BY <2>2, <2>3, <2>4
<1> QED
    BY <1>1, <1>2

LEMMA BlameKept == PeersInv /\ SessionTyped /\ BlameInv /\ [Next]_vars => BlameInv'
<1> SUFFICES ASSUME PeersInv, SessionTyped, BlameInv, [Next]_vars PROVE BlameInv'
    OBVIOUS
<1>1. CASE Gui \/ Surroundings \/ JobFrame \/ UNCHANGED vars
    <2>1. UNCHANGED <<at, job, s>>
        BY <1>1 DEF Gui, Post, SetTarget, StopLook, StopAct, requestQuit, Surroundings, Push,
           Trip, JobFrame, vars
    <2> QED
        BY <2>1 DEF BlameInv, Finishing, Starting, Recorded
<1> QED
    BY <1>1, BlameDrain, BlameClimb, BlameLoop DEF Next

\* BlameNamesCulprit as a formula of one step.
BlameNow ==
    at = "job" /\ job.kind = "finish" /\ at' # "job" /\ s.back = "span" =>
        home_batch_summary(s.rc, s.batch) \in {-1} \union s.culprit

\* The summary of a batch that had begun to search tells the operator to look at
\* an axis that failed by itself, never at one that was stopped with it, however
\* many axes the batch has (home_batch_blame over what serviceHoming recorded).
THEOREM SummaryBlamesAFailure == Spec => BlameNamesCulprit
<1>1. Init => Values /\ BlameInv
    <2>1. Init => s = NoSession /\ at = "top"
        BY DEF Init
    <2> QED
        BY <2>1, ValuesBegin, NoSessionOk DEF BlameInv, Finishing, Starting
<1>2. Values => PeersInv /\ SessionTyped
    BY DEF Values
<1>3. Values /\ BlameInv /\ [Next]_vars => Values' /\ BlameInv'
    BY <1>2, ValuesKept, BlameKept
<1>4. Values /\ BlameInv /\ [Next]_vars => BlameNow
    BY <1>2, SummaryOfRecord DEF BlameNow, BlameInv, Finishing
<1> QED
    BY <1>1, <1>3, <1>4, PTL DEF Spec, BlameNamesCulprit, BlameNow

-----------------------------------------------------------------------------
(* Where a session can be                                                  *)

\* A batch is started and finished within its session and before its measurement,
\* the bus is mended between sessions, and only a start waits for a search.
Where ==
    /\ Finishing \/ Starting => s.homing /\ ~s.spanning
    /\ at = "recover" => ~s.homing
    /\ job.stage = "go" => job.kind = "start"

\* What a step of a climb does to its session: it goes on along its axes, or ends.
ClimbMoves ==
    \/ /\ at = "job" /\ at' = "job" /\ s' = s /\ job'.kind = job.kind
       /\ job'.stage = "go" => job.kind = "start"
       /\ \/ job'.todo = job.todo
          \/ job.kind # "finish" /\ job.todo # <<>> /\ job'.todo = Tail(job.todo)
          \/ job.kind = "start" /\ Ladder("start", "arm", s.mask)
    \/ /\ at = "job" /\ at' = "job" /\ s' = s /\ job.kind = "enable"
       /\ job'.kind = "rollback" /\ job'.stage = "off"
    \/ /\ Starting /\ at' \in {"clear", "drain"} /\ job' = NoJob
       /\ UNCHANGED <<s.homing, s.mask, s.spanning>>
    \/ at = "job" /\ job.kind \notin {"start", "finish"} /\ at' = "drain" /\ job' = NoJob /\ s' = s
    \/ FinishBegin \/ Anchor \/ FinishEnd

LEMMA MovesOfClimb ==
    ASSUME PeersInv, TodoInv, Where, Climb
    PROVE  ClimbMoves
<1>0. DOMAIN s = SFields /\ DOMAIN job = JobFields
    BY DEF PeersInv, SessionOk, JobOk
<1>1. CASE Starting /\ at' = "clear" /\ job' = NoJob /\ \E r, c : s' = [s EXCEPT !.rc = r, !.culprit = c]
    <2>1. UNCHANGED <<s.homing, s.mask, s.spanning>>
        BY <1>0, <1>1 DEF SFields
    <2> QED
        BY <1>1, <2>1 DEF ClimbMoves
<1>2. CASE Prepare
    <2>1. CASE UNCHANGED <<s, at>> /\ Ladder("start", "arm", s.mask)
        <3>1. job'.kind = job.kind /\ at = "job" /\ job.kind = "start"
            BY <1>2, <2>1 DEF Prepare, Ladder
        <3> QED
            BY <2>1, <3>1 DEF ClimbMoves
    <2>2. CASE at' = "clear"
        BY <1>1, <1>2, <2>2 DEF Prepare, Starting
    <2> QED
        BY <1>2, <2>1, <2>2 DEF Prepare
<1>3. CASE SetMode
    <2>1. CASE UNCHANGED <<s, at>>
        <3>1. at = "job" /\ at' = "job" /\ s' = s
            BY <1>3, <2>1 DEF SetMode
        <3>2. job'.kind = job.kind /\ job'.todo = job.todo /\ job'.stage \in {"arm", "end"}
            BY <1>0, <1>3, <2>1 DEF SetMode, JobFields
        <3> QED
            BY <3>1, <3>2 DEF ClimbMoves
    <2>2. CASE at' = "clear" /\ job.kind = "start"
        BY <1>1, <1>3, <2>2 DEF SetMode, Starting
    <2> QED
        BY <1>3, <2>1, <2>2 DEF SetMode
<1>4. CASE ArmFails
    <2>0. at = "job"
        BY <1>4 DEF ArmFails, ReadyToArm
    <2>1. CASE job.kind = "finish" /\ job' = [job EXCEPT !.stage = "end"] /\ UNCHANGED <<at, s>>
        <3>1. job'.kind = job.kind /\ job'.todo = job.todo /\ job'.stage = "end"
            BY <1>0, <2>1 DEF JobFields
        <3> QED
            BY <2>0, <2>1, <3>1 DEF ClimbMoves
    <2>2. CASE job.kind = "enable" /\ UNCHANGED <<at, s>> /\ \E S : Ladder("rollback", "off", S)
        <3>1. job'.kind = "rollback" /\ job'.stage = "off"
            BY <2>2 DEF Ladder
        <3> QED
            BY <2>0, <2>2, <3>1 DEF ClimbMoves
    <2>3. CASE job.kind = "start" /\ at' = "clear" /\ job' = NoJob
        <3>1. \E r, c : s' = [s EXCEPT !.rc = r, !.culprit = c]
            BY <1>4, <2>3 DEF ArmFails
        <3> QED
            BY <1>1, <2>0, <2>3, <3>1 DEF Starting
    <2> QED
        BY <1>4, <2>1, <2>2, <2>3 DEF ArmFails
<1>5. CASE Off \/ OffDone \/ Arm \/ Climbed \/ Started \/ FinishAxis
    <2>1. at = "job" /\ at' = "job" /\ s' = s
        BY <1>5 DEF Off, OffDone, Arm, ReadyToArm, Climbed, Started, FinishAxis
    <2>2. CASE /\ job'.kind = job.kind
               /\ job'.stage = "go" => job.kind = "start"
               /\ job'.todo = job.todo \/ (job.kind # "finish" /\ job.todo # <<>> /\ job'.todo = Tail(job.todo))
        BY <2>1, <2>2 DEF ClimbMoves
    <2>3. CASE \E st \in {"offwait", "climb", "mode", "end"} : job' = [job EXCEPT !.stage = st]
        BY <1>0, <2>2, <2>3 DEF JobFields
    <2>4. CASE \E st \in {"off", "arm"} : job' = [nextAxis EXCEPT !.stage = st] /\ job.kind # "finish" /\ job.todo # <<>>
        BY <1>0, <2>2, <2>4 DEF nextAxis, JobFields
    <2>5. CASE Off \/ Arm
        BY <2>3, <2>5 DEF Off, Arm
    <2>6. CASE OffDone
        <3>1. job.todo # <<>>
            BY <2>6 DEF OffDone, TodoInv, Standing
        <3> QED
            BY <2>3, <2>4, <2>6, <3>1 DEF OffDone
    <2>7. CASE Climbed
        <3>1. job.kind \in {"enable", "start", "finish"} /\ job.todo # <<>>
            BY <2>7 DEF Climbed, PeersInv, JobOk, TodoInv, Standing
        <3>2. CASE job.kind = "start"
            BY <1>0, <2>2, <2>7, <3>2 DEF Climbed, JobFields
        <3> QED
            BY <2>3, <2>4, <2>7, <3>1, <3>2 DEF Climbed
    <2>8. CASE Started
        <3>1. job.kind = "start" /\ job.todo # <<>>
            BY <2>8 DEF Started, Where, TodoInv, Standing
        <3> QED
            BY <2>4, <2>8, <3>1 DEF Started
    <2>9. CASE FinishAxis
        <3>1. \E st \in {"off", "mode"} : job' = [job EXCEPT !.stage = st, !.mode_ok = TRUE]
            BY <2>9 DEF FinishAxis
        <3> QED
            BY <1>0, <2>2, <3>1 DEF JobFields
    <2> QED
        BY <1>5, <2>5, <2>6, <2>7, <2>8, <2>9
<1>6. CASE EnableDone \/ DisableDone
    BY <1>6 DEF EnableDone, DisableDone, JobOver, ClimbMoves
<1>7. CASE StartDone
    <2>1. s' = [s EXCEPT !.back = "span"] /\ Starting /\ at' = "drain" /\ job' = NoJob
        BY <1>7 DEF StartDone, JobOver, Starting
    <2>2. UNCHANGED <<s.homing, s.mask, s.spanning>>
        BY <1>0, <2>1 DEF SFields
    <2> QED
        BY <2>1, <2>2 DEF ClimbMoves
<1>8. CASE FinishBegin \/ Anchor \/ FinishEnd
    BY <1>8 DEF ClimbMoves
<1> QED
    BY <1>2, <1>3, <1>4, <1>5, <1>6, <1>7, <1>8 DEF Climb

\* A step of a finish keeps the session on and before its measurement; its last
\* one leaves it, or begins the measurement.
LEMMA FinishMoves ==
    ASSUME PeersInv, FinishBegin \/ Anchor \/ FinishEnd
    PROVE  /\ Finishing
           /\ FinishBegin \/ Anchor => /\ at' = "job" /\ job'.kind = "finish" /\ job'.stage = "begin"
                                       /\ UNCHANGED <<s.homing, s.spanning>>
           /\ FinishBegin => s'.mask = s.mask
           /\ Anchor => s'.mask = s.mask \ {axis} /\ job'.todo = Tail(job.todo)
           /\ FinishEnd => /\ job' = NoJob /\ job.todo = <<>>
                           /\ ~s'.homing \/ (s'.homing /\ s'.spanning)
<1>0. DOMAIN s = SFields /\ DOMAIN job = JobFields
    BY DEF PeersInv, SessionOk, JobOk
<1>1. CASE FinishBegin
    <2>1. at = "clear" /\ at' = "job" /\ Ladder("finish", "begin", s.mask) /\ s' = [s EXCEPT !.ends = <<>>]
        BY <1>1 DEF FinishBegin
    <2>2. job'.kind = "finish" /\ job'.stage = "begin"
        BY <2>1 DEF Ladder
    <2>3. UNCHANGED <<s.homing, s.spanning, s.mask>>
        BY <1>0, <2>1 DEF SFields
    <2> QED
        BY <2>1, <2>2, <2>3 DEF Finishing, Anchor, FinishEnd, JobOver
<1>2. CASE Anchor
    <2>1. PICK e : s' = [s EXCEPT !.mask = @ \ {axis}, !.ends = e]
        BY <1>2 DEF Anchor
    <2>2. UNCHANGED <<s.homing, s.spanning>> /\ s'.mask = s.mask \ {axis}
        BY <1>0, <2>1 DEF SFields
    <2>3. /\ at = "job" /\ at' = "job" /\ job.kind = "finish" /\ job' = [nextAxis EXCEPT !.stage = "begin"]
          /\ job.stage = "end"
        BY <1>2 DEF Anchor
    <2>4. job'.kind = "finish" /\ job'.stage = "begin" /\ job'.todo = Tail(job.todo)
        BY <1>0, <2>3 DEF nextAxis, JobFields
    <2>5. ~FinishBegin
        BY <2>3 DEF FinishBegin
    <2>6. ~FinishEnd
        <3>1. job' # NoJob
            BY <2>4, NoJobOk
        <3> QED
            BY <3>1 DEF FinishEnd
    <2> QED
        BY <2>2, <2>3, <2>4, <2>5, <2>6, <1>2 DEF Finishing
<1>3. CASE FinishEnd
    <2>1. at = "job" /\ job.kind = "finish" /\ job.todo = <<>> /\ job' = NoJob
        BY <1>3 DEF FinishEnd, JobOver
    <2>2. s' = Idle \/ s' = beginSpan(s.batch)
        BY <1>3 DEF FinishEnd
    <2>3. ~s'.homing \/ (s'.homing /\ s'.spanning)
        <3>1. CASE s' = Idle
            BY <3>1, IdleOk
        <3>2. CASE s' = beginSpan(s.batch)
            <4>1. s'.homing = TRUE /\ s'.spanning = TRUE
                BY <1>0, <3>2 DEF beginSpan, SFields
            <4> QED
                BY <4>1
        <3> QED
            BY <2>2, <3>1, <3>2
    <2>4. ~FinishBegin
        BY <2>1 DEF FinishBegin
    <2>5. ~Anchor
        <3>1. Anchor => job' = [nextAxis EXCEPT !.stage = "begin"]
            BY DEF Anchor
        <3>2. Anchor => job'.stage = "begin"
            BY <1>0, <3>1 DEF nextAxis, JobFields
        <3> QED
            BY <2>1, <3>2, NoJobOk
    <2> QED
        BY <1>3, <2>1, <2>3, <2>4, <2>5 DEF Finishing
<1> QED
    BY <1>1, <1>2, <1>3

\* A command that is taken begins a session, ends one, or leaves it alone.
LEMMA DrainMoves ==
    ASSUME PeersInv, Drain
    PROVE  /\ at = "drain"
           /\ \/ HomeBegin /\ Starting' /\ s'.homing /\ ~s'.spanning /\ s'.mask = Head(queue).mask
              \/ ~s.homing /\ s' = NoSession /\ at' = "drain" /\ job' = job
              \/ /\ at' \in {"drain", "homing"} /\ job' = job
                 /\ UNCHANGED <<s.homing, s.mask, s.spanning>>
              \/ ~s.homing /\ s' = s /\ at' = "zero" /\ job'.stage = "shift"
              \/ /\ ~s.homing /\ s' = s /\ at' = "job" /\ job'.stage \in {"arm", "off"}
                 /\ job'.kind \in {"enable", "disable", "reset"}
<1>0. DOMAIN s = SFields /\ at = "drain"
    BY DEF PeersInv, SessionOk, Drain, DrainNothing, DrainStop, Connect, ConnectOk,
       Disconnect, EnableBegin, DisableBegin, ResetBegin, doStop, ZeroBegin, doCenter, doRange,
       HomeRefused, HomeBegin, Take
<1>1. CASE HomeBegin
    <2>1. s'.homing = TRUE /\ s'.mask = Head(queue).mask /\ s'.spanning = Idle.spanning
        BY <1>1, IdleOk DEF HomeBegin, SFields
    <2>2. Idle.spanning = FALSE
        <3>1. Idle.spanning = NoSession.spanning
            BY NoSessionOk DEF Idle, SFields
        <3> QED
            BY <3>1 DEF NoSession
    <2>3. at' = "job" /\ job'.kind = "start"
        BY <1>1 DEF HomeBegin, Ladder
    <2> QED
        BY <1>0, <1>1, <2>1, <2>2, <2>3 DEF Starting
<1>2. CASE Connect \/ ConnectOk \/ Disconnect
    BY <1>0, <1>2 DEF Connect, ConnectOk, Disconnect, teardown, Take
<1>3. CASE EnableBegin \/ DisableBegin \/ ResetBegin \/ ZeroBegin
    <2>1. s' = s /\ ~s.homing
        BY <1>3 DEF EnableBegin, DisableBegin, ResetBegin, ZeroBegin, Take
    <2>2. \/ UNCHANGED <<at, job>>
          \/ at' = "job" /\ \E kind \in {"enable", "disable", "reset"}, stage \in {"arm", "off"} : \E S :
                Ladder(kind, stage, S)
          \/ at' = "zero" /\ \E S : Ladder("zero", "shift", S)
        <3>1. CASE EnableBegin
            BY <3>1 DEF EnableBegin
        <3>2. CASE DisableBegin
            BY <3>2 DEF DisableBegin
        <3>3. CASE ResetBegin
            BY <3>3 DEF ResetBegin
        <3>4. CASE ZeroBegin
            BY <3>4 DEF ZeroBegin
        <3> QED
            BY <1>3, <3>1, <3>2, <3>3, <3>4
    <2>3. \/ UNCHANGED <<at, job>>
          \/ at' = "job" /\ job'.kind \in {"enable", "disable", "reset"} /\ job'.stage \in {"arm", "off"}
          \/ at' = "zero" /\ job'.stage = "shift"
        BY <2>2 DEF Ladder
    <2> QED
        BY <1>0, <2>1, <2>3
<1>4. CASE DrainNothing \/ DrainStop \/ doStop \/ doCenter \/ doRange \/ HomeRefused
    <2>1. s' = s \/ \E b : s' = [s EXCEPT !.pending = b]
        BY <1>4 DEF DrainNothing, DrainStop, doStop, doCenter, doRange, HomeRefused
    <2>2. UNCHANGED <<s.homing, s.mask, s.spanning>>
        BY <1>0, <2>1 DEF SFields
    <2>3. at' \in {"drain", "homing"} /\ job' = job
        BY <1>0, <1>4 DEF DrainNothing, DrainStop, doStop, doCenter, doRange, HomeRefused
    <2> QED
        BY <1>0, <2>2, <2>3
<1> QED
    BY <1>1, <1>2, <1>3, <1>4 DEF Drain

\* A pass of the loop leaves the session alone but for its end; only a look at
\* searching axes leads to a finish.
LEMMA LoopMoves ==
    ASSUME PeersInv, Loop
    PROVE  /\ ~Finishing /\ ~Starting /\ ~Starting' /\ at' # "job"
           /\ job' = job \/ job' = NoJob
           /\ Finishing' => serviceHoming /\ s.homing /\ ~s.spanning
           /\ at' = "recover" => ~s.homing /\ s' = s
           /\ \/ UNCHANGED <<s.homing, s.mask, s.spanning>>
              \/ ~s'.homing /\ s.spanning
              \/ s' = NoSession /\ at' = "ended" /\ on' = {}
<1>0. DOMAIN s = SFields
    BY DEF PeersInv, SessionOk
<1>1. CASE serviceHoming
    <2>1. at = "homing" /\ job' = job
        BY <1>1 DEF serviceHoming
    <2>2. at' \in {"span", "clear"} /\ (at' = "clear" => s.homing /\ ~s.spanning)
        BY <1>1, <2>1 DEF serviceHoming, HomePass
    <2>3. s' = s \/ \E rc \in [Axes -> StepRcs] : HomePass(rc)
        BY <1>1 DEF serviceHoming
    <2>4. ASSUME NEW rc, HomePass(rc) PROVE UNCHANGED <<s.homing, s.mask, s.spanning>>
        BY <1>0, <2>4 DEF HomePass, SFields
    <2> QED
        BY <1>1, <2>1, <2>2, <2>3, <2>4 DEF Finishing, Starting
<1>2. CASE ~serviceHoming
    <2>1. at' \in {"top", "drain", "move", "frame", "recover", "ended"} /\ at \notin {"job", "clear"}
        BY <1>2 DEF Loop, Top, serviceSpan, interpolate, Frame, FrameClosed, Recover, Zero
    <2>2. job' = job \/ job' = NoJob
        BY <1>2 DEF Loop, Top, serviceSpan, interpolate, Frame, FrameClosed, Recover, Zero
    <2>3. at' = "recover" => ~s.homing /\ s' = s
        BY <1>2 DEF Loop, Top, serviceSpan, interpolate, Frame, FrameClosed, Recover, Zero, mayRecover
    <2>4. \/ s' = s \/ (s' = NoSession /\ at' = "ended" /\ on' = {}) \/ (s.spanning /\ SpanPass)
        BY <1>2 DEF Loop, Top, teardown, serviceSpan, interpolate, Frame, FrameClosed, Recover, Zero
    <2>5. CASE s.spanning /\ SpanPass
        <3>1. \/ \E p, w, x : s' = [Idle EXCEPT !.pending = p, !.why = w, !.width = x]
              \/ \E t, st, w, u, p, x : s' = [s EXCEPT !.timer = t, !.step = st, !.why = w, !.stuck = u,
                                                      !.p1 = p, !.width = x]
            BY <2>5 DEF SpanPass
        <3>2. \/ s'.homing = Idle.homing
              \/ UNCHANGED <<s.homing, s.mask, s.spanning>>
            BY <1>0, <3>1, IdleOk DEF SFields
        <3> QED
            BY <2>1, <2>2, <2>3, <2>5, <3>2, IdleOk DEF Finishing, Starting
    <2> QED
        BY <2>1, <2>2, <2>3, <2>4, <2>5 DEF Finishing, Starting
<1> QED
    BY <1>1, <1>2

LEMMA WhereKept == PeersInv /\ TodoInv /\ SessionTyped /\ Where /\ [Next]_vars => Where'
<1> SUFFICES ASSUME PeersInv, TodoInv, SessionTyped, Where, [Next]_vars PROVE Where'
    OBVIOUS
<1>0. s.homing \in BOOLEAN /\ DOMAIN s = SFields
    BY DEF PeersInv, SessionOk
<1>1. CASE Gui \/ Surroundings \/ JobFrame \/ UNCHANGED vars
    <2>1. UNCHANGED <<at, job, s>>
        BY <1>1 DEF Gui, Post, SetTarget, StopLook, StopAct, requestQuit, Surroundings, Push,
           Trip, JobFrame, vars
    <2> QED
        BY <2>1 DEF Where, Finishing, Starting
<1>2. CASE Drain
    <2>1. HomeBegin => job'.stage = "off"
        <3>1. HomeBegin => \E S : Ladder("start", "off", S)
            BY DEF HomeBegin
        <3> QED
            BY <3>1 DEF Ladder
    <2> QED
        BY <1>2, <2>1, DrainMoves DEF Where, Finishing, Starting
<1>3. CASE Climb
    <2>1. ClimbMoves
        BY <1>3, MovesOfClimb
    <2>2. CASE FinishBegin \/ Anchor \/ FinishEnd
        <3>1. FinishEnd => job'.kind = "none" /\ job'.stage = "none" /\ at' \in {"drain", "span"}
            BY NoJobOk DEF FinishEnd, SessionTyped
        <3>2. CASE FinishBegin \/ Anchor
            BY <3>2, FinishMoves DEF Where, Finishing, Starting
        <3> QED
            BY <2>2, <3>1, <3>2, FinishMoves DEF Where, Finishing, Starting
    <2>3. CASE ~(FinishBegin \/ Anchor \/ FinishEnd)
        <3>1. Ladder("start", "arm", s.mask) => job'.stage = "arm"
            BY DEF Ladder
        <3> QED
            BY <2>1, <2>3, <3>1, NoJobOk DEF Where, Finishing, Starting, ClimbMoves
    <2> QED
        BY <2>2, <2>3
<1>4. CASE Loop
    <2>1. serviceHoming => UNCHANGED <<s.homing, s.spanning>>
        <3>1. serviceHoming => s' = s \/ \E rc \in [Axes -> StepRcs] : HomePass(rc)
            BY DEF serviceHoming
        <3>2. ASSUME NEW rc, HomePass(rc) PROVE UNCHANGED <<s.homing, s.spanning>>
            BY <1>0, <3>2 DEF HomePass, SFields
        <3> QED
            BY <3>1, <3>2
    <2> QED
        BY <1>4, <2>1, LoopMoves, NoJobOk DEF Where, Starting
<1> QED
    BY <1>1, <1>2, <1>3, <1>4 DEF Next

\* A start visits axes of its batch only, and a finish all that are left of it.
Listed ==
    /\ Starting => \A i \in 1 .. Len(job.todo) : job.todo[i] \in s.mask
    /\ at = "job" /\ job.kind = "finish" =>
          \A a \in s.mask : \E i \in 1 .. Len(job.todo) : job.todo[i] = a

LEMMA TailOfList ==
    ASSUME NEW q \in Seq(Axes), q # <<>>
    PROVE  /\ \A i \in 1 .. Len(Tail(q)) : \E j \in 1 .. Len(q) : q[j] = Tail(q)[i]
           /\ \A j \in 1 .. Len(q) : q[j] # Head(q) => \E i \in 1 .. Len(Tail(q)) : Tail(q)[i] = q[j]
<1>1. /\ Len(q) \in Nat /\ Len(q) >= 1 /\ Len(Tail(q)) = Len(q) - 1 /\ Head(q) = q[1]
      /\ \A i \in 1 .. Len(Tail(q)) : Tail(q)[i] = q[i + 1]
    BY HeadTailProperties
<1>2. ASSUME NEW i \in 1 .. Len(Tail(q)) PROVE \E j \in 1 .. Len(q) : q[j] = Tail(q)[i]
    <2>1. i + 1 \in 1 .. Len(q)
        BY <1>1
    <2> QED
        BY <1>1, <2>1
<1>3. ASSUME NEW j \in 1 .. Len(q), q[j] # Head(q)
      PROVE  \E i \in 1 .. Len(Tail(q)) : Tail(q)[i] = q[j]
    <2>1. j - 1 \in 1 .. Len(Tail(q)) /\ (j - 1) + 1 = j
        BY <1>1, <1>3
    <2> QED
        BY <1>1, <2>1
<1> QED
    BY <1>2, <1>3

LEMMA ListedKept ==
    PeersInv /\ TodoInv /\ SessionTyped /\ Where /\ Listed /\ [Next]_vars => Listed'
<1> SUFFICES ASSUME PeersInv, TodoInv, SessionTyped, Where, Listed, [Next]_vars PROVE Listed'
    OBVIOUS
<1>0. job.todo \in Seq(Axes) /\ s.mask \subseteq Axes
    BY DEF TodoInv, PeersInv, SessionOk
<1>1. CASE Gui \/ Surroundings \/ JobFrame \/ UNCHANGED vars
    <2>1. UNCHANGED <<at, job, s>>
        BY <1>1 DEF Gui, Post, SetTarget, StopLook, StopAct, requestQuit, Surroundings, Push,
           Trip, JobFrame, vars
    <2> QED
        BY <2>1 DEF Listed, Starting
<1>2. CASE Drain
    <2>1. CASE HomeBegin
        <3> DEFINE S == {a \in Head(queue).mask : is_enabled(a)}
        <3>1. Ladder("start", "off", S) /\ Head(queue).mask \subseteq Axes
            BY <2>1, HeadOfQueue DEF HomeBegin
        <3>2. \A i \in 1 .. Len(job'.todo) : job'.todo[i] \in S
            BY <3>1, LadderTodo
        <3>3. job'.kind = "start"
            BY <3>1, LadderTodo
        <3>4. s'.mask = Head(queue).mask
            BY <2>1, IdleOk DEF HomeBegin, SFields
        <3> QED
            BY <3>2, <3>3, <3>4 DEF Listed, Starting
    <2> QED
        BY <1>2, <2>1, DrainMoves DEF Listed, Starting
<1>3. CASE Climb
    <2>1. CASE FinishBegin
        <3>1. Ladder("finish", "begin", s.mask)
            BY <2>1 DEF FinishBegin
        <3>2. job'.kind = "finish" /\ \A a \in s.mask : \E i \in 1 .. Len(job'.todo) : job'.todo[i] = a
            BY <1>0, <3>1, LadderTodo
        <3> QED
            BY <2>1, <3>2, FinishMoves DEF Listed, Starting
    <2>2. CASE Anchor
        <3>1. /\ job'.kind = "finish" /\ s'.mask = s.mask \ {axis} /\ job'.todo = Tail(job.todo)
              /\ at = "job" /\ job.kind = "finish" /\ job.todo # <<>>
            BY <2>2, FinishMoves DEF Anchor, TodoInv, Standing
        <3>2. ASSUME NEW a \in s'.mask PROVE \E i \in 1 .. Len(job'.todo) : job'.todo[i] = a
            <4>1. PICK j \in 1 .. Len(job.todo) : job.todo[j] = a
                BY <3>1 DEF Listed
            <4>2. job.todo[j] # Head(job.todo)
                BY <3>1, <4>1 DEF axis
            <4> QED
                BY <1>0, <3>1, <4>1, <4>2, TailOfList
        <3> QED
            BY <3>1, <3>2 DEF Listed, Starting
    <2>3. CASE FinishEnd
        BY <2>3, FinishMoves, NoJobOk DEF Listed, Starting
    <2>4. CASE ~(FinishBegin \/ Anchor \/ FinishEnd)
        <3>1. ClimbMoves
            BY <1>3, MovesOfClimb
        <3>2. CASE at = "job" /\ at' = "job" /\ s' = s /\ job'.kind = job.kind
            <4>1. CASE job'.todo = job.todo
                BY <3>2, <4>1 DEF Listed, Starting
            <4>2. CASE job.kind # "finish" /\ job.todo # <<>> /\ job'.todo = Tail(job.todo)
                <5>1. ASSUME Starting, NEW i \in 1 .. Len(job'.todo) PROVE job'.todo[i] \in s.mask
                    <6>1. PICK j \in 1 .. Len(job.todo) : job.todo[j] = job'.todo[i]
                        BY <1>0, <4>2, <5>1, TailOfList
                    <6> QED
                        BY <5>1, <6>1 DEF Listed
                <5> QED
                    BY <3>2, <4>2, <5>1 DEF Listed, Starting
            <4>3. CASE job.kind = "start" /\ Ladder("start", "arm", s.mask)
                <5>1. \A i \in 1 .. Len(job'.todo) : job'.todo[i] \in s.mask
                    BY <1>0, <4>3, LadderTodo
                <5> QED
                    BY <3>2, <4>3, <5>1 DEF Listed, Starting
            <4>4. CASE job.kind = "enable"
                BY <3>2, <4>4 DEF Listed, Starting
            <4> QED
                BY <2>4, <3>1, <3>2, <4>1, <4>2, <4>3, <4>4, NoJobOk DEF ClimbMoves, Starting
        <3>3. CASE ~(at = "job" /\ at' = "job" /\ s' = s /\ job'.kind = job.kind)
            BY <2>4, <3>1, <3>3 DEF Listed, Starting, ClimbMoves
        <3> QED
            BY <3>2, <3>3
    <2> QED
        BY <2>1, <2>2, <2>3, <2>4
<1>4. CASE Loop
    BY <1>4, LoopMoves DEF Listed
<1> QED
    BY <1>1, <1>2, <1>3, <1>4 DEF Next

-----------------------------------------------------------------------------
(* Who is searching                                                        *)

\* Axes that have been told to search, or will be by the next frame.
Searching == {a \in on : cw[a] \in {"start", "go"}}

\* A drive has left OP and the mirror is stale: no frame comes back in full before
\* the bus has been opened again or mended.
Lost == out # {} /\ ~fresh

\* The rungs of a finish behind which its axis is not searching any more.
Behind == {"offwait", "mode", "arm", "climb", "go", "end"}

\* Outside of a batch no axis is searching, in it none but its own, and none whose
\* finish has got past switching it off, unless the bus is lost meanwhile.
SearchInv ==
    /\ Searching \subseteq seen.on
    /\ ~Finishing /\ (~s.homing \/ s.spanning) => Searching = {} \/ Lost
    /\ ~Finishing /\ s.homing /\ ~s.spanning => Searching \subseteq s.mask
    /\ Finishing => Searching \subseteq s.mask \/ Lost
    /\ at = "job" /\ job.kind = "finish" /\ job.stage \in Behind => axis \notin Searching \/ Lost

\* What has to be known of the drives: while every one of them is in OP and a
\* session is on, the mirror is fresh.
MirrorKept == s.homing /\ out = {} => fresh

\* A frame makes nobody search, and finds nothing that was lost.
LEMMA SearchExchange ==
    ASSUME PeersInv, DrivesTyped, Exchange
    PROVE  /\ Searching' \subseteq Searching /\ (Lost => Lost')
           /\ Searching \subseteq seen.on => Searching' \subseteq seen'.on
<1>0. DOMAIN cw = Axes /\ on \subseteq Axes
    BY DEF PeersInv, JobOk
<1>1. Searching' \subseteq Searching
    <2>1. ASSUME NEW a \in on', cw'[a] \in {"start", "go"} PROVE a \in on /\ cw[a] \in {"start", "go"}
        <3>1. a \in Axes /\ (a \in on \/ cw[a] = "last")
            BY <1>0, <2>1 DEF Exchange
        <3>2. cw[a] \in {"start", "go"}
            BY <2>1, <3>1 DEF Exchange
        <3> QED
            BY <3>1, <3>2
    <2> QED
        BY <2>1 DEF Searching
<1>2. Lost => Lost'
    BY DEF Exchange, Lost
<1>3. seen'.on = on' \/ seen' = seen
    BY DEF Exchange
<1>4. Searching' \subseteq on'
    BY DEF Searching
<1> QED
    BY <1>1, <1>2, <1>3, <1>4

\* A step that leaves the session where it is and makes nobody search.
LEMMA SearchShrinks ==
    ASSUME SearchInv, UNCHANGED <<s, at, job>>, Searching' \subseteq Searching, Lost => Lost',
           Searching' \subseteq seen'.on
    PROVE  SearchInv'
    BY DEF SearchInv, Finishing, axis

LEMMA SearchAround ==
    ASSUME PeersInv, DrivesTyped, SearchInv, Gui \/ Surroundings \/ JobFrame \/ UNCHANGED vars
    PROVE  SearchInv'
<1>1. CASE Gui \/ UNCHANGED vars
    <2>1. UNCHANGED <<s, at, job, cw, on, out, fresh, seen>>
        BY <1>1 DEF Gui, Post, SetTarget, StopLook, StopAct, requestQuit, vars, imageVars, driveVars
    <2> QED
        BY <2>1, SearchShrinks DEF Searching, Lost, SearchInv
<1>2. CASE Surroundings
    <2>1. UNCHANGED <<s, at, job, cw, fresh>> /\ on' \subseteq on /\ out \subseteq out'
        BY <1>2 DEF Surroundings, Push, Trip, imageVars
    <2>2. seen' = seen \/ \E a, x : seen' = [seen EXCEPT !.pos[a] = x]
        BY <1>2 DEF Surroundings, Push, Trip
    <2>3. seen'.on = seen.on
        BY <2>2 DEF DrivesTyped, Mirrors
    <2> QED
        BY <2>1, <2>3, SearchShrinks DEF Searching, Lost, SearchInv
<1>3. CASE JobFrame
    BY <1>3, SearchExchange, SearchShrinks DEF JobFrame, SearchInv
<1> QED
    BY <1>1, <1>2, <1>3

\* The gate of homing lets nobody through on a stale mirror.
LEMMA HomingAsksAll ==
    ASSUME PeersInv, HomeBegin
    PROVE  fresh
<1> DEFINE c == Head(queue)
           known == IF conn /\ fresh THEN Axes ELSE {}
           faulty == IF conn THEN seen.fault ELSE {}
           own(a) == home_refusal(TRUE, TRUE, a \in known, a \in faulty, FALSE)
           amiss == {a \in c.mask : own(a) # ""}
<1>1. HomeGate(c).reason = ""
    BY DEF HomeBegin
<1>2. c.mask # {}
    BY <1>1 DEF HomeGate, home_batch_refusal
<1>3. amiss # {} => own(first(amiss)) # ""
    <2>1. c.mask \subseteq Axes
        BY HeadOfQueue DEF HomeBegin
    <2>2. amiss \subseteq Nat
        BY <2>1, RulesAssumption
    <2>3. amiss # {} => first(amiss) \in amiss
        BY <2>2, FirstIsAMember
    <2> QED
        BY <2>3
<1>4. amiss = {}
    BY <1>1, <1>2, <1>3 DEF HomeGate, home_batch_refusal
<1>5. PICK a \in c.mask : own(a) = ""
    BY <1>2, <1>4
<1> QED
    BY <1>5 DEF home_refusal

\* A session begins where nobody is searching: its gate asks for a fresh mirror of
\* every axis.
LEMMA SearchDrain ==
    ASSUME PeersInv, DrivesTyped, SearchInv, Drain
    PROVE  SearchInv'
<1>0. /\ at = "drain" /\ ~Finishing /\ DOMAIN cw = Axes /\ on \subseteq Axes
    BY DrainMoves DEF Finishing, PeersInv, JobOk
<1>1. CASE Connect \/ ConnectOk \/ Disconnect
    <2>1. on' = {} /\ at' = at
        BY <1>1 DEF Connect, ConnectOk, Disconnect, teardown
    <2>2. Searching' = {}
        BY <2>1 DEF Searching
    <2> QED
        BY <1>0, <2>1, <2>2 DEF SearchInv, Finishing
<1>2. CASE ~(Connect \/ ConnectOk \/ Disconnect)
    <2>1. UNCHANGED <<cw, on, out, fresh, seen>>
        BY <1>2 DEF Drain, DrainNothing, DrainStop, EnableBegin, DisableBegin, ResetBegin, doStop,
           ZeroBegin, doCenter, doRange, HomeRefused, HomeBegin, imageVars, driveVars
    <2>2. Searching' = Searching /\ (Lost' <=> Lost)
        BY <2>1 DEF Searching, Lost
    <2>3. CASE HomeBegin
        <3>1. fresh
            BY <2>3, HomingAsksAll
        <3>2. ~s.homing /\ ~Lost
            BY <2>3, <3>1 DEF HomeBegin, Take, Lost
        <3>3. Searching' = {}
            BY <1>0, <2>2, <3>2 DEF SearchInv
        <3>4. Starting'
            BY <2>3 DEF HomeBegin, Ladder, Starting
        <3> QED
            BY <3>3, <3>4 DEF SearchInv, Finishing, Starting
    <2>4. CASE ~HomeBegin
        <3>1. at' # "clear" /\ (at' = "job" => job'.kind \in {"enable", "disable", "reset"})
            BY <2>4, DrainMoves, <1>0
        <3>2. UNCHANGED <<s.homing, s.mask, s.spanning>> \/ (~s.homing /\ s' = NoSession)
            BY <2>4, DrainMoves
        <3> QED
            BY <1>0, <2>1, <2>2, <3>1, <3>2, NoSessionOk DEF SearchInv, Finishing
    <2> QED
        BY <2>3, <2>4
<1> QED
    BY <1>1, <1>2

\* A rung of a climb: whoever it makes search is of the batch, and a finish gets
\* past switching its axis off only when that has happened or the bus is lost.
LEMMA SearchRung ==
    ASSUME SearchInv, Where, at = "job", at' = "job", s' = s,
           job'.kind = job.kind \/ {job.kind, job'.kind} \cap {"start", "finish"} = {},
           UNCHANGED <<out, fresh>>, seen'.on = seen.on,
           \A a \in Searching' : a \in Searching \/ (Starting /\ a \in s.mask /\ a \in seen.on),
           job.kind = "finish" /\ job'.stage \in Behind => axis' \notin Searching' \/ Lost
    PROVE  SearchInv'
<1>1. Lost' <=> Lost
    BY DEF Lost
<1>2. Searching' \subseteq seen'.on
    BY DEF SearchInv
<1>3. CASE Starting
    <2>1. s.homing /\ ~s.spanning /\ ~Finishing /\ ~Finishing'
        BY <1>3 DEF Where, Starting, Finishing
    <2>2. Searching' \subseteq s.mask
        BY <2>1 DEF SearchInv
    <2> QED
        BY <1>2, <1>3, <2>1, <2>2 DEF SearchInv, Starting
<1>4. CASE ~Starting
    <2>1. Searching' \subseteq Searching
        BY <1>4
    <2>2. Finishing' <=> Finishing
        BY DEF Finishing
    <2> QED
        BY <1>1, <1>2, <2>1, <2>2 DEF SearchInv, Finishing
<1> QED
    BY <1>3, <1>4

\* What a step of a climb writes makes nobody search, but for the last rung of a
\* start.
LEMMA ClimbImage ==
    ASSUME PeersInv, DrivesTyped, Climb
    PROVE  /\ UNCHANGED <<on, out, fresh>> /\ seen'.on = seen.on
           /\ Climbed \/ Searching' \subseteq Searching
<1>0. DOMAIN cw = Axes /\ on \subseteq Axes
    BY DEF PeersInv, JobOk
<1>1. CASE OffDone
    <2>1. UNCHANGED <<on, out, fresh, cw>>
        BY <1>1 DEF OffDone, imageVars
    <2>2. seen' = seen \/ seen' = [seen EXCEPT !.fault = @ \ {axis}]
        BY <1>1 DEF OffDone
    <2>3. seen'.on = seen.on
        BY <2>2 DEF DrivesTyped, Mirrors
    <2> QED
        BY <2>1, <2>3 DEF Searching
<1>2. CASE ~OffDone
    <2>1. UNCHANGED <<on, out, fresh, seen>>
        BY <1>2 DEF Climb, Prepare, Off, SetMode, Arm, Climbed, Started, ArmFails,
           EnableDone, DisableDone, StartDone, FinishBegin, FinishAxis, Anchor, FinishEnd, driveVars
    <2>2. CASE cw' = cw
        BY <2>1, <2>2 DEF Searching
    <2>3. CASE cw' = [cw EXCEPT ![axis] = "off"] \/ cw' = [cw EXCEPT ![axis] = "climb"]
        BY <1>0, <2>1, <2>3 DEF Searching
    <2>4. CASE Prepare
        <3>1. \A a \in Axes : cw'[a] = "off" \/ cw'[a] = cw[a]
            BY <2>4 DEF Prepare
        <3> QED
            BY <1>0, <2>1, <3>1 DEF Searching
    <2>5. CASE Off \/ Arm
        BY <2>1, <2>3, <2>5 DEF Off, Arm
    <2>6. CASE ArmFails
        <3>1. cw' = cw \/ cw' = [cw EXCEPT ![axis] = "off"]
            BY <2>6 DEF ArmFails
        <3> QED
            BY <2>1, <2>2, <2>3, <3>1
    <2>7. CASE \/ SetMode \/ Started \/ EnableDone \/ DisableDone \/ StartDone \/ FinishBegin
               \/ FinishAxis \/ Anchor \/ FinishEnd
        BY <2>1, <2>2, <2>7 DEF SetMode, Started, EnableDone, DisableDone, StartDone, FinishBegin,
           FinishAxis, Anchor, FinishEnd, imageVars
    <2> QED
        BY <1>2, <2>1, <2>4, <2>5, <2>6, <2>7 DEF Climb
<1> QED
    BY <1>1, <1>2

\* In a finish, an axis that is past the switching off is not searching.
LEMMA BehindFinish ==
    ASSUME PeersInv, TodoInv, DrivesTyped, Where, SearchInv, MirrorKept, Climb,
           at = "job", job.kind = "finish", at' = "job", s' = s, job'.stage \in Behind,
           job'.todo = job.todo
    PROVE  axis' \notin Searching' \/ Lost
<1>0. /\ DOMAIN cw = Axes /\ DOMAIN job = JobFields /\ axis' = axis
      /\ Searching' \subseteq Searching \/ Climbed
      /\ job.stage \in Behind => axis \notin Searching \/ Lost
    BY ClimbImage DEF PeersInv, JobOk, axis, SearchInv
<1>1. CASE Off \/ Arm
    <2>1. cw'[axis] \in {"off", "climb"} \/ axis \notin Axes
        BY <1>0, <1>1 DEF Off, Arm
    <2>2. on' = on /\ on \subseteq Axes
        BY ClimbImage DEF PeersInv, JobOk
    <2> QED
        BY <1>0, <2>1, <2>2 DEF Searching
<1>2. CASE FinishAxis
    <2>1. PICK st \in {"off", "mode"} :
             job' = [job EXCEPT !.stage = st, !.mode_ok = TRUE] /\ (st = "mode" => ~is_enabled(axis))
        BY <1>2 DEF FinishAxis
    <2>2. job'.stage = st
        BY <1>0, <2>1 DEF JobFields
    <2>3. ~is_enabled(axis)
        BY <2>1, <2>2 DEF Behind
    <2>4. axis \in Searching => ~fresh
        BY <2>3 DEF SearchInv, is_enabled
    <2>5. s.homing
        BY DEF Where, Finishing
    <2>6. axis \notin Searching \/ Lost
        BY <2>4, <2>5 DEF MirrorKept, Lost
    <2>7. UNCHANGED <<cw, on>>
        BY <1>2 DEF FinishAxis, imageVars, driveVars
    <2> QED
        BY <1>0, <2>6, <2>7 DEF Searching
<1>3. CASE OffDone \/ SetMode \/ ArmFails \/ Climbed \/ Started
    <2>1. job.stage \in Behind
        BY <1>3 DEF OffDone, SetMode, ArmFails, ReadyToArm, Climbed, Started, Behind
    <2>2. Searching' \subseteq Searching
        <3>1. CASE Climbed
            <4>1. cw' = cw /\ on' = on
                BY <3>1 DEF Climbed, driveVars
            <4> QED
                BY <4>1 DEF Searching
        <3> QED
            BY <1>0, <3>1
    <2> QED
        BY <1>0, <2>1, <2>2
<1>4. CASE Prepare \/ EnableDone \/ DisableDone \/ StartDone \/ FinishBegin \/ FinishEnd
    <2>1. ~Prepare /\ ~EnableDone /\ ~DisableDone /\ ~StartDone /\ ~FinishBegin
        BY DEF Prepare, EnableDone, DisableDone, StartDone, FinishBegin, JobOver
    <2>2. FinishEnd => job' = NoJob
        BY DEF FinishEnd
    <2> QED
        BY <1>4, <2>1, <2>2, NoJobOk DEF Behind
<1>5. CASE Anchor
    <2>1. job'.stage = "begin"
        BY <1>5, FinishMoves
    <2> QED
        BY <2>1 DEF Behind
<1> QED
    BY <1>1, <1>2, <1>3, <1>4, <1>5 DEF Climb

\* Climbs: an axis of the batch starts to search, and in the end none does.
LEMMA SearchClimb ==
    ASSUME PeersInv, TodoInv, DrivesTyped, SessionTyped, Where, Listed, SearchInv, MirrorKept, Climb
    PROVE  SearchInv'
<1>0. /\ UNCHANGED <<on, out, fresh>> /\ seen'.on = seen.on
      /\ Climbed \/ Searching' \subseteq Searching
      /\ Lost' <=> Lost
      /\ Searching \subseteq seen.on
    BY ClimbImage DEF Lost, SearchInv
<1>1. ClimbMoves
    BY MovesOfClimb
<1>2. CASE FinishBegin
    <2>1. Searching' \subseteq Searching
        BY <1>0, <1>2 DEF FinishBegin, Climbed
    <2> QED
        BY <1>0, <1>2, <2>1, FinishMoves DEF SearchInv, Finishing, Behind
<1>3. CASE Anchor
    <2>1. Searching' \subseteq Searching
        BY <1>0, <1>3 DEF Anchor, Climbed
    <2>2. at = "job" /\ job.kind = "finish" /\ job.stage = "end"
        BY <1>3 DEF Anchor
    <2>3. axis \notin Searching \/ Lost
        BY <2>2 DEF SearchInv, Behind
    <2>4. Searching' \subseteq s'.mask \/ Lost'
        BY <1>0, <1>3, <2>1, <2>3, FinishMoves DEF SearchInv
    <2> QED
        BY <1>0, <1>3, <2>1, <2>4, FinishMoves DEF SearchInv, Finishing, Behind
<1>4. CASE FinishEnd
    <2>1. Searching' \subseteq Searching
        BY <1>4 DEF FinishEnd, Searching, imageVars, driveVars
    <2>2. s.mask = {}
        <3>1. at = "job" /\ job.kind = "finish" /\ job.todo = <<>>
            BY <1>4 DEF FinishEnd, JobOver
        <3> QED
            BY <3>1 DEF Listed
    <2>3. Searching' = {} \/ Lost'
        BY <1>0, <1>4, <2>1, <2>2, FinishMoves DEF SearchInv
    <2>4. job'.kind = "none" /\ at' \in {"drain", "span"}
        BY <1>4, NoJobOk DEF FinishEnd, SessionTyped
    <2>5. ~s'.homing \/ (s'.homing /\ s'.spanning)
        BY <1>4, FinishMoves
    <2> QED
        BY <1>0, <2>1, <2>3, <2>4, <2>5 DEF SearchInv, Finishing
<1>5. CASE at = "job" /\ at' = "job" /\ s' = s /\ ~(FinishBegin \/ Anchor \/ FinishEnd)
    <2>1. \/ job'.kind = job.kind
          \/ job.kind = "enable" /\ job'.kind = "rollback"
        BY <1>1, <1>5 DEF ClimbMoves, Starting
    <2>2. job.kind = "finish" => job'.todo = job.todo
        BY <1>1, <1>5 DEF ClimbMoves, Starting
    <2>3. job.kind = "finish" /\ job'.stage \in Behind => axis' \notin Searching' \/ Lost
        BY <1>5, <2>2, BehindFinish
    <2>4. ASSUME NEW a \in Searching' PROVE a \in Searching \/ (Starting /\ a \in s.mask /\ a \in seen.on)
        <3>1. CASE Climbed /\ job.kind = "start"
            <4>1. /\ job.todo # <<>> /\ axis \in seen.on
                  /\ cw' = [cw EXCEPT ![axis] = "start"] /\ on' = on
                BY <3>1 DEF Climbed, TodoInv, Standing, is_enabled, driveVars
            <4>2. axis \in s.mask
                <5>1. job.todo[1] \in s.mask
                    <6>1. 1 \in 1 .. Len(job.todo)
                        BY <4>1 DEF TodoInv
                    <6> QED
                        BY <1>5, <3>1, <6>1 DEF Listed, Starting
                <5> QED
                    BY <5>1 DEF axis
            <4>3. a = axis \/ a \in Searching
                BY <4>1 DEF Searching, PeersInv, JobOk
            <4> QED
                BY <1>5, <3>1, <4>1, <4>2, <4>3 DEF Starting
        <3>2. CASE Climbed /\ job.kind # "start"
            <4>1. cw' = cw /\ on' = on
                BY <3>2 DEF Climbed, driveVars
            <4> QED
                BY <4>1 DEF Searching
        <3> QED
            BY <1>0, <3>1, <3>2
    <2> QED
        BY <1>0, <1>5, <2>1, <2>3, <2>4, SearchRung
<1>6. CASE ~(at = "job" /\ at' = "job" /\ s' = s) /\ ~(FinishBegin \/ Anchor \/ FinishEnd)
    <2>1. /\ at' \in {"clear", "drain"} /\ (at' = "clear" => Starting) /\ at = "job" /\ job.kind # "finish"
          /\ UNCHANGED <<s.homing, s.mask, s.spanning>>
        BY <1>1, <1>6 DEF ClimbMoves, Starting
    <2>2. Searching' \subseteq Searching
        BY <1>0, <2>1 DEF Climbed
    <2>3. Starting => s.homing /\ ~s.spanning
        BY DEF Where
    <2> QED
        BY <1>0, <2>1, <2>2, <2>3 DEF SearchInv, Finishing, Starting
<1> QED
    BY <1>2, <1>3, <1>4, <1>5, <1>6

\* The loop: a look ends searches or leads to a finish, and a mended bus leaves
\* nobody searching that is in OP.
LEMMA SearchLoop ==
    ASSUME PeersInv, DrivesTyped, Where, SearchInv, Loop
    PROVE  SearchInv'
<1>0. /\ ~Finishing /\ DOMAIN cw = Axes /\ on \subseteq Axes /\ Searching \subseteq seen.on
      /\ at' # "job"
    BY LoopMoves DEF PeersInv, JobOk, SearchInv
<1>1. CASE on' = {}
    <2>1. Searching' = {}
        BY <1>1 DEF Searching
    <2> QED
        BY <1>0, <2>1 DEF SearchInv
<1>2. CASE /\ Searching' \subseteq Searching /\ (Lost => Lost') /\ Searching' \subseteq seen'.on
           /\ on' # {}
    <2>1. \/ UNCHANGED <<s.homing, s.mask, s.spanning>>
          \/ ~s'.homing /\ s.spanning
        BY <1>2, LoopMoves
    <2>2. Finishing' => s.homing /\ ~s.spanning
        BY LoopMoves
    <2> QED
        BY <1>0, <1>2, <2>1, <2>2 DEF SearchInv
<1>3. CASE serviceHoming
    <2>1. UNCHANGED <<on, out, fresh, seen>>
        BY <1>3 DEF serviceHoming, driveVars
    <2>2. \A a \in Axes : cw'[a] = cw[a] \/ cw'[a] = "on"
        <3>1. cw' = cw \/ \E rc \in [Axes -> StepRcs] : HomePass(rc)
            BY <1>3 DEF serviceHoming
        <3>2. ASSUME NEW rc, HomePass(rc) PROVE \A a \in Axes : cw'[a] = cw[a] \/ cw'[a] = "on"
            BY <3>2 DEF HomePass
        <3> QED
            BY <3>1, <3>2
    <2>3. Searching' \subseteq Searching /\ (Lost <=> Lost') /\ Searching' \subseteq seen'.on
        BY <1>0, <2>1, <2>2 DEF Searching, Lost
    <2> QED
        BY <1>1, <1>2, <2>3
<1>4. CASE Frame
    BY <1>0, <1>1, <1>2, <1>4, SearchExchange DEF Frame
<1>5. CASE Recover
    <2>1. UNCHANGED <<on, seen, fresh>>
        BY <1>5 DEF Recover
    <2>2. CASE UNCHANGED <<cw, out>>
        BY <1>0, <1>1, <1>2, <2>1, <2>2 DEF Searching, Lost
    <2>3. CASE /\ ~\E a \in Axes \ out : a \in seen.on
               /\ cw' = [a \in Axes |-> IF a \in out THEN "off" ELSE cw[a]]
        <3>1. Searching' = {}
            BY <1>0, <2>1, <2>3 DEF Searching
        <3> QED
            BY <1>0, <3>1 DEF SearchInv
    <2> QED
        BY <1>5, <2>2, <2>3 DEF Recover
<1>6. CASE Top \/ serviceSpan \/ interpolate \/ FrameClosed \/ Zero
    <2>1. on' = {} \/ UNCHANGED <<cw, on, out, fresh, seen>>
        BY <1>6 DEF Top, teardown, serviceSpan, interpolate, FrameClosed, Zero, imageVars, driveVars
    <2> QED
        BY <1>0, <1>1, <1>2, <2>1 DEF Searching, Lost
<1> QED
    BY <1>3, <1>4, <1>5, <1>6 DEF Loop

LEMMA SearchKept ==
    Values /\ Where /\ Listed /\ SearchInv /\ MirrorKept /\ [Next]_vars => SearchInv'
<1> SUFFICES ASSUME Values, Where, Listed, SearchInv, MirrorKept, [Next]_vars PROVE SearchInv'
    OBVIOUS
<1>1. PeersInv /\ TodoInv /\ DrivesTyped /\ SessionTyped
    BY DEF Values
<1> QED
    BY <1>1, SearchAround, SearchDrain, SearchClimb, SearchLoop DEF Next

-----------------------------------------------------------------------------
(* What a stop does                                                        *)

\* A stop that has reached the worker stays up until a look has obeyed it, the
\* session's finish has lowered it, or its measurement has begun.
StopInv ==
    /\ pressed => s.homing
    /\ pressed /\ ~s.spanning /\ ~(at = "job" /\ job.kind = "finish") => stop

LEMMA StopKept ==
    PeersInv /\ TodoInv /\ SessionTyped /\ Where /\ StopInv /\ [Next]_vars => StopInv'
<1> SUFFICES ASSUME PeersInv, TodoInv, SessionTyped, Where, StopInv, [Next]_vars PROVE StopInv'
    OBVIOUS
<1>0. DOMAIN s = SFields /\ s.homing \in BOOLEAN
    BY DEF PeersInv, SessionOk
<1>1. CASE Gui \/ Surroundings \/ JobFrame \/ UNCHANGED vars
    <2>1. UNCHANGED <<at, job, s>>
        BY <1>1 DEF Gui, Post, SetTarget, StopLook, StopAct, requestQuit, Surroundings, Push,
           Trip, JobFrame, vars
    <2>2. UNCHANGED <<stop, pressed>> \/ (stop' = TRUE /\ pressed' = s.homing)
        BY <1>1 DEF Gui, Post, SetTarget, StopLook, StopAct, requestQuit, Surroundings, Push,
           Trip, JobFrame, vars, queueVars, histVars
    <2> QED
        BY <2>1, <2>2 DEF StopInv
<1>2. CASE Drain
    <2>1. CASE DrainNothing \/ DrainStop
        <3>1. at' = "homing" /\ UNCHANGED <<s, job>> /\ at = "drain"
            BY <2>1 DEF DrainNothing, DrainStop
        <3>2. UNCHANGED <<stop, pressed>> \/ (stop' = TRUE /\ s.homing)
            BY <2>1 DEF DrainNothing, DrainStop, queueVars, histVars
        <3> QED
            BY <3>1, <3>2 DEF StopInv
    <2>2. CASE ~(DrainNothing \/ DrainStop)
        <3>1. ~s.homing
            BY <1>2, <2>2 DEF Drain, Connect, ConnectOk, Disconnect, EnableBegin, DisableBegin,
               ResetBegin, doStop, ZeroBegin, doCenter, doRange, HomeRefused, HomeBegin, Take
        <3>2. ~pressed
            BY <3>1 DEF StopInv
        <3>3. pressed' = pressed \/ pressed' = FALSE
            BY <1>2, <2>2 DEF Drain, Connect, ConnectOk, Disconnect, teardown, EnableBegin, DisableBegin,
               ResetBegin, doStop, ZeroBegin, doCenter, doRange, HomeRefused, HomeBegin, histVars
        <3> QED
            BY <3>2, <3>3 DEF StopInv
    <2> QED
        BY <2>1, <2>2
<1>3. CASE Climb
    <2>1. CASE FinishBegin \/ Anchor
        <3>1. pressed' = pressed
            BY <2>1 DEF FinishBegin, Anchor, histVars
        <3> QED
            BY <2>1, <3>1, FinishMoves DEF StopInv
    <2>2. CASE FinishEnd
        <3>1. pressed' => s' = beginSpan(s.batch)
            BY <2>2 DEF FinishEnd
        <3>2. s' = beginSpan(s.batch) => s'.homing = TRUE /\ s'.spanning = TRUE
            BY <1>0 DEF beginSpan, SFields
        <3> QED
            BY <3>1, <3>2 DEF StopInv
    <2>3. CASE ~(FinishBegin \/ Anchor \/ FinishEnd)
        <3>1. ClimbMoves
            BY <1>3, MovesOfClimb
        <3>2. UNCHANGED <<stop, pressed>>
            BY <1>3, <2>3 DEF Climb, Prepare, Off, OffDone, SetMode, Arm, Climbed, Started, ArmFails,
               EnableDone, DisableDone, StartDone, FinishAxis, queueVars, histVars
        <3>3. UNCHANGED <<s.homing, s.spanning>> /\ at = "job"
            BY <2>3, <3>1 DEF ClimbMoves, Starting
        <3>4. job.kind = "finish" => at' = "job" /\ job'.kind = "finish"
            BY <2>3, <3>1 DEF ClimbMoves, Starting
        <3> QED
            BY <3>2, <3>3, <3>4 DEF StopInv
    <2> QED
        BY <2>1, <2>2, <2>3
<1>4. CASE Loop
    <2>1. CASE serviceSpan
        <3>1. at = "span" /\ at' = "move"
            BY <2>1 DEF serviceSpan
        <3>2. CASE UNCHANGED <<stop, pressed, s>>
            BY <3>1, <3>2 DEF StopInv
        <3>3. CASE s.spanning /\ SpanPass
            <4>1. \/ ~pressed'
                  \/ pressed' = pressed /\ \E t, st, w, u, p, x :
                        s' = [s EXCEPT !.timer = t, !.step = st, !.why = w, !.stuck = u, !.p1 = p, !.width = x]
                BY <3>3 DEF SpanPass
            <4>2. ~pressed' \/ (pressed' = pressed /\ UNCHANGED <<s.homing, s.spanning>>)
                BY <1>0, <4>1 DEF SFields
            <4>3. CASE ~pressed'
                BY <4>3 DEF StopInv
            <4>4. CASE pressed' = pressed /\ UNCHANGED <<s.homing, s.spanning>>
                BY <3>3, <4>4 DEF StopInv
            <4> QED
                BY <4>2, <4>3, <4>4
        <3> QED
            BY <2>1, <3>2, <3>3 DEF serviceSpan
    <2>2. CASE ~serviceSpan
        <3>1. \/ UNCHANGED <<stop, pressed>>
              \/ ~pressed'
            BY <1>4, <2>2 DEF Loop, Top, teardown, serviceHoming, interpolate, Frame, FrameClosed,
               Recover, Zero, queueVars, histVars
        <3>2. CASE s' = s
            <4>1. ~(at = "job" /\ job.kind = "finish")
                BY <1>4, LoopMoves DEF Finishing
            <4> QED
                BY <3>1, <3>2, <4>1 DEF StopInv
        <3>3. CASE serviceHoming
            <4>1. UNCHANGED <<stop, pressed>> /\ at = "homing"
                BY <3>3 DEF serviceHoming, queueVars, histVars
            <4>2. UNCHANGED <<s.homing, s.spanning>>
                <5>1. s' = s \/ \E rc \in [Axes -> StepRcs] : HomePass(rc)
                    BY <3>3 DEF serviceHoming
                <5>2. ASSUME NEW rc, HomePass(rc) PROVE UNCHANGED <<s.homing, s.spanning>>
                    BY <1>0, <5>2 DEF HomePass, SFields
                <5> QED
                    BY <5>1, <5>2
            <4> QED
                BY <4>1, <4>2 DEF StopInv
        <3>4. CASE Top /\ s' # s
            BY <3>4 DEF Top, teardown, StopInv
        <3> QED
            BY <1>4, <2>2, <3>2, <3>3, <3>4 DEF Loop, interpolate, Frame, FrameClosed, Recover, Zero
    <2> QED
        BY <2>1, <2>2
<1> QED
    BY <1>1, <1>2, <1>3, <1>4 DEF Next

\* A look with the stop up finds every running axis aborted, and tells it to stop.
StopEndsNow ==
    pressed /\ ~s.spanning /\ at = "homing" /\ at' # "homing" => going' = {}

LEMMA LookEndsSearch ==
    ASSUME PeersInv, SearchInv, StopInv, [Next]_vars
    PROVE  StopEndsNow
<1> SUFFICES ASSUME pressed, ~s.spanning, at = "homing", at' # "homing" PROVE going' = {}
    BY DEF StopEndsNow
<1>1. serviceHoming
    BY OnlyALookLeaves
<1>2. s.homing /\ stop /\ Searching \subseteq s.mask
    BY DEF StopInv, SearchInv, Finishing
<1>3. /\ DOMAIN s = SFields /\ s.mask \subseteq Axes /\ DOMAIN cw = Axes
      /\ \A a \in s.mask : s.rc[a] \in {"RUNNING", "ATTAINED"}
      /\ \A a \in Axes : s.rc[a] = "ATTAINED" => Quiet(a)
    BY DEF PeersInv, SessionOk, JobOk
<1>4. PICK rc \in [Axes -> StepRcs] :
         /\ \A a \in Axes : rc[a] \in IF a \in s.mask /\ s.rc[a] = "RUNNING"
                                      THEN home_step(a) ELSE {s.rc[a]}
         /\ HomePass(rc)
    BY <1>1, <1>2 DEF serviceHoming
<1>5. \A a \in s.mask : s.rc[a] = "RUNNING" => rc[a] = "ABORTED"
    BY <1>2, <1>3, <1>4 DEF home_step
<1>6. on' = on
    BY <1>1 DEF serviceHoming, driveVars
<1>7. ASSUME NEW a \in going' PROVE FALSE
    <2>1. a \in on /\ cw'[a] = "go"
        BY <1>6, <1>7 DEF going
    <2>2. a \in Axes
        BY <2>1 DEF PeersInv, JobOk
    <2>3. cw[a] = "go" \/ cw'[a] = "on"
        BY <1>4, <2>1, <2>2 DEF HomePass
    <2>4. a \in s.mask /\ ~Quiet(a)
        BY <1>2, <2>1, <2>3 DEF Searching, Quiet
    <2>5. s.rc[a] = "RUNNING" /\ rc[a] = "ABORTED"
        BY <1>3, <1>5, <2>2, <2>4
    <2>6. cw'[a] = "on"
        BY <1>4, <2>2, <2>4, <2>5 DEF HomePass
    <2> QED
        BY <2>1, <2>6
<1> QED
    BY <1>7

-----------------------------------------------------------------------------
(* The mirror                                                              *)

\* No short frames but those of a drive that has left OP; or no drive that leaves
\* OP, and fewer short frames than it takes to spoil the mirror.
Undisturbed ==
    \/ Budget.glitches = 0
    \/ Budget.drops = 0 /\ Budget.glitches < ShortLimit

\* Short frames that no missing drive explains are counted against the budget.
GlitchInv ==
    /\ DOMAIN left = {"ops", "pushes", "faults", "drops", "glitches"}
    /\ left.glitches \in 0 .. Budget.glitches
    /\ Budget.drops = 0 => left.drops = 0 /\ out = {}
    /\ Budget.drops = 0 /\ fresh => bad + left.glitches <= Budget.glitches

\* What a frame does to the mirror.
LEMMA GlitchExchange ==
    ASSUME GlitchInv, DrivesTyped, Exchange
    PROVE  GlitchInv' /\ out' = out /\ (Undisturbed /\ out = {} /\ fresh => fresh')
<1>0. /\ bad \in Nat /\ ArmFrames \in Nat \ {0} /\ ShortLimit \in Nat \ {0}
      /\ Budget.glitches \in Nat
    BY WorkerAssumption DEF DrivesTyped
<1>1. out' = out
    BY DEF Exchange
<1>2. CASE UNCHANGED left /\ out = {} /\ fresh' = TRUE /\ bad' = 0
    BY <1>0, <1>1, <1>2 DEF GlitchInv
<1>3. CASE UNCHANGED left /\ out # {}
    BY <1>1, <1>3 DEF GlitchInv
<1>4. CASE /\ out = {} /\ Spend("glitches") /\ bad' = lesser(bad + 1, ArmFrames)
           /\ fresh' = (fresh /\ bad' < ShortLimit)
    <2>1. left' = [left EXCEPT !["glitches"] = @ - 1] /\ left.glitches > 0
        BY <1>4 DEF Spend
    <2>2. DOMAIN left' = DOMAIN left /\ left'.glitches = left.glitches - 1 /\ left'.drops = left.drops
        BY <2>1 DEF GlitchInv
    <2>3. left'.glitches \in 0 .. Budget.glitches
        BY <1>0, <2>1, <2>2 DEF GlitchInv
    <2>4. bad' \in Nat /\ bad' <= bad + 1
        BY <1>0, <1>4 DEF lesser
    <2>5. ASSUME Budget.drops = 0, fresh PROVE bad' + left'.glitches <= Budget.glitches
        <3>1. bad + left.glitches <= Budget.glitches
            BY <2>5 DEF GlitchInv
        <3>2. left.glitches \in Nat
            BY <1>0 DEF GlitchInv
        <3> QED
            BY <1>0, <2>2, <2>4, <3>1, <3>2
    <2>6. ASSUME Undisturbed, fresh PROVE bad' < ShortLimit
        <3>1. Budget.glitches # 0
            BY <1>0, <2>1 DEF GlitchInv
        <3>2. Budget.drops = 0 /\ Budget.glitches < ShortLimit
            BY <2>6, <3>1 DEF Undisturbed
        <3>3. bad' + left'.glitches <= Budget.glitches
            BY <2>5, <2>6, <3>2
        <3> QED
            BY <1>0, <2>3, <2>4, <3>2, <3>3
    <2> QED
        BY <1>1, <1>4, <2>2, <2>3, <2>5, <2>6 DEF GlitchInv
<1> QED
    BY <1>2, <1>3, <1>4 DEF Exchange

\* Whatever is spent, it is spent on one thing.
LEMMA SpentOnOthers ==
    ASSUME GlitchInv, NEW what \in {"ops", "pushes", "faults"}, Spend(what)
    PROVE  DOMAIN left' = DOMAIN left /\ left'.glitches = left.glitches /\ left'.drops = left.drops
    BY DEF GlitchInv, Spend

LEMMA GlitchKept == DrivesTyped /\ GlitchInv /\ [Next]_vars => GlitchInv'
<1> SUFFICES ASSUME DrivesTyped, GlitchInv, [Next]_vars PROVE GlitchInv'
    OBVIOUS
<1>0. Budget.glitches \in Nat /\ Budget.drops \in Nat
    BY WorkerAssumption
<1>1. CASE /\ left' = left \/ \E what \in {"ops", "pushes", "faults"} : Spend(what)
           /\ UNCHANGED <<fresh, out, bad>> \/ (fresh' = FALSE /\ out' \subseteq out)
    <2>1. DOMAIN left' = DOMAIN left /\ left'.glitches = left.glitches /\ left'.drops = left.drops
        BY <1>1, SpentOnOthers
    <2> QED
        BY <1>1, <2>1 DEF GlitchInv
<1>2. CASE Gui \/ UNCHANGED vars
    <2>1. UNCHANGED <<fresh, out, bad>>
        BY <1>2 DEF Gui, Post, SetTarget, StopLook, StopAct, requestQuit, vars, driveVars
    <2>2. left' = left \/ Spend("ops")
        BY <1>2 DEF Gui, Post, SetTarget, StopLook, StopAct, requestQuit, vars, guiVars
    <2> QED
        BY <1>1, <2>1, <2>2
<1>3. CASE Surroundings
    <2>1. UNCHANGED <<fresh, bad>>
        BY <1>3 DEF Surroundings, Push, Trip
    <2>2. CASE out' = out /\ (Spend("pushes") \/ Spend("faults"))
        BY <1>1, <2>1, <2>2
    <2>3. CASE Spend("drops")
        <3>1. left' = [left EXCEPT !["drops"] = @ - 1] /\ left.drops > 0
            BY <2>3 DEF Spend
        <3>2. DOMAIN left' = DOMAIN left /\ left'.glitches = left.glitches
            BY <3>1 DEF GlitchInv
        <3>3. Budget.drops # 0
            BY <1>0, <3>1 DEF GlitchInv
        <3> QED
            BY <3>2, <3>3 DEF GlitchInv
    <2> QED
        BY <1>3, <2>2, <2>3 DEF Surroundings, Push, Trip
<1>4. CASE JobFrame
    BY <1>4, GlitchExchange DEF JobFrame
<1>5. CASE Drain
    <2>1. left' = left
        BY <1>5 DEF Drain, DrainNothing, DrainStop, Connect, ConnectOk, Disconnect, EnableBegin,
           DisableBegin, ResetBegin, doStop, ZeroBegin, doCenter, doRange, HomeRefused, HomeBegin,
           guiVars
    <2>2. UNCHANGED <<fresh, out, bad>> \/ (fresh' = FALSE /\ out' \subseteq out)
        BY <1>5 DEF Drain, DrainNothing, DrainStop, Connect, ConnectOk, Disconnect, teardown, EnableBegin,
           DisableBegin, ResetBegin, doStop, ZeroBegin, doCenter, doRange, HomeRefused, HomeBegin,
           driveVars
    <2> QED
        BY <1>1, <2>1, <2>2
<1>6. CASE Climb
    <2>1. left' = left /\ UNCHANGED <<fresh, out, bad>>
        BY <1>6 DEF Climb, Prepare, Off, OffDone, SetMode, Arm, Climbed, Started, ArmFails,
           EnableDone, DisableDone, StartDone, FinishBegin, FinishAxis, Anchor, FinishEnd, driveVars, guiVars
    <2> QED
        BY <1>1, <2>1
<1>7. CASE Frame
    BY <1>7, GlitchExchange DEF Frame
<1>8. CASE Recover
    <2>1. UNCHANGED <<left, fresh, bad>> /\ out' \subseteq out
        BY <1>8 DEF Recover, guiVars
    <2> QED
        BY <2>1 DEF GlitchInv
<1>9. CASE FrameClosed
    <2>1. UNCHANGED <<left, fresh, out>> /\ bad' = 0
        BY <1>9 DEF FrameClosed, guiVars
    <2>2. bad' + left.glitches <= Budget.glitches
        BY <1>0, <2>1 DEF GlitchInv
    <2> QED
        BY <2>1, <2>2 DEF GlitchInv
<1>10. CASE Top \/ serviceHoming \/ serviceSpan \/ interpolate \/ Zero
    <2>1. left' = left /\ (UNCHANGED <<fresh, out, bad>> \/ (fresh' = FALSE /\ out' \subseteq out))
        BY <1>10 DEF Top, teardown, serviceHoming, HomePass, serviceSpan, interpolate, Zero, guiVars, driveVars
    <2> QED
        BY <1>1, <2>1
<1> QED
    BY <1>2, <1>3, <1>4, <1>5, <1>6, <1>7, <1>8, <1>9, <1>10 DEF Next, Loop

\* While every drive is in OP a session keeps the fresh mirror it began with.
LEMMA MirrorStep ==
    ASSUME Undisturbed, PeersInv, TodoInv, DrivesTyped, Where, GlitchInv, MirrorKept, [Next]_vars
    PROVE  MirrorKept'
<1>0. DOMAIN s = SFields
    BY DEF PeersInv, SessionOk
<1>1. CASE UNCHANGED fresh /\ out \subseteq out' /\ (s'.homing => s.homing)
    BY <1>1 DEF MirrorKept
<1>2. CASE Gui \/ Surroundings \/ UNCHANGED vars
    <2>1. UNCHANGED <<s, fresh>> /\ out \subseteq out'
        BY <1>2 DEF Gui, Post, SetTarget, StopLook, StopAct, requestQuit, Surroundings, Push,
           Trip, vars, driveVars
    <2> QED
        BY <1>1, <2>1
<1>3. CASE JobFrame \/ Frame
    <2>1. Exchange /\ s' = s
        BY <1>3 DEF JobFrame, Frame
    <2> QED
        BY <2>1, GlitchExchange DEF MirrorKept
<1>4. CASE Drain
    <2>1. CASE HomeBegin
        <3>1. fresh /\ fresh' = fresh
            BY <2>1, HomingAsksAll DEF HomeBegin, driveVars
        <3> QED
            BY <3>1 DEF MirrorKept
    <2>2. CASE Connect \/ ConnectOk \/ Disconnect
        <3>1. s' = NoSession
            BY <2>2 DEF Connect, ConnectOk, Disconnect, teardown
        <3> QED
            BY <3>1, NoSessionOk DEF MirrorKept
    <2>3. CASE ~(HomeBegin \/ Connect \/ ConnectOk \/ Disconnect)
        <3>1. UNCHANGED <<fresh, out>>
            BY <1>4, <2>3 DEF Drain, DrainNothing, DrainStop, EnableBegin, DisableBegin, ResetBegin,
               doStop, ZeroBegin, doCenter, doRange, HomeRefused, driveVars
        <3>2. s' = s \/ \E b : s' = [s EXCEPT !.pending = b]
            BY <1>4, <2>3 DEF Drain, DrainNothing, DrainStop, EnableBegin, DisableBegin, ResetBegin,
               doStop, ZeroBegin, doCenter, doRange, HomeRefused
        <3>3. s'.homing = s.homing
            BY <1>0, <3>2 DEF SFields
        <3> QED
            BY <1>1, <3>1, <3>3
    <2> QED
        BY <2>1, <2>2, <2>3
<1>5. CASE Climb
    <2>1. UNCHANGED <<fresh, out>>
        BY <1>5, ClimbImage
    <2>2. s'.homing => s.homing
        <3>1. ClimbMoves
            BY <1>5, MovesOfClimb
        <3>2. FinishBegin \/ Anchor \/ FinishEnd => Finishing
            BY FinishMoves
        <3> QED
            BY <3>1, <3>2 DEF ClimbMoves, Where
    <2> QED
        BY <1>1, <2>1, <2>2
<1>6. CASE Recover
    <2>1. s' = s /\ ~s.homing
        BY <1>6 DEF Recover, Where
    <2> QED
        BY <2>1 DEF MirrorKept
<1>7. CASE Loop /\ ~Frame /\ ~Recover
    <2>1. s' = NoSession \/ UNCHANGED <<fresh, out>>
        BY <1>7 DEF Loop, Top, teardown, serviceHoming, serviceSpan, interpolate, FrameClosed, Zero, driveVars
    <2>2. s'.homing => s.homing
        BY <1>7, LoopMoves, NoSessionOk
    <2> QED
        BY <1>1, <2>1, <2>2, NoSessionOk DEF MirrorKept
<1> QED
    BY <1>2, <1>3, <1>4, <1>5, <1>6, <1>7 DEF Next

-----------------------------------------------------------------------------
(* The theorems about searching                                            *)

\* What holds of the searching axes as long as MirrorKept does.
SessionInv == Values /\ Where /\ Listed /\ SearchInv /\ StopInv

LEMMA SessionBegins == Init => SessionInv /\ MirrorKept /\ GlitchInv
<1> SUFFICES ASSUME Init PROVE SessionInv /\ MirrorKept /\ GlitchInv
    OBVIOUS
<1>1. /\ at = "top" /\ job = NoJob /\ s = NoSession /\ on = {} /\ out = {} /\ fresh = FALSE
      /\ pressed = FALSE /\ left = Budget /\ bad = 0
    BY DEF Init
<1>2. Where /\ Listed
    BY <1>1, NoJobOk DEF Where, Listed, Finishing, Starting
<1>3. SearchInv
    BY <1>1, NoSessionOk DEF SearchInv, Searching, Finishing
<1>4. StopInv /\ MirrorKept
    BY <1>1, NoSessionOk DEF StopInv, MirrorKept
<1>5. GlitchInv
    <2>1. Budget \in [ops : Nat, pushes : Nat, faults : Nat, drops : Nat, glitches : Nat]
        BY WorkerAssumption
    <2> QED
        BY <1>1, <2>1 DEF GlitchInv
<1> QED
    BY <1>2, <1>3, <1>4, <1>5, ValuesBegin DEF SessionInv

LEMMA SessionKept == SessionInv /\ MirrorKept /\ [Next]_vars => SessionInv' /\ StopEndsNow
<1> SUFFICES ASSUME SessionInv, MirrorKept, [Next]_vars PROVE SessionInv' /\ StopEndsNow
    OBVIOUS
<1>1. /\ Values /\ Where /\ Listed /\ SearchInv /\ StopInv
      /\ PeersInv /\ TodoInv /\ SessionTyped
    BY DEF SessionInv, Values
<1> QED
    BY <1>1, ValuesKept, WhereKept, ListedKept, SearchKept, StopKept, LookEndsSearch DEF SessionInv

LEMMA NobodySearches == SessionInv => NobodySearchesInOp
<1> SUFFICES ASSUME SessionInv, Looping, ~s.homing, out = {} PROVE going = {}
    BY DEF NobodySearchesInOp
<1>1. Searching = {}
    BY DEF SessionInv, SearchInv, Finishing, Looping, Lost
<1> QED
    BY <1>1 DEF Searching, going

\* As long as the mirror is fresh whenever a session is on and every drive is in
\* OP, no axis is left searching between sessions (em_home_finish,
\* finishHoming, em_recover_op).
THEOREM MirrorKeepsSearchesEnded == Spec /\ []MirrorKept => []NobodySearchesInOp
<1>1. Init => SessionInv
    BY SessionBegins
<1>2. SessionInv /\ MirrorKept /\ [Next]_vars => SessionInv'
    BY SessionKept
<1> QED
    BY <1>1, <1>2, NobodySearches, PTL DEF Spec

\* And as long as that is so, a stop that has reached the worker ends every search
\* at the next look at the axes (serviceHoming).
THEOREM MirrorKeepsStopsObeyed == Spec /\ []MirrorKept => StopEndsSearch
<1>1. Init => SessionInv
    BY SessionBegins
<1>2. SessionInv /\ MirrorKept /\ [Next]_vars => SessionInv' /\ StopEndsNow
    BY SessionKept
<1> QED
    BY <1>1, <1>2, PTL DEF Spec, StopEndsSearch, StopEndsNow

\* Without disturbances it is so.
LEMMA MirrorStaysFresh ==
    ASSUME Undisturbed
    PROVE  Spec => [](SessionInv /\ MirrorKept /\ GlitchInv)
<1>1. Init => SessionInv /\ MirrorKept /\ GlitchInv
    BY SessionBegins
<1>2. SessionInv /\ MirrorKept /\ GlitchInv /\ [Next]_vars => (SessionInv /\ MirrorKept /\ GlitchInv)'
    <2> SUFFICES ASSUME SessionInv, MirrorKept, GlitchInv, [Next]_vars
                 PROVE  (SessionInv /\ MirrorKept /\ GlitchInv)'
        OBVIOUS
    <2>1. PeersInv /\ TodoInv /\ DrivesTyped /\ Where
        BY DEF SessionInv, Values
    <2> QED
        BY <2>1, SessionKept, MirrorStep, GlitchKept
<1> QED
    BY <1>1, <1>2, PTL DEF Spec

\* No axis searches between sessions while every drive is in OP, for any number of
\* axes, commands, faults and stops: where only drives that left OP cost frames,
\* or where none leaves OP and fewer frames come back short than spoil the mirror
\* (em_home_finish, finishHoming, em_recover_op).
THEOREM NobodyLeftSearching ==
    ASSUME Undisturbed
    PROVE  Spec => []NobodySearchesInOp
    BY MirrorStaysFresh, NobodySearches, PTL

\* Under the same condition a stop that has reached the worker ends every search at
\* the next look at the axes, whatever was homed before (serviceHoming).
THEOREM StopEndsEverySearch ==
    ASSUME Undisturbed
    PROVE  Spec => StopEndsSearch
<1>1. SessionInv /\ MirrorKept /\ GlitchInv /\ [Next]_vars => StopEndsNow
    BY SessionKept
<1> QED
    BY <1>1, MirrorStaysFresh, PTL DEF Spec, StopEndsSearch, StopEndsNow
===============================================================================
