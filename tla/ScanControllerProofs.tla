------------------------- MODULE ScanControllerProofs -------------------------
(***************************************************************************)
(* Theorems about the scan state machine, for every set of parameters, any *)
(* number of files and axes and every choice of the time budgets.          *)
(***************************************************************************)
EXTENDS ScanController, ScanPlanProofs

\* Between runs the place in the order is reset and no leg is on; during a run
\* the order has a point left, that point is the one being measured, and every
\* member of the order is an index of the plan.
Walking ==
    /\ ~Running => ord_i = 0 /\ fly = NoFly
    /\ Running => ord_i < Len(order) /\ cur = order[ord_i + 1] /\ OrderInPlan

\* On legs: the last cell of the order ends a leg, and the place on the leg is
\* the place in the order; a stage on its way to a leg is to start where it is.
OnLegs ==
    /\ st = "Traversing" => fly.on
    /\ fly.on =>
        /\ st \in {"Moving", "Traversing", "Paused"}
        /\ ~is_retest
        /\ fly.ends \in SUBSET (1 .. Len(order)) /\ Len(order) \in fly.ends
        /\ fly.at = ord_i + 1 /\ fly.at0 \in 1 .. fly.at
        /\ st \in {"Moving", "Paused"} => fly.at0 = fly.at

\* The plan is the one of the parameters, as far as rebuildPlan can tell.
PlanOfParams == SameGeom(p, plan_p) /\ p.mode = plan_p.mode

\* The inductive invariant (with PlanOfParams).
IInv == TypeOK /\ Walking /\ OnLegs /\ SampleOfItsCell

USE DEF Running, Active

-----------------------------------------------------------------------------
(* Types of the pieces.                                                    *)

LEMMA NoFlyType ==
    /\ NoCell \in Cell
    /\ NoFly \in FlyState
BY DEF NoFly, NoCell, Cell, FlyState

\* A plan of finitely many cells is a sequence.
LEMMA PlanIsSeq ==
    ASSUME NEW C, IsFiniteSet(C), C \subseteq Cell, NEW q, IsPlanOf(q, C)
    PROVE  q \in Seq(Cell)
<1>1. Cardinality(C) \in Nat
    BY FS_CardinalityType
<1>2. q \in [1 .. Cardinality(C) -> C]
    BY DEF IsPlanOf
<1>3. q \in Seq(C)
    BY <1>1, <1>2, SeqDef
<1>4. QED
    BY <1>3, SeqMonotonic

LEMMA BuildPlanType ==
    ASSUME NEW q \in Params
    PROVE  BuildPlan(q) \in Seq(Cell)
<1>1. CASE ParamsError(q)
    BY <1>1, EmptySeq DEF BuildPlan
<1>2. CASE ~ParamsError(q)
    <2>1. IsPlanOf(BuildPlan(q), Cells(q)) /\ IsParams(q)
        BY <1>2, ParamsAssumption, PlanCoversItsGrid
    <2>2. q.nx \in Nat /\ q.ny \in Nat
        BY <2>1 DEF IsParams
    <2>3. IsFiniteSet(Cells(q))
        <3>1. IsFiniteSet(0 .. q.nx - 1) /\ IsFiniteSet(0 .. q.ny - 1)
            <4>1. q.nx - 1 \in Int /\ q.ny - 1 \in Int /\ 0 \in Int
                BY <2>2
            <4>2. QED
                BY <4>1, FS_Interval
        <3>2. QED
            BY <3>1, FS_Product DEF Cells
    <2>4. Cells(q) \subseteq Cell
        BY <2>2 DEF Cells, Cell
    <2>5. QED
        BY <2>1, <2>3, <2>4, PlanIsSeq
<1>3. QED
    BY <1>1, <1>2

\* A shuffle is a plan of the same length.
LEMMA ShufflesType ==
    ASSUME NEW pl \in Seq(Cell), NEW q \in Shuffles(pl)
    PROVE  q \in Seq(Cell) /\ DOMAIN q = DOMAIN pl /\ Len(q) = Len(pl)
<1>1. DOMAIN pl = 1 .. Len(pl) /\ Len(pl) \in Nat
    BY LenProperties
<1>2. \A k \in DOMAIN pl : pl[k] \in Cell
    BY <1>1, ElementOfSeq
<1>3. q \in [1 .. Len(pl) -> Cell]
    BY <1>1, <1>2 DEF Shuffles
<1>4. q \in Seq(Cell)
    BY <1>1, <1>3, SeqDef
<1>5. DOMAIN q = 1 .. Len(q) /\ Len(q) \in Nat
    BY <1>4, LenProperties
<1>6. QED
    BY <1>1, <1>3, <1>4, <1>5

LEMMA AllOfType ==
    ASSUME NEW pl \in Seq(Cell)
    PROVE  /\ AllOf(pl) \in Seq(Nat \ {0})
           /\ \A i \in DOMAIN AllOf(pl) : AllOf(pl)[i] \in DOMAIN pl
<1>1. DOMAIN pl = 1 .. Len(pl) /\ Len(pl) \in Nat
    BY LenProperties
<1>2. AllOf(pl) \in [1 .. Len(pl) -> Nat \ {0}]
    BY <1>1 DEF AllOf
<1>3. AllOf(pl) \in Seq(Nat \ {0})
    BY <1>1, <1>2, SeqDef
<1>4. QED
    BY <1>1, <1>3 DEF AllOf

LEMMA ElapseType ==
    ASSUME NEW l \in Times, NEW dt \in Int
    PROVE  Elapse(l, dt) \in Times
BY DEF Elapse, Less, Times

\* A new deadline for what follows a move.
LEMMA DeadlineType ==
    ASSUME NEW l \in Times, NEW d \in Int
    PROVE  [l EXCEPT !.deadline = d, !.move = -1] \in Times
<1> DEFINE m == [l EXCEPT !.deadline = d]
<1>1. m \in Times
    BY DEF Times
<1>2. [m EXCEPT !.move = -1] \in Times
    <2> HIDE DEF m
    <2>1. QED
        BY <1>1 DEF Times
<1>3. QED
    BY <1>2

LEMMA FlushType ==
    ASSUME NEW l \in Times, NEW d \in Int
    PROVE  [l EXCEPT !.flush = d] \in Times /\ [l EXCEPT !.flush = d, !.move = -1] \in Times
<1> DEFINE m == [l EXCEPT !.flush = d]
<1>1. m \in Times
    BY DEF Times
<1>2. [m EXCEPT !.move = -1] \in Times
    <2> HIDE DEF m
    <2>1. QED
        BY <1>1 DEF Times
<1>3. QED
    BY <1>1, <1>2

-----------------------------------------------------------------------------
(* Steps that leave the place in the order alone.                          *)

\* Nothing of the state but the clock of the point, its confirmations, the
\* working counter and what is on disk changes.
LEMMA StayStep ==
    ASSUME IInv,
           UNCHANGED <<gridVars, run_p, runVars, fly, st, cur, nsamp, log, epochVars>>,
           left' \in Times,
           want_ok' \subseteq Axis, bad_wkc' \in Nat, DOMAIN files' = Paths
    PROVE  IInv'
BY DEF IInv, TypeOK, Walking, OnLegs, SampleOfItsCell, OrderInPlan, gridVars, runVars,
       epochVars

\* The run is over or has not begun: no leg is on and the place is reset.
LEMMA RestStep ==
    ASSUME IInv,
           p' \in Params, plan_p' \in Params, run_p' \in Params, plan' \in Seq(Cell),
           st' \in States \ {"Moving", "Dwelling", "Reading", "Traversing", "Paused"},
           order' \in Seq(Nat \ {0}), ord_i' = 0, cur' \in Nat, fly' = NoFly,
           is_retest' \in BOOLEAN, endless' \in BOOLEAN,
           left' \in Times,
           nsamp' \in Nat, bad_wkc' \in Nat, want_ok' \subseteq Axis,
           log' \in Paths \union {NoPath}, DOMAIN files' = Paths,
           zero_epoch' \in Nat, load_epoch' \in Int
    PROVE  IInv'
<1>1. Len(order') \in Nat
    BY LenProperties
<1>2. TypeOK'
    BY <1>1, NoFlyType DEF TypeOK
<1>3. Walking'
    BY DEF Walking
<1>4. OnLegs' /\ SampleOfItsCell'
    BY DEF OnLegs, SampleOfItsCell, NoFly
<1>5. QED
    BY <1>2, <1>3, <1>4 DEF IInv

LEMMA StartPointType ==
    ASSUME NEW k, StartPoint(k)
    PROVE  /\ left' \in Times
           /\ nsamp' \in Nat /\ want_ok' \subseteq Axis
           /\ st' = "Moving" /\ cur' = k
<1>1. MoveLimit \in Int /\ WantConfirm \in Int
    BY BoundsAssumption
<1>2. left' = [deadline |-> -1, move |-> MoveLimit, flush |-> -1, want |-> WantConfirm]
    BY DEF StartPoint, NoDeadline
<1>3. left' \in Times
    BY <1>1, <1>2 DEF Times
<1>4. QED
    BY <1>3 DEF StartPoint

\* armRun: a run begins at the first member of an order within the plan.
LEMMA ArmStep ==
    ASSUME IInv,
           NEW pl \in Seq(Cell), NEW ord \in Seq(Nat \ {0}), NEW retest \in BOOLEAN,
           ord # <<>>, \A i \in DOMAIN ord : ord[i] \in DOMAIN pl,
           ArmRun(pl, ord, retest),
           plan' = pl, order' = ord, is_retest' = retest, endless' \in BOOLEAN,
           p' \in Params, plan_p' \in Params, p \in Params,
           log' \in Paths \union {NoPath}, DOMAIN files' = Paths,
           zero_epoch' \in Nat, load_epoch' \in Int
    PROVE  IInv'
<1>1. Len(ord) \in Nat \ {0} /\ DOMAIN ord = 1 .. Len(ord)
    BY EmptySeq, LenProperties
<1>2. ord[1] \in Nat \ {0}
    BY <1>1, ElementOfSeq
<1>3. StartPoint(ord[1]) /\ ord_i' = 0 /\ run_p' = p /\ bad_wkc' = 0
    BY DEF ArmRun
<1>4. /\ left' \in Times
      /\ nsamp' \in Nat /\ want_ok' \subseteq Axis
      /\ st' = "Moving" /\ cur' = ord[1]
    BY <1>3, StartPointType
<1>5. DEFINE ends == LegEnds(p, pl, ord)
<1>6. ends \in SUBSET (1 .. Len(ord)) /\ Len(ord) \in ends
    BY <1>1 DEF LegEnds
<1> HIDE DEF ends
<1>7. \/ fly' = NoFly
      \/ fly' = [NoFly EXCEPT !.on = TRUE, !.ends = ends] /\ retest = FALSE
    BY DEF ArmRun, ends
<1>8. ends \in SUBSET Nat
    BY <1>1, <1>6
<1>9. TypeOK'
    <2>1. fly' \in FlyState
        BY <1>7, <1>8, NoFlyType DEF FlyState
    <2>2. 0 \in 0 .. Len(ord) /\ "Moving" \in States
        BY <1>1 DEF States
    <2>3. QED
        BY <1>2, <1>3, <1>4, <2>1, <2>2 DEF TypeOK
<1>10. Walking'
    BY <1>1, <1>3, <1>4 DEF Walking, OrderInPlan
<1>11. OnLegs' /\ SampleOfItsCell'
    <2>1. CASE fly' = NoFly
        BY <1>4, <2>1 DEF OnLegs, SampleOfItsCell, NoFly
    <2>2. CASE fly' # NoFly
        <3>1. /\ fly'.ends = ends /\ fly'.at = 1 /\ fly'.at0 = 1 /\ fly'.sample = NoCell
              /\ retest = FALSE
            BY <1>7, <2>2 DEF NoFly
        <3>2. QED
            BY <1>1, <1>3, <1>4, <1>6, <3>1 DEF OnLegs, SampleOfItsCell
    <2>3. QED
        BY <2>1, <2>2
<1>12. QED
    BY <1>9, <1>10, <1>11 DEF IInv

\* finishRun, whatever the files are.
LEMMA FinishStep ==
    ASSUME IInv, FinishRun, plan' \in Seq(Cell), bad_wkc' \in Nat,
           UNCHANGED <<p, plan_p, run_p, log, epochVars>>, DOMAIN files' = Paths
    PROVE  IInv'
<1>1. <<>> \in Seq(Nat \ {0})
    BY EmptySeq
<1>2. NoDeadline \in Times
    BY DEF NoDeadline, Times
<1>3. QED
    BY <1>1, <1>2, RestStep DEF FinishRun, IInv, TypeOK, States, epochVars

\* abortInternal with stageResumeAfterAbort.
LEMMA AbortStep ==
    ASSUME IInv, NEW d, NEW more, AbortRun(d, more), DOMAIN files' = Paths
    PROVE  IInv'
<1>1. plan \in Seq(Cell) /\ order \in Seq(Nat \ {0})
    BY DEF IInv, TypeOK
<1>2. AllOf(plan) \in Seq(Nat \ {0}) /\ PendingOrder(plan, d) \in Seq(Nat \ {0})
    BY <1>1, AllOfType, PendingOrderProperties
<1>3. order' \in Seq(Nat \ {0})
    BY <1>1, <1>2 DEF AbortRun
<1>4. NoDeadline \in Times
    BY DEF NoDeadline, Times
<1>5. /\ p' = p /\ plan_p' = plan_p /\ run_p' = run_p /\ plan' = plan
      /\ st' = "Aborted" /\ ord_i' = 0 /\ cur' = 0 /\ fly' = NoFly
      /\ is_retest' = is_retest /\ endless' = endless
      /\ left' = NoDeadline /\ nsamp' = 0 /\ bad_wkc' = 0 /\ want_ok' = {}
      /\ log' = log /\ zero_epoch' = zero_epoch /\ load_epoch' = zero_epoch
    BY DEF AbortRun, gridVars
<1>6. /\ p \in Params /\ plan_p \in Params /\ run_p \in Params
      /\ is_retest \in BOOLEAN /\ endless \in BOOLEAN
      /\ log \in Paths \union {NoPath} /\ zero_epoch \in Nat
    BY DEF IInv, TypeOK
<1>7. zero_epoch \in Int /\ 0 \in Nat /\ "Aborted" \in States
    BY <1>6 DEF States
<1>8. QED
    BY <1>1, <1>3, <1>4, <1>5, <1>6, <1>7, RestStep

\* Writing rows keeps the set of files.
LEMMA LogRowsFiles ==
    ASSUME DOMAIN files = Paths, NEW S, NEW okS, NEW first, LogRows(S, okS, first)
    PROVE  DOMAIN files' = Paths
BY DEF LogRows

LEMMA LogFailsStep ==
    ASSUME IInv, NEW S, NEW okS, NEW first, NEW c, LogFails(S, okS, first, c)
    PROVE  IInv'
<1>1. DOMAIN files' = Paths
    BY DEF LogFails, IInv, TypeOK
<1>2. PICK d, more : AbortRun(d, more)
    BY DEF LogFails
<1>3. QED
    BY <1>1, <1>2, AbortStep

-----------------------------------------------------------------------------
(* Parameters, files and the zero point.                                   *)

LEMMA InitInv == Init => IInv
<1> SUFFICES ASSUME Init PROVE IInv
    OBVIOUS
<1>1. plan \in Seq(Cell)
    BY BuildPlanType DEF Init
<1>2. NoDeadline \in Times
    BY DEF NoDeadline, Times
<1>3. <<>> \in Seq(Nat \ {0}) /\ Len(<<>>) = 0
    BY EmptySeq
<1>4. TypeOK
    <2>1. {p, plan_p, run_p} \subseteq Params
        BY DEF Init
    <2>2. st \in States /\ log \in Paths \union {NoPath} /\ DOMAIN files = Paths
        BY DEF Init, States
    <2>3. order \in Seq(Nat \ {0}) /\ ord_i \in 0 .. Len(order)
        BY <1>3 DEF Init
    <2>4. /\ is_retest \in BOOLEAN /\ endless \in BOOLEAN
        BY DEF Init
    <2>5. /\ cur \in Nat
          /\ nsamp \in Nat /\ bad_wkc \in Nat /\ want_ok \subseteq Axis
          /\ zero_epoch \in Nat /\ load_epoch \in Int
        BY DEF Init
    <2>6. /\ left \in Times
          /\ fly \in FlyState
        BY <1>2, NoFlyType DEF Init
    <2>7. QED
        BY <1>1, <2>1, <2>2, <2>3, <2>4, <2>5, <2>6 DEF TypeOK
<1>5. Walking /\ OnLegs /\ SampleOfItsCell
    BY DEF Init, Walking, OnLegs, SampleOfItsCell, NoFly
<1>6. QED
    BY <1>4, <1>5 DEF IInv

\* What every action finds.
LEMMA TypesNow ==
    ASSUME IInv
    PROVE  /\ p \in Params /\ plan_p \in Params /\ run_p \in Params
           /\ plan \in Seq(Cell) /\ order \in Seq(Nat \ {0})
           /\ ord_i \in Nat /\ cur \in Nat
           /\ is_retest \in BOOLEAN /\ endless \in BOOLEAN
           /\ left \in Times
           /\ nsamp \in Nat /\ bad_wkc \in Nat /\ want_ok \subseteq Axis
           /\ log \in Paths \union {NoPath} /\ DOMAIN files = Paths
           /\ zero_epoch \in Nat /\ load_epoch \in Int
BY DEF IInv, TypeOK

LEMMA AtRest ==
    ASSUME IInv, ~Running
    PROVE  ord_i = 0 /\ fly = NoFly
BY DEF IInv, Walking

LEMMA PrepareRunPlanType ==
    ASSUME IInv, PrepareRunPlan, p' = p
    PROVE  plan' \in Seq(Cell) /\ plan_p' \in Params
<1>1. p \in Params /\ plan \in Seq(Cell) /\ plan_p \in Params /\ BuildPlan(p) \in Seq(Cell)
    BY TypesNow, BuildPlanType
<1>2. plan' \in Seq(Cell)
    BY <1>1, ShufflesType DEF PrepareRunPlan
<1>3. QED
    BY <1>1, <1>2 DEF PrepareRunPlan

\* The zero point can move at any time: nothing of the run is about it.
LEMMA SetZeroEpochInv ==
    ASSUME IInv, SetZeroEpoch
    PROVE  IInv'
<1>1. UNCHANGED <<p, plan_p, run_p, plan, st, order, ord_i, cur, is_retest, endless, fly,
                  left, nsamp, bad_wkc, want_ok, log, files, load_epoch>>
    BY DEF SetZeroEpoch, gridVars, runVars, pointVars, diskVars
<1>2. zero_epoch' \in Nat
    BY TypesNow DEF SetZeroEpoch
<1>3. TypeOK'
    BY <1>1, <1>2 DEF IInv, TypeOK
<1>4. Walking' /\ OnLegs' /\ SampleOfItsCell'
    BY <1>1 DEF IInv, Walking, OnLegs, SampleOfItsCell, OrderInPlan
<1>5. QED
    BY <1>3, <1>4 DEF IInv

LEMMA NewFileInv ==
    ASSUME IInv, NewFile
    PROVE  IInv'
<1>1. /\ p' = p /\ plan_p' = plan_p /\ run_p' = run_p /\ plan' = plan
      /\ st' = "Idle" /\ order' = <<>> /\ ord_i' = 0 /\ cur' = 0 /\ fly' = NoFly
      /\ is_retest' = FALSE /\ endless' = FALSE /\ left' = left
      /\ nsamp' = nsamp /\ bad_wkc' = bad_wkc /\ want_ok' = want_ok
      /\ log' = NoPath /\ files' = files /\ zero_epoch' = zero_epoch /\ load_epoch' = -1
    BY DEF NewFile, ResetRunState, gridVars
<1>2. <<>> \in Seq(Nat \ {0}) /\ "Idle" \in States /\ -1 \in Int /\ 0 \in Nat
    BY EmptySeq DEF States
<1>3. QED
    BY <1>1, <1>2, TypesNow, RestStep

\* An order made by start or loadResume is within the plan it is made for.
LEMMA PreparedOrder ==
    ASSUME NEW pl \in Seq(Cell), NEW d, NEW ord,
           ord = AllOf(pl) \/ ord = PendingOrder(pl, d)
    PROVE  ord \in Seq(Nat \ {0}) /\ \A i \in DOMAIN ord : ord[i] \in DOMAIN pl
<1>1. PendingOrder(pl, d) \in Seq(Nat \ {0})
    BY PendingOrderProperties
<1>2. \A i \in DOMAIN PendingOrder(pl, d) : PendingOrder(pl, d)[i] \in DOMAIN pl
    BY PendingOrderProperties
<1>3. QED
    BY <1>1, <1>2, AllOfType

LEMMA StartPreparedType ==
    ASSUME IInv, NEW path \in Paths, StartPrepared(path)
    PROVE  /\ p' = p /\ plan' \in Seq(Cell) /\ plan_p' \in Params
           /\ order' \in Seq(Nat \ {0}) /\ \A i \in DOMAIN order' : order'[i] \in DOMAIN plan'
           /\ endless' \in BOOLEAN /\ is_retest' = FALSE
           /\ zero_epoch' = zero_epoch /\ load_epoch' = load_epoch /\ ~Running
<1>1. p' = p /\ plan' \in Seq(Cell) /\ plan_p' \in Params
    BY PrepareRunPlanType DEF StartPrepared
<1>2. endless' \in BOOLEAN
    BY DEF StartPrepared, ModeEndless
<1>3. order' = AllOf(plan')
    BY DEF StartPrepared
<1>4. QED
    BY <1>1, <1>2, <1>3, AllOfType DEF StartPrepared, epochVars

LEMMA StartInv ==
    ASSUME IInv, NEW path \in Paths, NEW o \in Observations, Start(path, o)
    PROVE  IInv'
<1>1. StartPrepared(path) /\ log' = path /\ DOMAIN files' = Paths
      /\ ArmRun(plan', order', FALSE) /\ order' # <<>>
    BY TypesNow DEF Start, CanArm
<1>2. QED
    BY <1>1, StartPreparedType, TypesNow, ArmStep

LEMMA StartRefusedInv ==
    ASSUME IInv, NEW path \in Paths, NEW o \in Observations, StartRefused(path, o)
    PROVE  IInv'
<1>1. /\ StartPrepared(path) /\ log' = NoPath /\ cur' = 0 /\ run_p' = run_p
      /\ st' = st /\ ord_i' = ord_i /\ fly' = fly /\ nsamp' = nsamp /\ left' = left
      /\ want_ok' = want_ok /\ bad_wkc' = bad_wkc
    BY DEF StartRefused
<1>2. DOMAIN files' = Paths
    BY TypesNow DEF StartRefused
<1>3. ord_i = 0 /\ fly = NoFly
    BY <1>1, StartPreparedType, AtRest
<1>4. st' \in States \ {"Moving", "Dwelling", "Reading", "Traversing", "Paused"}
    BY <1>1, StartPreparedType DEF IInv, TypeOK
<1>5. QED
    BY <1>1, <1>2, <1>3, <1>4, StartPreparedType, TypesNow, RestStep

LEMMA LoadResumeInv ==
    ASSUME IInv, NEW path \in Paths, LoadResume(path)
    PROVE  IInv'
<1>1. ord_i = 0 /\ fly = NoFly
    BY AtRest DEF LoadResume
<1>2. p' = p /\ plan' \in Seq(Cell) /\ plan_p' \in Params
    BY PrepareRunPlanType DEF LoadResume
<1>3. order' = AllOf(plan') \/ order' = PendingOrder(plan', done')
    BY DEF LoadResume
<1>4. order' \in Seq(Nat \ {0})
    BY <1>2, <1>3, PreparedOrder
<1>5. /\ st' = "Loaded" /\ ord_i' = 0 /\ cur' = 0 /\ fly' = NoFly /\ run_p' = p
      /\ is_retest' = FALSE /\ left' = left /\ nsamp' = nsamp /\ bad_wkc' = 0
      /\ want_ok' = want_ok /\ log' = path /\ zero_epoch' = zero_epoch
      /\ load_epoch' = zero_epoch
    BY <1>1 DEF LoadResume
<1>6. endless' \in BOOLEAN /\ DOMAIN files' = Paths
    BY TypesNow DEF LoadResume, ModeEndless
<1>7. "Loaded" \in States /\ 0 \in Nat /\ zero_epoch \in Int
    BY TypesNow DEF States
<1>8. QED
    BY <1>2, <1>4, <1>5, <1>6, <1>7, TypesNow, RestStep

LEMMA LoadRefusedInv ==
    ASSUME IInv, NEW path \in Paths, LoadRefused(path)
    PROVE  IInv'
<1>1. log' = NoPath \/ log' = log
    BY DEF LoadRefused
<1>2. DOMAIN files' = Paths
    BY TypesNow DEF LoadRefused
<1>3. UNCHANGED <<gridVars, run_p, runVars, fly, st, cur, nsamp, left, want_ok, bad_wkc,
                  epochVars>>
    BY DEF LoadRefused, pointVars
<1>4. ord_i = 0 /\ fly = NoFly
    BY AtRest DEF LoadRefused
<1>5. st' \in States \ {"Moving", "Dwelling", "Reading", "Traversing", "Paused"}
    BY <1>3 DEF LoadRefused, IInv, TypeOK
<1>6. QED
    BY <1>1, <1>2, <1>3, <1>4, <1>5, TypesNow, RestStep DEF gridVars, runVars, epochVars

-----------------------------------------------------------------------------
(* Runs.                                                                   *)

LEMMA BeginLoadedRunInv ==
    ASSUME IInv, NEW o \in Observations, BeginLoadedRun(o)
    PROVE  IInv'
<1>1. ArmRun(plan, order, is_retest) /\ order # <<>>
    BY DEF BeginLoadedRun, CanContinue, CanArm
<1>2. \A i \in DOMAIN order : order[i] \in DOMAIN plan
    BY DEF BeginLoadedRun, OrderInPlan
<1>3. UNCHANGED <<p, plan_p, plan, order, is_retest, endless, log, files, zero_epoch,
                  load_epoch>>
    BY DEF BeginLoadedRun, gridVars, diskVars, epochVars
<1>4. QED
    BY <1>1, <1>2, <1>3, TypesNow, ArmStep

LEMMA ReadPastPlanInv ==
    ASSUME IInv, NEW o \in Observations, ReadPastPlan(o)
    PROVE  IInv'
<1>1. ord_i = 0 /\ fly = NoFly
    BY AtRest DEF ReadPastPlan, CanContinue
<1>2. st' \in States \ {"Moving", "Dwelling", "Reading", "Traversing", "Paused"}
    BY DEF ReadPastPlan, States
<1>3. UNCHANGED <<p, plan_p, plan, run_p, order, ord_i, is_retest, endless, cur, nsamp,
                  left, want_ok, fly, bad_wkc, log, files, zero_epoch, load_epoch>>
    BY DEF ReadPastPlan, gridVars, runVars, pointVars, diskVars, epochVars
<1>4. QED
    BY <1>1, <1>2, <1>3, TypesNow, RestStep

LEMMA RetestInv ==
    ASSUME IInv, NEW k \in DOMAIN plan, NEW o \in Observations, Retest(k, o)
    PROVE  IInv'
<1>1. k \in Nat \ {0}
    BY TypesNow, LenProperties
<1>2. /\ order' = <<k>> /\ ArmRun(plan, <<k>>, TRUE) /\ is_retest' = TRUE
      /\ UNCHANGED <<p, plan_p, plan, endless, log, files, zero_epoch, load_epoch>>
    BY DEF Retest, gridVars, diskVars, epochVars
<1>3. <<k>> \in Seq(Nat \ {0}) /\ <<k>> # <<>>
      /\ \A i \in DOMAIN <<k>> : <<k>>[i] \in DOMAIN plan
    BY <1>1
<1>4. QED
    BY <1>2, <1>3, TypesNow, ArmStep

LEMMA RetestRefusedInv ==
    ASSUME IInv, NEW k \in DOMAIN plan, NEW o \in Observations, RetestRefused(k, o)
    PROVE  IInv'
<1>1. k \in Nat \ {0}
    BY TypesNow, LenProperties
<1>2. <<k>> \in Seq(Nat \ {0})
    BY <1>1
<1>3. ord_i = 0 /\ fly = NoFly
    BY AtRest DEF RetestRefused, CanRetest
<1>4. st' \in States \ {"Moving", "Dwelling", "Reading", "Traversing", "Paused"}
    BY DEF RetestRefused, CanRetest, IInv, TypeOK
<1>5. /\ order' = <<k>> /\ is_retest' = FALSE
      /\ UNCHANGED <<p, plan_p, plan, run_p, ord_i, endless, cur, nsamp,
                     left, want_ok, fly, bad_wkc, log, files, zero_epoch, load_epoch>>
    BY DEF RetestRefused, gridVars, pointVars, diskVars, epochVars
<1>6. QED
    BY <1>2, <1>3, <1>4, <1>5, TypesNow, RestStep

LEMMA RestartInv ==
    ASSUME IInv, Restart
    PROVE  IInv'
<1>1. plan' \in Seq(Cell)
    BY TypesNow, BuildPlanType DEF Restart
<1>2. DOMAIN files' = Paths
    BY TypesNow DEF Restart
<1>3. /\ p' = p /\ plan_p' = p /\ run_p' = p /\ st' = "Idle" /\ order' = <<>>
      /\ ord_i' = 0 /\ cur' = 0 /\ is_retest' = FALSE /\ endless' = FALSE /\ fly' = NoFly
      /\ nsamp' = 0 /\ left' = NoDeadline /\ want_ok' = {} /\ bad_wkc' = 0
      /\ log' = NoPath /\ load_epoch' = -1 /\ zero_epoch' = zero_epoch
    BY DEF Restart
<1>4. <<>> \in Seq(Nat \ {0}) /\ "Idle" \in States /\ 0 \in Nat /\ -1 \in Int
    BY EmptySeq DEF States
<1>5. NoDeadline \in Times
    BY DEF NoDeadline, Times
<1>6. QED
    BY <1>1, <1>2, <1>3, <1>4, <1>5, TypesNow, RestStep

-----------------------------------------------------------------------------
(* Pause, resume, abort.                                                   *)

\* A run that is on has a point, and it is the one it is at.
LEMMA AtPoint ==
    ASSUME IInv, Running
    PROVE  /\ Len(order) \in Nat /\ DOMAIN order = 1 .. Len(order)
           /\ ord_i \in 0 .. Len(order) - 1 /\ cur = order[ord_i + 1]
           /\ \A i \in 1 .. Len(order) : order[i] \in DOMAIN plan
           /\ \A i \in 1 .. Len(order) : order[i] \in Nat \ {0} /\ plan[order[i]] \in Cell
<1>1. plan \in Seq(Cell) /\ order \in Seq(Nat \ {0}) /\ ord_i \in Nat
    BY TypesNow
<1>2. Len(order) \in Nat /\ DOMAIN order = 1 .. Len(order) /\ DOMAIN plan = 1 .. Len(plan)
    BY <1>1, LenProperties
<1>3. ord_i < Len(order) /\ cur = order[ord_i + 1] /\ OrderInPlan
    BY DEF IInv, Walking
<1>4. \A i \in 1 .. Len(order) : order[i] \in DOMAIN plan
    BY <1>2, <1>3 DEF OrderInPlan
<1>5. \A i \in 1 .. Len(order) : order[i] \in Nat \ {0} /\ plan[order[i]] \in Cell
    BY <1>1, <1>2, <1>4, ElementOfSeq
<1>6. QED
    BY <1>1, <1>2, <1>3, <1>4, <1>5

\* What is known of the leg of an on-the-fly run.
LEMMA OnLeg ==
    ASSUME IInv, fly.on
    PROVE  /\ Running /\ ~is_retest
           /\ fly.ends \in SUBSET (1 .. Len(order)) /\ Len(order) \in fly.ends
           /\ fly.at = ord_i + 1 /\ fly.at0 \in 1 .. fly.at
           /\ fly.at \in 1 .. Len(order)
<1>1. /\ st \in {"Moving", "Traversing", "Paused"} /\ ~is_retest
      /\ fly.ends \in SUBSET (1 .. Len(order)) /\ Len(order) \in fly.ends
      /\ fly.at = ord_i + 1 /\ fly.at0 \in 1 .. fly.at
    BY DEF IInv, OnLegs
<1>2. Running
    BY <1>1
<1>3. ord_i + 1 \in 1 .. Len(order)
    BY <1>2, AtPoint
<1>4. QED
    BY <1>1, <1>2, <1>3

LEMMA FlyType ==
    ASSUME IInv
    PROVE  fly \in FlyState
BY DEF IInv, TypeOK

\* A step that stays at the same point, in the same run.
LEMMA SamePointStep ==
    ASSUME IInv, Running,
           UNCHANGED <<gridVars, run_p, runVars, cur, log, epochVars>>,
           st' \in {"Moving", "Dwelling", "Reading", "Traversing", "Paused"},
           fly' \in FlyState,
           left' \in Times,
           nsamp' \in Nat, bad_wkc' \in Nat, want_ok' \subseteq Axis, DOMAIN files' = Paths,
           OnLegs', SampleOfItsCell'
    PROVE  IInv'
<1>1. UNCHANGED <<p, plan_p, plan, run_p, order, ord_i, is_retest, endless, cur, log,
                  zero_epoch, load_epoch>>
    BY DEF gridVars, runVars, epochVars
<1>2. TypeOK'
    BY <1>1 DEF IInv, TypeOK, States
<1>3. Walking'
    BY <1>1 DEF IInv, Walking, OrderInPlan
<1>4. QED
    BY <1>2, <1>3 DEF IInv

\* During a run the plan is not made again, whatever parameter is adjusted.
LEMMA AdjustKeepsPlan ==
    ASSUME IInv, PlanOfParams, Running, NEW q \in Params, SetParams(q)
    PROVE  plan' = plan /\ plan_p' = plan_p
<1>1. q = [p EXCEPT !.dwell = q.dwell, !.samples = q.samples, !.fast = q.fast]
    BY DEF SetParams, Adjusts
<1>2. q.mode = p.mode /\ q.area = p.area /\ q.nx = p.nx /\ q.ny = p.ny
    <2>1. IsParams(p)
        BY TypesNow, ParamsAssumption
    <2>2. {"area", "nx", "ny", "mode"} \subseteq DOMAIN p
        BY <2>1 DEF IsParams
    <2>3. QED
        BY <1>1, <2>2
<1>3. plan # <<>>
    <2>1. ord_i + 1 \in 1 .. Len(order) /\ order[ord_i + 1] \in DOMAIN plan
        BY AtPoint
    <2>2. QED
        BY <2>1
<1>4. QED
    BY <1>2, <1>3 DEF SetParams, PlanOfParams, SameGeom

LEMMA SetParamsInv ==
    ASSUME IInv, PlanOfParams, NEW q \in Params, SetParams(q)
    PROVE  IInv'
<1>1. /\ p' = q
      /\ UNCHANGED <<run_p, st, order, ord_i, cur, is_retest, endless, left, nsamp, bad_wkc,
                     want_ok, fly, log, files, zero_epoch, load_epoch>>
    BY DEF SetParams, runVars, pointVars, diskVars, epochVars
<1>2. CASE Running
    <2>1. plan' = plan /\ plan_p' = plan_p
        BY <1>2, AdjustKeepsPlan
    <2>2. TypeOK'
        BY <1>1, <2>1 DEF IInv, TypeOK
    <2>3. Walking' /\ OnLegs' /\ SampleOfItsCell'
        BY <1>1, <2>1 DEF IInv, Walking, OnLegs, SampleOfItsCell, OrderInPlan
    <2>4. QED
        BY <2>2, <2>3 DEF IInv
<1>3. CASE ~Running
    <2>1. ord_i = 0 /\ fly = NoFly
        BY <1>3, AtRest
    <2>2. plan' \in Seq(Cell) /\ plan_p' \in Params
        BY TypesNow, BuildPlanType DEF SetParams
    <2>3. st' \in States \ {"Moving", "Dwelling", "Reading", "Traversing", "Paused"}
        BY <1>1, <1>3 DEF IInv, TypeOK
    <2>4. QED
        BY <1>1, <2>1, <2>2, <2>3, TypesNow, RestStep
<1>4. QED
    BY <1>2, <1>3

LEMMA PauseInv ==
    ASSUME IInv, Pause
    PROVE  IInv'
<1>1. /\ Running /\ st' = "Paused" /\ nsamp' = 0 /\ left' = NoDeadline /\ want_ok' = want_ok
      /\ bad_wkc' = bad_wkc /\ files' = files
      /\ UNCHANGED <<gridVars, run_p, runVars, cur, log, epochVars>>
    BY DEF Pause, diskVars
<1>2. NoDeadline \in Times
    BY DEF NoDeadline, Times
<1>3. CASE fly.on
    <2>1. fly' = [fly EXCEPT !.at0 = fly.at, !.sample = NoCell, !.started = FALSE,
                             !.at_end = FALSE, !.stop_wait = FALSE]
        BY <1>3 DEF Pause
    <2>2. fly' \in FlyState
        BY <2>1, FlyType, NoFlyType DEF FlyState
    <2>3. /\ fly'.on = fly.on /\ fly'.ends = fly.ends /\ fly'.at = fly.at /\ fly'.at0 = fly.at
          /\ fly'.sample = NoCell
        BY <2>1, FlyType
    <2>4. OnLegs'
        BY <1>1, <1>3, <2>3, OnLeg DEF OnLegs, runVars
    <2>5. SampleOfItsCell'
        BY <2>3 DEF SampleOfItsCell
    <2>6. QED
        BY <1>1, <1>2, <2>2, <2>4, <2>5, TypesNow, SamePointStep
<1>4. CASE ~fly.on
    <2>1. fly' = fly
        BY <1>4 DEF Pause
    <2>2. fly.sample = NoCell
        BY <1>4 DEF IInv, OnLegs, SampleOfItsCell
    <2>3. OnLegs' /\ SampleOfItsCell'
        BY <1>1, <1>4, <2>1, <2>2 DEF OnLegs, SampleOfItsCell
    <2>4. QED
        BY <1>1, <1>2, <2>1, <2>3, FlyType, TypesNow, SamePointStep
<1>5. QED
    BY <1>3, <1>4

\* Ordering the stage to the point it is at, from wherever it is on the way.
LEMMA ResumeRunInv ==
    ASSUME IInv, ResumeRun
    PROVE  IInv'
<1>1. /\ Running /\ StartPoint(cur) /\ fly' = fly /\ bad_wkc' = bad_wkc /\ files' = files
      /\ st = "Paused"
      /\ UNCHANGED <<gridVars, run_p, runVars, log, epochVars>>
    BY DEF ResumeRun, diskVars
<1>2. /\ left' \in Times
      /\ nsamp' \in Nat /\ want_ok' \subseteq Axis /\ st' = "Moving" /\ cur' = cur
    BY <1>1, StartPointType
<1>3. OnLegs' /\ SampleOfItsCell'
    BY <1>1, <1>2 DEF IInv, OnLegs, SampleOfItsCell, runVars
<1>4. QED
    BY <1>1, <1>2, <1>3, FlyType, TypesNow, SamePointStep

LEMMA AbortInv ==
    ASSUME IInv, Abort
    PROVE  IInv'
BY TypesNow, AbortStep DEF Abort

-----------------------------------------------------------------------------
(* The refresh.                                                            *)

LEMMA PassesType ==
    ASSUME IInv, NEW dt \in 1 .. MaxStep, NEW o \in Observations, NEW l,
           l = Elapse(left, dt), NoteHealth(o)
    PROVE  /\ l \in Times
           /\ bad_wkc' \in Nat /\ Confirmed(o) \subseteq Axis
<1>1. dt \in Int
    BY BoundsAssumption
<1>2. l \in Times
    BY <1>1, TypesNow, ElapseType
<1>3. bad_wkc' \in Nat
    BY TypesNow DEF NoteHealth
<1>4. o.want \subseteq Axis
    BY ObservationsAssumption DEF Observation
<1>5. Confirmed(o) \subseteq Axis
    BY <1>4, TypesNow DEF Confirmed
<1>6. QED
    BY <1>2, <1>3, <1>5

LEMMA TickUnhealthyInv ==
    ASSUME IInv, NEW dt \in 1 .. MaxStep, NEW o \in Observations, TickUnhealthy(dt, o)
    PROVE  IInv'
BY TypesNow, AbortStep DEF TickUnhealthy

LEMMA TickPausedInv ==
    ASSUME IInv, NEW dt \in 1 .. MaxStep, NEW o \in Observations, TickPaused(dt, o)
    PROVE  IInv'
<1>1. bad_wkc' \in Nat
    BY PassesType DEF TickPaused, Passes
<1>2. UNCHANGED <<gridVars, run_p, runVars, fly, st, cur, nsamp, log, epochVars>>
    BY DEF TickPaused, pointVars, diskVars
<1>3. left' = left /\ want_ok' = want_ok /\ files' = files
    BY DEF TickPaused, pointVars, diskVars
<1>4. QED
    BY <1>1, <1>2, <1>3, TypesNow, StayStep

\* A tick that only waits.
LEMMA WaitStep ==
    ASSUME IInv, NEW dt \in 1 .. MaxStep, NEW o \in Observations,
           NoteHealth(o), Wait(o, Elapse(left, dt)),
           UNCHANGED <<gridVars, run_p, runVars, fly, log, files, epochVars>>
    PROVE  IInv'
<1>1. /\ left' \in Times
      /\ bad_wkc' \in Nat /\ want_ok' \subseteq Axis
    BY PassesType DEF Wait
<1>2. UNCHANGED <<st, cur, nsamp>>
    BY DEF Wait
<1>3. QED
    BY <1>1, <1>2, TypesNow, StayStep

\* At a stop no leg is on.
LEMMA StopStep ==
    ASSUME IInv, Running, ~fly.on, fly' = fly,
           UNCHANGED <<gridVars, run_p, runVars, cur, log, files, epochVars>>,
           st' \in {"Moving", "Dwelling", "Reading"}, nsamp' \in Nat,
           left' \in Times,
           bad_wkc' \in Nat, want_ok' \subseteq Axis
    PROVE  IInv'
<1>1. fly.sample = NoCell
    BY DEF IInv, OnLegs, SampleOfItsCell
<1>2. OnLegs' /\ SampleOfItsCell'
    BY <1>1 DEF OnLegs, SampleOfItsCell
<1>3. QED
    BY <1>2, FlyType, TypesNow, SamePointStep

LEMMA BeginReadingStep ==
    ASSUME IInv, Running, ~fly.on, fly' = fly, NEW dt \in 1 .. MaxStep,
           NEW o \in Observations, NoteHealth(o), BeginReading(o, Elapse(left, dt)),
           UNCHANGED <<gridVars, run_p, runVars, log, files, epochVars>>
    PROVE  IInv'
<1> DEFINE l == Elapse(left, dt)
<1>1. /\ l \in Times
      /\ bad_wkc' \in Nat /\ Confirmed(o) \subseteq Axis
    BY PassesType
<1>2. ReadBudget \in Int
    BY BoundsAssumption
<1>3. /\ left' = [l EXCEPT !.deadline = ReadBudget, !.move = -1]
      /\ st' = "Reading" /\ nsamp' = 0 /\ want_ok' = Confirmed(o) /\ cur' = cur
    BY DEF BeginReading
<1> HIDE DEF l
<1>4. left' \in Times
    BY <1>1, <1>2, <1>3, DeadlineType
<1>5. QED
    BY <1>1, <1>3, <1>4, StopStep

LEMMA BeginDwellingStep ==
    ASSUME IInv, Running, ~fly.on, fly' = fly, NEW dt \in 1 .. MaxStep,
           NEW o \in Observations, NoteHealth(o), BeginDwelling(o, Elapse(left, dt)),
           UNCHANGED <<gridVars, run_p, runVars, log, files, epochVars>>
    PROVE  IInv'
<1> DEFINE l == Elapse(left, dt)
<1>1. /\ l \in Times
      /\ bad_wkc' \in Nat /\ Confirmed(o) \subseteq Axis
    BY PassesType
<1>2. CASE BeginReading(o, l)
    BY <1>2, BeginReadingStep
<1>3. CASE ~BeginReading(o, l)
    <2>1. /\ left' = [l EXCEPT !.deadline = p.dwell, !.move = -1]
          /\ st' = "Dwelling" /\ nsamp' = nsamp /\ want_ok' = Confirmed(o) /\ cur' = cur
        BY <1>3 DEF BeginDwelling
    <2>2. p.dwell \in Int
        BY TypesNow, ParamsAssumption DEF IsParams
    <2> HIDE DEF l
    <2>3. left' \in Times
        BY <1>1, <2>1, <2>2, DeadlineType
    <2>4. QED
        BY <1>1, <2>1, <2>3, TypesNow, StopStep
<1>4. QED
    BY <1>2, <1>3

LEMMA BeginTraverseStep ==
    ASSUME IInv, st = "Moving", fly.on, NEW dt \in 1 .. MaxStep,
           NEW o \in Observations, NoteHealth(o), BeginTraverse(o, Elapse(left, dt)),
           UNCHANGED <<gridVars, run_p, runVars, log, files, epochVars>>
    PROVE  IInv'
<1> DEFINE l == Elapse(left, dt)
<1>1. /\ l \in Times /\ bad_wkc' \in Nat /\ Confirmed(o) \subseteq Axis
    BY PassesType
<1>2. /\ st' = "Traversing" /\ cur' = order[fly.at0] /\ want_ok' = Confirmed(o)
      /\ nsamp' = nsamp
      /\ fly' = [fly EXCEPT !.at = fly.at0, !.started = FALSE, !.at_end = FALSE,
                            !.stop_wait = FALSE, !.sample = NoCell]
    BY DEF BeginTraverse
<1>3. left' \in Times
    <2>1. left' = [l EXCEPT !.flush = FlushBudget, !.move = -1]
        BY DEF BeginTraverse
    <2>2. FlushBudget \in Int
        BY BoundsAssumption
    <2> HIDE DEF l
    <2>3. QED
        BY <1>1, <2>1, <2>2, FlushType
<1>4. fly.at0 = fly.at
    BY DEF IInv, OnLegs
<1>5. fly' \in FlyState
    BY <1>2, FlyType, NoFlyType DEF FlyState
<1>6. /\ fly'.on /\ fly'.ends = fly.ends /\ fly'.at = fly.at /\ fly'.at0 = fly.at0
      /\ fly'.sample = NoCell
    BY <1>2, <1>4, FlyType DEF FlyState
<1>7. cur' = cur
    BY <1>2, <1>4, OnLeg, AtPoint
<1>8. OnLegs' /\ SampleOfItsCell'
    BY <1>2, <1>6, OnLeg DEF OnLegs, SampleOfItsCell, runVars
<1>9. QED
    BY <1>1, <1>2, <1>3, <1>5, <1>7, <1>8, TypesNow, SamePointStep

LEMMA TickMovingInv ==
    ASSUME IInv, NEW dt \in 1 .. MaxStep, NEW o \in Observations, TickMoving(dt, o)
    PROVE  IInv'
<1> DEFINE l == Elapse(left, dt)
<1>1. /\ st = "Moving" /\ NoteHealth(o)
      /\ UNCHANGED <<gridVars, run_p, runVars, log, files, epochVars>>
    BY DEF TickMoving, Passes, diskVars
<1>2. CASE Wait(o, l) /\ UNCHANGED fly
    BY <1>1, <1>2, WaitStep
<1>3. CASE fly.on /\ BeginTraverse(o, l)
    BY <1>1, <1>3, BeginTraverseStep
<1>4. CASE ~fly.on /\ BeginDwelling(o, l) /\ UNCHANGED fly
    BY <1>1, <1>4, BeginDwellingStep
<1>5. QED
    BY <1>2, <1>3, <1>4 DEF TickMoving

LEMMA TickNotArrivedInv ==
    ASSUME IInv, NEW dt \in 1 .. MaxStep, NEW o \in Observations, TickNotArrived(dt, o)
    PROVE  IInv'
BY TypesNow, AbortStep DEF TickNotArrived

\* No leg is on while a stop is made.
LEMMA AtStop ==
    ASSUME IInv, st \in {"Dwelling", "Reading"}
    PROVE  ~fly.on /\ Running
BY DEF IInv, OnLegs

LEMMA TickDwellingInv ==
    ASSUME IInv, NEW dt \in 1 .. MaxStep, NEW o \in Observations, TickDwelling(dt, o)
    PROVE  IInv'
<1> DEFINE l == Elapse(left, dt)
<1>1. /\ st = "Dwelling" /\ NoteHealth(o) /\ fly' = fly
      /\ UNCHANGED <<gridVars, run_p, runVars, log, files, epochVars>>
    BY DEF TickDwelling, Passes, diskVars
<1>2. CASE Wait(o, l)
    BY <1>1, <1>2, WaitStep
<1>3. CASE BeginReading(o, l)
    BY <1>1, <1>3, AtStop, BeginReadingStep
<1>4. QED
    BY <1>2, <1>3 DEF TickDwelling

LEMMA TickReadingInv ==
    ASSUME IInv, NEW dt \in 1 .. MaxStep, NEW o \in Observations, TickReading(dt, o)
    PROVE  IInv'
<1>1. /\ NoteHealth(o) /\ Wait(o, Elapse(left, dt)) /\ fly' = fly
      /\ UNCHANGED <<gridVars, run_p, runVars, log, files, epochVars>>
    BY DEF TickReading, Passes, diskVars
<1>2. QED
    BY <1>1, WaitStep

\* On to position n of the order, between legs or at stops.
LEMMA MoveOnStep ==
    ASSUME IInv, Running, NEW n \in 1 .. Len(order), StartPoint(order[n]), ord_i' = n - 1,
           UNCHANGED <<p, plan_p, run_p, order, is_retest, endless, log, epochVars>>,
           plan' \in Seq(Cell), DOMAIN plan' = DOMAIN plan, bad_wkc' \in Nat,
           DOMAIN files' = Paths, fly' \in FlyState, fly'.sample = NoCell,
           fly'.on => fly.on /\ fly'.ends = fly.ends /\ fly'.at = n /\ fly'.at0 = n
    PROVE  IInv'
<1>1. /\ left' \in Times /\ nsamp' \in Nat /\ want_ok' \subseteq Axis
      /\ st' = "Moving" /\ cur' = order[n]
    BY StartPointType
<1>2. /\ Len(order) \in Nat /\ DOMAIN order = 1 .. Len(order)
      /\ order[n] \in Nat \ {0} /\ order[n] \in DOMAIN plan
    BY AtPoint
<1>3. n - 1 \in 0 .. Len(order) /\ n - 1 < Len(order) /\ (n - 1) + 1 = n
    BY <1>2
<1>4. TypeOK'
    BY <1>1, <1>2, <1>3, TypesNow DEF TypeOK, States, epochVars
<1>5. Walking'
    <2>1. OrderInPlan'
        BY DEF IInv, Walking, OrderInPlan
    <2>2. QED
        BY <1>1, <1>3, <2>1 DEF Walking
<1>6. OnLegs' /\ SampleOfItsCell'
    BY <1>1, <1>3, OnLeg DEF OnLegs, SampleOfItsCell
<1>7. QED
    BY <1>4, <1>5, <1>6 DEF IInv

LEMMA AdvanceStep ==
    ASSUME IInv, st = "Reading", Advance, bad_wkc' \in Nat, DOMAIN files' = Paths,
           UNCHANGED <<p, plan_p, run_p, log, epochVars>>
    PROVE  IInv'
<1>1. /\ ~fly.on /\ Running /\ fly.sample = NoCell /\ fly \in FlyState
      /\ plan \in Seq(Cell) /\ is_retest \in BOOLEAN /\ endless \in BOOLEAN
    BY AtStop, FlyType, TypesNow DEF IInv, SampleOfItsCell
<1>2. Len(order) \in Nat /\ ord_i \in 0 .. Len(order) - 1
    BY <1>1, AtPoint
<1>3. CASE FinishRun /\ UNCHANGED plan
    BY <1>1, <1>3, FinishStep
<1>4. CASE /\ ord_i + 1 < Len(order) /\ ord_i' = ord_i + 1
           /\ StartPoint(order[ord_i + 2])
           /\ UNCHANGED <<plan, order, is_retest, endless, fly>>
    <2> DEFINE n == ord_i + 2
    <2>1. n \in 1 .. Len(order) /\ ord_i' = n - 1
        BY <1>2, <1>4
    <2>2. StartPoint(order[n])
        BY <1>4
    <2> HIDE DEF n
    <2>3. QED
        BY <1>1, <1>4, <2>1, <2>2, MoveOnStep
<1>5. CASE /\ plan' \in Shuffles(plan) /\ ord_i' = 0 /\ StartPoint(order[1])
           /\ UNCHANGED <<order, is_retest, endless, fly>>
    <2>1. plan' \in Seq(Cell) /\ DOMAIN plan' = DOMAIN plan
        BY <1>1, <1>5, ShufflesType
    <2>2. 1 \in 1 .. Len(order) /\ ord_i' = 1 - 1
        BY <1>2, <1>5
    <2>3. QED
        BY <1>1, <1>5, <2>1, <2>2, MoveOnStep
<1>6. QED
    BY <1>2, <1>3, <1>4, <1>5 DEF Advance

LEMMA FinishPointStep ==
    ASSUME IInv, st = "Reading", NEW okS, FinishPoint(okS), bad_wkc' \in Nat
    PROVE  IInv'
<1>1. DOMAIN files' = Paths
    BY TypesNow, LogRowsFiles DEF FinishPoint
<1>2. QED
    BY <1>1, AdvanceStep DEF FinishPoint

LEMMA TickReadTimeoutInv ==
    ASSUME IInv, NEW dt \in 1 .. MaxStep, NEW o \in Observations, TickReadTimeout(dt, o)
    PROVE  IInv'
<1>1. CASE FinishPoint({}) /\ NoteHealth(o)
    <2>1. bad_wkc' \in Nat
        BY <1>1, TypesNow DEF NoteHealth
    <2>2. QED
        BY <1>1, <2>1, FinishPointStep DEF TickReadTimeout
<1>2. CASE FinishPointFails
    BY <1>2, LogFailsStep DEF FinishPointFails
<1>3. QED
    BY <1>1, <1>2 DEF TickReadTimeout

LEMMA SampleReadingInv ==
    ASSUME IInv, SampleReading
    PROVE  IInv'
<1>1. CASE nsamp' = nsamp + 1
           /\ UNCHANGED <<gridVars, run_p, st, runVars, cur, left, want_ok, fly, bad_wkc,
                          done, have, diskVars, epochVars, spoil>>
    <2>1. nsamp' \in Nat /\ files' = files
          /\ UNCHANGED <<gridVars, run_p, runVars, cur, log, files, epochVars, st, left,
                         bad_wkc, want_ok, fly>>
        BY <1>1, TypesNow DEF diskVars
    <2>2. st = "Reading" /\ ~fly.on /\ Running
        BY AtStop DEF SampleReading
    <2>3. QED
        BY <2>1, <2>2, TypesNow, StopStep
<1>2. CASE FinishPoint({plan[cur]}) /\ UNCHANGED bad_wkc
    BY <1>2, TypesNow, FinishPointStep DEF SampleReading
<1>3. CASE FinishPointFails
    BY <1>3, LogFailsStep DEF FinishPointFails
<1>4. QED
    BY <1>1, <1>2, <1>3 DEF SampleReading

-----------------------------------------------------------------------------
(* Traversing.                                                             *)

LEMMA DepartType ==
    ASSUME NEW l \in Times
    PROVE  [l EXCEPT !.move = MoveLimit, !.want = WantConfirm, !.flush = -1] \in Times
<1> DEFINE m == [l EXCEPT !.move = MoveLimit]
           n == [m EXCEPT !.want = WantConfirm]
<1>1. MoveLimit \in Int /\ WantConfirm \in Int
    BY BoundsAssumption
<1>2. m \in Times
    BY <1>1 DEF Times
<1>3. n \in Times
    <2> HIDE DEF m
    <2>1. QED
        BY <1>1, <1>2 DEF Times
<1>4. [n EXCEPT !.flush = -1] \in Times
    <2> HIDE DEF n
    <2>1. QED
        BY <1>3 DEF Times
<1>5. QED
    BY <1>4

\* The stage is on its leg, which ends within the order.
LEMMA Traversing ==
    ASSUME IInv, st = "Traversing"
    PROVE  /\ fly.on /\ Running /\ End \in fly.at .. Len(order)
           /\ fly.at \in 1 .. Len(order) /\ Len(order) \in Nat
<1>1. fly.on /\ Running
    BY DEF IInv, OnLegs
<1>2. Len(order) \in Nat
    BY <1>1, AtPoint
<1>3. /\ fly.ends \in SUBSET (1 .. Len(order)) /\ Len(order) \in fly.ends
      /\ fly.at \in 1 .. Len(order)
    BY <1>1, OnLeg
<1>4. End \in fly.at .. Len(order)
    BY <1>2, <1>3, LegEndBounds DEF End
<1>5. QED
    BY <1>1, <1>2, <1>3, <1>4

\* A state of the leg at position j that keeps the rest of what is known of it.
At(f, j) ==
    /\ f \in FlyState /\ f.on /\ f.ends = fly.ends /\ f.at = j /\ f.at0 = fly.at0
    /\ f.sample \in {NoCell, plan[order[j]]}

LEMMA SeenAtType ==
    ASSUME IInv, st = "Traversing", NEW j \in fly.at .. Len(order)
    PROVE  At(SeenAt(j), j)
<1>1. /\ fly \in FlyState /\ fly.on /\ fly.sample \in {NoCell, plan[order[fly.at]]}
      /\ j \in Nat
    BY FlyType, Traversing DEF IInv, SampleOfItsCell
<1>2. CASE j = fly.at
    BY <1>1, <1>2 DEF SeenAt, At
<1>3. CASE j # fly.at
    <2>1. SeenAt(j) = [fly EXCEPT !.at = j, !.sample = NoCell, !.stop_wait = FALSE]
        BY <1>3 DEF SeenAt
    <2>2. SeenAt(j) \in FlyState
        BY <1>1, <2>1, NoFlyType DEF FlyState
    <2>3. QED
        BY <1>1, <2>1, <2>2 DEF FlyState, At
<1>4. QED
    BY <1>2, <1>3

\* A step along the leg.
LEMMA OnLegStep ==
    ASSUME IInv, st = "Traversing", NEW j \in fly.at .. Len(order), At(fly', j),
           cur' = order[j], ord_i' = ord_i + (j - fly.at),
           UNCHANGED <<gridVars, run_p, st, order, is_retest, endless, nsamp, log,
                       epochVars>>,
           DOMAIN files' = Paths, left' \in Times, want_ok' \subseteq Axis, bad_wkc' \in Nat
    PROVE  IInv'
<1>1. /\ fly.on /\ ~is_retest /\ Len(order) \in Nat
      /\ fly.ends \in SUBSET (1 .. Len(order)) /\ Len(order) \in fly.ends
      /\ fly.at = ord_i + 1 /\ fly.at0 \in 1 .. fly.at /\ fly.at \in 1 .. Len(order)
    BY Traversing, OnLeg
<1>2. /\ j \in 1 .. Len(order) /\ ord_i \in Nat /\ ord_i' = j - 1
      /\ ord_i' \in 0 .. Len(order) /\ ord_i' < Len(order) /\ ord_i' + 1 = j
    <2>1. ord_i \in Nat
        BY TypesNow
    <2>2. fly.at = ord_i + 1 /\ Len(order) \in Nat /\ j \in fly.at .. Len(order)
        BY <1>1
    <2>3. ord_i' = ord_i + (j - fly.at)
        OBVIOUS
    <2> DEFINE m == ord_i'
               n == Len(order)
               k == fly.at
    <2>4. k = ord_i + 1 /\ n \in Nat /\ j \in k .. n /\ m = ord_i + (j - k)
        BY <2>2, <2>3
    <2> HIDE DEF m, n, k
    <2>5. j \in 1 .. n /\ m = j - 1 /\ m \in 0 .. n /\ m < n /\ m + 1 = j
        BY <2>1, <2>4
    <2>6. QED
        BY <2>1, <2>5 DEF m, n
<1>3. order[j] \in Nat \ {0}
    BY <1>1, <1>2, AtPoint, Traversing
<1>4. UNCHANGED <<p, plan_p, plan, run_p, order, is_retest, endless, nsamp, log, zero_epoch,
                  load_epoch, st>>
    BY DEF gridVars, epochVars
<1>5. fly' \in FlyState
    BY DEF At
<1>6. TypeOK'
    BY <1>2, <1>3, <1>4, <1>5, TypesNow DEF TypeOK, States
<1>7. Walking'
    <2>1. OrderInPlan'
        BY <1>4 DEF IInv, Walking, OrderInPlan
    <2>2. QED
        BY <1>2, <1>4, <2>1 DEF Walking
<1>8. OnLegs'
    <2>1. fly'.on /\ fly'.ends = fly.ends /\ fly'.at = j /\ fly'.at0 = fly.at0
        BY DEF At
    <2>2. fly'.at0 \in 1 .. j
        <3> DEFINE a == fly.at0
                   k == fly.at
                   n == Len(order)
        <3>1. a \in 1 .. k /\ k \in 1 .. n /\ j \in k .. n /\ n \in Nat
            BY <1>1
        <3> HIDE DEF a, k, n
        <3>2. a \in 1 .. j
            BY <3>1
        <3>3. QED
            BY <2>1, <3>2 DEF a
    <2>3. st' = "Traversing" /\ order' = order /\ is_retest' = is_retest
        BY <1>4
    <2>4. fly'.ends \in SUBSET (1 .. Len(order')) /\ Len(order') \in fly'.ends
        BY <1>1, <2>1, <2>3
    <2>5. fly'.at = ord_i' + 1 /\ fly'.at0 \in 1 .. fly'.at
        BY <1>2, <2>1, <2>2
    <2>6. ~is_retest'
        BY <1>1, <2>3
    <2>7. QED
        BY <2>1, <2>3, <2>4, <2>5, <2>6, Zenon DEF OnLegs
<1>9. SampleOfItsCell'
    BY <1>4 DEF At, SampleOfItsCell
<1>10. QED
    BY <1>6, <1>7, <1>8, <1>9 DEF IInv

LEMMA SyncFiles ==
    ASSUME IInv, NEW j, Sync(j)
    PROVE  DOMAIN files' = Paths /\ cur' = order[j] /\ ord_i' = ord_i + (j - fly.at)
BY TypesNow, LogRowsFiles DEF Sync

LEMMA TickTraversingInv ==
    ASSUME IInv, NEW dt \in 1 .. MaxStep, NEW o \in Observations, TickTraversing(dt, o)
    PROVE  IInv'
<1> DEFINE l == Elapse(left, dt)
<1>1. /\ st = "Traversing" /\ NoteHealth(o)
      /\ UNCHANGED <<gridVars, run_p, st, order, is_retest, endless, nsamp, log, epochVars>>
    BY DEF TickTraversing, Passes
<1>2. l \in Times /\ bad_wkc' \in Nat /\ Confirmed(o) \subseteq Axis
    BY <1>1, PassesType
<1>3. PICK j \in fly.at .. End :
          LET f == SeenAt(j) IN
          /\ Sync(j)
          /\ \/ Depart(f, o, l)
             \/ fly' = f /\ left' = l /\ want_ok' = Confirmed(o)
             \/ /\ fly' = [f EXCEPT !.at_end = TRUE, !.stop_wait = TRUE]
                /\ left' = [l EXCEPT !.flush = FlushBudget]
                /\ want_ok' = Confirmed(o)
    BY DEF TickTraversing
<1> DEFINE f == SeenAt(j)
<1>4. j \in fly.at .. Len(order)
    BY <1>1, Traversing
<1>5. At(f, j)
    BY <1>1, <1>4, SeenAtType
<1>6. DOMAIN files' = Paths /\ cur' = order[j] /\ ord_i' = ord_i + (j - fly.at)
    BY <1>3, SyncFiles
<1>7. CASE fly' = f /\ left' = l /\ want_ok' = Confirmed(o)
    BY <1>1, <1>2, <1>4, <1>5, <1>6, <1>7, OnLegStep
<1>8. CASE Depart(f, o, l)
    <2>1. /\ fly' = [f EXCEPT !.started = TRUE] /\ want_ok' = {}
          /\ left' = [l EXCEPT !.move = MoveLimit, !.want = WantConfirm, !.flush = -1]
        BY <1>8 DEF Depart
    <2> HIDE DEF f, l
    <2>2. At(fly', j)
        BY <1>5, <2>1 DEF At, FlyState
    <2>3. left' \in Times /\ want_ok' \subseteq Axis
        BY <1>2, <2>1, DepartType
    <2>4. QED
        BY <1>1, <1>2, <1>4, <1>6, <2>2, <2>3, OnLegStep
<1>9. CASE /\ fly' = [f EXCEPT !.at_end = TRUE, !.stop_wait = TRUE]
           /\ left' = [l EXCEPT !.flush = FlushBudget] /\ want_ok' = Confirmed(o)
    <2> HIDE DEF f, l
    <2>1. At(fly', j)
        BY <1>5, <1>9 DEF At, FlyState
    <2>2. FlushBudget \in Int
        BY BoundsAssumption
    <2>3. left' \in Times
        BY <1>2, <1>9, <2>2, FlushType
    <2>4. QED
        BY <1>1, <1>2, <1>4, <1>6, <1>9, <2>1, <2>3, OnLegStep
<1>10. QED
    BY <1>3, <1>7, <1>8, <1>9

LEMMA SampleTraversingInv ==
    ASSUME IInv, SampleTraversing
    PROVE  IInv'
<1>1. /\ st = "Traversing"
      /\ UNCHANGED <<gridVars, run_p, st, order, is_retest, endless, nsamp, left, want_ok,
                     bad_wkc, log, epochVars>>
    BY DEF SampleTraversing
<1>2. PICK j \in fly.at .. End, near \in BOOLEAN :
          /\ Sync(j)
          /\ fly' = IF near
                    THEN [SeenAt(j) EXCEPT !.stop_wait = FALSE, !.sample = plan[order[j]]]
                    ELSE SeenAt(j)
    BY DEF SampleTraversing
<1> DEFINE f == SeenAt(j)
<1>3. j \in fly.at .. Len(order) /\ j \in 1 .. Len(order)
    BY <1>1, Traversing
<1>4. At(f, j)
    BY <1>1, <1>3, SeenAtType
<1>5. DOMAIN files' = Paths /\ cur' = order[j] /\ ord_i' = ord_i + (j - fly.at)
    BY <1>2, SyncFiles
<1>6. plan[order[j]] \in Cell
    BY <1>1, <1>3, Traversing, AtPoint
<1>7. At(fly', j)
    <2>1. CASE ~near
        <3>1. fly' = f
            BY <1>2, <2>1
        <3>2. QED
            BY <1>4, <3>1 DEF At
    <2>2. CASE near
        <3>1. fly' = [f EXCEPT !.stop_wait = FALSE, !.sample = plan[order[j]]]
            BY <1>2, <2>2
        <3> HIDE DEF f
        <3>2. QED
            BY <1>4, <1>6, <3>1 DEF At, FlyState
    <2>3. QED
        BY <2>1, <2>2
<1>8. QED
    BY <1>1, <1>3, <1>5, <1>7, TypesNow, OnLegStep

LEMMA TickLegLateInv ==
    ASSUME IInv, NEW dt \in 1 .. MaxStep, NEW o \in Observations, TickLegLate(dt, o)
    PROVE  IInv'
<1>1. DOMAIN files' = Paths
    BY TypesNow, LogRowsFiles DEF TickLegLate
<1>2. QED
    BY <1>1, AbortStep DEF TickLegLate

LEMMA PassedRowFailsInv ==
    ASSUME IInv, PassedRowFails
    PROVE  IInv'
BY LogFailsStep DEF PassedRowFails

LEMMA TickLegOverInv ==
    ASSUME IInv, NEW dt \in 1 .. MaxStep, NEW o \in Observations, TickLegOver(dt, o)
    PROVE  IInv'
<1> DEFINE c == plan[order[fly.at]]
<1>1. st = "Traversing"
    BY DEF TickLegOver
<1>2. CASE LogFails({}, {}, c, c)
    BY <1>2, LogFailsStep
<1>3. CASE /\ LogRows({c}, IF fly.sample # NoCell THEN {c} ELSE {}, c)
           /\ AdvanceLeg /\ NoteHealth(o)
           /\ UNCHANGED <<gridVars, run_p, log, epochVars, spoil>>
    <2>1. DOMAIN files' = Paths /\ bad_wkc' \in Nat
        BY <1>3, TypesNow, LogRowsFiles DEF NoteHealth
    <2>2. UNCHANGED <<p, plan_p, plan, run_p, log, epochVars>>
        BY <1>3 DEF gridVars
    <2>3. CASE FinishRun
        BY <2>1, <2>2, <2>3, TypesNow, FinishStep
    <2>4. CASE fly.at < Len(order) /\ ~FinishRun
        <3> DEFINE n == fly.at + 1
        <3>1. /\ fly' = [fly EXCEPT !.at = n, !.at0 = n, !.sample = NoCell,
                                   !.started = FALSE, !.at_end = FALSE, !.stop_wait = FALSE]
              /\ ord_i' = ord_i + 1 /\ StartPoint(order[n])
              /\ UNCHANGED <<order, is_retest, endless>>
            BY <1>3, <2>4 DEF AdvanceLeg
        <3>2. /\ fly.on /\ Running /\ fly.at = ord_i + 1 /\ fly.at \in 1 .. Len(order)
              /\ Len(order) \in Nat /\ ord_i \in Nat
            BY <1>1, Traversing, OnLeg, TypesNow
        <3>3. n \in 1 .. Len(order) /\ n \in Nat /\ ord_i' = n - 1
            BY <2>4, <3>1, <3>2
        <3> HIDE DEF n
        <3>4. fly' \in FlyState
            BY <3>1, <3>3, FlyType, NoFlyType DEF FlyState
        <3>5. /\ fly'.on = fly.on /\ fly'.ends = fly.ends /\ fly'.at = n /\ fly'.at0 = n
              /\ fly'.sample = NoCell
            BY <3>1, FlyType DEF FlyState
        <3>6. QED
            BY <2>1, <2>2, <3>1, <3>2, <3>3, <3>4, <3>5, TypesNow, MoveOnStep
    <2>5. QED
        BY <1>3, <2>3, <2>4 DEF AdvanceLeg
<1>4. QED
    BY <1>2, <1>3 DEF TickLegOver

-----------------------------------------------------------------------------
(* The specification.                                                      *)

LEMMA OperateInv ==
    ASSUME IInv, PlanOfParams, Operate
    PROVE  IInv'
<1>1. CASE Configure
    BY <1>1, SetZeroEpochInv, SetParamsInv DEF Configure
<1>2. CASE Reopen
    BY <1>2, NewFileInv, LoadResumeInv, LoadRefusedInv DEF Reopen
<1>3. CASE Begin
    BY <1>3, StartInv, StartRefusedInv, BeginLoadedRunInv, ReadPastPlanInv DEF Begin
<1>4. CASE Repeat
    BY <1>4, RetestInv, RetestRefusedInv DEF Repeat
<1>5. CASE Interrupt
    BY <1>5, PauseInv, ResumeRunInv, AbortInv DEF Interrupt
<1>6. QED
    BY <1>1, <1>2, <1>3, <1>4, <1>5 DEF Operate

LEMMA RefreshInv ==
    ASSUME IInv, Refresh
    PROVE  IInv'
<1>1. PICK dt \in 1 .. MaxStep, o \in Observations : Tick(dt, o)
    BY DEF Refresh
<1>2. CASE TickUnhealthy(dt, o) \/ TickPaused(dt, o)
    BY <1>2, TickUnhealthyInv, TickPausedInv
<1>3. CASE TickMoving(dt, o) \/ TickNotArrived(dt, o)
    BY <1>3, TickMovingInv, TickNotArrivedInv
<1>4. CASE TickDwelling(dt, o) \/ TickReading(dt, o) \/ TickReadTimeout(dt, o)
    BY <1>4, TickDwellingInv, TickReadingInv, TickReadTimeoutInv
<1>5. CASE TickTraversing(dt, o) \/ TickLegLate(dt, o) \/ TickLegOver(dt, o)
    BY <1>5, TickTraversingInv, TickLegLateInv, TickLegOverInv
<1>6. QED
    BY <1>1, <1>2, <1>3, <1>4, <1>5 DEF Tick

LEMMA StutterInv ==
    ASSUME IInv, UNCHANGED vars
    PROVE  IInv'
BY DEF IInv, TypeOK, Walking, OnLegs, SampleOfItsCell, OrderInPlan, vars

\* Nothing but setParams, prepareRunPlan and a restart touches the parameters
\* and those of the plan, and they keep the two together.
LEMMA PlanOfParamsKept ==
    ASSUME PlanOfParams, [Next]_vars
    PROVE  PlanOfParams'
<1>1. CASE UNCHANGED <<p, plan_p>>
    BY <1>1 DEF PlanOfParams
<1>2. CASE p' = p /\ plan_p' = p
    BY <1>2 DEF PlanOfParams, SameGeom
<1>3. ASSUME NEW d, NEW more, AbortRun(d, more)
      PROVE  UNCHANGED <<p, plan_p>>
    BY <1>3 DEF AbortRun, gridVars
<1>4. ASSUME NEW S, NEW okS, NEW first, NEW c, LogFails(S, okS, first, c)
      PROVE  UNCHANGED <<p, plan_p>>
    BY <1>3, <1>4 DEF LogFails
<1>5. CASE Configure
    <2>1. CASE SetZeroEpoch
        BY <1>1, <2>1 DEF SetZeroEpoch, gridVars
    <2>2. ASSUME NEW q \in Params, SetParams(q)
          PROVE  PlanOfParams'
        BY <2>2 DEF SetParams, PlanOfParams, SameGeom
    <2>3. QED
        BY <1>5, <2>1, <2>2 DEF Configure
<1>6. CASE Reopen
    BY <1>1, <1>2, <1>6
       DEF Reopen, NewFile, ResetRunState, LoadResume, LoadRefused, PrepareRunPlan, gridVars
<1>7. CASE Begin
    BY <1>1, <1>2, <1>7
       DEF Begin, Start, StartRefused, StartPrepared, PrepareRunPlan, BeginLoadedRun,
           ReadPastPlan, gridVars
<1>8. CASE Repeat
    BY <1>1, <1>8 DEF Repeat, Retest, RetestRefused, gridVars
<1>9. CASE Interrupt
    BY <1>1, <1>3, <1>9 DEF Interrupt, Pause, ResumeRun, Abort, gridVars
<1>10. CASE Refresh
    <2>1. PICK dt \in 1 .. MaxStep, o \in Observations : Tick(dt, o)
        BY <1>10 DEF Refresh
    <2>2. CASE TickUnhealthy(dt, o) \/ TickNotArrived(dt, o) \/ TickLegLate(dt, o)
        BY <1>1, <1>3, <2>2 DEF TickUnhealthy, TickNotArrived, TickLegLate
    <2>3. CASE TickPaused(dt, o) \/ TickMoving(dt, o) \/ TickDwelling(dt, o)
               \/ TickReading(dt, o) \/ TickTraversing(dt, o)
        BY <1>1, <2>3
           DEF TickPaused, TickMoving, TickDwelling, TickReading, TickTraversing, gridVars
    <2>4. CASE TickReadTimeout(dt, o)
        BY <1>1, <1>4, <2>4 DEF TickReadTimeout, FinishPoint, FinishPointFails
    <2>5. CASE TickLegOver(dt, o)
        BY <1>1, <1>4, <2>5 DEF TickLegOver, gridVars
    <2>6. QED
        BY <2>1, <2>2, <2>3, <2>4, <2>5 DEF Tick
<1>11. CASE Sample
    BY <1>1, <1>4, <1>11
       DEF Sample, SampleReading, SampleTraversing, FinishPoint, FinishPointFails, gridVars
<1>12. CASE PassedRowFails
    BY <1>1, <1>4, <1>12 DEF PassedRowFails
<1>13. CASE Restart
    BY <1>2, <1>13 DEF Restart
<1>14. CASE UNCHANGED vars
    BY <1>1, <1>14 DEF vars
<1>15. QED
    BY <1>5, <1>6, <1>7, <1>8, <1>9, <1>10, <1>11, <1>12, <1>13, <1>14 DEF Next, Operate

LEMMA NextInv ==
    ASSUME IInv, PlanOfParams, [Next]_vars
    PROVE  IInv'
<1>1. CASE Operate
    BY <1>1, OperateInv
<1>2. CASE Refresh
    BY <1>2, RefreshInv
<1>3. CASE Sample
    BY <1>3, SampleReadingInv, SampleTraversingInv DEF Sample
<1>4. CASE PassedRowFails
    BY <1>4, PassedRowFailsInv
<1>5. CASE Restart
    BY <1>5, RestartInv
<1>6. CASE UNCHANGED vars
    BY <1>6, StutterInv
<1>7. QED
    BY <1>1, <1>2, <1>3, <1>4, <1>5, <1>6 DEF Next

\* The inductive invariant holds of every behaviour.
THEOREM Inductive == Spec => [](IInv /\ PlanOfParams)
<1>1. Init => IInv /\ PlanOfParams
    BY InitInv DEF Init, PlanOfParams, SameGeom
<1>2. IInv /\ PlanOfParams /\ [Next]_vars => IInv' /\ PlanOfParams'
    BY NextInv, PlanOfParamsKept
<1>3. QED
    BY <1>1, <1>2, PTL DEF Spec

\* Every value the controller keeps is of its type; the place in the order
\* (m_ord_i) never leaves it.
THEOREM TypeCorrect == Spec => []TypeOK
<1>1. IInv => TypeOK
    BY DEF IInv
<1>2. QED
    BY <1>1, Inductive, PTL

\* While a run is on, the point it measures is the first it has not walked, on
\* a leg too (m_cur, m_ord_i, m_leg_i and m_leg_slot agree).
THEOREM RunAtFirstPending == Spec => []AtFirstPending
<1>1. IInv => AtFirstPending
    <2> SUFFICES ASSUME IInv, Running PROVE AtFirstPending
        BY DEF AtFirstPending
    <2>1. ord_i < Len(order) /\ cur = order[ord_i + 1]
        BY DEF IInv, Walking
    <2>2. ASSUME fly.on
          PROVE  fly.at = ord_i + 1 /\ fly.at0 <= fly.at /\ (st = "Moving" => fly.at0 = fly.at)
        BY <2>2, OnLeg DEF IInv, OnLegs
    <2>3. QED
        BY <2>1, <2>2 DEF AtFirstPending
<1>2. QED
    BY <1>1, Inductive, PTL

\* A sample kept on a leg is written to the row of the cell it was taken over
\* and of no other (m_of_have, m_of_pos, m_leg_slot).
THEOREM SampleStaysWithItsCell == Spec => []SampleOfItsCell
<1>1. IInv => SampleOfItsCell
    BY DEF IInv
<1>2. QED
    BY <1>1, Inductive, PTL

\* The indices a run walks are within the plan: no read of m_plan[m_order[i]]
\* in tick, startPoint or finishOnFlyCell is past its end.  Only armRun's is
\* (OrderWithinPlan), where a run begins.
THEOREM RunStaysInPlan == Spec => [](Running => OrderInPlan)
<1>1. IInv => (Running => OrderInPlan)
    BY DEF IInv, Walking
<1>2. QED
    BY <1>1, Inductive, PTL

\* Every step of a run that lasts keeps the points where they are.
LEMMA StepKeepsPlan ==
    ASSUME IInv, PlanOfParams, Next, Running, Running'
    PROVE  plan' = plan \/ endless
<1>1. ASSUME NEW d, NEW more, AbortRun(d, more)
      PROVE  FALSE
    BY <1>1 DEF AbortRun
<1>2. ASSUME NEW S, NEW okS, NEW first, NEW c, LogFails(S, okS, first, c)
      PROVE  FALSE
    BY <1>1, <1>2 DEF LogFails
<1>3. ASSUME NEW okS, FinishPoint(okS)
      PROVE  plan' = plan \/ endless
    BY <1>3 DEF FinishPoint, Advance
<1>4. CASE Operate
    <2>1. CASE Configure
        <3>1. CASE SetZeroEpoch
            BY <3>1 DEF SetZeroEpoch, gridVars
        <3>2. CASE \E q \in Params : SetParams(q)
            BY <3>2, AdjustKeepsPlan
        <3>3. QED
            BY <2>1, <3>1, <3>2 DEF Configure
    <2>2. CASE Reopen
        BY <2>2 DEF Reopen, NewFile, LoadResume, LoadRefused
    <2>3. CASE Begin
        BY <2>3 DEF Begin, Start, StartRefused, StartPrepared, BeginLoadedRun, ReadPastPlan,
                    CanContinue
    <2>4. CASE Repeat
        BY <2>4 DEF Repeat, Retest, RetestRefused, CanRetest
    <2>5. CASE Interrupt
        BY <1>1, <2>5 DEF Interrupt, Pause, ResumeRun, Abort, gridVars
    <2>6. QED
        BY <1>4, <2>1, <2>2, <2>3, <2>4, <2>5 DEF Operate
<1>5. CASE Refresh
    <2>1. PICK dt \in 1 .. MaxStep, o \in Observations : Tick(dt, o)
        BY <1>5 DEF Refresh
    <2>2. CASE TickUnhealthy(dt, o) \/ TickNotArrived(dt, o) \/ TickLegLate(dt, o)
        BY <1>1, <2>2 DEF TickUnhealthy, TickNotArrived, TickLegLate
    <2>3. CASE TickPaused(dt, o) \/ TickMoving(dt, o) \/ TickDwelling(dt, o)
               \/ TickReading(dt, o) \/ TickTraversing(dt, o)
        BY <2>3
           DEF TickPaused, TickMoving, TickDwelling, TickReading, TickTraversing, gridVars
    <2>4. CASE TickReadTimeout(dt, o)
        BY <1>2, <1>3, <2>4 DEF TickReadTimeout, FinishPointFails
    <2>5. CASE TickLegOver(dt, o)
        BY <1>2, <2>5 DEF TickLegOver, gridVars
    <2>6. QED
        BY <2>1, <2>2, <2>3, <2>4, <2>5 DEF Tick
<1>6. CASE Sample
    BY <1>2, <1>3, <1>6
       DEF Sample, SampleReading, SampleTraversing, FinishPointFails, gridVars
<1>7. CASE PassedRowFails
    BY <1>2, <1>7 DEF PassedRowFails
<1>8. CASE Restart
    BY <1>8 DEF Restart
<1>9. QED
    BY <1>4, <1>5, <1>6, <1>7, <1>8 DEF Next

\* No change of a parameter during a run deals its points anew (rebuildPlan,
\* called on every change, sees that mode and geometry are locked).
THEOREM RunKeepsItsPlan == Spec => PlanStays
<1>1. IInv /\ PlanOfParams /\ [Next]_vars => [Running /\ Running' => plan' = plan \/ endless]_vars
    BY StepKeepsPlan
<1>2. QED
    BY <1>1, Inductive, PTL DEF Spec, PlanStays
=============================================================================
