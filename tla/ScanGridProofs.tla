---------------------------- MODULE ScanGridProofs ----------------------------
(***************************************************************************)
(* What run `plan` checks over small grids, for grids of every size and    *)
(* every set of cells already done: the plan covers the grid, a spiral     *)
(* moves one step at a time, legs run straight, the stage is followed to   *)
(* the nearest cell, and the estimate counts the legs the run walks.       *)
(***************************************************************************)
EXTENDS MCScanPlan, ScanPlanProofs

\* The parameters are sound, and the rest is what the code makes of them.
Derived ==
    /\ IsParams(p) /\ ~ParamsError(p) /\ ~ModeRandom(p)
    /\ plan = BuildPlan(p)
    /\ order = PendingOrder(plan, done)
    /\ ends = LegEnds(p, plan, order)

\* Plan, order and ends stay what the code makes of parameters and cells done.
LEMMA AlwaysDerived == Spec => []Derived
<1>1. Init => Derived
    <2> SUFFICES ASSUME NEW q \in [area : {"a"}, nx : 2 .. MaxSide, ny : 2 .. MaxSide,
                                   mode : {"Serpentine", "SameDir", "SpiralCW", "SpiralCCW"},
                                   start_positive : BOOLEAN, dwell : {0}, samples : {1},
                                   fast : {FALSE}],
                        Derive(q, {}, BuildPlan(q))
                 PROVE  Derived
        BY DEF Init
    <2>1. IsParams(q) /\ ~ParamsError(q) /\ ~ModeRandom(q)
        <3>1. DOMAIN q = {"area", "nx", "ny", "mode", "start_positive", "dwell", "samples", "fast"}
            OBVIOUS
        <3>2. /\ q.nx \in 2 .. MaxSide /\ q.ny \in 2 .. MaxSide
              /\ q.mode \in {"Serpentine", "SameDir", "SpiralCW", "SpiralCCW"}
              /\ q.start_positive \in BOOLEAN /\ q.fast \in BOOLEAN
              /\ q.dwell = 0 /\ q.samples = 1
            OBVIOUS
        <3>3. q.nx \in Nat /\ q.ny \in Nat /\ ~(q.nx < 2) /\ ~(q.ny < 2)
            BY <3>2
        <3>4. q.mode \in Modes /\ ~ModeRandom(q)
            BY <3>2 DEF Modes, ModeRandom
        <3>5. q.dwell \in Nat /\ q.samples \in Nat \ {0}
            BY <3>2
        <3>6. QED
            BY <3>1, <3>2, <3>3, <3>4, <3>5 DEF IsParams, ParamsError
    <2>2. QED
        BY <2>1 DEF Derive, Derived
<1>2. Derived /\ [Next]_vars => Derived'
    <2> SUFFICES ASSUME Derived, [Next]_vars PROVE Derived'
        OBVIOUS
    <2>1. CASE CellDone
        BY <2>1 DEF CellDone, Derived
    <2>2. CASE UNCHANGED vars
        BY <2>2 DEF vars, Derived
    <2>3. QED
        BY <2>1, <2>2 DEF Next
<1>3. QED
    BY <1>1, <1>2, PTL DEF Spec

-----------------------------------------------------------------------------
\* Whatever the mode and the size of the grid, the plan visits every cell of it
\* once (buildPlan, spiralPlan).
THEOREM PlansCoverTheirGrids == Spec => []PlanCoversGrid
<1>1. Derived => PlanCoversGrid
    BY PlanCoversItsGrid DEF Derived, PlanCoversGrid
<1>2. QED
    BY <1>1, AlwaysDerived, PTL

\* What the plan is as a sequence of cells.
LEMMA PlanIsOfCells ==
    ASSUME Derived
    PROVE  /\ plan \in Seq(Cells(p)) /\ Len(plan) = p.nx * p.ny
           /\ p.nx * p.ny \in Nat
           /\ plan \in [1 .. p.nx * p.ny -> Cells(p)]
<1>1. IsPlanOf(plan, Cells(p))
    BY PlanCoversItsGrid DEF Derived
<1>2. Cardinality(Cells(p)) = p.nx * p.ny /\ p.nx * p.ny \in Nat
    BY CellCount DEF Derived
<1>3. plan \in [1 .. p.nx * p.ny -> Cells(p)]
    BY <1>1, <1>2 DEF IsPlanOf
<1>4. plan \in Seq(Cells(p)) /\ DOMAIN plan = 1 .. p.nx * p.ny
    BY <1>2, <1>3, SeqDef
<1>5. QED
    BY <1>2, <1>3, <1>4, LenProperties

\* Consecutive cells of a spiral are neighbours, so the stage never crosses
\* cells it has not measured (spiralPlan).
THEOREM SpiralsMoveOneStep == Spec => []SpiralMovesOneStep
<1>1. Derived => SpiralMovesOneStep
    <2> SUFFICES ASSUME Derived, ModeSpiral(p), NEW k \in 1 .. Len(plan) - 1
                 PROVE  Distance(plan[k][1], plan[k + 1][1])
                            + Distance(plan[k][2], plan[k + 1][2]) = 1
        BY DEF SpiralMovesOneStep
    <2>1. plan = SpiralPlan(p) /\ k \in 1 .. p.nx * p.ny - 1
        BY PlanIsOfCells DEF Derived, BuildPlan
    <2>2. Near(SpiralPlan(p)[k], SpiralPlan(p)[k + 1])
        BY <2>1, SpiralProperties DEF Derived
    <2>3. QED
        BY <2>1, <2>2 DEF Near
<1>2. QED
    BY <1>1, AlwaysDerived, PTL

\* What is left to walk is an increasing sequence of indices of the plan.
LEMMA OrderIsOfPlan ==
    ASSUME Derived
    PROVE  /\ order \in Seq(1 .. p.nx * p.ny) /\ Len(order) \in Nat
           /\ DOMAIN order = 1 .. Len(order)
           /\ \A i \in 1 .. Len(order) : order[i] \in 1 .. Len(plan) /\ plan[order[i]] \notin done
           /\ \A i, j \in 1 .. Len(order) : i < j => order[i] < order[j]
           /\ \A k \in 1 .. Len(plan) : plan[k] \notin done =>
                 \E i \in 1 .. Len(order) : order[i] = k
<1> DEFINE S == {k \in DOMAIN plan : plan[k] \notin done}
<1>1. plan \in Seq(Cells(p)) /\ Len(plan) = p.nx * p.ny /\ DOMAIN plan = 1 .. Len(plan)
    BY PlanIsOfCells, LenProperties
<1>2. /\ order \in Seq(Nat \ {0})
      /\ \A i \in DOMAIN order : order[i] \in S
      /\ \A i, j \in DOMAIN order : i < j => order[i] < order[j]
      /\ \A k \in S : \E i \in DOMAIN order : order[i] = k
    BY <1>1, PendingOrderProperties DEF Derived
<1>3. Len(order) \in Nat /\ DOMAIN order = 1 .. Len(order)
    BY <1>2, LenProperties
<1>4. order \in Seq(1 .. p.nx * p.ny)
    BY <1>1, <1>2, <1>3, IsASeq
<1>5. QED
    BY <1>1, <1>2, <1>3, <1>4

-----------------------------------------------------------------------------
(* Legs.                                                                   *)

\* In every mode the heading changes at ends of legs only.
LEMMA LegsKeepHeading ==
    ASSUME Derived
    PROVE  KeepsHeading(plan, order, ends)
<1>1. CASE ModeSpiral(p)
    BY <1>1, OrderIsOfPlan, SpiralLegsKeepHeading DEF Derived
<1>2. CASE ~ModeSpiral(p)
    <2>1. plan = RowPlan(p)
        BY <1>2 DEF Derived, BuildPlan
    <2>2. QED
        BY <1>2, <2>1, OrderIsOfPlan, RowLegsKeepHeading DEF Derived
<1>3. QED
    BY <1>1, <1>2

\* Where the leg of position k starts.
IsLegStart(s, k) ==
    /\ s \in 1 .. k
    /\ \A j \in s .. k - 1 : j \notin ends
    /\ s = 1 \/ s - 1 \in ends

\* Every position is on a leg.
LEMMA LegStarts ==
    ASSUME NEW k \in Nat \ {0}
    PROVE  IsLegStart(legStart(k), k)
<1> DEFINE T == {m \in Nat : \E s \in 1 .. m + 1 : IsLegStart(s, m + 1)}
<1>1. 0 \in T
    <2>1. IsLegStart(1, 0 + 1)
        BY DEF IsLegStart
    <2>2. QED
        BY <2>1
<1>2. ASSUME NEW m \in Nat, m \in T PROVE m + 1 \in T
    <2>1. PICK s \in 1 .. m + 1 : IsLegStart(s, m + 1)
        BY <1>2
    <2>2. CASE m + 1 \in ends
        <3>1. /\ m + 2 \in 1 .. (m + 1) + 1 /\ (m + 2) - 1 = m + 1
              /\ (m + 2) .. ((m + 1) + 1) - 1 = {}
            OBVIOUS
        <3>2. IsLegStart(m + 2, (m + 1) + 1)
            BY <2>2, <3>1 DEF IsLegStart
        <3>3. QED
            BY <3>1, <3>2
    <2>3. CASE m + 1 \notin ends
        <3>1. s \in 1 .. (m + 1) + 1
            OBVIOUS
        <3>2. ASSUME NEW j \in s .. ((m + 1) + 1) - 1 PROVE j \notin ends
            <4>1. j \in s .. (m + 1) - 1 \/ j = m + 1
                OBVIOUS
            <4>2. QED
                BY <2>1, <2>3, <4>1 DEF IsLegStart
        <3>3. IsLegStart(s, (m + 1) + 1)
            BY <2>1, <3>1, <3>2 DEF IsLegStart
        <3>4. QED
            BY <3>1, <3>3
    <2>4. QED
        BY <2>2, <2>3
<1>3. k - 1 \in T
    <2> HIDE DEF T
    <2>1. k - 1 \in Nat
        OBVIOUS
    <2>2. QED
        BY <1>1, <1>2, <2>1, AllNumbers
<1>4. (k - 1) + 1 = k
    OBVIOUS
<1>5. \E s \in 1 .. k : IsLegStart(s, k)
    BY <1>3, <1>4
<1>6. QED
    BY <1>5 DEF legStart, IsLegStart

\* Between two ends of legs the heading is that of the leg's first step, holes in
\* the order or not, so positions on one axis tell the cells of a leg apart
\* (buildSpiralLegs, the row legs of buildOrder).
THEOREM LegsAreStraight == Spec => []LegsRunStraight
<1>1. Derived => LegsRunStraight
    <2> SUFFICES ASSUME Derived, NEW k \in 1 .. Len(order) - 1, k \notin ends
                 PROVE  /\ HeadingAt(plan, order, k) # <<0, 0>>
                        /\ HeadingAt(plan, order, k) = HeadingAt(plan, order, legStart(k))
        BY DEF LegsRunStraight, HeadingAt
    <2>1. Len(order) \in Nat /\ KeepsHeading(plan, order, ends)
        BY OrderIsOfPlan, LegsKeepHeading
    <2> DEFINE s == legStart(k)
    <2>2. IsLegStart(s, k)
        BY <2>1, LegStarts
    <2> HIDE DEF s
    <2>3. s \in 1 .. Len(order) - 1 /\ s <= k /\ \A j \in s .. k : j \notin ends
        <3>1. s \in 1 .. k /\ \A j \in s .. k - 1 : j \notin ends
            BY <2>2 DEF IsLegStart
        <3>2. ASSUME NEW j \in s .. k PROVE j \in s .. k - 1 \/ j = k
            BY <2>1
        <3>3. QED
            BY <2>1, <3>1, <3>2
    <2>4. HeadingAt(plan, order, k) = HeadingAt(plan, order, s) /\ HeadingAt(plan, order, k) # <<0, 0>>
        BY <2>1, <2>3, StraightStretch
    <2>5. QED
        BY <2>4 DEF s
<1>2. QED
    BY <1>1, AlwaysDerived, PTL

-----------------------------------------------------------------------------
(* Following the stage.                                                    *)

\* The axis of a leg by its first step, and which way the leg runs on it.
LEMMA HeadingOnAxis ==
    ASSUME NEW a \in Points, NEW b \in Points, NEW c \in Points, NEW d \in Points,
           Heading(a, b) = Heading(c, d)
    PROVE  /\ a[2] = b[2] /\ a[1] < b[1] => c[1] < d[1]
           /\ a[2] = b[2] /\ a[1] > b[1] => c[1] > d[1]
           /\ a[1] = b[1] /\ a[2] < b[2] => c[2] < d[2]
           /\ a[1] = b[1] /\ a[2] > b[2] => c[2] > d[2]
<1> DEFINE sign(x) == IF x > 0 THEN 1 ELSE IF x < 0 THEN -1 ELSE 0
<1>1. /\ a[1] \in Int /\ a[2] \in Int /\ b[1] \in Int /\ b[2] \in Int
      /\ c[1] \in Int /\ c[2] \in Int /\ d[1] \in Int /\ d[2] \in Int
    BY DEF Points
<1>2. ASSUME a[1] = b[1] \/ a[2] = b[2]
      PROVE  Heading(a, b) = <<sign(b[1] - a[1]), sign(b[2] - a[2])>>
    BY <1>2 DEF Heading
<1>3. \/ Heading(c, d) = <<0, 0>>
      \/ Heading(c, d) = <<sign(d[1] - c[1]), sign(d[2] - c[2])>>
    BY DEF Heading
<1>4. ASSUME a[1] = b[1] \/ a[2] = b[2], a[1] # b[1]
      PROVE  sign(d[1] - c[1]) = sign(b[1] - a[1])
    <2>1. sign(b[1] - a[1]) # 0
        BY <1>1, <1>4
    <2> HIDE DEF sign
    <2>2. QED
        BY <1>2, <1>3, <1>4, <2>1
<1>5. ASSUME a[1] = b[1] \/ a[2] = b[2], a[2] # b[2]
      PROVE  sign(d[2] - c[2]) = sign(b[2] - a[2])
    <2>1. sign(b[2] - a[2]) # 0
        BY <1>1, <1>5
    <2> HIDE DEF sign
    <2>2. QED
        BY <1>2, <1>3, <1>5, <2>1
<1>6. ASSUME a[2] = b[2], a[1] < b[1] PROVE c[1] < d[1]
    BY <1>1, <1>4, <1>6
<1>7. ASSUME a[2] = b[2], a[1] > b[1] PROVE c[1] > d[1]
    BY <1>1, <1>4, <1>7
<1>8. ASSUME a[1] = b[1], a[2] < b[2] PROVE c[2] < d[2]
    BY <1>1, <1>5, <1>8
<1>9. ASSUME a[1] = b[1], a[2] > b[2] PROVE c[2] > d[2]
    BY <1>1, <1>5, <1>9
<1>10. QED
    BY <1>6, <1>7, <1>8, <1>9

\* A leg runs one way along its axis, from its start to its end.
LEMMA LegRunsOneWay ==
    ASSUME Derived, NEW k \in 1 .. Len(order),
           LegAxis(plan, order, legStart(k), LegEnd(ends, k)) # 0
    PROVE  LET e == LegEnd(ends, k)
               ax == LegAxis(plan, order, legStart(k), e)
           IN  /\ e \in k .. Len(order)
               /\ ax \in {1, 2}
               /\ \A j \in k .. e : plan[order[j]][ax] \in Int
               /\ \/ \A j \in k .. e - 1 : plan[order[j]][ax] < plan[order[j + 1]][ax]
                  \/ \A j \in k .. e - 1 : plan[order[j]][ax] > plan[order[j + 1]][ax]
<1> DEFINE n == Len(order)
           e == LegEnd(ends, k)
           s == legStart(k)
           ax == LegAxis(plan, order, s, e)
           at(j) == plan[order[j]]
<1>1. n \in Nat /\ KeepsHeading(plan, order, ends)
    BY OrderIsOfPlan, LegsKeepHeading
<1>2. ends \in SUBSET (1 .. n) /\ n \in ends
    <2>1. n \in 1 .. n
        BY <1>1
    <2>2. QED
        BY <2>1 DEF Derived, LegEnds
<1>3. ASSUME NEW j \in 1 .. n PROVE at(j) \in Points
    <2>1. order[j] \in 1 .. Len(plan)
        BY OrderIsOfPlan
    <2>2. plan[order[j]] \in Cells(p)
        BY <2>1, PlanIsOfCells
    <2>3. Cells(p) \subseteq Points
        BY DEF Cells, Points, Derived, IsParams
    <2>4. QED
        BY <2>2, <2>3
<1>4. /\ e \in ends /\ e \in k .. n
      /\ \A d \in ends : d >= k => e <= d
    BY <1>1, <1>2, LegEndBounds
<1>5. IsLegStart(s, k)
    BY <1>1, LegStarts
<1> HIDE DEF e, s, n
<1>6. /\ s # e
      /\ \/ at(s)[2] = at(s + 1)[2] /\ at(s)[1] # at(s + 1)[1] /\ ax = 1
         \/ at(s)[1] = at(s + 1)[1] /\ at(s)[2] # at(s + 1)[2] /\ ax = 2
    BY DEF LegAxis, e, s
<1>7. k \in 1 .. n /\ s \in 1 .. k /\ e \in k .. n /\ s \in 1 .. n - 1 /\ s + 1 \in 1 .. n
    <2>1. k \in 1 .. n /\ s \in 1 .. k
        BY <1>5 DEF IsLegStart, n
    <2>2. QED
        BY <1>1, <1>4, <1>6, <2>1
<1>8. ASSUME NEW j \in s .. e - 1 PROVE j \in 1 .. n - 1 /\ j \notin ends
    <2>1. j \in 1 .. n - 1
        BY <1>1, <1>7
    <2>2. CASE j < k
        <3>1. j \in s .. k - 1
            BY <1>7, <2>1, <2>2
        <3>2. QED
            BY <1>5, <2>1, <3>1 DEF IsLegStart
    <2>3. CASE j >= k
        <3>1. ~(e <= j)
            BY <1>1, <1>7
        <3>2. QED
            BY <1>4, <2>1, <2>3, <3>1
    <2>4. QED
        BY <1>7, <2>1, <2>2, <2>3
<1>9. ASSUME NEW j \in s .. e - 1 PROVE Heading(at(s), at(s + 1)) = Heading(at(j), at(j + 1))
    <2>1. j \in 1 .. n - 1 /\ s \in 1 .. n - 1 /\ s <= j
        BY <1>7, <1>8
    <2>2. ASSUME NEW i \in s .. j PROVE i \notin ends
        <3>1. i \in s .. e - 1
            BY <1>7, <2>1
        <3>2. QED
            BY <1>8, <3>1
    <2>3. HeadingAt(plan, order, j) = HeadingAt(plan, order, s)
        BY <1>1, <2>1, <2>2, StraightStretch DEF n
    <2>4. QED
        BY <2>3 DEF HeadingAt
<1>10. ASSUME NEW j \in k .. e - 1
       PROVE  /\ j \in s .. e - 1 /\ at(j) \in Points /\ at(j + 1) \in Points
              /\ at(s) \in Points /\ at(s + 1) \in Points
    <2>1. j \in s .. e - 1 /\ j \in 1 .. n /\ j + 1 \in 1 .. n /\ s \in 1 .. n /\ s + 1 \in 1 .. n
        BY <1>1, <1>7
    <2>2. QED
        BY <1>3, <2>1
<1>11. at(s)[1] \in Int /\ at(s)[2] \in Int /\ at(s + 1)[1] \in Int /\ at(s + 1)[2] \in Int
    <2>1. s \in 1 .. n /\ s + 1 \in 1 .. n
        BY <1>1, <1>7
    <2>2. at(s) \in Points /\ at(s + 1) \in Points
        BY <1>3, <2>1
    <2> HIDE DEF at
    <2>3. QED
        BY <2>2 DEF Points
<1>12. ASSUME NEW j \in k .. e PROVE at(j)[1] \in Int /\ at(j)[2] \in Int
    <2>1. j \in 1 .. n
        BY <1>1, <1>7
    <2>2. at(j) \in Points
        BY <1>3, <2>1
    <2> HIDE DEF at
    <2>3. QED
        BY <2>2 DEF Points
<1> HIDE DEF ax, at
<1>13. ax \in {1, 2} /\ \A j \in k .. e : at(j)[ax] \in Int
    BY <1>6, <1>12
<1>14. \/ \A j \in k .. e - 1 : at(j)[ax] < at(j + 1)[ax]
       \/ \A j \in k .. e - 1 : at(j)[ax] > at(j + 1)[ax]
    <2>1. CASE ax = 1 /\ at(s)[2] = at(s + 1)[2] /\ at(s)[1] < at(s + 1)[1]
        BY <1>9, <1>10, <2>1, HeadingOnAxis
    <2>2. CASE ax = 1 /\ at(s)[2] = at(s + 1)[2] /\ at(s)[1] > at(s + 1)[1]
        BY <1>9, <1>10, <2>2, HeadingOnAxis
    <2>3. CASE ax = 2 /\ at(s)[1] = at(s + 1)[1] /\ at(s)[2] < at(s + 1)[2]
        BY <1>9, <1>10, <2>3, HeadingOnAxis
    <2>4. CASE ax = 2 /\ at(s)[1] = at(s + 1)[1] /\ at(s)[2] > at(s + 1)[2]
        BY <1>9, <1>10, <2>4, HeadingOnAxis
    <2>5. QED
        BY <1>6, <1>11, <2>1, <2>2, <2>3, <2>4
<1>15. QED
    BY <1>7, <1>13, <1>14 DEF ax, at, e, s, n

\* However far the stage has got since the last look, and whatever holes the
\* order has, syncOnFlyCell moves to the cell of the leg nearest to it.
THEOREM StageIsFollowed == Spec => []SyncStopsAtNearest
<1>1. Derived => SyncStopsAtNearest
    <2> SUFFICES ASSUME Derived, NEW k \in 1 .. Len(order),
                        LegAxis(plan, order, legStart(k), LegEnd(ends, k)) # 0,
                        NEW pos \in Int
                 PROVE  LET e == LegEnd(ends, k)
                            ax == LegAxis(plan, order, legStart(k), e)
                            r == SyncSlot(plan, order, ax, e, pos, k)
                        IN  \A j \in k .. e : Distance(pos, 2 * plan[order[r]][ax])
                                                 <= Distance(pos, 2 * plan[order[j]][ax])
        BY DEF SyncStopsAtNearest
    <2> DEFINE e == LegEnd(ends, k)
               ax == LegAxis(plan, order, legStart(k), e)
    <2>1. Len(order) \in Nat
        BY OrderIsOfPlan
    <2>2. /\ e \in k .. Len(order)
          /\ \A j \in k .. e : plan[order[j]][ax] \in Int
          /\ \/ \A j \in k .. e - 1 : plan[order[j]][ax] < plan[order[j + 1]][ax]
             \/ \A j \in k .. e - 1 : plan[order[j]][ax] > plan[order[j + 1]][ax]
        BY LegRunsOneWay
    <2> HIDE DEF e, ax
    <2>3. k \in Nat /\ e \in Nat /\ k <= e
        BY <2>1, <2>2
    <2>4. \A j \in k .. e : Distance(pos, 2 * plan[order[SyncSlot(plan, order, ax, e, pos, k)]][ax])
                               <= Distance(pos, 2 * plan[order[j]][ax])
        BY <2>2, <2>3, SyncSlotIsNearest
    <2>5. QED
        BY <2>4 DEF e, ax
<1>2. QED
    BY <1>1, AlwaysDerived, PTL

-----------------------------------------------------------------------------
(* The estimate.                                                           *)

\* With no cell done the order is the whole plan.
LEMMA WholeOrder ==
    ASSUME Derived, done = {}
    PROVE  order = [k \in 1 .. p.nx * p.ny |-> k]
<1> DEFINE N == p.nx * p.ny
<1>1. N \in Nat /\ DOMAIN plan = 1 .. N
    BY PlanIsOfCells
<1> HIDE DEF N
<1>2. order = Ascending(1 .. N)
    <2>1. {k \in DOMAIN plan : plan[k] \notin done} = 1 .. N
        BY <1>1
    <2>2. order = Ascending({k \in DOMAIN plan : plan[k] \notin done})
        BY DEF Derived, PendingOrder
    <2>3. QED
        BY <2>1, <2>2
<1>3. ASSUME NEW k \in 1 .. N PROVE Cardinality({j \in 1 .. N : j < k}) = k - 1
    <2>1. {j \in 1 .. N : j < k} = 1 .. k - 1
        BY <1>1
    <2>2. Cardinality(1 .. k - 1) = IF 1 > k - 1 THEN 0 ELSE k - 1 - 1 + 1
        BY FS_Interval
    <2>3. Cardinality(1 .. k - 1) = k - 1
        BY <1>1, <2>2
    <2>4. QED
        BY <2>1, <2>3
<1>4. Cardinality(1 .. N) = N
    <2>1. Cardinality(1 .. N) = IF 1 > N THEN 0 ELSE N - 1 + 1
        BY <1>1, FS_Interval
    <2>2. QED
        BY <1>1, <2>1
<1>5. ASSUME NEW i \in 1 .. N
      PROVE  (CHOOSE k \in 1 .. N : Cardinality({j \in 1 .. N : j < k}) = i - 1) = i
    <2>1. \A k \in 1 .. N : Cardinality({j \in 1 .. N : j < k}) = i - 1 <=> k = i
        BY <1>1, <1>3
    <2>2. QED
        BY <2>1
<1>6. Ascending(1 .. N) = [i \in 1 .. N |-> i]
    BY <1>4, <1>5 DEF Ascending
<1>7. QED
    BY <1>2, <1>6 DEF N

\* The legs and steps spiralStats counts edge by edge are those of the legs the
\* run will walk (buildSpiralLegs).
THEOREM EstimateIsTheLegs == Spec => []EstimateCountsTheLegs
<1>1. Derived => EstimateCountsTheLegs
    <2> SUFFICES ASSUME Derived, ModeSpiral(p), done = {}
                 PROVE  SpiralStats(p.nx, p.ny) =
                            [legs |-> Cardinality(ends), steps |-> p.nx * p.ny - 1]
        BY DEF EstimateCountsTheLegs
    <2> DEFINE N == p.nx * p.ny
               f == SpiralLegStarts(plan, order)
               B == {k \in 1 .. N : f[k]}
    <2>1. order = [k \in 1 .. N |-> k]
        BY WholeOrder
    <2>2. IsParams(p) /\ ~ParamsError(p) /\ plan = SpiralPlan(p)
        BY DEF Derived, BuildPlan
    <2>3. N \in Nat /\ N > 1
        BY <2>2, ClockwiseIs
    <2>4. Len(order) = N
        BY <2>1, <2>3
    <2>5. IsWalk(B, WaysOf(p), N)
        BY <2>1, <2>2, SpiralIsWalk
    <2>6. SpiralStats(p.nx, p.ny) = [legs |-> 1 + Cardinality(EndsBefore(B, N)), steps |-> N - 1]
        BY <2>2, <2>5, SpiralCounted
    <2>7. ends = {k \in 1 .. N : k = N \/ f[k + 1]}
        BY <2>4 DEF Derived, LegEnds
    <2> HIDE DEF f, N
    <2>8. ends = EndsBefore(B, N) \union {N}
        <3>1. ASSUME NEW k PROVE k \in 1 .. N /\ k # N <=> k \in 1 .. N - 1
            BY <2>3
        <3>2. ASSUME NEW k \in 1 .. N - 1 PROVE k + 1 \in 1 .. N
            BY <2>3
        <3>3. N \in 1 .. N
            BY <2>3
        <3>4. ASSUME NEW k PROVE k \in ends <=> k \in EndsBefore(B, N) \/ k = N
            <4>1. CASE k = N
                BY <2>7, <3>3, <4>1
            <4>2. CASE k # N
                <5>1. k \in ends <=> k \in 1 .. N - 1 /\ f[k + 1]
                    BY <2>7, <3>1, <4>2
                <5>2. k \in EndsBefore(B, N) <=> k \in 1 .. N - 1 /\ f[k + 1]
                    BY <3>2 DEF EndsBefore
                <5>3. QED
                    BY <4>2, <5>1, <5>2
            <4>3. QED
                BY <4>1, <4>2
        <3>5. QED
            BY <3>4
    <2> HIDE DEF B
    <2>9. /\ IsFiniteSet(EndsBefore(B, N)) /\ Cardinality(EndsBefore(B, N)) \in Nat
          /\ N \notin EndsBefore(B, N)
        <3>1. N \in Nat \ {0}
            BY <2>3
        <3>2. N \notin EndsBefore(B, N)
            BY <2>3 DEF EndsBefore
        <3>3. QED
            BY <3>1, <3>2, EndsCount
    <2>10. Cardinality(ends) = Cardinality(EndsBefore(B, N)) + 1
        BY <2>8, <2>9, FS_AddElement
    <2>11. Cardinality(ends) = 1 + Cardinality(EndsBefore(B, N))
        BY <2>9, <2>10
    <2>12. QED
        BY <2>6, <2>11 DEF N
<1>2. QED
    BY <1>1, AlwaysDerived, PTL
===============================================================================
