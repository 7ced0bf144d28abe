------------------------------ MODULE MCScanPlan ------------------------------
(***************************************************************************)
(* Checks the operators of ScanPlan against what they are used for, over   *)
(* every small grid and every set of cells that can be missing from a      *)
(* file: each state is one grid with one set of cells already done.        *)
(***************************************************************************)
EXTENDS ScanPlan

CONSTANTS
    MaxSide,        \* grids of up to MaxSide x MaxSide are planned
    MaxPartial      \* grids of up to this many cells are also resumed part-way

VARIABLES
    p,      \* the parameters
    done,   \* the cells that have a row
    plan,   \* what the code builds from them: the plan,
    order,  \* the indices left to walk,
    ends    \* and where its legs end

vars == <<p, done, plan, order, ends>>

Derive(pp, dd, pl) ==
    /\ p = pp /\ done = dd /\ plan = pl
    /\ order = PendingOrder(pl, dd)
    /\ ends = LegEnds(pp, pl, order)

Init ==
    \E q \in [area : {"a"}, nx : 2 .. MaxSide, ny : 2 .. MaxSide,
              mode : {"Serpentine", "SameDir", "SpiralCW", "SpiralCCW"},
              start_positive : BOOLEAN, dwell : {0}, samples : {1}, fast : {FALSE}] :
        /\ ModeSpiral(q) => q.start_positive
        /\ Derive(q, {}, BuildPlan(q))

\* Any cell may have its row already: retests and merged files leave holes.
CellDone ==
    /\ p.nx * p.ny <= MaxPartial
    /\ \E c \in Cells(p) \ done : done' = done \union {c}
    /\ order' = PendingOrder(plan, done')
    /\ ends' = LegEnds(p, plan, order')
    /\ UNCHANGED <<p, plan>>

Next == CellDone

Spec == Init /\ [][Next]_vars

-----------------------------------------------------------------------------
legStart(k) == CHOOSE s \in 1 .. k :
                   /\ \A j \in s .. k - 1 : j \notin ends
                   /\ s = 1 \/ s - 1 \in ends

\* Whatever the mode, the plan visits every cell of the grid exactly once
\* (buildPlan / spiralPlan: the rings must neither overlap nor leave a core).
PlanCoversGrid == IsPlanOf(plan, Cells(p))

\* A spiral never jumps: consecutive cells of the plan are neighbours, so the
\* stage never crosses cells it has not measured (spiralPlan).
SpiralMovesOneStep ==
    ModeSpiral(p) => \A k \in 1 .. Len(plan) - 1 : 
        Distance(plan[k][1], plan[k + 1][1]) + Distance(plan[k][2], plan[k + 1][2]) = 1

\* Along a leg the stage moves on one axis in one direction, also when the
\* order has holes: syncOnFlyCell compares positions on that axis alone, and a
\* leg that bent or turned back would credit samples to the wrong cell.
LegsRunStraight ==
    \A k \in 1 .. Len(order) - 1 : k \notin ends =>
        LET s == legStart(k)
            a == plan[order[k]]
            b == plan[order[k + 1]]
        IN  /\ Heading(a, b) # <<0, 0>>
            /\ Heading(a, b) = Heading(plan[order[s]], plan[order[s + 1]])

\* Wherever the stage is seen next, syncOnFlyCell stops at the cell nearest to
\* it among those not passed yet, for every leg of every partly filled grid.
SyncStopsAtNearest ==
    \A k \in 1 .. Len(order) :
        LET e  == LegEnd(ends, k)
            ax == LegAxis(plan, order, legStart(k), e)
        IN  ax # 0 =>
            \A pos \in -1 .. 2 * (IF ax = 1 THEN p.nx ELSE p.ny) :
                LET r == SyncSlot(plan, order, ax, e, pos, k)
                    away(j) == Distance(pos, 2 * plan[order[j]][ax])
                IN  \A j \in k .. e : away(r) <= away(j)

\* The leg and step counts behind the run time estimate of a spiral are those
\* of the legs the run will really walk (spiralStats against buildSpiralLegs).
EstimateCountsTheLegs ==
    ModeSpiral(p) /\ done = {} =>
        SpiralStats(p.nx, p.ny) =
            [legs |-> Cardinality(ends), steps |-> p.nx * p.ny - 1]
=============================================================================
