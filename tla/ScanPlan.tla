------------------------------- MODULE ScanPlan -------------------------------
(***************************************************************************)
(* The pure part of a scan: scan/scanplan.cpp.  A parameter record says    *)
(* which grid is scanned and in which order; the plan is the sequence of   *)
(* cells of that grid in scanning order; an order is a sequence of plan    *)
(* indices still to be walked; a leg is a straight piece of an order that  *)
(* is traversed without stopping.                                          *)
(*                                                                         *)
(* A cell is <<ix, iy>>, counted from 0 as in the code; plan and order     *)
(* indices count from 1 (the code counts from 0).  Pulse positions are     *)
(* left out: xs and ys are strictly increasing in ix and iy, so every      *)
(* comparison of positions on one axis is a comparison of indices.         *)
(*                                                                         *)
(* Definitions marked "Wrong:" here and in the modules above are plausible *)
(* mistakes in the definition that follows.  Nothing uses them; they are   *)
(* put in its place to see that the properties notice.                     *)
(***************************************************************************)
EXTENDS Integers, Sequences, FiniteSets

Modes == {"Serpentine", "SameDir", "RandomOnce", "RandomRepeat",
          "SpiralCW", "SpiralCCW"}

\* A parameter record.  "area" stands for the real-valued geometry (the two
\* area sizes and the pulses per unit), "dwell" for dwell_ms in ticks, "samples"
\* for the samples averaged for a point, and "fast" says that speed and meter
\* interval put samples further apart than the cells are.
IsParams(p) ==
    /\ DOMAIN p = {"area", "nx", "ny", "mode", "start_positive", "dwell", "samples",
                   "fast"}
    /\ p.nx \in Nat /\ p.ny \in Nat
    /\ p.mode \in Modes
    /\ p.start_positive \in BOOLEAN /\ p.fast \in BOOLEAN
    /\ p.dwell \in Nat /\ p.samples \in Nat \ {0}

ModeRandom(p)  == p.mode \in {"RandomOnce", "RandomRepeat"}
ModeEndless(p) == p.mode = "RandomRepeat"
ModeSpiral(p)  == p.mode \in {"SpiralCW", "SpiralCCW"}
OnFly(p)       == ~ModeRandom(p) /\ p.dwell = 0

\* A grid needs two points on each axis.
ParamsError(p)        == p.nx < 2 \/ p.ny < 2
ContinuousRunError(p) == OnFly(p) /\ p.fast
RunError(p)           == ParamsError(p) \/ ContinuousRunError(p)

\* The mode is not part of the geometry.
SameGeom(p, q) == p.area = q.area /\ p.nx = q.nx /\ p.ny = q.ny

Cells(p) == (0 .. p.nx - 1) \X (0 .. p.ny - 1)

-----------------------------------------------------------------------------
(* Plans.                                                                  *)

\* Wrong: the backward rows start one cell outside.
RowPlanShifted(p) ==
    [k \in 1 .. p.nx * p.ny |->
        LET iy  == (k - 1) \div p.nx
            c   == (k - 1) % p.nx
            fwd == (p.mode = "Serpentine" => iy % 2 = 0) = p.start_positive
        IN  <<IF fwd THEN c ELSE p.nx - c, iy>>]

\* Row modes: rows bottom to top; the serpentine turns round on every odd row.
RowPlan(p) ==
    [k \in 1 .. p.nx * p.ny |->
        LET iy  == (k - 1) \div p.nx
            c   == (k - 1) % p.nx
            fwd == (p.mode = "Serpentine" => iy % 2 = 0) = p.start_positive
        IN  <<IF fwd THEN c ELSE p.nx - 1 - c, iy>>]

\* n cells from <<x, y>> on, each <<dx, dy>> further than the last.
Line(x, y, dx, dy, n) == [k \in 1 .. n |-> <<x + dx * (k - 1), y + dy * (k - 1)>>]

\* Wrong: the left column is walked from the top.
RingTurned(p, r) ==
    LET xr == p.nx - 1 - r
        yt == p.ny - 1 - r
        w  == p.nx - 2 * r
        h  == p.ny - 2 * r
    IN  CASE w = 1 -> Line(r, yt, 0, -1, h)
          [] w > 1 /\ h = 1 -> Line(r, yt, 1, 0, w)
          [] w > 1 /\ h > 1 -> Line(r, yt, 1, 0, w) \o Line(xr, yt - 1, 0, -1, h - 1)
                            \o Line(xr - 1, r, -1, 0, w - 1) \o Line(r, yt - 1, 0, -1, h - 2)

\* Ring r of the clockwise spiral: top row, right column, bottom row and the
\* left column up to the cell below the start.
Ring(p, r) ==
    LET xr == p.nx - 1 - r
        yt == p.ny - 1 - r
        w  == p.nx - 2 * r
        h  == p.ny - 2 * r
    IN  CASE w = 1 -> Line(r, yt, 0, -1, h)
          [] w > 1 /\ h = 1 -> Line(r, yt, 1, 0, w)
          [] w > 1 /\ h > 1 -> Line(r, yt, 1, 0, w)
                            \o Line(xr, yt - 1, 0, -1, h - 1)
                            \o Line(xr - 1, r, -1, 0, w - 1)
                            \o Line(r, r + 1, 0, 1, h - 2)

SpiralPlan(p) ==
    LET rings == (IF p.nx < p.ny THEN p.nx + 1 ELSE p.ny + 1) \div 2
        cw[r \in 0 .. rings] == IF r = 0 THEN <<>> ELSE cw[r - 1] \o Ring(p, r - 1)
        mirror(c) == <<p.nx - 1 - c[1], c[2]>>
    IN  IF p.mode = "SpiralCW" THEN cw[rings]
        ELSE [k \in 1 .. Len(cw[rings]) |-> mirror(cw[rings][k])]

BuildPlan(p) ==
    IF ParamsError(p) THEN <<>>
    ELSE IF ModeSpiral(p) THEN SpiralPlan(p) ELSE RowPlan(p)

IsPlanOf(plan, cells) ==
    /\ plan \in [1 .. Cardinality(cells) -> cells]
    /\ \A c \in cells : \E k \in DOMAIN plan : plan[k] = c

\* What a shuffle can make of a plan: every arrangement of its cells.
Shuffles(plan) ==
    LET cells == {plan[k] : k \in DOMAIN plan}
    IN  {q \in [DOMAIN plan -> cells] : \A c \in cells : \E k \in DOMAIN q : q[k] = c}

-----------------------------------------------------------------------------
(* Orders.                                                                 *)

AllOf(plan) == [k \in 1 .. Len(plan) |-> k]

\* The members of a finite set of numbers in increasing order.
Ascending(S) ==
    [i \in 1 .. Cardinality(S) |->
        CHOOSE k \in S : Cardinality({j \in S : j < k}) = i - 1]

\* Wrong: the mask of cells is looked up with the plan index.
PendingOrderByIndex(plan, done) ==
    LET nx == Cardinality({plan[j][1] : j \in DOMAIN plan})
    IN  Ascending({k \in DOMAIN plan : <<(k - 1) % nx, (k - 1) \div nx>> \notin done})

\* The plan indices whose cell is not done yet, in plan order.
PendingOrder(plan, done) == Ascending({k \in DOMAIN plan : plan[k] \notin done})

-----------------------------------------------------------------------------
(* Legs.  A leg is kept as the position of its last cell in the order.     *)

\* The unit step from cell a to cell b, <<0, 0>> when they differ on both axes.
Heading(a, b) ==
    LET sign(d) == IF d > 0 THEN 1 ELSE IF d < 0 THEN -1 ELSE 0
    IN  IF a[1] = b[1] \/ a[2] = b[2]
        THEN <<sign(b[1] - a[1]), sign(b[2] - a[2])>>
        ELSE <<0, 0>>

\* Does position k of the order open a new leg?  A row leg ends with the row.
\* A spiral leg takes its heading from its own first step, and ends at a jump
\* or at the first step that turns away from that heading.
RowLegStarts(plan, order) ==
    [k \in 1 .. Len(order) |->
        k > 1 => plan[order[k]][2] # plan[order[k - 1]][2]]

\* Wrong: a jump over cells done before does not end the leg.
SpiralLegStartsOverJumps(plan, order) ==
    LET head(k) == Heading(plan[order[k - 1]], plan[order[k]])
        starts[k \in 1 .. Len(order)] ==
            k = 1 \/ (~starts[k - 1] /\ head(k) # <<0, 0>> /\ head(k) # head(k - 1))
    IN  starts

SpiralLegStarts(plan, order) ==
    LET head(k) == Heading(plan[order[k - 1]], plan[order[k]])
        starts[k \in 1 .. Len(order)] ==
            \/ k = 1
            \/ head(k) = <<0, 0>>
            \/ ~starts[k - 1] /\ head(k) # head(k - 1)
    IN  starts

LegEnds(p, plan, order) ==
    LET starts == IF ModeSpiral(p) THEN SpiralLegStarts(plan, order)
                                   ELSE RowLegStarts(plan, order)
    IN  {k \in 1 .. Len(order) : k = Len(order) \/ starts[k + 1]}

\* The end of the leg that position k is on.
LegEnd(ends, k) == CHOOSE e \in ends : e >= k /\ \A d \in ends : d >= k => e <= d

-----------------------------------------------------------------------------
(* Following the stage along a leg (syncOnFlyCell).                        *)

\* The axis a leg runs along, 0 when it has a single cell.
LegAxis(plan, order, from, to) ==
    IF from = to THEN 0
    ELSE LET a == plan[order[from]]  b == plan[order[from + 1]]
         IN  IF a[2] = b[2] /\ a[1] # b[1] THEN 1
             ELSE IF a[1] = b[1] /\ a[2] # b[2] THEN 2 ELSE 0

Distance(x, y) == IF x < y THEN y - x ELSE x - y

\* Wrong: one cell at most is passed between two looks at the stage.
SyncSlotByOne(plan, order, ax, e, pos, k) ==
    LET away(j) == Distance(pos, 2 * plan[order[j]][ax])
    IN  IF k < e /\ away(k + 1) < away(k) THEN k + 1 ELSE k

\* The first position from k on, at most e, whose successor is not strictly
\* nearer to pos.  Positions are in half cells, cell ix being at 2 * ix.
SyncSlot(plan, order, ax, e, pos, k) ==
    LET away(j) == Distance(pos, 2 * plan[order[j]][ax])
        stop == {j \in k .. e : j = e \/ away(j + 1) >= away(j)}
    IN  CHOOSE j \in stop : \A i \in stop : j <= i
-----------------------------------------------------------------------------
(* The number of legs and steps of a whole spiral, counted edge by edge     *)
(* without building the plan (spiralStats, from which the run time of a     *)
(* continuous spiral is estimated).                                         *)

SpiralEdges(nx, ny) ==
    LET ring(r) ==
            LET w == nx - 2 * r  h == ny - 2 * r
            IN  IF w = 1 THEN << <<h - 1, <<0, -1>>>> >>
                ELSE IF h = 1 THEN << <<w - 1, <<1, 0>>>> >>
                ELSE << <<w - 1, <<1, 0>>>>, <<h - 1, <<0, -1>>>>,
                        <<w - 1, <<-1, 0>>>>, <<h - 2, <<0, 1>>>> >>
        rings == (IF nx < ny THEN nx + 1 ELSE ny + 1) \div 2
        upto[r \in 1 .. rings] ==
            IF r = 1 THEN ring(0)
            ELSE upto[r - 1] \o << <<1, <<1, 0>>>> >> \o ring(r - 1)
    IN  upto[rings]

\* Wrong: an edge of one step takes part in the turn that follows it.
SpiralStatsShortEdge(nx, ny) ==
    LET edges == SpiralEdges(nx, ny)
        stat[i \in 0 .. Len(edges)] ==
            IF i = 0 THEN 0 ELSE stat[i - 1] + (IF edges[i][1] > 0 THEN 1 ELSE 0)
    IN  [legs |-> stat[Len(edges)], steps |-> nx * ny - 1]

SpiralStats(nx, ny) ==
    LET edges == SpiralEdges(nx, ny)
        none  == <<0, 0>>
        turn(s, n, d) ==
            IF n <= 0 THEN s
            ELSE IF s.dir = none \/ s.dir = d THEN [s EXCEPT !.dir = d]
            ELSE [legs |-> s.legs + 1, dir |-> IF n = 1 THEN none ELSE d]
        stat[i \in 0 .. Len(edges)] ==
            IF i = 0 THEN [legs |-> 1, dir |-> none]
            ELSE turn(stat[i - 1], edges[i][1], edges[i][2])
        steps[i \in 0 .. Len(edges)] ==
            IF i = 0 THEN 0
            ELSE steps[i - 1] + (IF edges[i][1] > 0 THEN edges[i][1] ELSE 0)
    IN  [legs |-> stat[Len(edges)].legs, steps |-> steps[Len(edges)]]
=============================================================================
