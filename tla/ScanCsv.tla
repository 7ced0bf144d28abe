-------------------------------- MODULE ScanCsv --------------------------------
(***************************************************************************)
(* What a scan's CSV file holds and what is read back from it:             *)
(* scan/scanlog.cpp and the CSV half of scan/scanplan.cpp.                 *)
(*                                                                         *)
(* A file is the geometry and the zero epoch of its header, the cells that *)
(* have a row, those whose last row carries a value, and the half row that *)
(* a failed write or a power cut can leave at its end.  The columns of a   *)
(* row begin with index, ix, iy, so a half row cut after them names a cell *)
(* ("keyed") and one cut before them does not ("short").                   *)
(***************************************************************************)
EXTENDS ScanPlan

NoPath == "no path"     \* no file is open

CONSTANT Cuts   \* the ways a write can stop: "none" is before its first byte

ASSUME CutsAssumption == Cuts \subseteq {"none", "short", "keyed"}

NoTail == [cut |-> "none", cell |-> <<0, 0>>]

\* beginNew: truncates, then writes the header.
HeaderOnly(p, epoch) ==
    [geom |-> [area |-> p.area, nx |-> p.nx, ny |-> p.ny], epoch |-> epoch,
     rows |-> {}, ok |-> {}, tail |-> NoTail, glued |-> FALSE]

\* Nothing on disk, or nothing with a readable header: no grid is 0 x 0.
NoFile == HeaderOnly([area |-> "none", nx |-> 0, ny |-> 0], 0)

\* trimTail: what does not end in a line feed is cut off.
Trimmed(f) == [f EXCEPT !.tail = NoTail]

\* append, once for every cell of S, "first" being the first of them; okS are
\* the cells whose row carries a value.  Nothing trims a half row here: the
\* first row written behind one becomes part of a line no reader can use.
AppendRows(f, S, okS, first) ==
    LET kept == IF f.tail = NoTail THEN S ELSE S \ {first}
    IN  [f EXCEPT !.rows = @ \union kept,
                  !.ok = (@ \ kept) \union (okS \intersect kept),
                  !.tail = IF S = {} THEN @ ELSE NoTail,
                  !.glued = @ \/ (S # {} /\ f.tail # NoTail)]

\* A write of the row of cell c that stops part-way (or before its first byte).
\* One cut inside the digits of iy could name another cell in a grid of ten rows
\* or more: digits are left out.
HalfRow(f, c, cut) ==
    IF cut = "none" \/ f.tail # NoTail THEN f
    ELSE [f EXCEPT !.tail = [cut |-> cut, cell |-> c]]

\* csvParseForResume: every line with three fields counts as a row, whether it
\* is complete or not.
ResumeMask(f) ==
    f.rows \union (IF f.tail.cut = "keyed" THEN {f.tail.cell} ELSE {})

\* Wrong: every row counts as a value, also one that timed out.
ResumeGridsOfRows(f) == {f.rows}

\* csvLoadGrid: the last row of a cell decides; a half row may or may not
\* reach as far as the value and ok columns.
ResumeGrids(f) ==
    IF f.tail.cut = "keyed"
    THEN {f.ok, f.ok \union {f.tail.cell}, f.ok \ {f.tail.cell}}
    ELSE {f.ok}
=============================================================================
