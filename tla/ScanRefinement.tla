---------------------------- MODULE ScanRefinement ----------------------------
(***************************************************************************)
(* The scan controller implements ScanRun.  What the findings are about,   *)
(* the repetition of one cell and the rounds of an endless run are void    *)
(* there: nothing is promised of them.                                     *)
(***************************************************************************)
EXTENDS ScanController

PhaseOfRun ==
    CASE ~OnePass -> "void"
      [] OnePass /\ Running -> "running"
      [] OnePass /\ st \in {"Loaded", "Aborted"} -> "held"
      [] OnePass /\ st = "Done" -> "over"
      [] OTHER -> "void"

\* What the controller keeps of the scan in its order and its place in it.
InHand == PhaseOfRun \in {"running", "held"}
GridOfRun == IF InHand THEN CellsOf(plan) ELSE {}
OwedByRun == IF InHand THEN {plan[order[i]] : i \in ord_i + 1 .. Len(order)} ELSE {}
RowsOfRun == IF PhaseOfRun = "void" THEN {} ELSE files[log].rows

Scan == INSTANCE ScanRun WITH
    AllCells <- UNION {Cells(q) : q \in Params},
    phase <- PhaseOfRun, grid <- GridOfRun, owed <- OwedByRun, rows <- RowsOfRun

\* The controller implements ScanRun: over any sequence of starts, pauses, aborts,
\* failures, restarts, reopenings and continuations, and on legs as at stops, the
\* order it keeps in memory (m_order, m_ord_i) is what the file does not have yet,
\* no row is lost again, and a run ends only when every cell of its grid has one.
RunIsScan == Scan!Spec
=============================================================================
