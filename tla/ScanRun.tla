-------------------------------- MODULE ScanRun --------------------------------
(***************************************************************************)
(* What a scan of one pass promises, whatever order it walks in and however *)
(* often it is interrupted: every cell of its grid is owed until it has a   *)
(* row, a row that is written stays, and the scan is over when nothing is   *)
(* owed.  ScanRefinement shows that the scan controller keeps the promise.  *)
(***************************************************************************)
EXTENDS Naturals

CONSTANT AllCells   \* the cells of every grid that can be scanned

VARIABLES
    phase,  \* "void": nothing is promised of what is going on
    grid,   \* the cells of the scan
    owed,   \* those that have still to be measured
    rows    \* those that have a row in the file

scanVars == <<phase, grid, owed, rows>>

Init == phase = "void" /\ grid = {} /\ owed = {} /\ rows = {}

\* A new file is begun.
Begin ==
    /\ phase # "running" /\ phase' = "running"
    /\ grid' \in SUBSET AllCells /\ grid' # {}
    /\ owed' = grid' /\ rows' = {}

\* An earlier file is opened again.
Reopen ==
    /\ phase # "running" /\ phase' = "held"
    /\ {grid', rows'} \subseteq SUBSET AllCells
    /\ owed' = grid' \ rows'

\* The rows of the cells of S are written, and something is still owed.
Write(S) ==
    /\ phase = "running" /\ S \subseteq owed /\ S # owed
    /\ rows' = rows \union S /\ owed' = owed \ S
    /\ UNCHANGED grid

Record(S) == Write(S) /\ UNCHANGED phase

\* The scan is broken off, the rows of S having been written just before.
Halt(S) == Write(S) /\ phase' = "held"

Continue ==
    /\ phase = "held" /\ owed # {}
    /\ phase' = "running"
    /\ UNCHANGED <<grid, owed, rows>>

\* The only way to the end of a scan.
Finish ==
    /\ phase = "running" /\ phase' = "over"
    /\ rows' = rows \union owed
    /\ owed' = {} /\ grid' = {}

\* What is going on is given up, or is nothing that can be held against the file.
GiveUp == phase' = "void" /\ grid' = {} /\ owed' = {} /\ rows' = {}

\* Something of which nothing was promised comes to its end.
EndOther ==
    /\ phase = "void" /\ phase' = "over"
    /\ rows' \in SUBSET AllCells
    /\ owed' = {} /\ grid' = {}

Next ==
    \/ Begin \/ Reopen \/ Continue \/ Finish \/ GiveUp \/ EndOther
    \/ \E S \in {rows' \ rows} : Record(S) \/ Halt(S)

Spec == Init /\ [][Next]_scanVars
=============================================================================
