# Verification of the scanning stage software

TLA+ specifications, TLC model checking and TLAPS proofs for the program in
`src/`: a C++/Qt program that moves a two-axis stage over EtherCAT, reads a laser
power meter, and scans a grid of points into a CSV file.

## 1. The system

### Parts, their state and their operations

| part | code | state | operations |
|---|---|---|---|
| scan plan | `scan/scanplan.cpp` | none (pure) | build a plan in six modes, shuffle it, cut it into legs, estimate, validate, write and parse the CSV |
| scan file | `scan/scanlog.cpp` | file handle, rows written | create, open for appending (trims a half row), append and flush a row, close |
| scan controller | `scan/scancontroller.cpp` | state, plan, order and place in it, legs and place on the leg, kept sample, deadlines, marks and values per cell, zero epoch | set parameters, start, load, continue, repeat a cell, pause, resume, abort, new file; refresh (`tick`); meter sample |
| arrival judge | `scan/scanarrive.cpp` | time the axis has been in place | feed an observation, give a verdict |
| limit record | `scan/limitguard.h` | recorded limit lines per axis and side | record, test a range |
| EtherCAT worker | `hmi/ecatworker.cpp` | command queue, wanted and issued positions, origin, zero epoch, homing, recovery | connect, enable, stop, home, zero, range, list, ..., cyclic service |
| drive layer | `motor_api/*.c` | CiA 402 state and control word per axis; places of the fields in the process image; snapshots of mapping tables and of the polarity of the inputs | open, set up, enter OP, shut down; enable, disable, fault reset, recover, home |
| meter log | `scan/meterlog.cpp` | outstanding request, watchdog, average, window, CSV | start, stop, request, take a reading |
| meters | `scan/ophirmeter.cpp`, `ophircom.cpp`, `powermeter.cpp` | session thread, wanted session, pending request | open, close, request a reading |
| run log, preferences | `scan/runlog.cpp`, `scanprefs.cpp` | text file, ini file | append, cut the head, save, load |
| windows | `scan/scanwindow.cpp`, `mapcanvas.cpp`, `hmi/*.cpp` | widgets | call the operations above, lock what must not be touched |
| SOEM | `SOEM/` | third-party EtherCAT master | vendored |

### How they interact

* The GUI thread runs the windows, the scan controller, the meter log and the
  window-side half of the meters. A 30 Hz timer calls `ScanController::tick` with a
  fresh copy of the telemetry; the meter log calls `feedMeterSample`; buttons call
  the rest. A call is never interrupted by another.
* The EtherCAT worker is a thread of its own. It takes commands from a queue under
  a mutex; the controller writes wanted positions with `setTarget` and reads
  telemetry, each under the lock but with nothing tying one call to the next: the
  stage can be anywhere on its way when the controller looks.
* The Ophir meter is driven from a session thread; readings come back as queued
  signals and can be late.
* The scan file is the only memory of a run that survives a crash. It is read back
  by `loadResume`, which may find a half-written row at its end.
* The zero epoch counts how often the zero point was moved. The worker owns it, the
  preferences keep it, the file header carries it, and the controller compares it
  before it continues a file.

### What is hard

* **Legs.** With no dwell time the stage traverses a whole leg without stopping. The
  cell under it is found by following its position; between two looks it may pass
  none, one or several cells, every one of which needs one row, with its own sample
  or with none.
* **Taking up again.** A run can be paused, aborted, continued, cut off by a crash,
  reopened from its file and measured again cell by cell, in any order, and still
  has to measure every cell once.
* **Two indices.** A cell has an index in the grid and another in the plan; they are
  the same in one mode only.
* **Failures half-way.** A row cannot be written after others of the same call were.
* **Changes between steps.** Parameters, geometry and zero point can change between an
  abort and its continuation, and some parameters in the middle of a run.
* **Deadlines.** The stage may never arrive, the meter may never answer.
* **Somebody else's memory.** A connection extends mapping tables in the drives, one mailbox transfer
  at a time. One may be refused or lost, the program may be killed between two, and what it finds
  the next time is what it left.

### What makes each part correct

* Plan: covers the grid once; a spiral never jumps; a leg is straight and has no holes;
  the estimate counts the legs the plan has.
* File: what is read back is what was written.
* Controller: what is left to walk is what has no row; complete means covered; a sample
  stays with its cell; the map shows what the file says; a file holds rows of one geometry
  and one zero point; no point lasts for ever.
* Worker: a stop is never lost; origin, wanted and issued position shift together; no axis
  moves while it is homed or recovered; the epoch changes exactly when the zero point does.
* Drive layer: every field is read and written where the drive has it; what a connection changes
  in a drive is put back; enabling is all or nothing; recovery never touches a drive that is in OP.
* Meter log and meters: one outstanding request; a late answer never counts for another
  request or session.

## 2. Modules

| module | models | extends |
|---|---|---|
| `ScanPlan` | pure part of `scanplan.cpp`, legs of `armRun`, follower of `syncOnFlyCell` | |
| `ScanCsv` | `scanlog.cpp` and the reading back of `scanplan.cpp` | `ScanPlan` |
| `ScanController` | `scancontroller.cpp`, with the files on disk | `ScanCsv` |
| `ScanRun` | what a scan of one pass promises (abstract) | |
| `ScanRefinement` | the mapping by which the controller implements `ScanRun` | `ScanController` |
| `WorkerRules` | the pure rules of `ecatworker.h`: steps of homing and of a measurement, anchors, ranges, blame, recovery | |
| `EcatWorker` | the worker thread, its queue and the GUI's half of it, the drives and the frames | `WorkerRules` |
| `BusSession` | one connection to the drives: `em_open`, `em_setup`, `em_di_set_logic`, `em_enter_op`, `em_shutdown` of `ec_motor.c` | |
| `OphirMeter` | the session thread of `ophirmeter.cpp` and the heads | |
| `MeterLog` | `meterlog.cpp` and the window's handling of the meter | `OphirMeter` |
| `MCScanPlan`, `MCScan`, `MCWorker`, `MCBus`, `MCMeter` | instances for TLC | `ScanPlan`, `ScanRefinement`, `EcatWorker`, `BusSession`, `MeterLog` |
| `ScanPlanProofs` | orders, plans and legs: the plan of every mode covers its grid | `ScanPlan` |
| `ScanGridProofs` | theorems about plans, legs and the follower | `MCScanPlan`, `ScanPlanProofs` |
| `ScanControllerProofs` | theorems about runs | `ScanController`, `ScanPlanProofs` |
| `ScanFileProofs` | theorems about files, about a run against its file, and that the controller implements `ScanRun` | `ScanRefinement`, `ScanControllerProofs` |
| `EcatWorkerProofs` | theorems about the worker's rules, its epochs, recovery, batches, values, summaries, stops and searching axes | `EcatWorker` |
| `WorkerMotionProofs` | theorems about what its axes do: standing still, widths measured, jumps | `EcatWorkerProofs` |
| `BusSessionProofs` | theorems about a connection | `BusSession` |
| `MeterLogProofs` | theorems about the meter and its log | `MeterLog` |

### The scan: from the code to the model

* A cell is `<<ix, iy>>`; plan and order indices count from 1. Pulse positions are
  strictly increasing in the indices, so the model compares indices.
* `m_done` and `m_have` are sets of cells. `m_legs` is the set of positions in the
  order at which a leg ends, and `fly.at` the position the stage is at, which stands
  for `m_leg_i` and `m_leg_slot`. That the place in the order (`m_ord_i`) agrees with it
  is a property (`AtFirstPending`), not an assumption.
* A deadline is the time left to it in ticks, floored at -1: the code tests whether it
  has passed, has just been reached or lies ahead.
* What a call reads from bus, meter and limit record is an *observation*, chosen
  afresh at every step from the constant `Observations`. Nothing relates one to the next,
  which allows more than the worker does.
* Where the stage is on a leg is chosen afresh too: any position from the last one seen
  to the end of the leg. That the follower finds the nearest is checked in `MCScanPlan`.
* A file is the geometry and zero epoch of its header, the cells that have a row, those
  whose last row has a value, and the half row at its end. A half row that names its cell
  ("keyed") is told apart from one that does not ("short").
* `ScanController!Next` has one action per public operation and, for `tick`, one per state
  and outcome. An action is the whole handler: `TickLegOver` contains the row, the advance
  to the next leg or the end of the run, and the order to the stage. Handlers that write
  rows have a second outcome in which a write fails and the run is aborted.
* `SetParams` during a run or on a loaded file changes only what the window leaves open
  then: dwell time, number of samples, and what decides whether continuous running is
  refused.
* Reading `m_plan` past its end leads to the state `"Undefined"`, of which nothing is known.
* `spoil` is a history variable that no action of the program depends on. It records what section 5
  is about, so that the properties can be stated of the runs in which it did not happen: `"torn"` a
  row that was cut short by a failing write, or read back so, `"refused"` a start or loading that was refused, `"replanned"` a new
  plan after an abort, `"stale"` an abort of a run begun over an earlier one's marks, `"moved"` a zero
  point that moved while a run was on. `"reused"`, a run begun over marks, is excluded from `MapIsFile` only;
  `"accepted"`, a file opened under another zero point than its own, decides which one `OneZeroPoint` is about.
* `setZeroEpoch` is called by the refresh whenever the worker's epoch has changed and has no guard: `SetZeroEpoch` may
  happen during a run too. Only the buttons refuse while a run is on, when they are clicked; what was queued before
  the start is still done.
* Not modelled in the controller: wording, estimates of time, the speed that is set once
  per run, the position of the retest order of several cells (the code has one cell), the
  arrival judge's verdict "faulted" (a faulted axis ends the run in `healthProblem`
  first), and the reopening of a file in which a row was written behind a half row.

### What a scan promises

`ScanRun` knows a grid, the cells owed and the rows of the file. A scan begins with a new
file or is opened again, cells that are owed get a row, and it ends when nothing is
owed. `ScanRefinement` maps the controller onto it: the cells owed are those of `m_order`
from `m_ord_i` on, the rows those of the open file. Runs of which nothing can be promised
(a cell measured again, an endless run, and what the findings are about) are "void" there.

### The worker: from the code to the model

* One action per command of `drainCommands` and per phase of a pass (`Top`, `drain`,
  homing, span, interpolation, frame, recovery). Inside a ladder (`doEnable`,
  `finishHoming`, the start of homing) there is one step per drive and rung, and one per
  frame that is exchanged meanwhile, since the GUI acts between them.
* The GUI posts a command, writes a wanted position, asks to quit, or presses stop, which
  is two steps: the telemetry is looked at, and then the stop is raised or queued, as
  `requestStop` and the window do.
* A ladder climbs rung by rung: the last rung (Enable Operation) is written only after a full frame
  has shown the one before. A drive has its control word as of the last frame that reached it, obeys it by the
  step's limit when frames are full, may fault, be pushed by hand, or fall out of OP,
  which makes every frame short. What the worker knows of a drive is the mirror of the last full
  frame (`seen`), shared by all axes like the counter of short frames (`bad`).
* Positions are integers, the origin signal a set of them, and one interpolation step
  is one unit (`Step`), so that a width is exact. An axis lags its target by at most one step
  and never overshoots. The PC's own timing (gaps, time since the last try) is free.
* `gen` is the zero epoch and `origin` the zero point; `shown` is a history of the pairs
  that were ever published. `asked`, `held`, `pressed` and `stranded` are history variables
  too: no action reads them.
* Simplifications: 603Fh alarms count as faults; setting the operation mode in `doEnable` is
  part of its rung; one pass of `serviceHoming` is one step; enabling an axis while another
  is enabled is refused; the number of axes is fixed by the bus. Left out: `LIST`,
  `postCenterAll` (several `CENTER`), the display of modes and fault codes, the run log.

### The connection: from the code to the model

* `EcatWorker` has the cyclic life of a connection; `BusSession` has its mailbox. A drive is its
  state, its objects (a count and entries, of which those behind the count stay), the entries it accepts, and 2300h.
* `pc` follows `doConnectInner` and `teardown`, axis by axis (`cur`) and direction by direction
  (`dir`). What is to be written is a queue of tables (`todo`), of which each step sends one SDO (`sent` counts them); a
  table is read in one step, since nothing but this program writes it.
* A step that talks to a drive may fail, lost before or after it took effect; the
  program may be killed anywhere and connect again to what it left. `clean` says that nothing of this
  has happened in this connection.
* `ecx_SDOwrite` is what `em__sdo_write_raw` says of it: it takes a refusal for success (`AbortsPass`), so that a
  table can be less than what was written. Run `bus` has it so; with `AbortsPass = FALSE` the same
  properties hold.
* `found` and `told` are history: what the drives held at the opening, and the axes for which the console said
  that 2300h was not written.
* A drive accepts writes to its tables in PRE_OP only (`ec_motor.c:1436`), entries only while the count is zero, and no
  count beyond the entries it has: these three are taken from the comments, not from a drive.
* Left out: ramp values, distributed clocks (not used by the program), the flag that would forbid a change of the
  tables (always given), the flag that would keep it (never given), bits of 2300h other than the polarity. 603Fh
  is always asked for, 60FDh by a setting (`WantDigIn`). De-energising at the shutdown is in `EcatWorker`.

### The meter: from the code to the model

* The window's thread runs one slot at a time (`Refresh`, `Deliver`, an operator act), but
  `open()` and `close()` wait in it while the session thread goes on (`gui` is "opening",
  "joining", "leaking").
* `runSession` is a loop of steps of its own thread: apply the wishes for settings, read
  them back, fetch items of the stream, take the request and answer it. Its signals are queued
  in `post`, oldest first; publishing and emitting are one step.
* A head numbers the items of a stream and starts again with every stream. The newest
  item was measured with the settings the head has. Two settings stand for four: one is
  applied before the other, and only the second can be turned by hand.
* A call of the driver may fail or, with `Hangs`, outlast the waits of `open()` (12 s) and
  `close()` (5 s). The age of a request is 0, 1 (past `k_stale_ms`) or 2 (past
  `kTimeoutMs`), measured by one clock, since both are taken at the same instant.
* Readings are averaged over one (no caller asks for more) and the interval between them is
  free. No scan is running: it would lock head and settings. Left out: adding a
  wavelength (its controls are hidden), names of further heads, the destructor, the
  simulated meters.

Definitions marked "Wrong:" are plausible mistakes in the definition that follows
them. Nothing uses them; put in its place, each makes a property fail.

## 3. What is checked

| run | instance | properties | shows |
|---|---|---|---|
| `plan` | every grid from 2x2 to 6x6, six modes less the two random ones; every set of holes in grids of up to 9 cells | `PlanCoversGrid`, `SpiralMovesOneStep`, `LegsRunStraight`, `SyncStopsAtNearest`, `EstimateCountsTheLegs` | the plans, legs and the estimate are right |
| `scan` | 2x2, serpentine and spiral, stopped and continuous, 4 operator steps, failing writes, crashes; 2x2 with 2x3 and a zero point that moves; 2x2 with a zero point that moves, files reopened and cells repeated | `TypeOK`, `AtFirstPending`, `PendingIsComplement`, `SampleOfItsCell`, `MapIsFile`, `RowsMatchHeader`, `OneZeroPoint`, `RunIsScan` | nothing is skipped, measured twice, credited to a neighbour or written to a file of another geometry or zero point, over any interruption; the controller implements `ScanRun` |
| `progress` | 2x2, serpentine, random and endless, 3 operator steps, parameters changed during the run | `PointEnds`, `RunEnds`, `PlanStays` | no point lasts for ever; changing parameters leaves the points alone |
| `worker_one` | one axis on a line of 8 positions: moves and pushes, homing, measuring | `StillUntilAsked`, `EpochNamesZero`, `WidthIsSignal`, `NoJump` | the axis moves only when asked, never jumps, and epoch and width are true |
| `worker_two` | two drives, from a closed bus, and homed together | `TypeOK`, `NobodySearchesInOp`, `StopEndsSearch`, `PeersStop`, `BlameNamesCulprit` | a stop or a failure stops the batch, nobody searches after it, the summary is right, recovery gives up |
| `worker_live` | one axis, homing and measuring, a drive lost for good | `SessionEnds`, `CommandsAreTaken`, `QuitEnds` | the worker never gets stuck |
| `bus` | two drives of eight kinds (complete, short, nothing in force, refusing an entry, bits out of step, entries behind the count, a wide control word, two tables in force), two connections, two faults | `FieldsInPlace`, `OriginalsHeld`, `PolarityPutBack`, `TablesPutBack` | whatever is refused or lost, fields are read and written in their places, and originals are kept and put back |
| `meter` | two heads, two settings, two operator acts, calls that fail or hang | `TypeOK`, `PendingIsHeard`, `OneSession`, `MarkOfItsStream`, `ReadingAsShown`, `AnswerComes`, `ConfigEnds` | no request is lost or unanswered, one thread at a time talks to the heads, a sample is of the wavelength shown |
| `torn`, `past_plan`, `reuse`, `straggler` | the smallest instance with the case | one each | the findings of section 5 |

**Bounds of the scan.** Everything the refresh and the meter do is unbounded; only the
operator's steps are counted (`MaxOps`; a restart is one). Four are enough for start, abort
or crash, reopen or continue, and one more interruption or a repeated cell: the code keeps no
history longer than the last loaded file and the last order. `Tracks` keeps the three parts
of run `scan` apart: one grid with every interruption, two grids with a zero point that moves
once and runs that stop at each point, or one grid with a zero point that moves, before, during and between runs, while files
are reopened and cells measured again. A 2x2 grid has two legs of two cells in the row
modes and a corner in the spiral, so that a leg can end, be interrupted in the middle and
be left for another; the shapes of larger grids are the matter of run `plan`. Six by six
has three rings of a spiral, and a core of every shape occurs up to there (none, a cell, a
row, a column). One axis is enough, since the two are only ever joined by "and" or "or". The
time budgets are 1 or 2 ticks, so that a deadline lies ahead, is reached and passes.

**Bounds of the worker.** The worker, its frames and the drives' answers are unbounded; each
scene counts what the GUI and the surroundings do (commands and wanted positions 1 to 3, a push, a
fault, a drive that leaves OP, one or two short frames), and no more than two commands wait.
The scenes divide the commands by what can disturb what: moving and zeroing, homing, measuring,
two axes homed together, connecting. Counters are scaled (`ShortLimit`, `BadLimit`, `ArmFrames`,
`HomeTmo`, `StuckLimit`, `MaxTries` of 1 to 7) in the order the code has them. `PushAnywhere` is
off in the passing runs: a hand pushes slowly against frames.

**Bounds of the connection.** Two drives, so that one fails after the other was written; every pair of the
eight kinds, which are the cases `em_map_ensure`, `em_discover_pdo` and `em_setup` tell apart. Two faults: one that ends
a connection and one that disturbs putting back. The second connection finds what the first left, half-written
tables included.

**Bounds of the meter.** Two operator acts (another head, a changed setting, a retry, a filter
turned) reach every order of two of them around an open, a close and a request; `MaxStamp` is
the number of items a stream delivers, 2: an old one and a new one.

Deadlock is not checked: with the operator's steps used up nothing may be left to
do, and that is not an error of the program.

**Fairness.** The scan: weak fairness of the refresh only; the timer of the window fires for
ever while the program lives. It is not assumed that the stage arrives, that a sample comes
or that a pause ends. The worker: its thread goes on, frames are exchanged during a ladder (every wait
there has a timeout), and a stop button that was pressed is handled to its end. It is not
assumed that a drive answers. The meter: the session thread's calls return in the end, signals are
delivered, the refresh fires, time passes. That heads stop delivering after `MaxStamp` items matters to
`AnswerComes`: a head that sent notifications for ever would keep the thread from answering.

## 4. What is proved

### The scan

For every set of parameters, any number of files and axes, and every value of the time
budgets, from the assumptions in `ScanCsv` and `ScanController`: the parameters are records of
the right shape (`ParamsAssumption`) and the budgets are natural numbers. Nothing is assumed about plans: that
valid parameters have a plan which covers the grid is the theorem `PlanCoversItsGrid`.

| theorem | property |
|---|---|
| `TypeCorrect` | `TypeOK` |
| `RunAtFirstPending` | `AtFirstPending` |
| `SampleStaysWithItsCell` | `SampleOfItsCell` |
| `RunStaysInPlan` | the indices of a run are within the plan |
| `RunKeepsItsPlan` | `PlanStays` |
| `FileOfItsGeometry` | `RowsMatchHeader` |
| `FileOfOneZeroPoint` | `OneZeroPoint` |
| `PendingIsWhatHasNoRow` | `PendingIsComplement` |
| `MapShowsTheFile` | `MapIsFile` |
| `ControllerImplementsScan` | `RunIsScan` |

**The invariant.** `IInv` is types, `Walking` (between runs the place in the order is
reset; during a run the order has a point left, it is the one measured, and the whole order
lies within the plan), `OnLegs` (the last cell of the order ends a leg, and the place on the
leg is the place in the order) and `SampleOfItsCell`. `AtFirstPending` alone is not
inductive: without the ends of the legs nothing says that a leg has a next cell, and without
the order lying within the plan a step to it has no type. `PlanOfParams` says that plan and
parameters agree as far as `rebuildPlan` can tell; with it, a change of parameters in a run is
seen to leave the plan alone, which `Walking` needs. `PlanOfParams` is kept by every step
(`PlanOfParamsKept`) and `IInv` by every step from a state in which both hold, action by
action (`NextInv`).

**Files.** `Headers` says that the open file has the geometry of the last run or loading
(`m_run_p`), and that a run has the geometry of the parameters. The two make
`RowsMatchHeader`. Continuing checks parameters against `m_run_p`, not against the file: the
proof shows that this is enough. Every step keeps the headers of files, or writes a new one
with which a run starts. `OneZeroPoint` rests on `OneZero`: a file that lies open or was left by an abort is staged for
continuing under the zero point of its run (`ZeroOfRun`), and during a run the zero point is that one. That it stays
so through a run is not proved and not true: a zero point that moves in it is `"moved"`, and section 5
(`ContinuedUnderZeroOfFile`) says what an abort makes of it. What is proved is that no repeated measurement, no
reopening and no zero point that moves between runs brings two zero points into a file; runs whose order a refused
start has replaced are left out.

**A run against its file.** `Owed` says of a run, a loaded file and an aborted run that the cells
ahead in the order are those of the plan without a row, that none comes twice, that the file does not end in half a
row, and (where no file was reused) that `m_done` and `m_have` are what the rows say. `PendingIsComplement`
alone is not inductive: a cell that came twice in the order would stay ahead after its row was written, and a half row
would swallow the next one. That no cell comes twice rests on the plan (`Plans`): a plan
leads to every cell of its grid and has as many places as the grid has cells, so it leads to each once
(`OntoIsOnce`); shuffling keeps that (`ShufflesOnce`). An abort builds the order of what is left from
`m_done`, a reopening from the file; the two agree because `m_done` is the rows (`AbortOwed`, `LoadResumeOwed`).
Every step is one of five kinds: off the file, walking a cell whose row is written, aborting, a row that cannot be
written, and all that leaves order, rows and done alone.

**The refinement.** Every action of the controller is mapped to a step of `ScanRun` (begin, reopen, record,
halt, continue, finish, give up, end otherwise) or to none. It needs the invariants above: that a recorded
cell was owed (`Owed`), that a run which finishes has a row for every cell of its grid, and `InGrids`: plans and
files hold cells of grids only. A step of the refresh that writes a row and then ends or aborts the run is one step of
`ScanRun` too. The theorem is about safety; `ScanRun` promises no progress, which run `progress` checks.

### Plans and legs

For grids of every size and, in the third and fourth, any set of cells that have a row:

| theorem | property |
|---|---|
| `PlansCoverTheirGrids` | `PlanCoversGrid` |
| `SpiralsMoveOneStep` | `SpiralMovesOneStep` |
| `LegsAreStraight` | `LegsRunStraight` |
| `StageIsFollowed` | `SyncStopsAtNearest` |
| `EstimateIsTheLegs` | `EstimateCountsTheLegs` |

The variables of `MCScanPlan` are functions of the parameters and the cells done (`Derived`, the invariant), so the
theorems are about the operators of `ScanPlan`.

**Recursive functions.** `SpiralPlan`, `SpiralLegStarts` and their like are recursive functions. Their
existence, and every fact that holds of each value, is shown by `AllNumbers`: a set of numbers that holds 0 and
with each its successor holds them all, since a least number outside of it would have a predecessor inside. A
set can be cited as a parameter of a lemma where an operator cannot, so the facts that follow a recursion over numbers
are within the provers' reach after all.

**The spiral.** `RingIsRim`: ring `r` visits the cells of the rectangle left after `r` rings whose distance to its
border is nought, each once, going round from its first corner (a ring of full width, of one row, of one
column and of one cell are the cases the code tells apart). `OneMoreRing` carries `IsSpiral` from ring to ring: what has been
visited is all that lies outside of the block left, each cell once, and consecutive cells are neighbours, also across
the seam. After the last ring the block is empty. Both spirals and every parity of the sides are covered.

**Rows.** `RowPlanIs` turns the walk over rows into the formula for the `k`-th cell; quotient and remainder
are unique (`DivModUnique`), hence the plan is one-to-one and has as many places as the grid has cells.

**Legs.** `LegsRunStraight` is not a statement about neighbours: it compares with the first step of the leg. `KeepsHeading`
(a position that ends no leg has the heading of the one before it, unless that one ends a leg) is what the code
maintains, and `StraightStretch` leads from the one to the other. On a straight leg positions are monotone, so the loop
of `syncOnFlyCell` stops at the nearest cell (`FirstTurnIsNearest`): the first place at which going on
brings the next cell no nearer is the best of all that remain.

**The estimate.** `spiralStats` goes along the edges of the rings and never sees a cell. `IsWalk` is what the cutting of legs
depends on: the way of each step, and a position opens a leg when the step into it turns and the one before it does not
open one. `CountAt` is what the code has counted at a position, and `EdgeCounted` carries it along an edge
of any length, none included (the left column of a ring two rows high). `RingWays` and `SeamIsRight` say which way the steps of a ring and
the step to the next one go, `HasRings` which edges the code takes. The other spiral is the mirror image, and mirrored ways
differ where ways do (`SeenTellsApart`).

**Lemmas about orders.** `PendingOrderProperties`: the list of what is left names the cells
that are not done, each once and in plan order, for any plan and any set of cells done.
`LegEndBounds`: every position is on a leg that ends at or behind it, and no leg ends in between.

### The worker

For any number of axes, any positions, commands, targets and scaled limits that satisfy
`WorkerAssumption`:

| theorem | property |
|---|---|
| `EpochOfOneZero` | `EpochNamesZero` |
| `RecoveryEnds` | automatic recovery tries at most `MaxTries` times per connection |
| `BatchStopsTogether` | `PeersStop` |
| `AnchorIsWhereTheAxisIs` | after homing the displayed target is where the axis is |
| `HomedWithinRange` | the offset that takes effect is within the range |
| `MeasuringNeverTurnsBack` | the target of a measurement leads by at most `Lead` and never turns back |
| `BlamedAxisFailed` | the summary of a batch names a member that failed, where one did |
| `WorkerTypeCorrect` | `TypeOK` |
| `SummaryBlamesAFailure` | `BlameNamesCulprit` |
| `MirrorKeepsSearchesEnded` | `NobodySearchesInOp`, as long as `MirrorKept` |
| `MirrorKeepsStopsObeyed` | `StopEndsSearch`, as long as `MirrorKept` |
| `NobodyLeftSearching` | `NobodySearchesInOp`, if `Undisturbed` |
| `StopEndsEverySearch` | `StopEndsSearch`, if `Undisturbed` |
| `HeldAxesStandStill` | `StillUntilAsked`, as long as `RangeRevivesNothing` |
| `MirrorKeepsWidths` | `WidthIsSignal`, if `SensorInOnePiece`, as long as `MirrorKept` |
| `WidthsAreMeasured` | `WidthIsSignal`, if `SensorInOnePiece` and `Undisturbed` |
| `FullRisesNoJump` | `NoJump`, as long as `RisesInFull` |

**Epochs and batches.** `EpochOfOneZero` rests on `EpochInv`: the present epoch is the greatest ever shown, and names the
present zero point. `EpochNamesZero` alone says nothing of the zero at hand, and publishing could add a second
one. No handler moves the zero under its old epoch (`EpochStep`). `BatchStopsTogether`
rests on a lemma that only the look at the axes leaves phase "homing" (`OnlyALookLeaves`) and on the
look itself (`PeersLook`): the axes that go on are chosen after all of them have been judged.

**Values.** `TypeOK` is not inductive: what is typed is computed from the mirror, the offsets and the list of axes
a climb has still to visit, of which it says nothing. `Values` adds those, and that a climb which stands at an
axis has that axis at the head of its list (`TodoInv`).

**The summary.** `BlameInv` follows the record of a batch (`Recorded`): an axis is marked `PEER` only when another of
its batch has failed by itself, and `culprit` has those that did. Until the finish begins, the batch has lost none of
its axes; a batch that never began to search is told apart by where its finish returns to.

**Searching and stops.** `SessionInv` is `Values`, `Where` (starting and finishing happen within a session and before
its measurement, mending between sessions), `Listed` (a start visits axes of its batch, a finish all of them),
`SearchInv` and `StopInv`. `SearchInv` says at every place of the worker which axes can be searching: none outside of a
session, in it those of the batch, during the finish those it has not come past - or the bus is lost (a drive has left
OP and the mirror is stale), and then `em_recover_op` refuses while the mirror shows another drive energised, which
it does of every drive that searches, and switches off those it brings back. `StopInv` says that a stop the worker has seen is
kept until a look obeys it or the finish lowers it.

**Why there is a condition.** The finish asks the mirror which drives to switch off. With a stale mirror it skips
a drive that is searching: finding `straggler` of section 5. The theorems say that there is no other way.
`MirrorKept` is the condition on a state: while every drive is in OP and a session is on, the mirror is fresh. `Undisturbed`
is a condition on the surroundings that brings it about (`GlitchInv`, `MirrorStaysFresh`): no frame is short but
for a drive that has left OP, or no drive leaves OP and fewer frames are short than spoil the mirror. The two
scenes of run `worker_two` are the one and the other; with one short frame more than `Undisturbed` allows, TLC finds the
straggler.

**Standing still.** `WishInv` follows the wish of an axis (`want`): it is where the axis was last told to be, or lies beyond
the range, or somebody has asked since. Short frames and stale mirrors do not matter. The
condition does: an axis that is switched off, pushed by hand beyond the range and switched on again is held where
it is, outside of the range; the next cycle takes its target back to the limit (`interpolate`), its wish stays. A greater
range then lets that wish count, and the axis moves to it although nobody asked: `doRange` compares the new range with
the targets, not with the wishes. TLC shows this with `PushAnywhere`; `RangeRevivesNothing` excludes it.

**Widths.** `MeasureInv` ties each step of a measurement to where the axis and the origin signal are (`Track`): an axis that
leaves the signal is before its first edge, one that seeks the edge has seen none of it, one that crosses carries
in `p1` the edge it entered by. The edges are read from where the axis is seen and the width counts by the
target, so the error is less than the lead; the property says that much. A signal in two pieces has no width. `MirrorKept`
is needed with two axes: when a short frame leaves the mirror stale while one axis is being finished,
`em_home_finish` takes it for switched off, puts it into CSP while energised, with a target from before the search, and
anchors its zero where it was last seen. The axis then goes to that old target while the other is finished, and is
measured from a place nobody knows. With one axis nothing else is finished meanwhile and TLC finds no such width.

**Jumps.** `NoJump` is about a step, and what makes each step small was settled many steps before. `JumpInv` says, of every
place the worker can be at: a held axis is seen energised, and after a full frame the mirror shows what is there
(`FullInv`); an axis that is being energised is held by nobody (`LadderInv`), and from the moment it is armed until it is
held it stands at its CSP target (`EnableInv`, `TurnInv`, `Calm`); an axis that is told to stop after a search is in homing
mode (`StartInv`); and the CSP target of an axis that is held is its origin plus its target, in whatever order a
handler changes the three (`AlignInv`). The exceptions of `AlignInv` are the axes whose target was just taken from the
mirror (`seen.pos`): a measurement that is over, until the next interpolation, and an axis that is being switched off.
A target beyond the range is excepted: the next cycle takes it back to the limit at once, which TLC shows of an axis pushed
there or measured past it (section 5, `EnablingMovesNothing` and `MeasurementEndsInRange`). So is a drive that is off,
which can be pushed although its target is held.

**Why rises in full.** `RisesInFull` says that no frame is short and no drive out of OP while the axes are enabled and during a
homing session; at all other times frames may be short, drives may leave OP and be recovered. Enabling sets the CSP
target where the axis is seen and the display where it is seen later, so that with frames lost in between the
two differ. And a finish that is given up in the middle leaves a drive in CSP with a target from before its search, unseen by
the mirror, so that `AlignInv` fails. The last case of `NoJump`, a measurement given up on a stale mirror that
leaves the target up to its lead behind, is of such frames only: under `RisesInFull` the theorem gives the other two
(`StepOrSeen`). With short frames in a session run `worker_one` finds no jump of one axis; for all values of the
constants it is not proved.

### The connection

For any number of drives, whatever they hold and accept, and any number of connections and faults
(`BusAssumption`: counts lie within the entries, and an assign object names tables of its direction):

| theorem | property |
|---|---|
| `OriginalsAreHeld` | `OriginalsHeld` |
| `PolarityIsPutBack` | `PolarityPutBack` |
| `TablesArePutBack` | `TablesPutBack` |
| `FieldsAlwaysInPlace` | `FieldsInPlace`, if `TablesTaken` |

The invariant `BusInv` has three parts. *Types*: every SDO that is accepted leaves an object whose count lies
within its entries (`WrittenIsSound`), so that what is read back is a table. *Tables*: a snapshot overwrites the
one that is held, so it is right only because what it reads has not been written since the opening; `Untouched`
says which tables that is true of at each point of `em_setup`, and the rest says that all that is queued, and all
that was written to the end, has its original held. *Polarity*: what the program writes back is what was found
(`di_orig` of the axes in `di_changed`), and an axis the shutdown has passed (`Past`) and that is still marked was reported.
Neither property is inductive: a snapshot that is wrong for an axis not yet written violates neither until it is.

**Tables put back.** Four invariants lead to `TablesPutBack`. `MarksInv`: what is marked as written (`changed`) is among
the four objects `em_snap_restore` looks at, and nothing is marked of an axis not yet come to. `WriteInv`: up to the
shutdown, a table that differs from what was found is marked, or is the one at hand. `EntriesInv`: what a table was
found to hold is still the beginning of its entries, whatever its count. `PutBackInv`: during the shutdown, a table that
still differs is to come or in the queue. `EntriesInv` is what makes the theorem hold of every drive: the last
SDO of a restoring is accepted whatever happened to those before it, even if the drive refuses entries
it holds and the program takes that for success, since `em_map_ensure` only ever appends.

**Fields in place.** The places are computed from the table `em_discover_pdo` chose, the image is laid out by the tables
in force. `ForceInv` says that from the discovery on no other table is in force than that one: what is
written to an assign object names it, entry by entry (`Begun`). `PlacesInv` says that the places are those in that table; tables
do not change any more once they are read. Where a refusal passes for success (`AbortsPass`) this takes a
drive that lets its own tables be put in force (`TablesTaken`): TLC shows that one which refuses to have
1600h named, with 1601h left behind the count of zero, is driven by the places of the former in the image of the
latter. Without `AbortsPass` nothing is asked of the drives.

### The meter

For any number of heads and settings, with or without hanging calls, and any number of operator acts:

| theorem | property |
|---|---|
| `MeterTypeCorrect` | `TypeOK` |
| `PendingAlwaysHeard` | `PendingIsHeard` |
| `OneSessionAtATime` | `OneSession` |
| `MarkAlwaysOfItsStream` | `MarkOfItsStream`: only a change that fails lets a stream meet an old mark, and the next that succeeds ends it |
| `WavelengthsAreAsShown` | `ReadingAsShown`: the wavelength, of settled samples of the head shown; not the filter |

The invariant `IInv` is `Types`, `Threads` (which of the session threads may be alive at each place of `open()` and
`close()`, and which of them talks to a head), `Pending` (a request is with the thread, or its answer is about to
be sent or in the queue), `Shown` and `Samples` (what the thread, its signals and the window know of
head and settings, each from when). `MarkOfItsStream` is about a step and is proved of each (`MarkStep`): all streams are
started by a new session, whose mark is void, or by a change of settings, one of whose two ends keeps it.
`ReadingAsShown` is about a slot that runs long after the sample was
taken: `Samples` says of every sample in the queue with no news of settings behind it that it was measured with what its
head has now, and that the window shows the same or will when the news before it is in, unless a change is under way
or another head about to be announced.

### Only model-checked

* Liveness (`PointEnds`, `RunEnds`, `SessionEnds`, `CommandsAreTaken`, `QuitEnds`, `AnswerComes`, `ConfigEnds`): so is
  reasoning about fairness.
* `NoJump` with frames that come back short while axes are enabled or homed, and `WidthIsSignal` with so many of them that the mirror goes stale
  (run `worker_one`, one axis). `StillUntilAsked` where the range grows over a wish beyond it is not true (above); the
  pushes of run `worker_one` stay within the range.

## 5. Where code and documents disagree

* `torn` - a row cut short after its third column counts as measured when the file is opened
  again, and is then cut away.
* `past_plan` - after an abort, a refused start on a bigger grid replaces the order;
  continued on the small grid, it indexes past the end of the plan.
* `reuse` - a run started over an earlier one keeps its marks: aborted and continued, it leaves out what the earlier
  run measured, and its file never gets those rows (`DoneIsWritten`).
* `straggler` - a drive whose mirror is stale when homing ends is neither stopped nor taken out of
  homing mode, and goes on searching.

Quotations are in `PROJECT.json`. `OrderInPlan` is proved of every run once begun
(`RunStaysInPlan`): the read past the end can only happen in `armRun`.

Further claims of comments that TLC refutes are stated in the modules and checked by no standing run. The first four
have a `.cfg` of their own; to see one of the others, put its name in a copy of the `.cfg` named here.

| property | what happens | cfg |
|---|---|---|
| `ContinuedUnderZeroOfFile` | a zero or homing command queued before the start is done in the run, which goes on; the abort stages the new epoch, and "continue" is accepted under it in the file of the old one, in spite of `scanwindow.cpp:5142` (only the buttons refuse, when they are clicked) | `MCScanZero` |
| `LastRowDecides` | a cell that is measured again and times out keeps its old value on the map (`m_have` is never cleared), in spite of `docs/scan_sweep.md:553` and `:8251` | `MCScanRetest` |
| `NoMeasuringAfterStop` | a stop raised after the last look at the axes and before `finishHoming` clears the flag (`ecatworker.cpp:2121`) is dropped, and the measurement that follows moves the axis; one raised during the ladder behind that line is kept and obeyed | `MCWorkerStop` |
| `NewStreamNewMark` | a change of settings that fails starts the stream again and keeps the mark of the last one (`ophirmeter.cpp:914` against `:885`; the comment there suspects it). Items are then hidden until their stamps pass the mark, if a head counts anew with each stream, which the branch of success takes for granted and the model too | `MCMeterMark` |
| `ContinueAfterChange` | after an abort and a change of the mode alone, continuing walks the old indices of a new plan | `MCScan`, with "configure" allowed |
| `EnablingMovesNothing` | enabled beyond the range, an axis moves back to it | `MCWorkerOne`, `PushAnywhere = TRUE` |
| `StopStartsNothing` | a stop during the start of homing lets further axes start, until the next look | `MCWorkerTwo` |
| `FailedEnablingIsUndone` | the axes enabled before the one that fails stay energised when frames are short | `MCWorkerTwo` |
| `MixedIsLeftAlone` | a drive falls out of OP in the frame that energises another one: the mirror says "not energised", recovery does not refuse, and brings the first back while the second holds the load | `MCWorkerTwo` |
| `StrandedIsTold` | an axis left unconfirmed at the end of homing raises no warning | `MCWorkerTwo` |
| `SummaryNamesCulprit` | the summary of a batch that did not get started blames another axis | `MCWorkerTwo` |
| `MeasurementEndsInRange` | a measurement may end beyond the range | `MCWorkerOne` |
| `NoPhantomMeasurement` | the telemetry shows a measurement after it was refused | `MCWorkerOne` |
| `FrozenWhenCommBad` | targets go on moving for a pass while the telemetry says "frozen" | `MCWorkerOne` |
| `TablesPutBackAfterOp` | the shutdown writes the tables back while the drives are in OP, where they cannot be written; `ec_motor.h:374` and `README.md:306` say they are put back | `MCBus` |
| `TablesPutBackUnmapped` | a connection that fails at its first drive between the two directions puts nothing back, since `mapped` is set after both | `MCBus` |
| `FieldsKnown` | a lost read makes a field of the image count as absent: it is then written by SDO, and the next frame undoes it (`ec_motor.c:1640`) | `MCBus` |
| `UntoldIsUnchanged` | the console says that a drive keeps its polarity (`ec_motor.c:2424`) when only the confirmation was lost; it is not put back at the end | `MCBus` |
| `SampleOfItsHead` | the old head's answer that is still queued when the head is exchanged is taken for the new head's first, in spite of `meterlog.h:12` and `scanwindow.cpp:4251` | `MCMeter`, heads exchanged only |
| `NoWishTakenOver` | a filter asked for of the old head is set on the new one | `MCMeter` |
| `FilterAsShown` | the news of a filter turned by hand is lost when a reading follows it in the same batch | `MCMeter` |
| `NoRequestWhileChanging` | news of another change ends the hold early | `MCMeter` |
| `LeakEnds` | a thread that ends between the wait and the connection to its end counts as hanging for ever | `MCMeter` |

A change of several settings of which one fails leaves part of the others on the head, while the window
and the header of the meter's CSV show the old ones; no comment promises otherwise.

## 6. What is not modelled, and why

* **Drive layer**: the blocking moves (`em_pp_move` and the like), which the program does not call, and the
  diagnostic dumps. `Connect` of `EcatWorker` takes the outcome of a connection as a choice; which ones there are is `BusSession`.
* **Limit record** (`limitguard.h`): pure comparisons; the controller sees one Boolean of it, and
  the window locks on it.
* **Run log, preferences**: a text log and an ini file, pure I/O. The zero epoch the
  preferences keep is in the models as a value that survives.
* **Windows and canvases**: layout, drawing, wording. Their locks are guards of actions.
* **COM calls of the meter** (`ophircom.cpp`), simulated meters: external.
* **SOEM**: third-party and vendored, 27 000 lines. **Self-test**: the tests, 10 000 lines.

Of the 66 000 lines of C and C++ of the repository the definitions stand for some 8 700, most of them in
`ecatworker.cpp` (two thirds of it), `scancontroller.cpp` (four fifths), `scanplan.cpp`, `ophirmeter.cpp`,
`ec_motor.c` and `ec_motor_motion.c`; the rest is SOEM, the self-test and the windows, more than 45 000 lines, which hold no logic of
this program that a model of its state could be made from.
