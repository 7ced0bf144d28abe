---------------------------- MODULE ScanFileProofs ----------------------------
(***************************************************************************)
(* Theorems about the file a run writes to: the rows of a file are all of  *)
(* the geometry in its header and of one zero point; what the run, the     *)
(* loaded file or the aborted run still has to walk is what has no row;    *)
(* what the map shows is what the rows say; and the controller implements  *)
(* the abstract scan of ScanRun.                                           *)
(***************************************************************************)
EXTENDS ScanRefinement, ScanControllerProofs

\* A file as it is when nothing is being written: every value is one of a row.
Whole(f) ==
    /\ DOMAIN f = {"geom", "epoch", "rows", "ok", "tail", "glued"}
    /\ f.ok \subseteq f.rows

\* The open file has the geometry of the last run or the last loading, which is
\* one of a grid, a run has that of the parameters, and every file has a header.
Headers ==
    /\ \A f \in Paths : Whole(files[f])
    /\ log # NoPath => SameGeom(files[log].geom, run_p) /\ run_p.nx # 0
    /\ Running => SameGeom(run_p, p)

\* A run that can be continued: a loaded file or what an abort left.
Held == st \in {"Loaded", "Aborted"}

\* A run is of the zero point it is meant to be of, and what can be continued is
\* compared with that zero point when it is.
OneZero ==
    ~is_retest /\ spoil \intersect {"moved", "refused"} = {} =>
        /\ Running => log # NoPath /\ zero_epoch = ZeroOfRun
        /\ Held => log # NoPath /\ load_epoch = ZeroOfRun

IFile == Headers /\ OneZero

\* No header of a file is rewritten.
HeadersKept ==
    \A f \in Paths :
        /\ Whole(files'[f])
        /\ files'[f].geom = files[f].geom /\ files'[f].epoch = files[f].epoch

USE DEF Running, Active, Held

-----------------------------------------------------------------------------
(* What writing rows, in full or in part, does to a file.                  *)

\* Header g is the header of f.
Keeps(f, g) ==
    Whole(g) /\ g.geom = f.geom /\ g.epoch = f.epoch

LEMMA TrimmedKeeps ==
    ASSUME NEW f, Whole(f)
    PROVE  Keeps(f, Trimmed(f))
BY DEF Keeps, Trimmed, Whole

LEMMA AppendRowsKeeps ==
    ASSUME NEW f, Whole(f), NEW S, NEW okS, NEW first
    PROVE  Keeps(f, AppendRows(f, S, okS, first))
<1> DEFINE kept == IF f.tail = NoTail THEN S ELSE S \ {first}
           g == AppendRows(f, S, okS, first)
<1>1. /\ DOMAIN g = DOMAIN f
      /\ g.rows = f.rows \union kept
      /\ g.ok = (f.ok \ kept) \union (okS \intersect kept)
      /\ g.geom = f.geom /\ g.epoch = f.epoch
    BY DEF AppendRows, Whole
<1> HIDE DEF kept, g
<1>2. QED
    BY <1>1 DEF Keeps, Whole, g

LEMMA HalfRowKeeps ==
    ASSUME NEW f, Whole(f), NEW c, NEW cut
    PROVE  Keeps(f, HalfRow(f, c, cut))
BY DEF Keeps, HalfRow, Whole

LEMMA HeaderWhole ==
    ASSUME NEW q, NEW epoch
    PROVE  Whole(HeaderOnly(q, epoch))
BY DEF Whole, HeaderOnly

\* Parameters without an error are those of a grid.
LEMMA GridHasColumns ==
    ASSUME IInv, ~ParamsError(p)
    PROVE  p.nx # 0
<1>1. p.nx \in Nat
    BY TypesNow, ParamsAssumption DEF IsParams
<1>2. QED
    BY <1>1 DEF ParamsError

LEMMA NothingWritten ==
    ASSUME Headers, files' = files
    PROVE  HeadersKept
BY DEF Headers, HeadersKept

LEMMA FileWritten ==
    ASSUME Headers, DOMAIN files = Paths, NEW path \in Paths, NEW g, Keeps(files[path], g),
           files' = [files EXCEPT ![path] = g]
    PROVE  HeadersKept
BY DEF Headers, HeadersKept, Keeps

LEMMA LogRowsKeeps ==
    ASSUME Headers, DOMAIN files = Paths, log \in Paths \union {NoPath},
           NEW S, NEW okS, NEW first, LogRows(S, okS, first)
    PROVE  HeadersKept
<1>1. CASE S = {}
    BY <1>1, NothingWritten DEF LogRows
<1>2. CASE S # {}
    <2>1. log \in Paths /\ files' = [files EXCEPT ![log] = AppendRows(files[log], S, okS, first)]
        BY <1>2 DEF LogRows
    <2>2. Whole(files[log])
        BY <2>1 DEF Headers
    <2>3. QED
        BY <2>1, <2>2, AppendRowsKeeps, FileWritten
<1>3. QED
    BY <1>1, <1>2

LEMMA LogFailsKeeps ==
    ASSUME IInv, IFile, NEW S, NEW okS, NEW first, NEW c, LogFails(S, okS, first, c)
    PROVE  HeadersKept /\ \E d, more : AbortRun(d, more)
<1>1. DOMAIN files = Paths /\ log \in Paths \union {NoPath} /\ Headers
    BY TypesNow DEF IFile
<1>2. \E d, more : AbortRun(d, more)
    BY DEF LogFails
<1>3. CASE UNCHANGED files
    BY <1>1, <1>2, <1>3, NothingWritten
<1>4. ASSUME NEW cut \in Cuts, log # NoPath,
             files' = [files EXCEPT ![log] =
                           HalfRow(AppendRows(files[log], S, okS, first), c, cut)]
      PROVE  HeadersKept
    <2> DEFINE f == files[log]
               a == AppendRows(f, S, okS, first)
               h == HalfRow(a, c, cut)
    <2>1. log \in Paths /\ Whole(f)
        BY <1>1, <1>4 DEF Headers
    <2>2. Keeps(f, a)
        BY <2>1, AppendRowsKeeps
    <2> HIDE DEF a
    <2>3. Keeps(a, h)
        BY <2>2, HalfRowKeeps DEF Keeps
    <2> HIDE DEF h
    <2>4. Keeps(f, h)
        BY <2>2, <2>3 DEF Keeps
    <2>5. files' = [files EXCEPT ![log] = h]
        BY <1>4 DEF h, a, f
    <2>6. QED
        BY <1>1, <2>1, <2>4, <2>5, FileWritten
<1>5. QED
    BY <1>2, <1>3, <1>4 DEF LogFails

-----------------------------------------------------------------------------
(* Steps by what they do to the run.                                       *)

\* No run is on after the step; the open file is the one of before, or closed.
LEMMA OffHeaders ==
    ASSUME IFile, HeadersKept, log \in Paths \union {NoPath}, ~Running',
           (log' = log /\ run_p' = run_p) \/ log' = NoPath
    PROVE  Headers'
BY DEF IFile, Headers, HeadersKept, SameGeom

\* Nor is there anything that can be continued.
LEMMA OffStep ==
    ASSUME IFile, HeadersKept, log \in Paths \union {NoPath}, ~Running', ~Held',
           (log' = log /\ run_p' = run_p) \/ log' = NoPath
    PROVE  IFile'
BY OffHeaders DEF IFile, OneZero

\* The zero point of a run is where it was, and what could be continued is
\* compared with the same one.
LEMMA ZeroKept ==
    ASSUME IFile, HeadersKept, log \in Paths \union {NoPath},
           UNCHANGED <<log, load_epoch>>, spoil \subseteq spoil',
           "accepted" \in spoil' => "accepted" \in spoil,
           is_retest => is_retest' \/ "refused" \in spoil',
           Held' => Held,
           Running' => Running /\ (zero_epoch' = zero_epoch \/ "moved" \in spoil')
    PROVE  OneZero'
<1> SUFFICES ASSUME ~is_retest', "moved" \notin spoil', "refused" \notin spoil',
                    Running' \/ Held'
             PROVE  /\ log # NoPath
                    /\ Running' => zero_epoch' = ZeroOfRun'
                    /\ Held' => load_epoch = ZeroOfRun'
    BY DEF OneZero
<1>1. /\ log # NoPath
      /\ Running => zero_epoch = ZeroOfRun
      /\ Held => load_epoch = ZeroOfRun
    BY DEF IFile, OneZero
<1>2. log \in Paths
    BY <1>1
<1>3. files'[log].epoch = files[log].epoch
    BY <1>2 DEF HeadersKept
<1>4. ZeroOfRun' = ZeroOfRun
    BY <1>3 DEF ZeroOfRun
<1>5. QED
    BY <1>1, <1>4

\* The run goes on.
LEMMA OnStep ==
    ASSUME IFile, HeadersKept, log \in Paths \union {NoPath}, Running, ~Held',
           is_retest' = is_retest, UNCHANGED <<p, run_p, log, epochVars, spoil>>
    PROVE  IFile'
<1>1. Headers'
    BY DEF IFile, Headers, HeadersKept, SameGeom
<1>2. OneZero'
    BY ZeroKept DEF epochVars
<1>3. QED
    BY <1>1, <1>2 DEF IFile

\* An abort stages the zero point of the run that was on.
LEMMA AbortedStep ==
    ASSUME IInv, IFile, HeadersKept, Running, NEW d, NEW more, AbortRun(d, more)
    PROVE  IFile'
<1>1. /\ st' = "Aborted" /\ load_epoch' = zero_epoch
      /\ UNCHANGED <<run_p, is_retest, log>> /\ spoil \subseteq spoil'
    BY DEF AbortRun
<1>2. Headers'
    BY <1>1, TypesNow, OffHeaders
<1>3. OneZero'
    <2> SUFFICES ASSUME ~is_retest, "moved" \notin spoil', "refused" \notin spoil'
                 PROVE  log # NoPath /\ load_epoch' = ZeroOfRun'
        BY <1>1 DEF OneZero
    <2>1. log # NoPath /\ zero_epoch = ZeroOfRun
        BY <1>1 DEF IFile, OneZero
    <2>2. log \in Paths
        BY <2>1, TypesNow
    <2>3. files'[log].epoch = files[log].epoch
        BY <2>2 DEF HeadersKept
    <2>4. QED
        BY <1>1, <2>1, <2>3 DEF ZeroOfRun
<1>4. QED
    BY <1>2, <1>3 DEF IFile

LEMMA LogFailsFile ==
    ASSUME IInv, IFile, Running, NEW S, NEW okS, NEW first, NEW c,
           LogFails(S, okS, first, c)
    PROVE  IFile'
BY LogFailsKeeps, AbortedStep

\* Nothing is written and the run is aborted, or goes on.
LEMMA AbortFile ==
    ASSUME IInv, IFile, Running, AbortRun(done, {}), UNCHANGED files
    PROVE  IFile'
BY NothingWritten, AbortedStep DEF IFile

LEMMA QuietFile ==
    ASSUME IInv, IFile, Running, ~Held',
           UNCHANGED <<p, run_p, is_retest, log, files, epochVars, spoil>>
    PROVE  IFile'
BY TypesNow, NothingWritten, OnStep DEF IFile

\* Rows are written and the run goes on, or it is over with them.
LEMMA RowsFile ==
    ASSUME IInv, IFile, Running, NEW S, NEW okS, NEW first, LogRows(S, okS, first),
           UNCHANGED <<p, run_p, log, epochVars, spoil>>, ~Held',
           is_retest' = is_retest \/ FinishRun
    PROVE  IFile'
<1>1. HeadersKept /\ log \in Paths \union {NoPath}
    BY TypesNow, LogRowsKeeps DEF IFile
<1>2. CASE FinishRun
    BY <1>1, <1>2, OffStep DEF FinishRun
<1>3. CASE is_retest' = is_retest
    BY <1>1, <1>3, OnStep
<1>4. QED
    BY <1>2, <1>3

-----------------------------------------------------------------------------
(* The operator's steps.                                                   *)

LEMMA InitFile == Init => IFile
BY HeaderWhole DEF Init, IFile, Headers, OneZero, NoFile

LEMMA ConfigureFile ==
    ASSUME IInv, PlanOfParams, IFile, Configure
    PROVE  IFile'
<1>1. CASE SetZeroEpoch
    <2>1. /\ UNCHANGED <<p, run_p, log, files, st, load_epoch, is_retest>>
          /\ spoil' = IF Running THEN spoil \union {"moved"} ELSE spoil
        BY <1>1 DEF SetZeroEpoch, gridVars, runVars, diskVars
    <2>2. HeadersKept
        BY <2>1, NothingWritten DEF IFile
    <2>3. OneZero'
        BY <2>1, <2>2, TypesNow, ZeroKept
    <2>4. Headers'
        BY <2>1, <2>2 DEF IFile, Headers
    <2>5. QED
        BY <2>3, <2>4 DEF IFile
<1>2. ASSUME NEW q \in Params, SetParams(q)
      PROVE  IFile'
    <2>1. /\ UNCHANGED <<run_p, log, files, st, zero_epoch, load_epoch, is_retest>>
          /\ spoil \subseteq spoil' /\ ("accepted" \in spoil' => "accepted" \in spoil)
        BY <1>2 DEF SetParams, diskVars, epochVars, runVars
    <2>4. HeadersKept
        BY <2>1, NothingWritten DEF IFile
    <2>5. OneZero'
        BY <2>1, <2>4, TypesNow, ZeroKept
    <2>2. CASE ~Running
        BY <2>1, <2>2, <2>4, <2>5, TypesNow, OffHeaders DEF IFile
    <2>3. CASE Running
        <3>1. SameGeom(q, p)
            <4>1. PlanOfParams' /\ plan_p' = plan_p /\ p' = q
                BY <1>2, <2>3, AdjustKeepsPlan, PlanOfParamsKept DEF Next, Operate, Configure, SetParams
            <4>2. QED
                BY <4>1 DEF PlanOfParams, SameGeom
        <3>2. p' = q
            BY <1>2 DEF SetParams
        <3>3. QED
            BY <2>1, <2>5, <3>1, <3>2 DEF IFile, Headers, SameGeom
    <2>6. QED
        BY <2>2, <2>3
<1>3. QED
    BY <1>1, <1>2 DEF Configure

LEMMA LoadResumeFile ==
    ASSUME IInv, IFile, NEW path \in Paths, LoadResume(path)
    PROVE  IFile'
<1>1. HeadersKept
    <2>1. Whole(files[path])
        BY DEF IFile, Headers
    <2>2. files' = [files EXCEPT ![path] = Trimmed(files[path])]
        BY DEF LoadResume
    <2>3. QED
        BY <2>1, <2>2, TypesNow, TrimmedKeeps, FileWritten DEF IFile
<1>2. st' = "Loaded" /\ log' = path /\ run_p' = p /\ SameGeom(files[path].geom, p)
    BY DEF LoadResume
<1>3. Headers'
    BY <1>1, <1>2, GridHasColumns DEF Headers, HeadersKept, SameGeom, LoadResume
<1>4. OneZero'
    <2>1. /\ load_epoch' = zero_epoch /\ path # NoPath
          /\ "accepted" \notin spoil' => files[path].epoch = zero_epoch
        BY PathsAssumption DEF LoadResume
    <2>2. files'[path].epoch = files[path].epoch
        BY <1>1 DEF HeadersKept
    <2>3. QED
        BY <1>2, <2>1, <2>2 DEF OneZero, ZeroOfRun
<1>5. QED
    BY <1>3, <1>4 DEF IFile

LEMMA LoadRefusedFile ==
    ASSUME IInv, IFile, NEW path \in Paths, LoadRefused(path)
    PROVE  IFile'
<1>1. DOMAIN files = Paths /\ log \in Paths \union {NoPath} /\ Headers
    BY TypesNow DEF IFile
<1>2. \A f \in Paths : Keeps(files[f], Trimmed(files[f])) /\ Keeps(files[f], files[f])
    BY <1>1, TrimmedKeeps DEF Headers, Keeps
<1>3. PICK trimmed \in {files, [files EXCEPT ![path] = Trimmed(files[path])]} :
          \/ log' = NoPath /\ files' = trimmed
          \/ /\ log # NoPath /\ log' = log
             /\ files' = [trimmed EXCEPT ![log] = Trimmed(trimmed[log])]
    BY DEF LoadRefused
<1>4. DOMAIN trimmed = Paths /\ \A f \in Paths : Keeps(files[f], trimmed[f])
    BY <1>1, <1>2
<1>5. \A f \in Paths : Keeps(files[f], Trimmed(trimmed[f]))
    <2> SUFFICES ASSUME NEW f \in Paths PROVE Keeps(files[f], Trimmed(trimmed[f]))
        OBVIOUS
    <2>1. Keeps(trimmed[f], Trimmed(trimmed[f]))
        BY <1>4, TrimmedKeeps DEF Keeps
    <2>2. QED
        BY <1>4, <2>1 DEF Keeps
<1>6. HeadersKept
    BY <1>1, <1>3, <1>4, <1>5 DEF HeadersKept, Keeps
<1>7. /\ ~Running' /\ UNCHANGED <<run_p, st, load_epoch, is_retest>>
      /\ spoil' = IF log' = NoPath THEN spoil \union {"refused"} ELSE spoil
    BY DEF LoadRefused, runVars, epochVars
<1>8. Headers'
    BY <1>1, <1>3, <1>6, <1>7, OffHeaders
<1>9. OneZero'
    <2>1. CASE log' = NoPath
        BY <1>7, <2>1 DEF OneZero
    <2>2. CASE log' # NoPath
        BY <1>1, <1>3, <1>6, <1>7, <2>2, ZeroKept
    <2>3. QED
        BY <2>1, <2>2
<1>10. QED
    BY <1>8, <1>9 DEF IFile

LEMMA ReopenFile ==
    ASSUME IInv, IFile, Reopen
    PROVE  IFile'
<1>1. CASE NewFile
    BY <1>1, TypesNow, NothingWritten, OffStep DEF NewFile, ResetRunState, IFile
<1>2. QED
    BY <1>1, LoadResumeFile, LoadRefusedFile DEF Reopen

\* start writes a new header, of the parameters and the zero point it runs with.
LEMMA StartFile ==
    ASSUME IInv, IFile, NEW path \in Paths, NEW o \in Observations, Start(path, o)
    PROVE  IFile'
<1>1. /\ log' = path /\ p' = p /\ run_p' = p /\ zero_epoch' = zero_epoch
      /\ files' = [files EXCEPT ![path] = HeaderOnly(p, zero_epoch)]
    BY DEF Start, StartPrepared, ArmRun, epochVars
<1>2. DOMAIN files = Paths
    BY TypesNow
<1>3. files'[path].geom = [area |-> p.area, nx |-> p.nx, ny |-> p.ny]
      /\ files'[path].epoch = zero_epoch
    BY <1>1, <1>2 DEF HeaderOnly
<1>4. \A f \in Paths : Whole(files'[f])
    BY <1>1, <1>2, HeaderWhole DEF IFile, Headers
<1>5. path # NoPath /\ p.nx # 0
    BY PathsAssumption, GridHasColumns DEF Start, StartPrepared, RunError
<1>6. st' = "Moving" /\ "accepted" \notin spoil'
    BY DEF Start, ArmRun, StartPoint
<1>7. QED
    BY <1>1, <1>3, <1>4, <1>5, <1>6 DEF IFile, Headers, OneZero, ZeroOfRun, SameGeom

LEMMA StartRefusedFile ==
    ASSUME IInv, IFile, NEW path \in Paths, NEW o \in Observations, StartRefused(path, o)
    PROVE  IFile'
<1>1. log' = NoPath /\ ~Running' /\ "refused" \in spoil'
    BY DEF StartRefused, StartPrepared
<1>2. DOMAIN files = Paths
    BY TypesNow
<1>3. \A f \in Paths : Whole(files'[f])
    BY <1>2, HeaderWhole DEF StartRefused, IFile, Headers, NoFile
<1>4. QED
    BY <1>1, <1>3 DEF IFile, Headers, OneZero

\* "continue" checks the geometry and the zero point again.
LEMMA BeginFile ==
    ASSUME IInv, IFile, Begin
    PROVE  IFile'
<1>1. ASSUME NEW o \in Observations, BeginLoadedRun(o)
      PROVE  IFile'
    <2>1. /\ UNCHANGED <<p, log, files, zero_epoch, load_epoch, is_retest, spoil>>
          /\ run_p' = p /\ Held /\ st' = "Moving"
          /\ zero_epoch = load_epoch /\ SameGeom(run_p, p)
        BY <1>1 DEF BeginLoadedRun, CanContinue, ArmRun, StartPoint, gridVars, diskVars,
                    epochVars
    <2>2. Headers'
        BY <2>1 DEF IFile, Headers, SameGeom
    <2>3. OneZero'
        BY <2>1 DEF IFile, OneZero, ZeroOfRun
    <2>4. QED
        BY <2>2, <2>3 DEF IFile
<1>2. ASSUME NEW o \in Observations, ReadPastPlan(o)
      PROVE  IFile'
    <2>1. UNCHANGED <<run_p, log, files>> /\ ~Running' /\ ~Held'
        BY <1>2 DEF ReadPastPlan, diskVars
    <2>2. QED
        BY <2>1, TypesNow, NothingWritten, OffStep DEF IFile
<1>3. QED
    BY <1>1, <1>2, StartFile, StartRefusedFile DEF Begin

LEMMA RepeatFile ==
    ASSUME IInv, IFile, Repeat
    PROVE  IFile'
<1>1. ASSUME NEW k \in DOMAIN plan, NEW o \in Observations, Retest(k, o)
      PROVE  IFile'
    <2>1. /\ UNCHANGED <<p, log, files>> /\ run_p' = p /\ is_retest' = TRUE
          /\ SameGeom(run_p, p)
        BY <1>1 DEF Retest, CanRetest, ArmRun, gridVars, diskVars
    <2>2. QED
        BY <2>1 DEF IFile, Headers, OneZero, SameGeom
<1>2. ASSUME NEW k \in DOMAIN plan, NEW o \in Observations, RetestRefused(k, o)
      PROVE  IFile'
    <2>1. UNCHANGED <<run_p, log, files>> /\ ~Running' /\ "refused" \in spoil'
        BY <1>2 DEF RetestRefused, CanRetest, diskVars
    <2>2. Headers'
        BY <2>1, TypesNow, NothingWritten, OffHeaders DEF IFile
    <2>3. QED
        BY <2>1, <2>2 DEF IFile, OneZero
<1>3. QED
    BY <1>1, <1>2 DEF Repeat

LEMMA InterruptFile ==
    ASSUME IInv, IFile, Interrupt
    PROVE  IFile'
<1>1. CASE Pause
    BY <1>1, QuietFile DEF Pause, gridVars, runVars, diskVars
<1>2. CASE ResumeRun
    BY <1>2, QuietFile DEF ResumeRun, StartPoint, gridVars, runVars, diskVars
<1>3. CASE Abort
    BY <1>3, AbortFile DEF Abort
<1>4. QED
    BY <1>1, <1>2, <1>3 DEF Interrupt

LEMMA RestartFile ==
    ASSUME IInv, IFile, Restart
    PROVE  IFile'
<1>1. DOMAIN files = Paths /\ log \in Paths \union {NoPath} /\ Headers
    BY TypesNow DEF IFile
<1>2. PICK cut \in Cuts \union {"none"} :
          /\ cut # "none" => log # NoPath
          /\ files' = IF cut = "none" THEN files
                      ELSE [files EXCEPT ![log] = HalfRow(files[log], plan[cur], cut)]
    BY DEF Restart
<1>3. HeadersKept
    <2>1. CASE cut = "none"
        BY <1>1, <1>2, <2>1, NothingWritten
    <2>2. CASE cut # "none"
        <3>1. log \in Paths /\ Whole(files[log])
            BY <1>1, <1>2, <2>2 DEF Headers
        <3>2. QED
            BY <1>1, <1>2, <2>2, <3>1, HalfRowKeeps, FileWritten
    <2>3. QED
        BY <2>1, <2>2
<1>4. log' = NoPath /\ ~Running' /\ ~Held'
    BY DEF Restart
<1>5. QED
    BY <1>1, <1>3, <1>4, OffStep

-----------------------------------------------------------------------------
(* The refresh and the meter.                                              *)

LEMMA FinishPointFile ==
    ASSUME IInv, IFile, Running, NEW okS, FinishPoint(okS)
    PROVE  IFile'
BY RowsFile DEF FinishPoint, Advance, FinishRun, StartPoint

LEMMA RefreshFile ==
    ASSUME IInv, IFile, Refresh
    PROVE  IFile'
<1>1. PICK dt \in 1 .. MaxStep, o \in Observations : Tick(dt, o)
    BY DEF Refresh
<1>2. CASE TickUnhealthy(dt, o) \/ TickNotArrived(dt, o)
    BY <1>2, AbortFile DEF TickUnhealthy, TickNotArrived
<1>3. CASE TickPaused(dt, o)
    BY <1>3, QuietFile DEF TickPaused, gridVars, runVars, diskVars
<1>4. CASE TickMoving(dt, o)
    <2>1. UNCHANGED <<p, run_p, is_retest, log, files, epochVars, spoil>> /\ Running
        BY <1>4 DEF TickMoving, gridVars, runVars, diskVars
    <2>2. ~Held'
        BY <1>4 DEF TickMoving, Wait, BeginTraverse, BeginDwelling, BeginReading
    <2>3. QED
        BY <2>1, <2>2, QuietFile
<1>5. CASE TickDwelling(dt, o) \/ TickReading(dt, o)
    <2>1. UNCHANGED <<p, run_p, is_retest, log, files, epochVars, spoil>> /\ Running
        BY <1>5 DEF TickDwelling, TickReading, gridVars, runVars, diskVars
    <2>2. ~Held'
        BY <1>5 DEF TickDwelling, TickReading, Wait, BeginReading
    <2>3. QED
        BY <2>1, <2>2, QuietFile
<1>6. CASE TickReadTimeout(dt, o)
    BY <1>6, FinishPointFile, LogFailsFile DEF TickReadTimeout, FinishPointFails
<1>7. CASE TickTraversing(dt, o)
    <2>1. Running /\ ~Held' /\ UNCHANGED <<p, run_p, log, epochVars, is_retest, spoil>>
        BY <1>7 DEF TickTraversing, gridVars
    <2>2. PICK j \in fly.at .. End : LogRows(Behind(j), BehindOk(j), plan[order[fly.at]])
        BY <1>7 DEF TickTraversing, Sync
    <2>3. QED
        BY <2>1, <2>2, RowsFile
<1>8. CASE TickLegLate(dt, o)
    <2>1. PICK j \in fly.at .. End : LogRows(Behind(j), BehindOk(j), plan[order[fly.at]])
        BY <1>8 DEF TickLegLate
    <2>2. HeadersKept
        BY <2>1, TypesNow, LogRowsKeeps DEF IFile
    <2>3. QED
        BY <1>8, <2>2, AbortedStep DEF TickLegLate
<1>9. CASE TickLegOver(dt, o)
    <2> DEFINE c == plan[order[fly.at]]
               okS == IF fly.sample # NoCell THEN {c} ELSE {}
    <2>1. CASE LogFails({}, {}, c, c)
        BY <1>9, <2>1, LogFailsFile DEF TickLegOver
    <2>2. CASE /\ LogRows({c}, okS, c) /\ AdvanceLeg
               /\ UNCHANGED <<gridVars, run_p, log, epochVars, spoil>>
        <3>1. /\ is_retest' = is_retest \/ FinishRun
              /\ ~Held'
            BY <2>2 DEF AdvanceLeg, FinishRun, StartPoint
        <3>2. UNCHANGED <<p, run_p, log, epochVars, spoil>> /\ Running
            BY <1>9, <2>2 DEF gridVars, TickLegOver
        <3>3. QED
            BY <2>2, <3>1, <3>2, RowsFile
    <2>3. QED
        BY <1>9, <2>1, <2>2 DEF TickLegOver
<1>10. QED
    BY <1>1, <1>2, <1>3, <1>4, <1>5, <1>6, <1>7, <1>8, <1>9 DEF Tick

LEMMA SampleFile ==
    ASSUME IInv, IFile, Sample
    PROVE  IFile'
<1>1. CASE SampleReading
    <2>1. CASE UNCHANGED <<gridVars, run_p, st, runVars, diskVars, epochVars, spoil>>
        BY <1>1, <2>1, QuietFile DEF SampleReading, gridVars, runVars, diskVars
    <2>2. CASE FinishPoint({plan[cur]})
        BY <1>1, <2>2, FinishPointFile DEF SampleReading
    <2>3. CASE FinishPointFails
        BY <1>1, <2>3, LogFailsFile DEF SampleReading, FinishPointFails
    <2>4. QED
        BY <1>1, <2>1, <2>2, <2>3 DEF SampleReading
<1>2. CASE SampleTraversing
    <2>1. Running /\ ~Held' /\ UNCHANGED <<p, run_p, log, epochVars, is_retest, spoil>>
        BY <1>2 DEF SampleTraversing, gridVars
    <2>2. PICK j \in fly.at .. End : LogRows(Behind(j), BehindOk(j), plan[order[fly.at]])
        BY <1>2 DEF SampleTraversing, Sync
    <2>3. QED
        BY <2>1, <2>2, RowsFile
<1>3. QED
    BY <1>1, <1>2 DEF Sample

-----------------------------------------------------------------------------
(* The specification.                                                      *)

LEMMA NextFile ==
    ASSUME IInv, PlanOfParams, IFile, [Next]_vars
    PROVE  IFile'
<1>1. CASE Operate
    BY <1>1, ConfigureFile, ReopenFile, BeginFile, RepeatFile, InterruptFile DEF Operate
<1>2. CASE Refresh \/ Sample
    BY <1>2, RefreshFile, SampleFile
<1>3. CASE PassedRowFails
    BY <1>3, LogFailsFile DEF PassedRowFails
<1>4. CASE Restart
    BY <1>4, RestartFile
<1>5. CASE UNCHANGED vars
    BY <1>5 DEF vars, IFile, Headers, OneZero, ZeroOfRun
<1>6. QED
    BY <1>1, <1>2, <1>3, <1>4, <1>5 DEF Next

LEMMA FileInductive == Spec => []IFile
<1>1. Init => IFile
    BY InitFile
<1>2. IInv /\ PlanOfParams /\ IFile /\ [Next]_vars => IFile'
    BY NextFile
<1>3. QED
    BY <1>1, <1>2, Inductive, PTL DEF Spec

\* A run appends to a file of its own geometry only, whatever was loaded,
\* aborted, re-planned or measured again before it (m_run_p, m_p, the header).
THEOREM FileOfItsGeometry == Spec => []RowsMatchHeader
<1>1. IFile => RowsMatchHeader
    BY DEF IFile, Headers, RowsMatchHeader, SameGeom
<1>2. QED
    BY <1>1, FileInductive, PTL

\* As long as the zero point stays where it is during a run, a run appends rows of
\* the zero point in the header of its file, or of the one the operator accepted
\* when the file was opened, whatever moved it before the run was continued
\* (m_zero_epoch, m_load_epoch, the header).  A cell measured again is excepted,
\* and an order that a refused start, loading or retest has replaced.
THEOREM FileOfOneZeroPoint == Spec => []OneZeroPoint
<1>1. IFile => OneZeroPoint
    BY DEF IFile, OneZero, OneZeroPoint
<1>2. QED
    BY <1>1, FileInductive, PTL

-----------------------------------------------------------------------------
(***************************************************************************)
(* A run against its file.                                                 *)
(***************************************************************************)

\* No cell comes twice in the plan, and a grid has a plan.
Plans ==
    /\ IsInjective(plan)
    /\ plan = <<>> => ParamsError(plan_p)

\* The run, the loaded file or the aborted run can be held against its file.
OnFile == st \in Active \union {"Paused", "Loaded", "Aborted"} /\ OnePass

\* The cells the places of the order ord from i on lead to, and that none comes
\* twice.
CellsFrom(pl, ord, i) == {pl[ord[k]] : k \in i .. Len(ord)}

OnceFrom(pl, ord, i) ==
    /\ \A k \in i .. Len(ord) : ord[k] \in DOMAIN pl
    /\ \A k, m \in i .. Len(ord) : pl[ord[k]] = pl[ord[m]] => k = m

\* The open file f accounts for the cells of the plan that are not ahead.
Accounts(f) ==
    /\ f.tail = NoTail
    /\ CellsFrom(plan, order, ord_i + 1) = CellsOf(plan) \ f.rows
    /\ "reused" \notin spoil => done = f.rows /\ have = f.ok

\* The inductive invariant (with IInv, PlanOfParams and IFile).
Owed ==
    /\ have \subseteq done
    /\ OnFile =>
        /\ log # NoPath /\ plan # <<>>
        /\ OnceFrom(plan, order, ord_i + 1)
        /\ Accounts(files[log])

-----------------------------------------------------------------------------
(* Plans and orders.                                                       *)

\* A plan that leads everywhere and is no longer than there are cells leads to
\* each cell once.
LEMMA OntoIsOnce ==
    ASSUME NEW S, IsFiniteSet(S), NEW T, Cardinality(T) = Cardinality(S),
           NEW f \in [S -> T], \A c \in T : \E k \in S : f[k] = c
    PROVE  IsInjective(f)
<1>1. f \in Surjection(S, T)
    BY DEF Surjection
<1>2. f \in Injection(S, T)
    BY <1>1, FS_Surjection
<1>3. QED
    BY <1>2 DEF Injection

LEMMA BuildPlanOnce ==
    ASSUME NEW q \in Params
    PROVE  IsInjective(BuildPlan(q)) /\ (BuildPlan(q) = <<>> => ParamsError(q))
<1>1. CASE ParamsError(q)
    BY <1>1 DEF BuildPlan, IsInjective
<1>2. CASE ~ParamsError(q)
    <2> DEFINE pl == BuildPlan(q)
               C == Cells(q)
               S == 1 .. Cardinality(C)
    <2>1. IsPlanOf(pl, C) /\ q.nx \in Nat /\ q.ny \in Nat /\ q.nx > 1 /\ q.ny > 1
        BY <1>2, ParamsAssumption, PlanCoversItsGrid DEF IsParams, ParamsError
    <2>2. IsFiniteSet(C)
        <3>1. IsFiniteSet(0 .. q.nx - 1) /\ IsFiniteSet(0 .. q.ny - 1)
            <4>1. q.nx - 1 \in Int /\ q.ny - 1 \in Int /\ 0 \in Int
                BY <2>1
            <4>2. QED
                BY <4>1, FS_Interval
        <3>2. QED
            BY <3>1, FS_Product DEF Cells
    <2>3. <<0, 0>> \in C
        BY <2>1 DEF Cells
    <2> HIDE DEF pl, C
    <2>4. Cardinality(C) \in Nat
        BY <2>2, FS_CardinalityType
    <2>5. IsFiniteSet(S) /\ Cardinality(S) = Cardinality(C)
        BY <2>4, FS_Interval
    <2>6. pl \in [S -> C] /\ \A c \in C : \E k \in S : pl[k] = c
        BY <2>1 DEF IsPlanOf
    <2>7. IsInjective(pl)
        <3> HIDE DEF S
        <3>1. QED
            BY <2>5, <2>6, OntoIsOnce
    <2>8. pl # <<>>
        <3>1. DOMAIN pl # {}
            BY <2>3, <2>6
        <3>2. QED
            BY <3>1
    <2>9. QED
        BY <2>7, <2>8 DEF pl
<1>3. QED
    BY <1>1, <1>2

\* A plan dealt anew leads to each cell once as the plan before did.
LEMMA ShufflesOnce ==
    ASSUME NEW pl \in Seq(Cell), IsInjective(pl), NEW q \in Shuffles(pl)
    PROVE  IsInjective(q) /\ (q = <<>> => pl = <<>>)
<1> DEFINE D == DOMAIN pl
           C == {pl[k] : k \in D}
<1>1. D = 1 .. Len(pl) /\ Len(pl) \in Nat
    BY LenProperties
<1>2. IsFiniteSet(D)
    BY <1>1, FS_Interval
<1>3. pl \in [D -> C]
    <2>1. pl = [k \in D |-> pl[k]]
        BY <1>1, SeqDef
    <2>2. QED
        BY <2>1
<1>4. q \in [D -> C] /\ \A c \in C : \E k \in D : q[k] = c
    BY DEF Shuffles
<1>5. pl \in Surjection(D, C)
    BY <1>3 DEF Surjection
<1>6. pl \in Injection(D, C)
    BY <1>3 DEF Injection
<1>7. DOMAIN q = DOMAIN pl
    BY <1>4
<1>8. q = <<>> => pl = <<>>
    <2>1. q \in Seq(Cell) /\ Len(q) = Len(pl)
        BY ShufflesType
    <2>2. QED
        BY <2>1, EmptySeq
<1> HIDE DEF D, C
<1>9. Cardinality(C) = Cardinality(D)
    BY <1>2, <1>5, <1>6, FS_Surjection
<1>10. IsInjective(q)
    BY <1>2, <1>4, <1>9, OntoIsOnce
<1>11. QED
    BY <1>8, <1>10

\* The places of an order of pending cells lead to those cells, each once.
LEMMA PendingOnce ==
    ASSUME NEW pl \in Seq(Cell), IsInjective(pl), NEW d
    PROVE  LET ord == PendingOrder(pl, d)
           IN  OnceFrom(pl, ord, 1) /\ CellsFrom(pl, ord, 1) = CellsOf(pl) \ d
<1> DEFINE ord == PendingOrder(pl, d)
           S == {k \in DOMAIN pl : pl[k] \notin d}
<1>1. /\ ord \in Seq(Nat \ {0})
      /\ \A i \in DOMAIN ord : ord[i] \in S
      /\ \A i, j \in DOMAIN ord : i < j => ord[i] < ord[j]
      /\ \A k \in S : \E i \in DOMAIN ord : ord[i] = k
    BY PendingOrderProperties
<1> HIDE DEF ord
<1>2. DOMAIN ord = 1 .. Len(ord) /\ Len(ord) \in Nat
    BY <1>1, LenProperties
<1>3. \A i \in 1 .. Len(ord) : ord[i] \in Nat
    BY <1>1, <1>2, ElementOfSeq
<1>4. ASSUME NEW k \in 1 .. Len(ord), NEW m \in 1 .. Len(ord), pl[ord[k]] = pl[ord[m]]
      PROVE  k = m
    <2>1. ord[k] = ord[m]
        BY <1>1, <1>2, <1>4 DEF IsInjective
    <2>2. ord[k] \in Nat /\ ord[m] \in Nat
        BY <1>3
    <2>3. ~(ord[k] < ord[m]) /\ ~(ord[m] < ord[k])
        BY <2>1, <2>2
    <2>4. ~(k < m) /\ ~(m < k)
        BY <1>1, <1>2, <2>3
    <2>5. QED
        BY <2>4
<1>5. OnceFrom(pl, ord, 1)
    BY <1>1, <1>2, <1>4 DEF OnceFrom
<1>6. CellsFrom(pl, ord, 1) = CellsOf(pl) \ d
    <2>1. CellsFrom(pl, ord, 1) = {pl[k] : k \in S}
        BY <1>1, <1>2 DEF CellsFrom
    <2>2. QED
        BY <2>1 DEF CellsOf
<1>7. QED
    BY <1>5, <1>6 DEF ord

\* So do those of an order of the whole plan.
LEMMA AllOnce ==
    ASSUME NEW pl \in Seq(Cell), IsInjective(pl)
    PROVE  OnceFrom(pl, AllOf(pl), 1) /\ CellsFrom(pl, AllOf(pl), 1) = CellsOf(pl)
<1>1. DOMAIN pl = 1 .. Len(pl) /\ Len(pl) \in Nat
    BY LenProperties
<1>2. AllOf(pl) \in Seq(Nat \ {0}) /\ DOMAIN AllOf(pl) = 1 .. Len(pl)
    BY <1>1, AllOfType DEF AllOf
<1>3. Len(AllOf(pl)) = Len(pl)
    BY <1>1, <1>2, LenProperties
<1>4. \A k \in 1 .. Len(pl) : AllOf(pl)[k] = k
    BY DEF AllOf
<1>5. OnceFrom(pl, AllOf(pl), 1)
    BY <1>1, <1>3, <1>4 DEF OnceFrom, IsInjective
<1>6. CellsFrom(pl, AllOf(pl), 1) = CellsOf(pl)
    BY <1>1, <1>3, <1>4 DEF CellsFrom, CellsOf
<1>7. QED
    BY <1>5, <1>6

USE DEF Running, Active

\* Every plan the controller walks leads to each of its cells once: setParams,
\* prepareRunPlan, the rounds of an endless run and a restart are what changes it.
LEMMA PlansKept ==
    ASSUME IInv, Plans, [Next]_vars
    PROVE  Plans'
<1>1. plan \in Seq(Cell) /\ p \in Params
    BY TypesNow
<1>2. CASE UNCHANGED <<plan, plan_p>>
    BY <1>2 DEF Plans
<1>3. ASSUME NEW q \in Params, plan' = BuildPlan(q), plan_p' = q
      PROVE  Plans'
    BY <1>3, BuildPlanOnce DEF Plans
<1>4. CASE plan' \in Shuffles(plan) /\ plan_p' = plan_p
    BY <1>1, <1>4, ShufflesOnce DEF Plans
<1>5. CASE PrepareRunPlan
    <2>1. CASE plan' \in Shuffles(BuildPlan(p)) /\ plan_p' = p
        <3>1. BuildPlan(p) \in Seq(Cell)
            BY <1>1, BuildPlanType
        <3>2. QED
            BY <1>1, <2>1, <3>1, BuildPlanOnce, ShufflesOnce DEF Plans
    <2>2. QED
        BY <1>2, <1>5, <2>1 DEF PrepareRunPlan
<1>6. ASSUME NEW d, NEW more, AbortRun(d, more)
      PROVE  UNCHANGED <<plan, plan_p>>
    BY <1>6 DEF AbortRun, gridVars
<1>7. ASSUME NEW S, NEW okS, NEW first, NEW c, LogFails(S, okS, first, c)
      PROVE  UNCHANGED <<plan, plan_p>>
    BY <1>6, <1>7 DEF LogFails
<1>8. ASSUME NEW okS, FinishPoint(okS)
      PROVE  Plans'
    BY <1>2, <1>4, <1>8 DEF FinishPoint, Advance
<1>9. CASE Configure
    BY <1>2, <1>3, <1>9 DEF Configure, SetZeroEpoch, SetParams, gridVars
<1>10. CASE Reopen
    BY <1>2, <1>5, <1>10 DEF Reopen, NewFile, ResetRunState, LoadResume, LoadRefused, gridVars
<1>11. CASE Begin
    BY <1>2, <1>5, <1>11
       DEF Begin, Start, StartRefused, StartPrepared, BeginLoadedRun, ReadPastPlan, gridVars
<1>12. CASE Repeat \/ Interrupt
    BY <1>2, <1>6, <1>12
       DEF Repeat, Retest, RetestRefused, Interrupt, Pause, ResumeRun, Abort, gridVars
<1>13. CASE Refresh
    <2>1. PICK dt \in 1 .. MaxStep, o \in Observations : Tick(dt, o)
        BY <1>13 DEF Refresh
    <2>2. CASE TickUnhealthy(dt, o) \/ TickNotArrived(dt, o) \/ TickLegLate(dt, o)
        BY <1>2, <1>6, <2>2 DEF TickUnhealthy, TickNotArrived, TickLegLate
    <2>3. CASE TickPaused(dt, o) \/ TickMoving(dt, o) \/ TickDwelling(dt, o)
               \/ TickReading(dt, o) \/ TickTraversing(dt, o)
        BY <1>2, <2>3
           DEF TickPaused, TickMoving, TickDwelling, TickReading, TickTraversing, gridVars
    <2>4. CASE TickReadTimeout(dt, o)
        BY <1>2, <1>7, <1>8, <2>4 DEF TickReadTimeout, FinishPointFails
    <2>5. CASE TickLegOver(dt, o)
        BY <1>2, <1>7, <2>5 DEF TickLegOver, gridVars
    <2>6. QED
        BY <2>1, <2>2, <2>3, <2>4, <2>5 DEF Tick
<1>14. CASE Sample
    BY <1>2, <1>7, <1>8, <1>14
       DEF Sample, SampleReading, SampleTraversing, FinishPointFails, gridVars
<1>15. CASE PassedRowFails
    BY <1>2, <1>7, <1>15 DEF PassedRowFails
<1>16. CASE Restart
    BY <1>1, <1>3, <1>16 DEF Restart
<1>17. CASE UNCHANGED vars
    BY <1>2, <1>17 DEF vars
<1>18. QED
    BY <1>9, <1>10, <1>11, <1>12, <1>13, <1>14, <1>15, <1>16, <1>17 DEF Next, Operate

-----------------------------------------------------------------------------
(* What rows do to the account of the file.                                *)

\* The rows of S can be written to f, okS with a value: none of them is there.
Fresh(f, S, okS) ==
    Whole(f) /\ f.tail = NoTail /\ okS \subseteq S /\ S \intersect f.rows = {}

\* g is f with those rows.
Adds(f, S, okS, g) ==
    g.tail = NoTail /\ g.rows = f.rows \union S /\ g.ok = f.ok \union okS

LEMMA Appended ==
    ASSUME NEW f, NEW S, NEW okS, NEW first, Fresh(f, S, okS)
    PROVE  Adds(f, S, okS, AppendRows(f, S, okS, first))
<1> DEFINE g == AppendRows(f, S, okS, first)
<1>1. g.tail = NoTail /\ g.rows = f.rows \union S /\ g.ok = (f.ok \ S) \union (okS \intersect S)
    BY DEF AppendRows, Whole, Fresh
<1> HIDE DEF g
<1>2. f.ok \ S = f.ok
    BY DEF Whole, Fresh
<1>3. okS \intersect S = okS
    BY DEF Fresh
<1>4. Adds(f, S, okS, g)
    BY <1>1, <1>2, <1>3 DEF Adds
<1>5. QED
    BY <1>4 DEF g

LEMMA RowsWritten ==
    ASSUME IInv, IFile, log # NoPath, NEW S, NEW okS, NEW first,
           Fresh(files[log], S, okS), LogRows(S, okS, first)
    PROVE  Adds(files[log], S, okS, files'[log])
<1>1. log \in Paths /\ DOMAIN files = Paths
    BY TypesNow
<1>2. CASE S = {}
    BY <1>2 DEF LogRows, Fresh, Adds
<1>3. CASE S # {}
    <2>1. files'[log] = AppendRows(files[log], S, okS, first)
        BY <1>1, <1>3 DEF LogRows
    <2>2. QED
        BY <2>1, Appended
<1>4. QED
    BY <1>2, <1>3

\* The cells of the places from i on that are before n.
CellsUpTo(pl, ord, i, n) == {pl[ord[k]] : k \in i .. n - 1}

\* What is left of those ahead when they are walked.
LEMMA Ahead ==
    ASSUME NEW pl, NEW ord, NEW i \in Nat, Len(ord) \in Nat, OnceFrom(pl, ord, i),
           NEW n \in i .. Len(ord) + 1
    PROVE  /\ OnceFrom(pl, ord, n)
           /\ CellsUpTo(pl, ord, i, n) \subseteq CellsFrom(pl, ord, i)
           /\ CellsFrom(pl, ord, n) = CellsFrom(pl, ord, i) \ CellsUpTo(pl, ord, i, n)
<1> DEFINE S == CellsUpTo(pl, ord, i, n)
<1>1. n .. Len(ord) \subseteq i .. Len(ord) /\ i .. n - 1 \subseteq i .. Len(ord)
    OBVIOUS
<1>2. OnceFrom(pl, ord, n)
    BY <1>1 DEF OnceFrom
<1>3. S \subseteq CellsFrom(pl, ord, i)
    BY <1>1 DEF CellsFrom, CellsUpTo
<1>4. \A k \in i .. Len(ord) : k \in n .. Len(ord) \/ k \in i .. n - 1
    OBVIOUS
<1>5. \A k \in n .. Len(ord), m \in i .. n - 1 : k # m
    OBVIOUS
<1>6. \A k \in n .. Len(ord) : pl[ord[k]] \notin S
    BY <1>1, <1>5 DEF OnceFrom, CellsUpTo
<1>7. CellsFrom(pl, ord, n) = CellsFrom(pl, ord, i) \ S
    BY <1>1, <1>4, <1>6 DEF CellsFrom, CellsUpTo
<1>8. QED
    BY <1>2, <1>3, <1>7

-----------------------------------------------------------------------------
(* Steps by what they do to the run.                                       *)

\* After the step nothing can be held against a file.
LEMMA OffFileStep ==
    ASSUME ~OnFile', have' \subseteq done'
    PROVE  Owed'
BY DEF Owed

\* The step touches neither what is ahead nor what was done.
LEMMA SameAccount ==
    ASSUME Owed, OnFile' => OnFile,
           "reused" \notin spoil' => "reused" \notin spoil,
           UNCHANGED <<plan, order, ord_i, done, have, log, files>>
    PROVE  Owed'
BY DEF Owed, Accounts

\* The cells of the places from ord_i + 1 up to n.
Walked(n) == CellsUpTo(plan, order, ord_i + 1, n)

LEMMA WalkedFresh ==
    ASSUME IInv, IFile, Owed, OnFile, Running, NEW n \in ord_i + 1 .. Len(order) + 1,
           NEW okS \in SUBSET Walked(n)
    PROVE  /\ Fresh(files[log], Walked(n), okS)
           /\ OnceFrom(plan, order, n)
           /\ CellsFrom(plan, order, n) = CellsFrom(plan, order, ord_i + 1) \ Walked(n)
<1>1. ord_i + 1 \in Nat /\ Len(order) \in Nat /\ OnceFrom(plan, order, ord_i + 1)
    BY AtPoint DEF Owed
<1>2. /\ OnceFrom(plan, order, n)
      /\ Walked(n) \subseteq CellsFrom(plan, order, ord_i + 1)
      /\ CellsFrom(plan, order, n) = CellsFrom(plan, order, ord_i + 1) \ Walked(n)
    BY <1>1, Ahead DEF Walked
<1>3. log # NoPath /\ log \in Paths /\ Accounts(files[log]) /\ Whole(files[log])
    BY TypesNow DEF Owed, IFile, Headers
<1>4. files[log].tail = NoTail /\ Walked(n) \intersect files[log].rows = {}
    BY <1>2, <1>3 DEF Accounts
<1>5. QED
    BY <1>2, <1>3, <1>4 DEF Fresh

\* Rows are written, and the run goes on behind them.
LEMMA WalkOwed ==
    ASSUME IInv, IFile, Owed, Running, NEW n \in ord_i + 1 .. Len(order) + 1,
           NEW okS \in SUBSET Walked(n), NEW first, LogRows(Walked(n), okS, first),
           ord_i' = n - 1, UNCHANGED <<plan, order, log, is_retest, endless, spoil>>
    PROVE  Owed'
<1>1. /\ done' = done \union Walked(n) /\ have' = have \union okS
      /\ have' \subseteq done'
    BY DEF LogRows, Owed
<1>2. CASE ~OnFile'
    BY <1>1, <1>2, OffFileStep
<1>3. CASE OnFile'
    <2>1. OnFile
        BY <1>3 DEF OnFile, OnePass, Sound
    <2>2. /\ log # NoPath /\ plan # <<>> /\ Accounts(files[log])
        BY <2>1 DEF Owed
    <2>3. /\ Fresh(files[log], Walked(n), okS) /\ OnceFrom(plan, order, n)
          /\ CellsFrom(plan, order, n) = CellsFrom(plan, order, ord_i + 1) \ Walked(n)
        BY <2>1, WalkedFresh
    <2>4. Adds(files[log], Walked(n), okS, files'[log])
        BY <2>2, <2>3, RowsWritten
    <2>5. ord_i' + 1 = n
        BY AtPoint
    <2>6. Accounts(files[log])'
        <3>1. files'[log].tail = NoTail
            BY <2>4 DEF Adds
        <3>2. CellsFrom(plan, order, n) = CellsOf(plan) \ files'[log].rows
            BY <2>2, <2>3, <2>4 DEF Accounts, Adds
        <3>3. "reused" \notin spoil => done' = files'[log].rows /\ have' = files'[log].ok
            BY <1>1, <2>2, <2>4 DEF Accounts, Adds
        <3>4. QED
            BY <2>5, <3>1, <3>2, <3>3 DEF Accounts
    <2>7. QED
        BY <1>1, <2>2, <2>3, <2>5, <2>6 DEF Owed
<1>4. QED
    BY <1>2, <1>3

\* The run is aborted: what it still has to walk is made from the results.
LEMMA AbortOwed ==
    ASSUME IInv, Plans, Owed, Running, NEW more \in {{}, {"torn"}}, AbortRun(done', more),
           have' \subseteq done',
           OnFile /\ "reused" \notin spoil /\ more = {} =>
               files'[log].tail = NoTail /\ done' = files'[log].rows /\ have' = files'[log].ok
    PROVE  Owed'
<1>1. /\ UNCHANGED <<plan, log, is_retest, endless>>
      /\ ord_i' = 0
      /\ ~is_retest /\ ~endless => order' = PendingOrder(plan, done')
      /\ spoil' = spoil \union more \union (IF "reused" \in spoil THEN {"stale"} ELSE {})
    BY DEF AbortRun, gridVars
<1>2. CASE ~OnFile'
    BY <1>2, OffFileStep
<1>3. CASE OnFile'
    <2>1. ~is_retest /\ ~endless /\ spoil' \subseteq {"reused", "moved", "accepted"}
        BY <1>1, <1>3 DEF OnFile, OnePass, Sound
    <2>2. "reused" \notin spoil /\ more = {} /\ "reused" \notin spoil'
        BY <1>1, <2>1
    <2>3. OnFile
        BY <1>1, <2>1, <2>2 DEF OnFile, OnePass, Sound
    <2>4. log # NoPath /\ plan # <<>>
        BY <2>3 DEF Owed
    <2>5. plan \in Seq(Cell) /\ IsInjective(plan)
        BY TypesNow DEF Plans
    <2>6. /\ OnceFrom(plan, order', 1)
          /\ CellsFrom(plan, order', 1) = CellsOf(plan) \ done'
        BY <1>1, <2>1, <2>5, PendingOnce
    <2>7. ord_i' + 1 = 1
        BY <1>1
    <2>8. Accounts(files[log])'
        BY <1>1, <2>2, <2>3, <2>6, <2>7 DEF Accounts
    <2>9. QED
        BY <1>1, <2>4, <2>6, <2>7, <2>8 DEF Owed
<1>4. QED
    BY <1>2, <1>3

\* Nothing was written since: the operator, the bus or a deadline ended it.
LEMMA AbortQuietly ==
    ASSUME IInv, Plans, Owed, Running, AbortRun(done, {}), UNCHANGED <<done, have, files>>
    PROVE  Owed'
<1>1. have' \subseteq done'
    BY DEF Owed
<1>2. OnFile /\ "reused" \notin spoil =>
          files'[log].tail = NoTail /\ done' = files'[log].rows /\ have' = files'[log].ok
    BY DEF Owed, Accounts
<1>3. AbortRun(done', {})
    BY DEF AbortRun
<1>4. QED
    BY <1>1, <1>2, <1>3, AbortOwed

\* Rows are written, and the run is aborted.
LEMMA WalkAndAbort ==
    ASSUME IInv, IFile, Plans, Owed, Running, NEW n \in ord_i + 1 .. Len(order) + 1,
           NEW okS \in SUBSET Walked(n), NEW first, LogRows(Walked(n), okS, first),
           AbortRun(done', {})
    PROVE  Owed'
<1>1. /\ done' = done \union Walked(n) /\ have' = have \union okS
      /\ have' \subseteq done'
    BY DEF LogRows, Owed
<1>2. ASSUME OnFile, "reused" \notin spoil
      PROVE  files'[log].tail = NoTail /\ done' = files'[log].rows /\ have' = files'[log].ok
    <2>1. log # NoPath /\ Accounts(files[log]) /\ Fresh(files[log], Walked(n), okS)
        BY <1>2, WalkedFresh DEF Owed
    <2>2. Adds(files[log], Walked(n), okS, files'[log])
        BY <2>1, RowsWritten
    <2>3. QED
        BY <1>1, <1>2, <2>1, <2>2 DEF Accounts, Adds
<1>3. QED
    BY <1>1, <1>2, AbortOwed

\* The row of a cell cannot be written after those of the cells before it.
LEMMA LogFailsOwed ==
    ASSUME IInv, IFile, Plans, Owed, Running, NEW n \in ord_i + 1 .. Len(order) + 1,
           NEW okS \in SUBSET Walked(n), NEW first, NEW c,
           LogFails(Walked(n), okS, first, c)
    PROVE  Owed'
<1>1. /\ done' = done \union Walked(n) /\ have' = have \union okS
      /\ have' \subseteq done'
    BY DEF LogFails, Owed
<1>2. CASE log = NoPath
    <2>1. ~OnFile /\ AbortRun(done', {})
        BY <1>2 DEF Owed, LogFails
    <2>2. QED
        BY <1>1, <2>1, AbortOwed
<1>3. CASE log # NoPath
    <2> DEFINE a == AppendRows(files[log], Walked(n), okS, first)
    <2>1. PICK cut \in Cuts :
              /\ files' = [files EXCEPT ![log] = HalfRow(a, c, cut)]
              /\ AbortRun(done', IF cut = "none" THEN {} ELSE {"torn"})
        BY <1>3 DEF LogFails
    <2>2. CASE cut # "none"
        <3>1. {"torn"} # {} /\ AbortRun(done', {"torn"})
            BY <2>1, <2>2
        <3>2. QED
            BY <1>1, <3>1, AbortOwed
    <2>3. CASE cut = "none"
        <3>1. AbortRun(done', {})
            BY <2>1, <2>3
        <3>2. HalfRow(a, c, cut) = a
            BY <2>3 DEF HalfRow
        <3>3. files'[log] = a
            BY <1>3, <2>1, <3>2, TypesNow
        <3>4. ASSUME OnFile, "reused" \notin spoil
              PROVE  files'[log].tail = NoTail /\ done' = files'[log].rows /\ have' = files'[log].ok
            <4>1. Accounts(files[log]) /\ Fresh(files[log], Walked(n), okS)
                BY <3>4, WalkedFresh DEF Owed
            <4>2. Adds(files[log], Walked(n), okS, files'[log])
                BY <3>3, <4>1, Appended
            <4>3. QED
                BY <1>1, <3>4, <4>1, <4>2 DEF Accounts, Adds
        <3>5. QED
            BY <1>1, <3>1, <3>4, AbortOwed
    <2>4. QED
        BY <2>2, <2>3
<1>4. QED
    BY <1>2, <1>3

-----------------------------------------------------------------------------
(* The operator's steps.                                                   *)

LEMMA InitOwed == Init => Plans /\ Owed
BY BuildPlanOnce DEF Init, Plans, Owed, OnFile

\* What the window leaves open during a run and on a loaded file does not change
\* the plan.
LEMMA AdjustOnFile ==
    ASSUME IInv, PlanOfParams, Owed, OnFile, st # "Aborted", NEW q \in Params, SetParams(q)
    PROVE  plan # <<>> /\ SameGeom(q, plan_p) /\ q.mode = plan_p.mode
<1>1. plan # <<>> /\ Adjusts(q)
    BY DEF Owed, OnFile, SetParams
<1>2. {"area", "nx", "ny", "mode"} \subseteq DOMAIN p
    BY TypesNow, ParamsAssumption DEF IsParams
<1>3. q.mode = p.mode /\ q.area = p.area /\ q.nx = p.nx /\ q.ny = p.ny
    BY <1>1, <1>2 DEF Adjusts
<1>4. QED
    BY <1>1, <1>3 DEF PlanOfParams, SameGeom

\* After an abort everything can be changed, and then the file is no longer that
\* of the plan.
LEMMA SetParamsOwed ==
    ASSUME IInv, PlanOfParams, Owed, NEW q \in Params, SetParams(q)
    PROVE  Owed'
<1> DEFINE same == plan # <<>> /\ SameGeom(q, plan_p)
           keep == same /\ q.mode = plan_p.mode
<1>1. /\ UNCHANGED <<st, order, ord_i, is_retest, endless, log, files>>
      /\ plan' = IF keep THEN plan ELSE BuildPlan(q)
      /\ done' = IF same THEN done ELSE {}
      /\ have' = IF same THEN have ELSE {}
      /\ spoil' = IF keep \/ st # "Aborted" THEN spoil ELSE spoil \union {"replanned"}
    BY DEF SetParams, runVars, diskVars
<1>2. have' \subseteq done'
    BY <1>1 DEF Owed
<1>3. CASE keep
    BY <1>1, <1>3, SameAccount DEF OnFile, OnePass, Sound
<1>4. CASE ~keep
    <2>1. SUFFICES ASSUME OnFile' PROVE FALSE
        BY <1>2, OffFileStep
    <2>2. st # "Aborted"
        BY <1>1, <1>4, <2>1 DEF OnFile, OnePass, Sound
    <2>3. OnFile
        BY <1>1, <2>1, <2>2 DEF OnFile, OnePass, Sound
    <2>4. QED
        BY <1>4, <2>2, <2>3, AdjustOnFile
<1>5. QED
    BY <1>3, <1>4

LEMMA ConfigureOwed ==
    ASSUME IInv, PlanOfParams, Owed, Configure
    PROVE  Owed'
<1>1. CASE SetZeroEpoch
    BY <1>1, SameAccount
       DEF SetZeroEpoch, gridVars, runVars, diskVars, OnFile, OnePass, Sound
<1>2. QED
    BY <1>1, SetParamsOwed DEF Configure

LEMMA TrimmedSame ==
    ASSUME NEW f, Whole(f)
    PROVE  Trimmed(f).tail = NoTail /\ Trimmed(f).rows = f.rows /\ Trimmed(f).ok = f.ok
BY DEF Trimmed, Whole

LEMMA LoadResumeOwed ==
    ASSUME IInv, PlanOfParams, IFile, Plans, NEW path \in Paths, LoadResume(path)
    PROVE  Owed'
<1> DEFINE f == files[path]
<1>1. /\ log' = path /\ p' = p /\ ord_i' = 0 /\ ~ParamsError(p)
      /\ files' = [files EXCEPT ![path] = Trimmed(f)]
      /\ done' = ResumeMask(f) /\ have' \in ResumeGrids(f)
      /\ endless' = ModeEndless(p)
      /\ order' = IF ModeEndless(p) THEN AllOf(plan') ELSE PendingOrder(plan', done')
      /\ spoil' = (IF f.tail.cut = "keyed" THEN {"torn"} ELSE {})
                   \union (IF f.epoch # zero_epoch THEN {"accepted"} ELSE {})
    BY DEF LoadResume
<1>2. DOMAIN files = Paths /\ Whole(f)
    BY TypesNow DEF IFile, Headers
<1>3. Plans' /\ PlanOfParams' /\ IInv'
    BY PlansKept, PlanOfParamsKept, NextInv DEF Next, Operate, Reopen
<1>4. plan' \in Seq(Cell) /\ IsInjective(plan')
    BY <1>3 DEF IInv, TypeOK, Plans
<1>5. plan' # <<>>
    BY <1>1, <1>3 DEF Plans, PlanOfParams, SameGeom, ParamsError
<1>6. files'[path] = Trimmed(f)
    BY <1>1, <1>2
<1> HIDE DEF f
<1>7. have' \subseteq done'
    BY <1>1, <1>2 DEF ResumeMask, ResumeGrids, Whole
<1>8. CASE ~OnFile'
    BY <1>7, <1>8, OffFileStep
<1>9. CASE OnFile'
    <2>1. f.tail.cut # "keyed" /\ ~ModeEndless(p)
        BY <1>1, <1>9 DEF OnFile, OnePass, Sound
    <2>2. done' = f.rows /\ have' = f.ok
        BY <1>1, <2>1 DEF ResumeMask, ResumeGrids
    <2>3. /\ files'[path].tail = NoTail /\ files'[path].rows = f.rows
          /\ files'[path].ok = f.ok
        BY <1>2, <1>6 DEF Trimmed, Whole
    <2>4. /\ OnceFrom(plan', order', 1)
          /\ CellsFrom(plan', order', 1) = CellsOf(plan') \ done'
        BY <1>1, <1>4, <2>1, PendingOnce
    <2>5. ord_i' + 1 = 1
        BY <1>1
    <2>6. Accounts(files[log])'
        BY <1>1, <2>2, <2>3, <2>4, <2>5 DEF Accounts
    <2>7. log' # NoPath
        BY <1>1, PathsAssumption
    <2>8. QED
        BY <1>5, <1>7, <2>4, <2>5, <2>6, <2>7 DEF Owed
<1>10. QED
    BY <1>8, <1>9

\* The file held before is opened again: nothing of it has changed.
LEMMA LoadRefusedOwed ==
    ASSUME IInv, IFile, Owed, NEW path \in Paths, LoadRefused(path)
    PROVE  Owed'
<1>1. /\ UNCHANGED <<plan, order, ord_i, done, have, st, is_retest, endless>>
      /\ spoil' = IF log' = NoPath THEN spoil \union {"refused"} ELSE spoil
    BY DEF LoadRefused, gridVars, runVars
<1>2. PICK trimmed \in {files, [files EXCEPT ![path] = Trimmed(files[path])]} :
          \/ log' = NoPath /\ files' = trimmed
          \/ /\ log # NoPath /\ log' = log
             /\ files' = [trimmed EXCEPT ![log] = Trimmed(trimmed[log])]
    BY DEF LoadRefused
<1>3. CASE ~OnFile'
    BY <1>1, <1>3, OffFileStep DEF Owed
<1>4. CASE OnFile'
    <2>1. log' # NoPath /\ spoil' = spoil /\ OnFile
        BY <1>1, <1>4 DEF OnFile, OnePass, Sound
    <2>2. log' = log /\ log \in Paths /\ DOMAIN files = Paths /\ Whole(files[log])
        BY <1>2, <2>1, TypesNow DEF IFile, Headers
    <2>3. Accounts(files[log])
        BY <2>1 DEF Owed
    <2>4. /\ Whole(Trimmed(files[log]))
          /\ trimmed[log] \in {files[log], Trimmed(files[log])}
        BY <2>2, TrimmedKeeps DEF Keeps
    <2>5. files'[log] = Trimmed(trimmed[log])
        BY <1>2, <2>1, <2>2
    <2>6. /\ trimmed[log].rows = files[log].rows /\ trimmed[log].ok = files[log].ok
          /\ Whole(trimmed[log])
        BY <2>2, <2>4, TrimmedSame
    <2>7. /\ files'[log].tail = NoTail /\ files'[log].rows = files[log].rows
          /\ files'[log].ok = files[log].ok
        BY <2>5, <2>6, TrimmedSame
    <2>8. Accounts(files[log])'
        BY <1>1, <2>1, <2>2, <2>3, <2>7 DEF Accounts
    <2>9. QED
        BY <1>1, <2>1, <2>2, <2>8 DEF Owed
<1>5. QED
    BY <1>3, <1>4

LEMMA ReopenOwed ==
    ASSUME IInv, PlanOfParams, IFile, Plans, Owed, Reopen
    PROVE  Owed'
<1>1. CASE NewFile
    BY <1>1, OffFileStep DEF NewFile, ResetRunState, OnFile
<1>2. QED
    BY <1>1, LoadResumeOwed, LoadRefusedOwed DEF Reopen

\* A new run walks all of the plan into an empty file.
LEMMA StartOwed ==
    ASSUME IInv, IFile, Plans, Owed, NEW path \in Paths, NEW o \in Observations,
           Start(path, o)
    PROVE  Owed'
<1>1. /\ log' = path /\ ord_i' = 0 /\ order' = AllOf(plan') /\ order' # <<>>
      /\ files' = [files EXCEPT ![path] = HeaderOnly(p, zero_epoch)]
      /\ UNCHANGED <<done, have>>
      /\ spoil' = IF done = {} THEN {} ELSE {"reused"}
    BY DEF Start, StartPrepared, ArmRun, CanArm
<1>2. DOMAIN files = Paths /\ path # NoPath
    BY TypesNow, PathsAssumption
<1>3. Plans' /\ IInv'
    BY PlansKept, StartInv DEF Next, Operate, Begin
<1>4. plan' \in Seq(Cell) /\ IsInjective(plan')
    BY <1>3 DEF IInv, TypeOK, Plans
<1>5. plan' # <<>>
    <2>1. AllOf(<<>>) = <<>>
        BY DEF AllOf
    <2>2. QED
        BY <1>1, <2>1
<1>6. files'[path].tail = NoTail /\ files'[path].rows = {} /\ files'[path].ok = {}
    BY <1>1, <1>2 DEF HeaderOnly
<1>7. /\ OnceFrom(plan', order', 1)
      /\ CellsFrom(plan', order', 1) = CellsOf(plan')
    BY <1>1, <1>4, AllOnce
<1>8. ord_i' + 1 = 1
    BY <1>1
<1>9. "reused" \notin spoil' => done' = {} /\ have' = {}
    BY <1>1 DEF Owed
<1>10. Accounts(files[log])'
    BY <1>1, <1>6, <1>7, <1>8, <1>9 DEF Accounts
<1>11. QED
    BY <1>1, <1>2, <1>5, <1>7, <1>8, <1>10 DEF Owed

LEMMA BeginOwed ==
    ASSUME IInv, IFile, Plans, Owed, Begin
    PROVE  Owed'
<1>1. ASSUME NEW path \in Paths, NEW o \in Observations, StartRefused(path, o)
      PROVE  Owed'
    <2>1. ~OnFile' /\ UNCHANGED <<done, have>>
        BY <1>1 DEF StartRefused, StartPrepared, OnFile, OnePass, Sound
    <2>2. QED
        BY <2>1, OffFileStep DEF Owed
<1>2. ASSUME NEW o \in Observations, BeginLoadedRun(o)
      PROVE  Owed'
    <2>1. /\ st \in {"Loaded", "Aborted"} /\ ord_i' = 0
          /\ UNCHANGED <<plan, order, is_retest, endless, done, have, log, files, spoil>>
        BY <1>2 DEF BeginLoadedRun, CanContinue, ArmRun, gridVars, diskVars
    <2>2. ord_i = 0
        BY <2>1, AtRest
    <2>3. QED
        BY <2>1, <2>2, SameAccount DEF OnFile, OnePass, Sound
<1>3. ASSUME NEW o \in Observations, ReadPastPlan(o)
      PROVE  Owed'
    <2>1. ~OnFile' /\ UNCHANGED <<done, have>>
        BY <1>3 DEF ReadPastPlan, OnFile
    <2>2. QED
        BY <2>1, OffFileStep DEF Owed
<1>4. QED
    BY <1>1, <1>2, <1>3, StartOwed DEF Begin

\* A cell measured again is not part of the run.
LEMMA RepeatOwed ==
    ASSUME Owed, Repeat
    PROVE  Owed'
<1>1. ~OnFile' /\ UNCHANGED <<done, have>>
    <2>1. ASSUME NEW k, NEW o, Retest(k, o)
          PROVE  is_retest' /\ UNCHANGED <<done, have>>
        BY <2>1 DEF Retest
    <2>2. ASSUME NEW k, NEW o, RetestRefused(k, o)
          PROVE  "refused" \in spoil' /\ UNCHANGED <<done, have>>
        BY <2>2 DEF RetestRefused
    <2>3. QED
        BY <2>1, <2>2 DEF Repeat, OnFile, OnePass, Sound
<1>2. QED
    BY <1>1, OffFileStep DEF Owed

LEMMA InterruptOwed ==
    ASSUME IInv, Plans, Owed, Interrupt
    PROVE  Owed'
<1>1. CASE Pause
    BY <1>1, SameAccount DEF Pause, gridVars, runVars, diskVars, OnFile, OnePass, Sound
<1>2. CASE ResumeRun
    BY <1>2, SameAccount DEF ResumeRun, gridVars, runVars, diskVars, OnFile, OnePass, Sound
<1>3. CASE Abort
    BY <1>3, AbortQuietly DEF Abort
<1>4. QED
    BY <1>1, <1>2, <1>3 DEF Interrupt

-----------------------------------------------------------------------------
(* The refresh and the meter.                                              *)

\* Nothing is walked yet, and then the point that is measured.
LEMMA OneWalked ==
    ASSUME IInv, Running
    PROVE  /\ {ord_i + 1, ord_i + 2} \subseteq ord_i + 1 .. Len(order) + 1
           /\ Walked(ord_i + 1) = {}
           /\ Walked(ord_i + 2) = {plan[cur]}
<1>1. /\ ord_i \in 0 .. Len(order) - 1 /\ Len(order) \in Nat
      /\ cur = order[ord_i + 1]
    BY AtPoint
<1>2. ord_i + 1 .. (ord_i + 1) - 1 = {} /\ ord_i + 1 .. (ord_i + 2) - 1 = {ord_i + 1}
    BY <1>1
<1>3. {ord_i + 1, ord_i + 2} \subseteq ord_i + 1 .. Len(order) + 1
    BY <1>1
<1>4. QED
    BY <1>1, <1>2, <1>3 DEF Walked, CellsUpTo

\* On a leg what is left behind is what was walked.
LEMMA BehindWalked ==
    ASSUME IInv, st = "Traversing", NEW j \in fly.at .. End
    PROVE  /\ j \in ord_i + 1 .. Len(order) + 1
           /\ Behind(j) = Walked(j) /\ BehindOk(j) \in SUBSET Walked(j)
           /\ ord_i + (j - fly.at) = j - 1
<1>1. /\ Running /\ fly.at \in 1 .. Len(order) /\ Len(order) \in Nat
      /\ End \in fly.at .. Len(order) /\ fly.at = ord_i + 1
    BY Traversing, OnLeg
<1>2. j \in ord_i + 1 .. Len(order) + 1 /\ ord_i \in Nat
    BY <1>1, TypesNow
<1>3. ord_i + (j - fly.at) = j - 1
    BY <1>1, <1>2
<1>4. Behind(j) = Walked(j)
    BY <1>1 DEF Behind, Walked, CellsUpTo
<1>5. BehindOk(j) \in SUBSET Behind(j)
    <2>1. j > fly.at => fly.at \in fly.at .. j - 1
        BY <1>1
    <2>2. QED
        BY <2>1 DEF BehindOk, Behind
<1>6. QED
    BY <1>2, <1>3, <1>4, <1>5

\* The row of the point is written and the run moves on or is over.
LEMMA FinishPointOwed ==
    ASSUME IInv, IFile, Owed, Running, NEW okS \in SUBSET {plan[cur]}, FinishPoint(okS)
    PROVE  Owed'
<1>1. /\ LogRows(Walked(ord_i + 2), okS, plan[cur]) /\ okS \in SUBSET Walked(ord_i + 2)
      /\ ord_i + 2 \in ord_i + 1 .. Len(order) + 1
      /\ log' = log /\ spoil' = spoil /\ Advance
    BY OneWalked DEF FinishPoint
<1>2. have' \subseteq done'
    BY <1>1 DEF LogRows, Owed
<1>3. CASE ord_i' = ord_i + 1 /\ UNCHANGED <<plan, order, is_retest, endless>>
    <2>1. ord_i' = (ord_i + 2) - 1
        BY <1>3, AtPoint
    <2>2. QED
        BY <1>1, <1>3, <2>1, WalkOwed
<1>4. CASE endless /\ endless' = endless
    BY <1>2, <1>4, OffFileStep DEF OnFile, OnePass
<1>5. CASE FinishRun
    BY <1>2, <1>5, OffFileStep DEF OnFile, FinishRun
<1>6. QED
    BY <1>1, <1>3, <1>4, <1>5 DEF Advance

\* The row of the point cannot be written.
LEMMA FirstRowFails ==
    ASSUME IInv, IFile, Plans, Owed, Running, NEW first, NEW c, LogFails({}, {}, first, c)
    PROVE  Owed'
<1> DEFINE n == ord_i + 1
<1>1. n \in ord_i + 1 .. Len(order) + 1 /\ Walked(n) = {}
    BY OneWalked
<1> HIDE DEF n
<1>2. {} \in SUBSET Walked(n) /\ LogFails(Walked(n), {}, first, c)
    BY <1>1
<1>3. QED
    BY <1>1, <1>2, LogFailsOwed

LEMMA SyncOwed ==
    ASSUME IInv, IFile, Owed, st = "Traversing", NEW j \in fly.at .. End, Sync(j),
           UNCHANGED <<plan, order, log, is_retest, endless, spoil>>
    PROVE  Owed'
<1>1. /\ j \in ord_i + 1 .. Len(order) + 1 /\ BehindOk(j) \in SUBSET Walked(j)
      /\ Behind(j) = Walked(j) /\ ord_i + (j - fly.at) = j - 1
    BY BehindWalked
<1>2. LogRows(Walked(j), BehindOk(j), plan[order[fly.at]]) /\ ord_i' = j - 1
    BY <1>1 DEF Sync
<1>3. QED
    BY <1>1, <1>2, WalkOwed

LEMMA TickLegOverOwed ==
    ASSUME IInv, IFile, Plans, Owed, NEW dt \in 1 .. MaxStep, NEW o \in Observations,
           TickLegOver(dt, o)
    PROVE  Owed'
<1> DEFINE c == plan[order[fly.at]]
           okS == IF fly.sample # NoCell THEN {c} ELSE {}
<1>1. /\ st = "Traversing" /\ Running /\ fly.at = ord_i + 1
      /\ cur = order[ord_i + 1]
    BY Traversing, OnLeg, AtPoint DEF TickLegOver
<1>2. CASE LogFails({}, {}, c, c)
    BY <1>1, <1>2, FirstRowFails
<1>3. CASE /\ LogRows({c}, okS, c) /\ AdvanceLeg
           /\ UNCHANGED <<plan, log, spoil>>
    <2>1. /\ ord_i + 2 \in ord_i + 1 .. Len(order) + 1
          /\ Walked(ord_i + 2) = {c} /\ okS \in SUBSET Walked(ord_i + 2)
        BY <1>1, OneWalked
    <2> HIDE DEF okS
    <2>2. LogRows(Walked(ord_i + 2), okS, c)
        BY <1>3, <2>1
    <2>3. CASE FinishRun
        <3>1. have' \subseteq done' /\ st' = "Done"
            BY <2>1, <2>2, <2>3 DEF LogRows, Owed, FinishRun
        <3>2. QED
            BY <3>1, OffFileStep DEF OnFile
    <2>4. CASE ord_i' = ord_i + 1 /\ UNCHANGED <<order, is_retest, endless>>
        <3>1. ord_i' = (ord_i + 2) - 1
            BY <1>1, <2>4, AtPoint
        <3>2. QED
            BY <1>1, <1>3, <2>1, <2>2, <2>4, <3>1, WalkOwed
    <2>5. QED
        BY <1>3, <2>3, <2>4 DEF AdvanceLeg
<1>4. QED
    BY <1>2, <1>3 DEF TickLegOver, gridVars

LEMMA RefreshOwed ==
    ASSUME IInv, IFile, Plans, Owed, Refresh
    PROVE  Owed'
<1>1. PICK dt \in 1 .. MaxStep, o \in Observations : Tick(dt, o)
    BY DEF Refresh
<1>2. CASE TickUnhealthy(dt, o) \/ TickNotArrived(dt, o)
    BY <1>2, AbortQuietly DEF TickUnhealthy, TickNotArrived
<1>3. CASE TickPaused(dt, o)
    BY <1>3, SameAccount DEF TickPaused, gridVars, runVars, diskVars, OnFile, OnePass, Sound
<1>4. CASE TickMoving(dt, o) \/ TickDwelling(dt, o) \/ TickReading(dt, o)
    <2>1. /\ Running
          /\ UNCHANGED <<plan, order, ord_i, is_retest, endless, spoil, done, have, log, files>>
        BY <1>4 DEF TickMoving, TickDwelling, TickReading, gridVars, runVars, diskVars
    <2>2. QED
        BY <2>1, SameAccount DEF OnFile, OnePass, Sound
<1>5. CASE TickReadTimeout(dt, o)
    <2>1. {} \in SUBSET {plan[cur]}
        OBVIOUS
    <2>2. QED
        BY <1>5, <2>1, FinishPointOwed, FirstRowFails DEF TickReadTimeout, FinishPointFails
<1>6. CASE TickTraversing(dt, o)
    <2>1. /\ st = "Traversing"
          /\ UNCHANGED <<plan, order, log, is_retest, endless, spoil>>
        BY <1>6 DEF TickTraversing, gridVars
    <2>2. PICK j \in fly.at .. End : Sync(j)
        BY <1>6 DEF TickTraversing
    <2>3. QED
        BY <2>1, <2>2, SyncOwed
<1>7. CASE TickLegLate(dt, o)
    <2>1. st = "Traversing" /\ Running /\ AbortRun(done', {})
        BY <1>7 DEF TickLegLate
    <2>2. PICK j \in fly.at .. End : LogRows(Behind(j), BehindOk(j), plan[order[fly.at]])
        BY <1>7 DEF TickLegLate
    <2>3. /\ j \in ord_i + 1 .. Len(order) + 1 /\ BehindOk(j) \in SUBSET Walked(j)
          /\ Behind(j) = Walked(j)
        BY <2>1, BehindWalked
    <2>4. LogRows(Walked(j), BehindOk(j), plan[order[fly.at]])
        BY <2>2, <2>3
    <2>5. QED
        BY <2>1, <2>3, <2>4, WalkAndAbort
<1>8. CASE TickLegOver(dt, o)
    BY <1>8, TickLegOverOwed
<1>9. QED
    BY <1>1, <1>2, <1>3, <1>4, <1>5, <1>6, <1>7, <1>8 DEF Tick

LEMMA SampleOwed ==
    ASSUME IInv, IFile, Plans, Owed, Sample
    PROVE  Owed'
<1>1. CASE SampleReading
    <2>1. Running
        BY <1>1 DEF SampleReading
    <2>2. CASE UNCHANGED <<gridVars, st, runVars, done, have, diskVars, spoil>>
        BY <2>2, SameAccount DEF gridVars, runVars, diskVars, OnFile, OnePass, Sound
    <2>3. CASE FinishPoint({plan[cur]})
        <3>1. {plan[cur]} \in SUBSET {plan[cur]}
            OBVIOUS
        <3>2. QED
            BY <2>1, <2>3, <3>1, FinishPointOwed
    <2>4. CASE FinishPointFails
        BY <2>1, <2>4, FirstRowFails DEF FinishPointFails
    <2>5. QED
        BY <1>1, <2>2, <2>3, <2>4 DEF SampleReading
<1>2. CASE SampleTraversing
    <2>1. /\ st = "Traversing"
          /\ UNCHANGED <<plan, order, log, is_retest, endless, spoil>>
        BY <1>2 DEF SampleTraversing, gridVars
    <2>2. PICK j \in fly.at .. End : Sync(j)
        BY <1>2 DEF SampleTraversing
    <2>3. QED
        BY <2>1, <2>2, SyncOwed
<1>3. QED
    BY <1>1, <1>2 DEF Sample

\* The rows before the one that fails are there, and count.
LEMMA PassedRowFailsOwed ==
    ASSUME IInv, IFile, Plans, Owed, PassedRowFails
    PROVE  Owed'
<1>1. st = "Traversing" /\ Running
    BY DEF PassedRowFails
<1>2. PICK i \in fly.at .. End - 1 :
          LogFails(Behind(i), BehindOk(i), plan[order[fly.at]], plan[order[i]])
    BY DEF PassedRowFails
<1>3. i \in fly.at .. End
    BY <1>1, Traversing
<1>4. /\ i \in ord_i + 1 .. Len(order) + 1 /\ BehindOk(i) \in SUBSET Walked(i)
      /\ Behind(i) = Walked(i)
    BY <1>1, <1>3, BehindWalked
<1>5. LogFails(Walked(i), BehindOk(i), plan[order[fly.at]], plan[order[i]])
    BY <1>2, <1>4
<1>6. QED
    BY <1>1, <1>4, <1>5, LogFailsOwed

-----------------------------------------------------------------------------
(* The specification.                                                      *)

LEMMA NextOwed ==
    ASSUME IInv, PlanOfParams, IFile, Plans, Owed, [Next]_vars
    PROVE  Owed'
<1>1. CASE Operate
    BY <1>1, ConfigureOwed, ReopenOwed, BeginOwed, RepeatOwed, InterruptOwed DEF Operate
<1>2. CASE Refresh \/ Sample
    BY <1>2, RefreshOwed, SampleOwed
<1>3. CASE PassedRowFails
    BY <1>3, PassedRowFailsOwed
<1>4. CASE Restart
    BY <1>4, OffFileStep DEF Restart, OnFile
<1>5. CASE UNCHANGED vars
    BY <1>5, SameAccount DEF vars, OnFile, OnePass, Sound
<1>6. QED
    BY <1>1, <1>2, <1>3, <1>4, <1>5 DEF Next

LEMMA OwedInductive == Spec => [](IInv /\ IFile /\ Plans /\ Owed)
<1>1. Init => Plans /\ Owed
    BY InitOwed
<1>2. IInv /\ PlanOfParams /\ IFile /\ Plans /\ Owed /\ [Next]_vars => Plans' /\ Owed'
    BY NextOwed, PlansKept
<1>3. QED
    BY <1>1, <1>2, Inductive, FileInductive, PTL DEF Spec

\* Whatever sequence of pauses, aborts, restarts, write failures and reopenings
\* led to it: what a run, a loaded file or an aborted run still has to walk is
\* exactly what has no row in the open file, for a grid of any size
\* (stageResumeAfterAbort, loadResume, advance and advanceLeg against the CSV).
THEOREM PendingIsWhatHasNoRow == Spec => []PendingIsComplement
<1>1. IInv /\ IFile /\ Owed => PendingIsComplement
    <2> SUFFICES ASSUME IFile, IInv, Owed, OnFile PROVE PendingIsComplement
        BY DEF PendingIsComplement, OnFile
    <2>1. log # NoPath /\ CellsFrom(plan, order, ord_i + 1) = CellsOf(plan) \ files[log].rows
        BY DEF Owed, Accounts
    <2>2. files[log] # NoFile
        <3>1. run_p.nx # 0 /\ files[log].geom.nx = run_p.nx
            BY <2>1 DEF IFile, Headers, SameGeom
        <3>2. NoFile.geom.nx = 0
            BY DEF NoFile, HeaderOnly
        <3>3. QED
            BY <3>1, <3>2
    <2>3. QED
        BY <2>1, <2>2 DEF PendingIsComplement, CellsFrom
<1>2. QED
    BY <1>1, OwedInductive, PTL

\* What the map shows is what the rows of the open file say, a timed-out cell
\* and a cell read back from a reopened file included (m_have against the CSV).
THEOREM MapShowsTheFile == Spec => []MapIsFile
<1>1. Owed => MapIsFile
    BY DEF Owed, Accounts, OnFile, MapIsFile
<1>2. QED
    BY <1>1, OwedInductive, PTL

-----------------------------------------------------------------------------
(***************************************************************************)
(* The scan controller implements ScanRun: the initial state is one of     *)
(* ScanRun, and every step is a step of ScanRun or changes nothing there.  *)
(***************************************************************************)
GridCells == UNION {Cells(q) : q \in Params}

\* Plans and files have cells of grids only.
InGrids ==
    /\ CellsOf(plan) \subseteq GridCells
    /\ \A f \in Paths : files[f].rows \subseteq GridCells

\* No file has got a row of a cell that is not in the plan.
RowsOfPlan == \A f \in Paths : files'[f].rows \subseteq files[f].rows \union CellsOf(plan)

-----------------------------------------------------------------------------
(* Which cells there are.                                                  *)

LEMMA BuildPlanInGrids ==
    ASSUME NEW q \in Params
    PROVE  CellsOf(BuildPlan(q)) \subseteq GridCells
<1>1. CASE ParamsError(q)
    BY <1>1 DEF BuildPlan, CellsOf
<1>2. CASE ~ParamsError(q)
    <2> DEFINE pl == BuildPlan(q)
    <2>1. pl \in [1 .. Cardinality(Cells(q)) -> Cells(q)]
        BY <1>2, ParamsAssumption, PlanCoversItsGrid DEF IsPlanOf
    <2> HIDE DEF pl
    <2>2. CellsOf(pl) \subseteq Cells(q)
        BY <2>1 DEF CellsOf
    <2>3. CellsOf(pl) \subseteq GridCells
        BY <2>2 DEF GridCells
    <2>4. QED
        BY <2>3 DEF pl
<1>3. QED
    BY <1>1, <1>2

LEMMA ShufflesInGrids ==
    ASSUME NEW pl, CellsOf(pl) \subseteq GridCells, NEW q \in Shuffles(pl)
    PROVE  CellsOf(q) \subseteq GridCells
BY DEF Shuffles, CellsOf

\* The plan has cells of grids, as it is built and as it is dealt.
LEMMA PlanInGridsKept ==
    ASSUME IInv, CellsOf(plan) \subseteq GridCells, [Next]_vars
    PROVE  CellsOf(plan') \subseteq GridCells
<1>1. p \in Params
    BY TypesNow
<1>2. CASE plan' = plan
    BY <1>2
<1>3. ASSUME NEW q \in Params, plan' = BuildPlan(q)
      PROVE  CellsOf(plan') \subseteq GridCells
    BY <1>3, BuildPlanInGrids
<1>4. CASE plan' \in Shuffles(plan)
    BY <1>4, ShufflesInGrids
<1>5. CASE PrepareRunPlan
    BY <1>1, <1>5, BuildPlanInGrids, ShufflesInGrids DEF PrepareRunPlan
<1>6. ASSUME NEW d, NEW more, AbortRun(d, more)
      PROVE  plan' = plan
    BY <1>6 DEF AbortRun, gridVars
<1>7. ASSUME NEW S, NEW okS, NEW first, NEW c, LogFails(S, okS, first, c)
      PROVE  plan' = plan
    BY <1>6, <1>7 DEF LogFails
<1>8. ASSUME NEW okS, FinishPoint(okS)
      PROVE  CellsOf(plan') \subseteq GridCells
    BY <1>2, <1>4, <1>8 DEF FinishPoint, Advance
<1>9. CASE Configure
    BY <1>2, <1>3, <1>9 DEF Configure, SetZeroEpoch, SetParams, gridVars
<1>10. CASE Reopen
    BY <1>2, <1>5, <1>10 DEF Reopen, NewFile, ResetRunState, LoadResume, LoadRefused, gridVars
<1>11. CASE Begin
    BY <1>2, <1>5, <1>11
       DEF Begin, Start, StartRefused, StartPrepared, BeginLoadedRun, ReadPastPlan, gridVars
<1>12. CASE Repeat \/ Interrupt
    BY <1>2, <1>6, <1>12
       DEF Repeat, Retest, RetestRefused, Interrupt, Pause, ResumeRun, Abort, gridVars
<1>13. CASE Refresh
    <2>1. PICK dt \in 1 .. MaxStep, o \in Observations : Tick(dt, o)
        BY <1>13 DEF Refresh
    <2>2. CASE TickUnhealthy(dt, o) \/ TickNotArrived(dt, o) \/ TickLegLate(dt, o)
        BY <1>2, <1>6, <2>2 DEF TickUnhealthy, TickNotArrived, TickLegLate
    <2>3. CASE TickPaused(dt, o) \/ TickMoving(dt, o) \/ TickDwelling(dt, o)
               \/ TickReading(dt, o) \/ TickTraversing(dt, o)
        BY <1>2, <2>3
           DEF TickPaused, TickMoving, TickDwelling, TickReading, TickTraversing, gridVars
    <2>4. CASE TickReadTimeout(dt, o)
        BY <1>2, <1>7, <1>8, <2>4 DEF TickReadTimeout, FinishPointFails
    <2>5. CASE TickLegOver(dt, o)
        BY <1>2, <1>7, <2>5 DEF TickLegOver, gridVars
    <2>6. QED
        BY <2>1, <2>2, <2>3, <2>4, <2>5 DEF Tick
<1>14. CASE Sample
    BY <1>2, <1>7, <1>8, <1>14
       DEF Sample, SampleReading, SampleTraversing, FinishPointFails, gridVars
<1>15. CASE PassedRowFails
    BY <1>2, <1>7, <1>15 DEF PassedRowFails
<1>16. CASE Restart
    BY <1>1, <1>3, <1>16 DEF Restart
<1>17. CASE UNCHANGED vars
    BY <1>2, <1>17 DEF vars
<1>18. QED
    BY <1>9, <1>10, <1>11, <1>12, <1>13, <1>14, <1>15, <1>16, <1>17 DEF Next, Operate

-----------------------------------------------------------------------------
(* Which rows a file has.                                                  *)

LEMMA AppendedRows ==
    ASSUME NEW f, Whole(f), NEW S, NEW okS, NEW first
    PROVE  AppendRows(f, S, okS, first).rows \subseteq f.rows \union S
<1> DEFINE kept == IF f.tail = NoTail THEN S ELSE S \ {first}
<1>1. AppendRows(f, S, okS, first).rows = f.rows \union kept
    BY DEF AppendRows, Whole
<1>2. QED
    BY <1>1

LEMMA HalfRowRows ==
    ASSUME NEW f, Whole(f), NEW c, NEW cut
    PROVE  HalfRow(f, c, cut).rows = f.rows
BY DEF HalfRow, Whole

\* What is walked are cells of the plan.
LEMMA WalkedOfPlan ==
    ASSUME IInv, Running, NEW n \in ord_i + 1 .. Len(order) + 1
    PROVE  Walked(n) \subseteq CellsOf(plan)
<1>1. ord_i \in Nat /\ Len(order) \in Nat /\ \A i \in 1 .. Len(order) : order[i] \in DOMAIN plan
    BY AtPoint
<1>2. \A k \in ord_i + 1 .. n - 1 : k \in 1 .. Len(order)
    BY <1>1
<1>3. QED
    BY <1>1, <1>2 DEF Walked, CellsUpTo, CellsOf

LEMMA SameRows ==
    ASSUME files' = files
    PROVE  RowsOfPlan
BY DEF RowsOfPlan

LEMMA OneFileRows ==
    ASSUME DOMAIN files = Paths, NEW path \in Paths, NEW g,
           g.rows \subseteq files[path].rows \union CellsOf(plan),
           files' = [files EXCEPT ![path] = g]
    PROVE  RowsOfPlan
BY DEF RowsOfPlan

LEMMA LogRowsOfPlan ==
    ASSUME IInv, IFile, NEW S, S \subseteq CellsOf(plan), NEW okS, NEW first,
           LogRows(S, okS, first)
    PROVE  RowsOfPlan
<1>1. CASE S = {}
    BY <1>1, SameRows DEF LogRows
<1>2. CASE S # {}
    <2> DEFINE g == AppendRows(files[log], S, okS, first)
    <2>1. log \in Paths /\ DOMAIN files = Paths /\ Whole(files[log])
        BY <1>2, TypesNow DEF LogRows, IFile, Headers
    <2>2. files' = [files EXCEPT ![log] = g]
        BY <1>2 DEF LogRows
    <2>3. g.rows \subseteq files[log].rows \union CellsOf(plan)
        BY <2>1, AppendedRows
    <2> HIDE DEF g
    <2>4. QED
        BY <2>1, <2>2, <2>3, OneFileRows
<1>3. QED
    BY <1>1, <1>2

LEMMA LogFailsOfPlan ==
    ASSUME IInv, IFile, NEW S, S \subseteq CellsOf(plan), NEW okS, NEW first, NEW c,
           LogFails(S, okS, first, c)
    PROVE  RowsOfPlan
<1>1. CASE UNCHANGED files
    BY <1>1, SameRows
<1>2. ASSUME NEW cut \in Cuts, log # NoPath,
             files' = [files EXCEPT ![log] =
                           HalfRow(AppendRows(files[log], S, okS, first), c, cut)]
      PROVE  RowsOfPlan
    <2> DEFINE a == AppendRows(files[log], S, okS, first)
               h == HalfRow(a, c, cut)
    <2>1. log \in Paths /\ DOMAIN files = Paths /\ Whole(files[log])
        BY <1>2, TypesNow DEF IFile, Headers
    <2>2. Whole(a) /\ a.rows \subseteq files[log].rows \union CellsOf(plan)
        BY <2>1, AppendedRows, AppendRowsKeeps DEF Keeps
    <2>3. files' = [files EXCEPT ![log] = h]
        BY <1>2
    <2> HIDE DEF a
    <2>4. h.rows \subseteq files[log].rows \union CellsOf(plan)
        BY <2>2, HalfRowRows
    <2> HIDE DEF h
    <2>5. QED
        BY <2>1, <2>3, <2>4, OneFileRows
<1>3. QED
    BY <1>1, <1>2 DEF LogFails

LEMMA StartRows ==
    ASSUME IInv, IFile, Begin
    PROVE  \A f \in Paths : files'[f].rows \subseteq files[f].rows
<1>1. DOMAIN files = Paths
    BY TypesNow
<1>2. ASSUME NEW path \in Paths, NEW g, g.rows = {}, files' = [files EXCEPT ![path] = g]
      PROVE  \A f \in Paths : files'[f].rows \subseteq files[f].rows
    BY <1>1, <1>2
<1>3. HeaderOnly(p, zero_epoch).rows = {} /\ NoFile.rows = {}
    BY DEF NoFile, HeaderOnly
<1>4. CASE files' = files
    BY <1>4
<1>5. QED
    BY <1>2, <1>3, <1>4
       DEF Begin, Start, StartRefused, BeginLoadedRun, ReadPastPlan, diskVars

LEMMA LoadRefusedRows ==
    ASSUME IInv, IFile, NEW path \in Paths, LoadRefused(path)
    PROVE  \A f \in Paths : files'[f].rows = files[f].rows
<1>1. DOMAIN files = Paths /\ log \in Paths \union {NoPath}
    BY TypesNow
<1>2. \A f \in Paths : Whole(files[f]) /\ Trimmed(files[f]).rows = files[f].rows
    BY TrimmedSame DEF IFile, Headers
<1>3. PICK trimmed \in {files, [files EXCEPT ![path] = Trimmed(files[path])]} :
          \/ files' = trimmed
          \/ /\ log # NoPath
             /\ files' = [trimmed EXCEPT ![log] = Trimmed(trimmed[log])]
    BY DEF LoadRefused
<1>4. /\ DOMAIN trimmed = Paths
      /\ \A f \in Paths : trimmed[f] \in {files[f], Trimmed(files[f])}
    BY <1>1, <1>3
<1>5. \A f \in Paths : Whole(Trimmed(files[f]))
    BY <1>2, TrimmedKeeps DEF Keeps
<1>6. \A f \in Paths : /\ trimmed[f].rows = files[f].rows
                       /\ Trimmed(trimmed[f]).rows = files[f].rows
    BY <1>2, <1>4, <1>5, TrimmedSame
<1>7. \A f \in Paths : files'[f] \in {trimmed[f], Trimmed(trimmed[f])}
    BY <1>1, <1>3, <1>4
<1>8. QED
    BY <1>6, <1>7

LEMMA ReopenRows ==
    ASSUME IInv, IFile, Reopen
    PROVE  RowsOfPlan
<1>1. CASE NewFile
    BY <1>1, SameRows DEF NewFile, ResetRunState
<1>2. ASSUME NEW path \in Paths, LoadResume(path)
      PROVE  RowsOfPlan
    <2>1. files' = [files EXCEPT ![path] = Trimmed(files[path])]
        BY <1>2 DEF LoadResume
    <2>2. DOMAIN files = Paths /\ Trimmed(files[path]).rows = files[path].rows
        BY TypesNow, TrimmedSame DEF IFile, Headers
    <2>3. QED
        BY <2>1, <2>2 DEF RowsOfPlan
<1>3. QED
    BY <1>1, <1>2, LoadRefusedRows DEF Reopen, RowsOfPlan

LEMMA RefreshRows ==
    ASSUME IInv, IFile, Refresh
    PROVE  RowsOfPlan
<1>1. PICK dt \in 1 .. MaxStep, o \in Observations : Tick(dt, o)
    BY DEF Refresh
<1>2. CASE UNCHANGED files
    BY <1>2, SameRows
<1>3. CASE TickReadTimeout(dt, o)
    <2>1. Running
        BY <1>3 DEF TickReadTimeout
    <2>2. {plan[cur]} \subseteq CellsOf(plan)
        BY <2>1, OneWalked, WalkedOfPlan
    <2>3. {} \subseteq CellsOf(plan)
        OBVIOUS
    <2>4. QED
        BY <1>3, <2>2, <2>3, LogRowsOfPlan, LogFailsOfPlan
           DEF TickReadTimeout, FinishPoint, FinishPointFails
<1>4. ASSUME st = "Traversing", NEW j \in fly.at .. End,
             LogRows(Behind(j), BehindOk(j), plan[order[fly.at]])
      PROVE  RowsOfPlan
    <2>1. Running /\ j \in ord_i + 1 .. Len(order) + 1 /\ Behind(j) = Walked(j)
        BY <1>4, BehindWalked
    <2>2. Behind(j) \subseteq CellsOf(plan)
        BY <2>1, WalkedOfPlan
    <2>3. QED
        BY <1>4, <2>2, LogRowsOfPlan
<1>5. CASE TickTraversing(dt, o) \/ TickLegLate(dt, o)
    BY <1>4, <1>5 DEF TickTraversing, TickLegLate, Sync
<1>6. CASE TickLegOver(dt, o)
    <2> DEFINE c == plan[order[fly.at]]
    <2>1. st = "Traversing" /\ Running /\ fly.at = ord_i + 1 /\ cur = order[ord_i + 1]
        BY <1>6, Traversing, OnLeg, AtPoint DEF TickLegOver
    <2>2. {c} \subseteq CellsOf(plan)
        BY <2>1, OneWalked, WalkedOfPlan
    <2>3. {} \subseteq CellsOf(plan)
        OBVIOUS
    <2>4. QED
        BY <1>6, <2>2, <2>3, LogRowsOfPlan, LogFailsOfPlan DEF TickLegOver
<1>7. QED
    BY <1>1, <1>2, <1>3, <1>5, <1>6
       DEF Tick, TickUnhealthy, TickPaused, TickMoving, TickNotArrived, TickDwelling,
           TickReading, diskVars

LEMMA SampleRows ==
    ASSUME IInv, IFile, Sample
    PROVE  RowsOfPlan
<1>1. CASE SampleReading
    <2>1. Running
        BY <1>1 DEF SampleReading
    <2>2. {plan[cur]} \subseteq CellsOf(plan)
        BY <2>1, OneWalked, WalkedOfPlan
    <2>3. {} \subseteq CellsOf(plan)
        OBVIOUS
    <2>4. CASE UNCHANGED files
        BY <2>4, SameRows
    <2>5. QED
        BY <1>1, <2>2, <2>3, <2>4, LogRowsOfPlan, LogFailsOfPlan
           DEF SampleReading, FinishPoint, FinishPointFails, diskVars
<1>2. CASE SampleTraversing
    <2>1. PICK j \in fly.at .. End : LogRows(Behind(j), BehindOk(j), plan[order[fly.at]])
        BY <1>2 DEF SampleTraversing, Sync
    <2>2. /\ st = "Traversing" /\ Running
          /\ j \in ord_i + 1 .. Len(order) + 1 /\ Behind(j) = Walked(j)
        BY <1>2, BehindWalked DEF SampleTraversing
    <2>3. Behind(j) \subseteq CellsOf(plan)
        BY <2>2, WalkedOfPlan
    <2>4. QED
        BY <2>1, <2>3, LogRowsOfPlan
<1>3. QED
    BY <1>1, <1>2 DEF Sample

LEMMA PassedRowFailsRows ==
    ASSUME IInv, IFile, PassedRowFails
    PROVE  RowsOfPlan
<1>1. st = "Traversing" /\ Running
    BY DEF PassedRowFails
<1>2. PICK i \in fly.at .. End - 1 :
          LogFails(Behind(i), BehindOk(i), plan[order[fly.at]], plan[order[i]])
    BY DEF PassedRowFails
<1>3. i \in fly.at .. End
    BY <1>1, Traversing
<1>4. i \in ord_i + 1 .. Len(order) + 1 /\ Behind(i) = Walked(i)
    BY <1>1, <1>3, BehindWalked
<1>5. Behind(i) \subseteq CellsOf(plan)
    BY <1>1, <1>4, WalkedOfPlan
<1>6. QED
    BY <1>2, <1>5, LogFailsOfPlan

LEMMA RestartRows ==
    ASSUME IInv, IFile, Restart
    PROVE  RowsOfPlan
<1>1. DOMAIN files = Paths /\ log \in Paths \union {NoPath}
    BY TypesNow
<1>2. PICK cut \in Cuts \union {"none"} :
          /\ cut # "none" => log # NoPath
          /\ files' = IF cut = "none" THEN files
                      ELSE [files EXCEPT ![log] = HalfRow(files[log], plan[cur], cut)]
    BY DEF Restart
<1>3. CASE cut = "none"
    BY <1>2, <1>3, SameRows
<1>4. CASE cut # "none"
    <2>1. log \in Paths /\ Whole(files[log])
        BY <1>1, <1>2, <1>4 DEF IFile, Headers
    <2>2. HalfRow(files[log], plan[cur], cut).rows = files[log].rows
        BY <2>1, HalfRowRows
    <2>3. QED
        BY <1>1, <1>2, <1>4, <2>1, <2>2, OneFileRows
<1>5. QED
    BY <1>3, <1>4

LEMMA InGridsKept ==
    ASSUME IInv, IFile, InGrids, [Next]_vars
    PROVE  InGrids'
<1>1. CellsOf(plan') \subseteq GridCells
    BY PlanInGridsKept DEF InGrids
<1>2. files' = files => RowsOfPlan
    BY SameRows
<1>3. RowsOfPlan
    <2>1. CASE Configure
        BY <1>2, <2>1 DEF Configure, SetZeroEpoch, SetParams, diskVars
    <2>2. CASE Begin
        BY <2>2, StartRows DEF RowsOfPlan
    <2>3. CASE Repeat \/ Interrupt
        BY <1>2, <2>3
           DEF Repeat, Retest, RetestRefused, Interrupt, Pause, ResumeRun, Abort, diskVars
    <2>4. CASE UNCHANGED vars
        BY <1>2, <2>4 DEF vars
    <2>5. QED
        BY <2>1, <2>2, <2>3, <2>4, ReopenRows, RefreshRows, SampleRows,
           PassedRowFailsRows, RestartRows DEF Next, Operate
<1>4. QED
    BY <1>1, <1>3 DEF InGrids, RowsOfPlan

-----------------------------------------------------------------------------
(* What ScanRun sees.                                                      *)

LEMMA PhaseNow ==
    /\ PhaseOfRun \in {"void", "running", "held", "over"}
    /\ PhaseOfRun = "running" <=> OnePass /\ Running
    /\ PhaseOfRun = "held" <=> OnePass /\ st \in {"Loaded", "Aborted"}
    /\ PhaseOfRun = "over" <=> OnePass /\ st = "Done"
    /\ InHand <=> OnFile
BY DEF PhaseOfRun, InHand, OnFile

LEMMA PhaseNext ==
    /\ PhaseOfRun' \in {"void", "running", "held", "over"}
    /\ PhaseOfRun' = "running" <=> OnePass' /\ Running'
    /\ PhaseOfRun' = "held" <=> OnePass' /\ st' \in {"Loaded", "Aborted"}
    /\ PhaseOfRun' = "over" <=> OnePass' /\ st' = "Done"
    /\ InHand' <=> OnFile'
BY DEF PhaseOfRun, InHand, OnFile

ScanStep == [Scan!Next]_<<PhaseOfRun, GridOfRun, OwedByRun, RowsOfRun>>

\* Nothing is promised any more.
LEMMA VoidStep ==
    ASSUME ~(OnePass' /\ (Running' \/ st' \in {"Loaded", "Aborted", "Done"}))
    PROVE  ScanStep
<1>1. PhaseOfRun' = "void" /\ ~InHand'
    BY PhaseNext DEF OnFile
<1>2. GridOfRun' = {} /\ OwedByRun' = {} /\ RowsOfRun' = {}
    BY <1>1 DEF GridOfRun, OwedByRun, RowsOfRun
<1>3. Scan!GiveUp
    BY <1>1, <1>2 DEF Scan!GiveUp
<1>4. QED
    BY <1>3 DEF ScanStep, Scan!Next

\* The step is of no account to ScanRun.
LEMMA StillStep ==
    ASSUME PhaseOfRun' = PhaseOfRun,
           OnFile => UNCHANGED <<plan, order, ord_i>>,
           PhaseOfRun # "void" => files'[log'].rows = files[log].rows
    PROVE  ScanStep
<1>1. InHand' = InHand
    BY DEF InHand
<1>2. UNCHANGED <<GridOfRun, OwedByRun, RowsOfRun>>
    BY <1>1, PhaseNow DEF GridOfRun, OwedByRun, RowsOfRun
<1>3. QED
    BY <1>2 DEF ScanStep

\* What is in hand is what the file has no row of.
LEMMA HandNow ==
    ASSUME Owed, OnFile
    PROVE  /\ GridOfRun = CellsOf(plan) /\ RowsOfRun = files[log].rows
           /\ OwedByRun = CellsFrom(plan, order, ord_i + 1)
           /\ OwedByRun = GridOfRun \ RowsOfRun
<1>1. InHand /\ PhaseOfRun # "void"
    BY PhaseNow DEF OnFile
<1>2. QED
    BY <1>1 DEF GridOfRun, OwedByRun, RowsOfRun, Owed, Accounts, CellsFrom

LEMMA HandNext ==
    ASSUME Owed', OnFile'
    PROVE  /\ GridOfRun' = CellsOf(plan') /\ RowsOfRun' = files'[log'].rows
           /\ OwedByRun' = CellsFrom(plan', order', ord_i' + 1)
           /\ OwedByRun' = GridOfRun' \ RowsOfRun'
<1>1. InHand' /\ PhaseOfRun' # "void"
    BY PhaseNext DEF OnFile
<1>2. QED
    BY <1>1 DEF GridOfRun, OwedByRun, RowsOfRun, Owed, Accounts, CellsFrom

-----------------------------------------------------------------------------
(* Steps by what they do to the run.                                       *)

\* Some of what is owed is written, and the scan goes on or is broken off.
LEMMA WriteStep ==
    ASSUME Owed, OnFile, Running, Owed', OnFile', plan' = plan,
           NEW S, S \subseteq OwedByRun, S # OwedByRun,
           files'[log'].rows = files[log].rows \union S
    PROVE  ScanStep
<1>1. PhaseOfRun = "running" /\ PhaseOfRun' \in {"running", "held"}
    BY PhaseNow, PhaseNext DEF OnFile
<1>2. /\ GridOfRun' = GridOfRun /\ RowsOfRun' = RowsOfRun \union S
      /\ OwedByRun = GridOfRun \ RowsOfRun /\ OwedByRun' = GridOfRun' \ RowsOfRun'
    BY HandNow, HandNext
<1>3. OwedByRun' = OwedByRun \ S /\ S = RowsOfRun' \ RowsOfRun
    BY <1>2
<1>4. Scan!Write(S)
    BY <1>1, <1>2, <1>3 DEF Scan!Write
<1>5. Scan!Record(S) \/ Scan!Halt(S)
    BY <1>1, <1>4 DEF Scan!Record, Scan!Halt
<1>6. QED
    BY <1>3, <1>5 DEF ScanStep, Scan!Next

\* As long as the order is not walked to its end, something is owed.
LEMMA Remains ==
    ASSUME IInv, IFile, Owed, OnFile, Running, NEW n \in ord_i + 1 .. Len(order)
    PROVE  /\ n \in ord_i + 1 .. Len(order) + 1
           /\ Walked(n) \subseteq OwedByRun /\ Walked(n) # OwedByRun
<1>1. ord_i \in Nat /\ Len(order) \in Nat
    BY AtPoint
<1>2. n \in ord_i + 1 .. Len(order) + 1 /\ n \in n .. Len(order) /\ ord_i + 1 \in Nat
    BY <1>1
<1>3. OnceFrom(plan, order, ord_i + 1) /\ OwedByRun = CellsFrom(plan, order, ord_i + 1)
    BY HandNow DEF Owed
<1>4. /\ Walked(n) \subseteq OwedByRun
      /\ CellsFrom(plan, order, n) = OwedByRun \ Walked(n)
    BY <1>1, <1>2, <1>3, Ahead DEF Walked
<1>5. plan[order[n]] \in CellsFrom(plan, order, n)
    BY <1>2 DEF CellsFrom
<1>6. QED
    BY <1>2, <1>4, <1>5

\* Rows are written and the run goes on.
LEMMA WalkScan ==
    ASSUME IInv, IFile, Owed, Owed', Running, Running', NEW n \in ord_i + 1 .. Len(order),
           NEW okS \in SUBSET Walked(n), NEW first, LogRows(Walked(n), okS, first),
           UNCHANGED <<plan, log, is_retest, endless, spoil>>
    PROVE  ScanStep
<1>1. CASE ~OnePass
    <2>1. ~OnePass'
        BY <1>1 DEF OnePass, Sound
    <2>2. QED
        BY <2>1, VoidStep
<1>2. CASE OnePass
    <2>1. OnFile /\ OnFile'
        BY <1>2 DEF OnFile, OnePass, Sound
    <2>2. /\ n \in ord_i + 1 .. Len(order) + 1
          /\ Walked(n) \subseteq OwedByRun /\ Walked(n) # OwedByRun
        BY <2>1, Remains
    <2>3. Fresh(files[log], Walked(n), okS) /\ log # NoPath
        BY <2>1, <2>2, WalkedFresh DEF Owed
    <2>4. files'[log'].rows = files[log].rows \union Walked(n)
        BY <2>3, RowsWritten DEF Adds
    <2>5. QED
        BY <2>1, <2>2, <2>4, WriteStep
<1>3. QED
    BY <1>1, <1>2

\* The run is aborted, rows having been written just before.
LEMMA AbortScan ==
    ASSUME IInv, IFile, Owed, Owed', Running, NEW n \in ord_i + 1 .. Len(order),
           NEW d, NEW more, AbortRun(d, more),
           OnFile /\ OnFile' => files'[log].rows = files[log].rows \union Walked(n)
    PROVE  ScanStep
<1>1. /\ st' = "Aborted" /\ UNCHANGED <<plan, log, is_retest, endless>>
      /\ spoil \subseteq spoil'
    BY DEF AbortRun, gridVars
<1>2. CASE ~OnePass'
    BY <1>2, VoidStep
<1>3. CASE OnePass'
    <2>1. OnFile /\ OnFile'
        BY <1>1, <1>3 DEF OnFile, OnePass, Sound
    <2>2. Walked(n) \subseteq OwedByRun /\ Walked(n) # OwedByRun
        BY <2>1, Remains
    <2>3. QED
        BY <1>1, <2>1, <2>2, WriteStep
<1>4. QED
    BY <1>2, <1>3

LEMMA AbortQuietlyScan ==
    ASSUME IInv, IFile, Owed, Owed', Running, NEW d, NEW more, AbortRun(d, more),
           UNCHANGED files
    PROVE  ScanStep
<1> DEFINE n == ord_i + 1
<1>1. n \in ord_i + 1 .. Len(order) /\ Walked(n) = {}
    BY OneWalked, AtPoint
<1> HIDE DEF n
<1>2. files'[log].rows = files[log].rows \union Walked(n)
    BY <1>1
<1>3. QED
    BY <1>1, <1>2, AbortScan

\* The row of a cell cannot be written after those of the cells before it.
LEMMA LogFailsScan ==
    ASSUME IInv, IFile, Owed, Owed', Running, NEW n \in ord_i + 1 .. Len(order),
           NEW okS \in SUBSET Walked(n), NEW first, NEW c,
           LogFails(Walked(n), okS, first, c)
    PROVE  ScanStep
<1> DEFINE a == AppendRows(files[log], Walked(n), okS, first)
<1>1. CASE log = NoPath
    <2>1. ~OnFile /\ AbortRun(done', {})
        BY <1>1 DEF Owed, LogFails
    <2>2. QED
        BY <2>1, AbortScan
<1>2. ASSUME NEW cut \in Cuts, log # NoPath,
             files' = [files EXCEPT ![log] = HalfRow(a, c, cut)],
             AbortRun(done', IF cut = "none" THEN {} ELSE {"torn"})
      PROVE  ScanStep
    <2> DEFINE more == IF cut = "none" THEN {} ELSE {"torn"}
    <2>1. ASSUME OnFile, OnFile'
          PROVE  files'[log].rows = files[log].rows \union Walked(n)
        <3>1. cut = "none"
            BY <1>2, <2>1 DEF AbortRun, OnFile, OnePass, Sound
        <3>2. files'[log] = a
            BY <1>2, <3>1, TypesNow DEF HalfRow
        <3>3. Fresh(files[log], Walked(n), okS)
            BY <2>1, Remains, WalkedFresh
        <3>4. Adds(files[log], Walked(n), okS, files'[log])
            BY <3>2, <3>3, Appended
        <3>5. QED
            BY <3>4 DEF Adds
    <2>2. AbortRun(done', more)
        BY <1>2
    <2> HIDE DEF more
    <2>3. QED
        BY <2>1, <2>2, AbortScan
<1>3. QED
    BY <1>1, <1>2 DEF LogFails

LEMMA FirstRowFailsScan ==
    ASSUME IInv, IFile, Owed, Owed', Running, NEW first, NEW c, LogFails({}, {}, first, c)
    PROVE  ScanStep
<1> DEFINE n == ord_i + 1
<1>1. n \in ord_i + 1 .. Len(order) /\ Walked(n) = {}
    BY OneWalked, AtPoint
<1> HIDE DEF n
<1>2. {} \in SUBSET Walked(n) /\ LogFails(Walked(n), {}, first, c)
    BY <1>1
<1>3. QED
    BY <1>1, <1>2, LogFailsScan

\* The last rows are written and the run is over.
LEMMA FinishScan ==
    ASSUME IInv, IFile, InGrids', Owed, Running, FinishRun,
           UNCHANGED <<log, spoil>>, log # NoPath,
           OnFile => Walked(ord_i + 2) = OwedByRun,
           ord_i + 2 \in ord_i + 1 .. Len(order) + 1,
           NEW okS \in SUBSET Walked(ord_i + 2), NEW first,
           LogRows(Walked(ord_i + 2), okS, first)
    PROVE  ScanStep
<1>1. st' = "Done" /\ ~is_retest' /\ ~endless' /\ log \in Paths
    BY TypesNow DEF FinishRun
<1>2. CASE ~Sound
    <2>1. ~OnePass'
        BY <1>2 DEF OnePass, Sound
    <2>2. QED
        BY <1>1, <2>1, VoidStep
<1>3. CASE Sound
    <2>1. PhaseOfRun' = "over" /\ ~InHand'
        BY <1>1, <1>3, PhaseNext DEF OnePass, Sound, OnFile
    <2>2. GridOfRun' = {} /\ OwedByRun' = {} /\ RowsOfRun' = files'[log].rows
        BY <2>1 DEF GridOfRun, OwedByRun, RowsOfRun
    <2>3. CASE OnePass
        <3>1. OnFile /\ PhaseOfRun = "running"
            BY <2>3, PhaseNow DEF OnFile
        <3>2. Fresh(files[log], Walked(ord_i + 2), okS)
            BY <3>1, WalkedFresh
        <3>3. RowsOfRun' = files[log].rows \union Walked(ord_i + 2)
            BY <2>2, <3>2, RowsWritten DEF Adds
        <3>4. RowsOfRun' = RowsOfRun \union OwedByRun
            BY <3>1, <3>3, HandNow
        <3>5. Scan!Finish
            BY <2>1, <2>2, <3>1, <3>4 DEF Scan!Finish
        <3>6. QED
            BY <3>5 DEF ScanStep, Scan!Next
    <2>4. CASE ~OnePass
        <3>1. PhaseOfRun = "void"
            BY <2>4, PhaseNow
        <3>2. RowsOfRun' \in SUBSET UNION {Cells(q) : q \in Params}
            BY <1>1, <2>2 DEF InGrids, GridCells
        <3>3. Scan!EndOther
            BY <2>1, <2>2, <3>1, <3>2 DEF Scan!EndOther
        <3>4. QED
            BY <3>3 DEF ScanStep, Scan!Next
    <2>5. QED
        BY <2>3, <2>4
<1>4. QED
    BY <1>2, <1>3

\* With the last place walked nothing is owed.
LEMMA LastWalked ==
    ASSUME IInv, Owed, OnFile, Running, Len(order) <= ord_i + 1
    PROVE  Walked(ord_i + 2) = OwedByRun
<1>1. ord_i + 1 .. Len(order) = ord_i + 1 .. (ord_i + 2) - 1
    BY AtPoint
<1>2. QED
    BY <1>1, HandNow DEF Walked, CellsUpTo, CellsFrom

-----------------------------------------------------------------------------
(* The steps of the controller.                                            *)

LEMMA ConfigureScan ==
    ASSUME IInv, PlanOfParams, Owed, Configure
    PROVE  ScanStep
<1>1. CASE SetZeroEpoch
    BY <1>1, StillStep
       DEF SetZeroEpoch, gridVars, runVars, diskVars, PhaseOfRun, OnePass, Sound
<1>2. ASSUME NEW q \in Params, SetParams(q)
      PROVE  ScanStep
    <2> DEFINE keep == plan # <<>> /\ SameGeom(q, plan_p) /\ q.mode = plan_p.mode
    <2>1. /\ UNCHANGED <<st, order, ord_i, is_retest, endless, log, files>>
          /\ keep => plan' = plan
          /\ spoil' = IF keep \/ st # "Aborted" THEN spoil ELSE spoil \union {"replanned"}
        BY <1>2 DEF SetParams, runVars, diskVars
    <2>2. CASE keep \/ st # "Aborted"
        <3>1. OnFile => plan' = plan
            BY <1>2, <2>1, <2>2, AdjustOnFile
        <3>2. PhaseOfRun' = PhaseOfRun
            BY <2>1, <2>2 DEF PhaseOfRun, OnePass, Sound
        <3>3. QED
            BY <2>1, <3>1, <3>2, StillStep
    <2>3. CASE ~(keep \/ st # "Aborted")
        <3>1. ~OnePass'
            BY <2>1, <2>3 DEF OnePass, Sound
        <3>2. QED
            BY <3>1, VoidStep
    <2>4. QED
        BY <2>2, <2>3
<1>3. QED
    BY <1>1, <1>2 DEF Configure

LEMMA LoadResumeScan ==
    ASSUME IInv', InGrids', Owed', NEW path \in Paths, LoadResume(path)
    PROVE  ScanStep
<1>1. st' = "Loaded" /\ log' = path /\ ~Running
    BY DEF LoadResume
<1>2. CASE ~OnePass'
    BY <1>2, VoidStep
<1>3. CASE OnePass'
    <2>1. PhaseOfRun # "running" /\ PhaseOfRun' = "held" /\ OnFile'
        BY <1>1, <1>3, PhaseNow, PhaseNext DEF OnFile
    <2>2. /\ GridOfRun' = CellsOf(plan') /\ RowsOfRun' = files'[path].rows
          /\ OwedByRun' = GridOfRun' \ RowsOfRun'
        BY <1>1, <2>1, HandNext
    <2>3. {GridOfRun', RowsOfRun'} \subseteq SUBSET UNION {Cells(q) : q \in Params}
        BY <2>2 DEF InGrids, GridCells
    <2>4. Scan!Reopen
        BY <2>1, <2>2, <2>3 DEF Scan!Reopen
    <2>5. QED
        BY <2>4 DEF ScanStep, Scan!Next
<1>4. QED
    BY <1>2, <1>3

LEMMA LoadRefusedScan ==
    ASSUME IInv, IFile, NEW path \in Paths, LoadRefused(path)
    PROVE  ScanStep
<1>1. /\ UNCHANGED <<plan, order, ord_i, st, is_retest, endless>>
      /\ spoil' = IF log' = NoPath THEN spoil \union {"refused"} ELSE spoil
      /\ log' = NoPath \/ log' = log
    BY DEF LoadRefused, gridVars, runVars
<1>2. CASE log' = NoPath
    <2>1. ~OnePass'
        BY <1>1, <1>2 DEF OnePass, Sound
    <2>2. QED
        BY <2>1, VoidStep
<1>3. CASE log' # NoPath
    <2>1. log' = log /\ log \in Paths
        BY <1>1, <1>3, TypesNow
    <2>2. files'[log'].rows = files[log].rows
        BY <2>1, LoadRefusedRows
    <2>3. PhaseOfRun' = PhaseOfRun
        BY <1>1, <1>3 DEF PhaseOfRun, OnePass, Sound
    <2>4. QED
        BY <1>1, <2>2, <2>3, StillStep
<1>4. QED
    BY <1>2, <1>3

LEMMA ReopenScan ==
    ASSUME IInv, IInv', IFile, InGrids', Owed', Reopen
    PROVE  ScanStep
<1>1. CASE NewFile
    BY <1>1, VoidStep DEF NewFile, ResetRunState
<1>2. QED
    BY <1>1, LoadResumeScan, LoadRefusedScan DEF Reopen

LEMMA StartScan ==
    ASSUME IInv, IInv', InGrids', Owed', NEW path \in Paths, NEW o \in Observations,
           Start(path, o)
    PROVE  ScanStep
<1>1. /\ st \in {"Idle", "Aborted", "Done"} /\ st' = "Moving" /\ log' = path
      /\ files' = [files EXCEPT ![path] = HeaderOnly(p, zero_epoch)]
    BY DEF Start, StartPrepared, ArmRun, StartPoint
<1>2. CASE ~OnePass'
    BY <1>1, <1>2, VoidStep
<1>3. CASE OnePass'
    <2>1. PhaseOfRun # "running" /\ PhaseOfRun' = "running" /\ OnFile'
        BY <1>1, <1>3, PhaseNow, PhaseNext DEF OnFile
    <2>2. /\ GridOfRun' = CellsOf(plan') /\ RowsOfRun' = files'[path].rows
          /\ OwedByRun' = GridOfRun' \ RowsOfRun'
        BY <1>1, <2>1, HandNext
    <2>3. RowsOfRun' = {} /\ OwedByRun' = GridOfRun'
        <3>1. files'[path].rows = {}
            BY <1>1, TypesNow DEF HeaderOnly
        <3>2. QED
            BY <2>2, <3>1
    <2>4. GridOfRun' \in SUBSET UNION {Cells(q) : q \in Params} /\ GridOfRun' # {}
        <3>1. plan' \in Seq(Cell) /\ plan' # <<>>
            BY <2>1 DEF Owed, IInv, TypeOK
        <3>2. 1 \in DOMAIN plan'
            BY <3>1, EmptySeq, LenProperties
        <3>3. QED
            BY <2>2, <3>2 DEF InGrids, GridCells, CellsOf
    <2>5. Scan!Begin
        BY <2>1, <2>3, <2>4 DEF Scan!Begin
    <2>6. QED
        BY <2>5 DEF ScanStep, Scan!Next
<1>4. QED
    BY <1>2, <1>3

LEMMA ContinueScan ==
    ASSUME IInv, Owed, Owed', NEW o \in Observations, BeginLoadedRun(o)
    PROVE  ScanStep
<1>1. /\ st \in {"Loaded", "Aborted"} /\ st' = "Moving" /\ order # <<>> /\ ord_i' = 0
      /\ UNCHANGED <<plan, order, is_retest, endless, log, files, spoil>>
    BY DEF BeginLoadedRun, CanContinue, CanArm, ArmRun, StartPoint, gridVars, diskVars
<1>2. CASE ~OnePass'
    BY <1>1, <1>2, VoidStep
<1>3. CASE OnePass'
    <2>1. PhaseOfRun = "held" /\ PhaseOfRun' = "running" /\ OnFile /\ OnFile'
        BY <1>1, <1>3, PhaseNow, PhaseNext DEF OnFile, OnePass, Sound
    <2>2. ord_i = 0 /\ order \in Seq(Nat \ {0})
        BY <1>1, AtRest, TypesNow
    <2>3. UNCHANGED <<GridOfRun, OwedByRun, RowsOfRun>>
        BY <1>1, <2>1, <2>2, HandNow, HandNext
    <2>4. OwedByRun # {}
        <3>1. ord_i + 1 \in ord_i + 1 .. Len(order)
            BY <1>1, <2>2, EmptySeq, LenProperties
        <3>2. QED
            BY <2>1, <3>1, HandNow DEF CellsFrom
    <2>5. Scan!Continue
        BY <2>1, <2>3, <2>4 DEF Scan!Continue
    <2>6. QED
        BY <2>5 DEF ScanStep, Scan!Next
<1>4. QED
    BY <1>2, <1>3

LEMMA BeginScan ==
    ASSUME IInv, IInv', InGrids', Owed, Owed', Begin
    PROVE  ScanStep
<1>1. ASSUME NEW path \in Paths, NEW o \in Observations, StartRefused(path, o)
      PROVE  ScanStep
    <2>1. ~OnePass'
        BY <1>1 DEF StartRefused, OnePass, Sound
    <2>2. QED
        BY <2>1, VoidStep
<1>2. ASSUME NEW o \in Observations, ReadPastPlan(o)
      PROVE  ScanStep
    BY <1>2, VoidStep DEF ReadPastPlan
<1>3. QED
    BY <1>1, <1>2, StartScan, ContinueScan DEF Begin

LEMMA RepeatScan ==
    ASSUME Repeat
    PROVE  ScanStep
<1>1. ASSUME NEW k, NEW o, Retest(k, o)
      PROVE  ~OnePass'
    BY <1>1 DEF Retest, OnePass
<1>2. ASSUME NEW k, NEW o, RetestRefused(k, o)
      PROVE  ~OnePass'
    BY <1>2 DEF RetestRefused, OnePass, Sound
<1>3. QED
    BY <1>1, <1>2, VoidStep DEF Repeat

\* A step of a run that touches neither its order nor its file.
LEMMA QuietScan ==
    ASSUME Running, Running',
           UNCHANGED <<plan, order, ord_i, is_retest, endless, spoil, log, files>>
    PROVE  ScanStep
<1>1. PhaseOfRun' = PhaseOfRun
    BY DEF PhaseOfRun, OnePass, Sound
<1>2. QED
    BY <1>1, StillStep

LEMMA InterruptScan ==
    ASSUME IInv, IFile, Owed, Owed', Interrupt
    PROVE  ScanStep
<1>1. CASE Pause
    BY <1>1, QuietScan DEF Pause, gridVars, runVars, diskVars
<1>2. CASE ResumeRun
    BY <1>2, QuietScan DEF ResumeRun, StartPoint, gridVars, runVars, diskVars
<1>3. CASE Abort
    BY <1>3, AbortQuietlyScan DEF Abort
<1>4. QED
    BY <1>1, <1>2, <1>3 DEF Interrupt

LEMMA FinishPointScan ==
    ASSUME IInv, IFile, InGrids', Owed, Owed', Running, NEW okS \in SUBSET {plan[cur]},
           FinishPoint(okS)
    PROVE  ScanStep
<1> DEFINE n == ord_i + 2
<1>1. /\ LogRows(Walked(n), okS, plan[cur]) /\ okS \in SUBSET Walked(n)
      /\ n \in ord_i + 1 .. Len(order) + 1
      /\ log' = log /\ spoil' = spoil /\ log # NoPath /\ Advance
    BY OneWalked DEF FinishPoint
<1>2. ord_i \in Nat /\ Len(order) \in Nat
    BY AtPoint
<1>3. CASE /\ ~(ord_i + 1 >= Len(order)) /\ st' = "Moving"
           /\ UNCHANGED <<plan, is_retest, endless>>
    <2>1. n \in ord_i + 1 .. Len(order)
        BY <1>2, <1>3
    <2> HIDE DEF n
    <2>2. QED
        BY <1>1, <1>3, <2>1, WalkScan
<1>4. CASE endless /\ endless' = endless
    BY <1>4, VoidStep DEF OnePass
<1>5. CASE FinishRun /\ (is_retest \/ ord_i + 1 >= Len(order))
    <2>1. OnFile => Walked(ord_i + 2) = OwedByRun
        <3>1. OnFile => Len(order) <= ord_i + 1
            BY <1>2, <1>5 DEF OnFile, OnePass
        <3>2. QED
            BY <3>1, LastWalked
    <2>2. QED
        BY <1>1, <1>5, <2>1, FinishScan
<1>6. QED
    BY <1>1, <1>3, <1>4, <1>5 DEF Advance, StartPoint

LEMMA SyncScan ==
    ASSUME IInv, IFile, Owed, Owed', st = "Traversing", NEW j \in fly.at .. End, Sync(j),
           UNCHANGED <<plan, log, st, is_retest, endless, spoil>>
    PROVE  ScanStep
<1>1. /\ BehindOk(j) \in SUBSET Walked(j) /\ Behind(j) = Walked(j)
      /\ j \in ord_i + 1 .. Len(order)
    BY BehindWalked, Traversing, OnLeg
<1>2. LogRows(Walked(j), BehindOk(j), plan[order[fly.at]])
    BY <1>1 DEF Sync
<1>3. QED
    BY <1>1, <1>2, WalkScan

LEMMA TickLegLateScan ==
    ASSUME IInv, IFile, Owed, Owed', NEW dt, NEW o, TickLegLate(dt, o)
    PROVE  ScanStep
<1>1. st = "Traversing" /\ Running /\ AbortRun(done', {})
    BY DEF TickLegLate
<1>2. PICK j \in fly.at .. End : LogRows(Behind(j), BehindOk(j), plan[order[fly.at]])
    BY DEF TickLegLate
<1>3. /\ BehindOk(j) \in SUBSET Walked(j) /\ Behind(j) = Walked(j)
      /\ j \in ord_i + 1 .. Len(order) /\ j \in ord_i + 1 .. Len(order) + 1
    BY <1>1, BehindWalked, Traversing, OnLeg
<1>4. LogRows(Walked(j), BehindOk(j), plan[order[fly.at]])
    BY <1>2, <1>3
<1>5. ASSUME OnFile
      PROVE  files'[log].rows = files[log].rows \union Walked(j)
    <2>1. Fresh(files[log], Walked(j), BehindOk(j)) /\ log # NoPath
        BY <1>1, <1>3, <1>5, WalkedFresh DEF Owed
    <2>2. QED
        BY <1>4, <2>1, RowsWritten DEF Adds
<1>6. QED
    BY <1>1, <1>3, <1>5, AbortScan

LEMMA TickLegOverScan ==
    ASSUME IInv, IFile, InGrids', Owed, Owed', NEW dt, NEW o, TickLegOver(dt, o)
    PROVE  ScanStep
<1> DEFINE c == plan[order[fly.at]]
           okS == IF fly.sample # NoCell THEN {c} ELSE {}
           n == ord_i + 2
<1>1. /\ st = "Traversing" /\ Running /\ fly.at = ord_i + 1
      /\ cur = order[ord_i + 1] /\ ord_i \in Nat /\ Len(order) \in Nat
    BY Traversing, OnLeg, AtPoint DEF TickLegOver
<1>2. CASE LogFails({}, {}, c, c)
    BY <1>1, <1>2, FirstRowFailsScan
<1>3. CASE /\ LogRows({c}, okS, c) /\ AdvanceLeg /\ log # NoPath
           /\ UNCHANGED <<plan, log, spoil>>
    <2>1. /\ n \in ord_i + 1 .. Len(order) + 1
          /\ Walked(n) = {c} /\ okS \in SUBSET Walked(n)
        BY <1>1, OneWalked
    <2> HIDE DEF okS
    <2>2. LogRows(Walked(n), okS, c)
        BY <1>3, <2>1
    <2>3. CASE fly.at < Len(order)
        <3>1. n \in ord_i + 1 .. Len(order)
            BY <1>1, <2>3
        <3>2. st' = "Moving" /\ UNCHANGED <<is_retest, endless>>
            BY <1>3, <2>3 DEF AdvanceLeg, StartPoint
        <3> HIDE DEF n
        <3>3. QED
            BY <1>1, <1>3, <2>1, <2>2, <3>1, <3>2, WalkScan
    <2>4. CASE ~(fly.at < Len(order))
        <3>1. FinishRun
            BY <1>3, <2>4 DEF AdvanceLeg
        <3>2. OnFile => Walked(ord_i + 2) = OwedByRun
            <4>1. Len(order) <= ord_i + 1
                BY <1>1, <2>4
            <4>2. QED
                BY <1>1, <4>1, LastWalked
        <3>3. QED
            BY <1>1, <1>3, <2>1, <2>2, <3>1, <3>2, FinishScan
    <2>5. QED
        BY <2>3, <2>4
<1>4. QED
    BY <1>2, <1>3 DEF TickLegOver, gridVars

LEMMA RefreshScan ==
    ASSUME IInv, IFile, InGrids', Owed, Owed', Refresh
    PROVE  ScanStep
<1>1. PICK dt \in 1 .. MaxStep, o \in Observations : Tick(dt, o)
    BY DEF Refresh
<1>2. CASE TickUnhealthy(dt, o) \/ TickNotArrived(dt, o)
    BY <1>2, AbortQuietlyScan DEF TickUnhealthy, TickNotArrived
<1>3. CASE TickPaused(dt, o) \/ TickMoving(dt, o) \/ TickDwelling(dt, o) \/ TickReading(dt, o)
    <2>1. /\ Running /\ Running'
          /\ UNCHANGED <<plan, order, ord_i, is_retest, endless, spoil, log, files>>
        BY <1>3 DEF TickPaused, TickMoving, TickDwelling, TickReading, Wait, BeginTraverse,
                    BeginDwelling, BeginReading, gridVars, runVars, diskVars
    <2>2. QED
        BY <2>1, QuietScan
<1>4. CASE TickReadTimeout(dt, o)
    <2>1. {} \in SUBSET {plan[cur]}
        OBVIOUS
    <2>2. QED
        BY <1>4, <2>1, FinishPointScan, FirstRowFailsScan DEF TickReadTimeout, FinishPointFails
<1>5. CASE TickTraversing(dt, o)
    <2>1. /\ st = "Traversing"
          /\ UNCHANGED <<plan, log, st, is_retest, endless, spoil>>
        BY <1>5 DEF TickTraversing, gridVars
    <2>2. PICK j \in fly.at .. End : Sync(j)
        BY <1>5 DEF TickTraversing
    <2>3. QED
        BY <2>1, <2>2, SyncScan
<1>6. CASE TickLegLate(dt, o) \/ TickLegOver(dt, o)
    BY <1>6, TickLegLateScan, TickLegOverScan
<1>7. QED
    BY <1>1, <1>2, <1>3, <1>4, <1>5, <1>6 DEF Tick

LEMMA SampleScan ==
    ASSUME IInv, IFile, InGrids', Owed, Owed', Sample
    PROVE  ScanStep
<1>1. CASE SampleReading
    <2>1. Running
        BY <1>1 DEF SampleReading
    <2>2. CASE UNCHANGED <<gridVars, st, runVars, diskVars, spoil>>
        <3>1. Running' /\ UNCHANGED <<plan, order, ord_i, is_retest, endless, spoil, log, files>>
            BY <2>1, <2>2 DEF gridVars, runVars, diskVars
        <3>2. QED
            BY <2>1, <3>1, QuietScan
    <2>3. CASE FinishPoint({plan[cur]})
        <3>1. {plan[cur]} \in SUBSET {plan[cur]}
            OBVIOUS
        <3>2. QED
            BY <2>1, <2>3, <3>1, FinishPointScan
    <2>4. CASE FinishPointFails
        BY <2>1, <2>4, FirstRowFailsScan DEF FinishPointFails
    <2>5. QED
        BY <1>1, <2>2, <2>3, <2>4 DEF SampleReading
<1>2. CASE SampleTraversing
    <2>1. /\ st = "Traversing"
          /\ UNCHANGED <<plan, log, st, is_retest, endless, spoil>>
        BY <1>2 DEF SampleTraversing, gridVars
    <2>2. PICK j \in fly.at .. End : Sync(j)
        BY <1>2 DEF SampleTraversing
    <2>3. QED
        BY <2>1, <2>2, SyncScan
<1>3. QED
    BY <1>1, <1>2 DEF Sample

LEMMA PassedRowFailsScan ==
    ASSUME IInv, IFile, Owed, Owed', PassedRowFails
    PROVE  ScanStep
<1>1. st = "Traversing" /\ Running
    BY DEF PassedRowFails
<1>2. PICK i \in fly.at .. End - 1 :
          LogFails(Behind(i), BehindOk(i), plan[order[fly.at]], plan[order[i]])
    BY DEF PassedRowFails
<1>3. i \in fly.at .. End
    BY <1>1, Traversing
<1>4. /\ BehindOk(i) \in SUBSET Walked(i) /\ Behind(i) = Walked(i)
      /\ i \in ord_i + 1 .. Len(order)
    BY <1>1, <1>3, BehindWalked, Traversing, OnLeg
<1>5. LogFails(Walked(i), BehindOk(i), plan[order[fly.at]], plan[order[i]])
    BY <1>2, <1>4
<1>6. QED
    BY <1>1, <1>4, <1>5, LogFailsScan

-----------------------------------------------------------------------------
(* The refinement.                                                         *)

LEMMA InitScan == Init => InGrids /\ Scan!Init
<1> SUFFICES ASSUME Init PROVE InGrids /\ Scan!Init
    OBVIOUS
<1>1. InGrids
    BY BuildPlanInGrids DEF Init, InGrids, NoFile, HeaderOnly
<1>2. PhaseOfRun = "void" /\ ~InHand
    BY PhaseNow DEF Init, OnFile
<1>3. QED
    BY <1>1, <1>2 DEF Scan!Init, GridOfRun, OwedByRun, RowsOfRun

LEMMA NextScan ==
    ASSUME IInv, IInv', PlanOfParams, IFile, InGrids', Owed, Owed', [Next]_vars
    PROVE  ScanStep
<1>1. CASE Operate
    BY <1>1, ConfigureScan, ReopenScan, BeginScan, RepeatScan, InterruptScan DEF Operate
<1>2. CASE Refresh \/ Sample
    BY <1>2, RefreshScan, SampleScan
<1>3. CASE PassedRowFails
    BY <1>3, PassedRowFailsScan
<1>4. CASE Restart
    BY <1>4, VoidStep DEF Restart
<1>5. CASE UNCHANGED vars
    BY <1>5, StillStep DEF vars, PhaseOfRun, OnePass, Sound
<1>6. QED
    BY <1>1, <1>2, <1>3, <1>4, <1>5 DEF Next

\* The scan controller keeps the promise of a scan of one pass: a cell is owed
\* until it has a row, a row stays, and a run ends with nothing owed, whatever
\* interrupts it (start, loadResume, advance, advanceLeg, stageResumeAfterAbort).
THEOREM ControllerImplementsScan == Spec => RunIsScan
<1>1. Init => InGrids /\ Scan!Init
    BY InitScan
<1>2. IInv /\ IFile /\ InGrids /\ [Next]_vars => InGrids'
    BY InGridsKept
<1>3. /\ IInv /\ IInv' /\ PlanOfParams /\ IFile /\ InGrids' /\ Owed /\ Owed' /\ [Next]_vars
      => [Scan!Next]_Scan!scanVars
    BY NextScan DEF ScanStep, Scan!scanVars
<1>4. QED
    BY <1>1, <1>2, <1>3, Inductive, OwedInductive, PTL DEF Spec, RunIsScan, Scan!Spec
==============================================================================
