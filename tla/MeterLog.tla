------------------------------- MODULE MeterLog -------------------------------
(***************************************************************************)
(* The continuous readings of src/scan/meterlog.cpp and the part of the    *)
(* window (src/scan/scanwindow.cpp) that opens the meter, changes its head *)
(* and its settings.  All of this runs on the window's thread, one slot at *)
(* a time: a signal of the session thread is delivered, the 30 Hz refresh  *)
(* runs, or the operator acts; open() and close() keep that thread waiting *)
(* while the session thread goes on.                                       *)
(*                                                                         *)
(* A sample averages one reading (nothing in the program asks for more),   *)
(* whether the interval is over is chosen at each refresh, and no scan     *)
(* runs, which would lock the head and its settings.                       *)
(***************************************************************************)
EXTENDS OphirMeter

VARIABLES
    log,        \* m_run, m_pending, m_timed_out, m_hold of MeterLog
    cfgBusy,    \* a change of settings is under way, for all the window knows
    locked,     \* the boxes of the settings are grey
    shown,      \* the settings they show, NoWish while they are empty
    gui,        \* where the window's thread is
    then,       \* and where it goes once close() is through
    awaited     \* the session thread close() waits for

window == <<log, cfgBusy, locked, shown, gui, then, awaited>>
vars == <<meter, window>>

Init ==
    /\ MeterInit
    /\ log = [run |-> FALSE, pending |-> FALSE, timed_out |-> FALSE, hold |-> FALSE]
    /\ cfgBusy = FALSE /\ locked = TRUE /\ shown = NoWish
    /\ gui = "open" /\ then = "open" /\ awaited = NoSession

-----------------------------------------------------------------------------
(* MeterLog.                                                               *)

Stopped(l) == [l EXCEPT !.run = FALSE, !.pending = FALSE, !.timed_out = FALSE]
Started(l, is_open) == IF is_open /\ ~l.run THEN [Stopped(l) EXCEPT !.run = TRUE] ELSE l

\* tick(): the watchdog of the request under way, which is neither dropped nor
\* repeated, or the next request.
TimesOut(l) == l.pending /\ ~l.timed_out /\ age = 2
tick(l, is_open) ==
    \/ /\ TimesOut(l)
       /\ log' = [l EXCEPT !.timed_out = TRUE]
       /\ UNCHANGED <<want, age>>
    \/ /\ l.run /\ ~l.pending /\ ~l.hold /\ is_open
       /\ log' = [l EXCEPT !.pending = TRUE]
       /\ want' = TRUE /\ age' = 0
    \/ ~TimesOut(l) /\ log' = l /\ UNCHANGED <<want, age>>

\* The refresh: whatever stopped the readings, an open meter starts them again.
RefreshFrom(l, is_open) ==
    /\ tick([Started(l, is_open) EXCEPT !.hold = cfgBusy], is_open)
    /\ locked' = (cfgBusy \/ ~is_open)

Refresh ==
    /\ gui = "free"
    /\ RefreshFrom(log, m_open)
    /\ UNCHANGED <<m_open, thread, leaked, quit, wish, want_serial, outcome, info, ses,
                   post, dev, cfgBusy, shown, gui, then, awaited>>

\* The oldest signal.  An answer is one to the request under way, if there is
\* one; the signals of old and new sessions have the same sender.
Answered == [log EXCEPT !.pending = FALSE, !.timed_out = FALSE]
Deliver ==
    /\ gui = "free" /\ post # <<>>
    /\ post' = Tail(post)
    /\ LET signal == Head(post) IN
       /\ log' = IF signal.kind \in {"ready", "failed"} /\ log.pending THEN Answered ELSE log
       /\ cfgBusy' = (cfgBusy /\ signal.kind \notin {"info", "config failed"})
       /\ shown' = CASE signal.kind = "info" -> info.set
                     [] signal.kind = "filter" -> [shown EXCEPT !.filter = info.set.filter]
                     [] OTHER -> shown
       /\ leaked' = IF signal.kind = "finished" THEN NoSession ELSE leaked
    /\ UNCHANGED <<m_open, thread, quit, want, age, wish, want_serial, outcome, info, ses, dev, locked, gui, then, awaited>>

-----------------------------------------------------------------------------
(* The window and the meter.                                               *)

\* openMeter(): of a meter that is open already nothing is opened, and the
\* readings are stopped for the refresh to start them again.
Opened ==
    /\ m_open' = TRUE
    /\ RefreshFrom(Stopped(log), TRUE)
    /\ gui' = "free"

OpenMeter ==
    /\ \/ /\ m_open /\ Opened
          /\ UNCHANGED <<thread, leaked, quit, wish, want_serial, outcome, info, ses, post, dev>>
       \/ /\ ~m_open /\ CanOpen
          /\ \E s \in Sessions : NewSession(s)
          /\ gui' = "opening" /\ UNCHANGED <<log, locked>>
       \/ /\ ~m_open /\ ~CanOpen
          /\ gui' = "refused" /\ UNCHANGED <<meter, log, locked>>
    /\ UNCHANGED <<cfgBusy, shown, then, awaited>>

\* waitForOpen() returns: the head is open, or the session is closed again.
OpenReturns ==
    /\ gui = "opening"
    /\ \/ /\ outcome = "open" /\ Opened
          /\ UNCHANGED <<thread, quit, then, awaited>>
       \/ /\ outcome = "failed" \/ (outcome = "waiting" /\ Hangs)
          /\ BeginClose
          /\ awaited' = thread /\ gui' = "joining" /\ then' = "refused"
          /\ UNCHANGED <<log, locked, age>>
    /\ UNCHANGED <<leaked, wish, want_serial, outcome, info, ses, post, dev,
                   cfgBusy, shown>>

\* close() from its wait on.  A thread that outlasts the wait is remembered
\* until it reports its end, which it is asked to do only now.
Join ==
    /\ gui = "joining"
    /\ \/ ~Alive(awaited) /\ gui' = then /\ awaited' = NoSession
       \/ Alive(awaited) /\ Hangs /\ gui' = "leaking" /\ UNCHANGED awaited
    /\ UNCHANGED <<meter, log, cfgBusy, locked, shown, then>>

Leak ==
    /\ gui = "leaking"
    /\ leaked' = awaited /\ awaited' = NoSession /\ gui' = then
    /\ UNCHANGED <<m_open, thread, quit, want, age, wish, want_serial, outcome, info, ses, post, dev, log, cfgBusy, locked, shown, then>>

Refused ==
    /\ gui = "refused"
    /\ RefreshFrom(log, FALSE)
    /\ gui' = "free"
    /\ UNCHANGED <<m_open, thread, leaked, quit, wish, want_serial, outcome, info, ses,
                   post, dev, cfgBusy, shown, then, awaited>>

Reopen == gui = "open" /\ OpenMeter

GuiStep == Refresh \/ Deliver \/ OpenReturns \/ Join \/ Leak \/ Refused \/ Reopen

-----------------------------------------------------------------------------
(* The operator.                                                           *)

onMtrRetryOpen ==
    /\ gui = "free" /\ (~m_open \/ log.timed_out)
    /\ OpenMeter

\* Another head: the request under way is dropped, the old head is closed and
\* the new one opened.
onMtrDeviceChanged ==
    /\ gui = "free"
    /\ \E h \in Heads :
          /\ ~(m_open /\ h = info.head)
          /\ want_serial' = h
    /\ log' = Stopped(log)
    /\ BeginClose
    /\ IF thread = NoSession
       THEN gui' = "open" /\ UNCHANGED <<then, awaited>>
       ELSE gui' = "joining" /\ then' = "open" /\ awaited' = thread
    /\ UNCHANGED <<leaked, age, wish, outcome, info, ses, post, dev,
                   cfgBusy, locked, shown>>

\* One setting is changed; all that are shown are asked for.
onMeterCfgChanged ==
    /\ gui = "free" /\ m_open /\ ~locked /\ shown # NoWish
    /\ \E f \in {"wl", "filter"} : \E v \in Values \ {shown[f]} :
          shown' = [shown EXCEPT ![f] = v]
    /\ wish' = shown'
    /\ cfgBusy' = TRUE
    /\ log' = [log EXCEPT !.hold = TRUE]
    /\ UNCHANGED <<m_open, thread, leaked, quit, want, age, want_serial, outcome, info, ses,
                   post, dev, locked, gui, then, awaited>>

Operator == onMtrRetryOpen \/ onMtrDeviceChanged \/ onMeterCfgChanged

\* A request under way grows old.
TimePasses ==
    /\ want \/ log.pending
    /\ age < 2
    /\ age' = age + 1
    /\ UNCHANGED <<m_open, thread, leaked, quit, want, wish, want_serial, outcome,
                   info, ses, post, dev, window>>

Surroundings == MeterStep /\ UNCHANGED window
FilterTurned == ByHand /\ UNCHANGED window

Next == GuiStep \/ Operator \/ FilterTurned \/ Surroundings \/ TimePasses
Spec == Init /\ [][Next]_vars

\* The driver's calls return, the window's thread goes on, and so does time.
Fairness ==
    /\ \A s \in Sessions : WF_vars(SessionStep(s) /\ UNCHANGED window)
    /\ WF_vars(Deliver) /\ WF_vars(Refresh) /\ WF_vars(TimePasses)
    /\ WF_vars(OpenReturns \/ Join \/ Leak \/ Refused \/ Reopen)

-----------------------------------------------------------------------------
(* Properties.                                                             *)

TypeOK ==
    /\ m_open \in BOOLEAN /\ quit \in BOOLEAN /\ want \in BOOLEAN /\ age \in 0 .. 2
    /\ thread \in Sessions \cup {NoSession} /\ leaked \in Sessions \cup {NoSession}
    /\ awaited \in Sessions \cup {NoSession}
    /\ wish \in Wishes /\ want_serial \in Heads
    /\ outcome \in {"waiting", "open", "failed"}
    /\ info.head \in Heads \cup {NoHead} /\ info.set \in Setting \cup {NoWish}
    /\ dev \in [Heads -> Setting] /\ shown \in Setting \cup {NoWish}
    /\ log \in [run : BOOLEAN, pending : BOOLEAN, timed_out : BOOLEAN, hold : BOOLEAN]
    /\ gui \in {"free", "opening", "joining", "leaking", "open", "refused"}
    /\ then \in {"open", "refused"}
    /\ cfgBusy \in BOOLEAN /\ locked \in BOOLEAN
    /\ m_open => thread # NoSession /\ ~quit

Queued(kinds) == \E i \in DOMAIN post : post[i].kind \in kinds

\* The readings never wait for an answer that nobody will give: a request under
\* way is still to be read by the thread, or its answer is on the way.
PendingIsHeard ==
    log.pending => want \/ Queued({"ready", "failed"})
                        \/ \E s \in Sessions : At(s, "emit")

\* Two threads never talk to the heads at a time.
OneSession == Cardinality({s \in Sessions : Alive(s)}) <= 1

\* The mark that tells new items from old is one of the present stream.
MarkIsFresh(s) == ses[s].mark <= ses[s].ts

ChangeFails(s)    == At(s, "config") /\ ses'[s].at # "config" /\ ses'[s].failed
ChangeSucceeds(s) == At(s, "config") /\ ses'[s].at # "config" /\ ~ses'[s].failed

\* A new stream never meets the mark of an old one, which would hide its items, but
\* by a change of settings that failed; and the next change that succeeds puts that
\* right (watermark of runSession, over streams, heads and sessions).
MarkOfItsStream ==
    [][\A s \in Sessions :
          (MarkIsFresh(s) \/ ChangeSucceeds(s)) /\ ~ChangeFails(s) => MarkIsFresh(s)']_vars

\* A sample is taken.
Recorded ==
    /\ post # <<>> /\ post' = Tail(post)
    /\ Head(post).kind = "ready" /\ log.pending

\* Nothing of a change of settings is under way, nor news of it.
Settled ==
    /\ wish = NoWish /\ ~\E s \in Sessions : At(s, "config")
    /\ ~Queued({"info", "config failed"})

\* Once a change has settled, a sample of the head the window shows was measured
\* with the wavelength the window shows, unless a change failed.
ReadingAsShown ==
    [][Recorded /\ Settled /\ Head(post).sure /\ Head(post).head = info.head
         => Head(post).set.wl = shown.wl]_vars

\* The request under way is answered some time, be it by a failure.
AnswerComes == log.pending ~> ~log.pending

\* A change of settings is over some time, or the meter is closed.
ConfigEnds == cfgBusy /\ m_open ~> ~cfgBusy \/ ~m_open

-----------------------------------------------------------------------------
(* What the code says and does not keep.                                   *)

\* "A new stream means new time stamps: the mark is void"
\* (src/scan/ophirmeter.cpp:885); the branch of a change that failed starts a new
\* stream as well and keeps the mark.
NewStreamNewMark == \A s \in Sessions : ses[s].streams => MarkIsFresh(s)

\* Every sample is of the head that is open ("structurally impossible",
\* src/scan/meterlog.h:11).
SampleOfItsHead == [][Recorded => Head(post).head = info.head]_vars

\* Wishes are for the head they were made for: none is taken over by a new
\* session (src/scan/ophirmeter.cpp:427).
NoWishTakenOver == \A s \in Sessions : At(s, "starting") => wish = NoWish

\* A session thread that was given up ends the state "not over yet" with its
\* own end (src/scan/ophirmeter.cpp:519).
LeakEnds == leaked # NoSession ~> leaked = NoSession

\* No reading is asked for while a change of settings is under way
\* (src/scan/scanwindow.cpp:4225).
NoRequestWhileChanging ==
    [][~want /\ want' => wish = NoWish /\ ~\E s \in Sessions : At(s, "config")]_vars

\* While no change fails, a sample was measured with the filter the window
\* shows.
FilterAsShown ==
    [][Recorded /\ Settled /\ Head(post).sure /\ Head(post).head = info.head
         => Head(post).set.filter = shown.filter]_vars
=============================================================================
