---------------------------- MODULE MeterLogProofs ----------------------------
(***************************************************************************)
(* What holds of the meter for any number of heads and settings, however   *)
(* its session threads hang, fail and overlap with what the operator does: *)
(* one thread talks to the heads, a request under way is answered by       *)
(* somebody, and a sample was measured as the window shows it.             *)
(***************************************************************************)
EXTENDS MeterLog, FiniteSetTheorems, SequenceTheorems, TLAPS

(***************************************************************************)
(* Types.  A session thread talks to its head from where it has opened it  *)
(* until it leaves.                                                        *)
(***************************************************************************)
Talking == {"opened", "loop", "config", "ask", "emit"}
Places == Talking \cup {"gone", "starting", "refused", "leaving"}

SettingShown == Setting \cup {NoWish}
Replies == [kind : {"none", "ready", "failed", "no data"}, head : Heads \cup {NoHead},
            set : SettingShown, sure : BOOLEAN]
Signals == [kind : {"ready", "failed", "info", "filter", "config failed", "finished"},
            head : Heads \cup {NoHead}, set : SettingShown, sure : BOOLEAN]
Locals == [at : Places, head : Heads \cup {NoHead}, wish : Wishes, mark : Nat, ts : Nat,
           item : {"none", "reading", "unusable", "notice", "filter"}, streams : BOOLEAN,
           failed : BOOLEAN, reload : BOOLEAN, reply : Replies]

Types ==
    /\ TypeOK
    /\ info \in [head : Heads \cup {NoHead}, set : SettingShown]
    /\ ses \in [Sessions -> Locals] /\ post \in Seq(Signals)
    /\ \A s \in Sessions : ses[s].at \in Talking => ses[s].head \in Heads
    /\ \A s \in Sessions : At(s, "emit") => ses[s].reply.kind # "none"

\* A thread that lives is the one that is held, waited for or given up, and
\* there is one of these at a time.  One that was given up has ended when it says
\* so, and it says so once.
Threads ==
    /\ \A s \in Sessions : Alive(s) => s \in {thread, leaked, awaited}
    /\ thread # NoSession => leaked = NoSession /\ awaited = NoSession
    /\ awaited # NoSession => leaked = NoSession
    /\ gui = "free" => awaited = NoSession /\ (~m_open => thread = NoSession)
    /\ gui = "opening" => thread # NoSession /\ ~m_open /\ ~quit
    /\ gui \in {"open", "refused"} => thread = NoSession /\ awaited = NoSession
    /\ gui \in {"joining", "leaking"} => thread = NoSession /\ awaited # NoSession
    /\ \A i \in DOMAIN post : post[i].kind = "finished" =>
          /\ leaked # NoSession /\ ~Alive(leaked)
          /\ \A j \in DOMAIN post : post[j].kind = "finished" => j = i

\* Only an open meter has a request under way.
Pending == PendingIsHeard /\ (log.pending => m_open)

\* What the window shows are settings of a head as soon as there is news of one.
Shown ==
    /\ \A s \in Sessions : ses[s].at \in Talking => info.set \in Setting
    /\ \A s \in Sessions : ses[s].at \in Talking \ {"opened"} => shown # NoWish \/ Queued({"info"})
    /\ \A i \in DOMAIN post : post[i].kind = "filter" =>
          /\ info.set \in Setting
          /\ shown # NoWish \/ \E j \in 1 .. i - 1 : post[j].kind = "info"

(***************************************************************************)
(* Samples.  ReadingAsShown speaks of the sample that is taken now; the    *)
(* invariant speaks of all that are on their way.  One with no news of     *)
(* settings behind it was measured with what its head has (AsSet), and the *)
(* window shows the same, or will once the news before the sample is in,   *)
(* unless a wish is under way or another head is about to be announced.    *)
(***************************************************************************)
News == {"info", "config failed"}
Underway == wish # NoWish \/ \E s \in Sessions : At(s, "config")
WillShow(wl) == IF Queued({"info"}) THEN info.set.wl = wl ELSE shown.wl = wl

Sample(i) ==
    /\ i \in DOMAIN post /\ post[i].kind = "ready" /\ post[i].sure
    /\ \A j \in DOMAIN post : j > i => post[j].kind \notin News

HeadsInfo ==
    \A s \in Sessions : ses[s].at \in Talking =>
        /\ ses[s].head = info.head
        /\ ~ses[s].failed => info.set.wl = dev[info.head].wl
ShownByLoop ==
    \A s \in Sessions : ses[s].at \in {"loop", "ask", "emit"} /\ ~ses[s].failed =>
        Underway \/ WillShow(info.set.wl)
ReplyAsSet ==
    \A s \in Sessions : At(s, "emit") /\ ses[s].reply.sure =>
        /\ ~ses[s].failed /\ ses[s].reply.head = ses[s].head
        /\ ses[s].reply.set.wl = dev[ses[s].head].wl
AsSet == \A i \in DOMAIN post : Sample(i) => /\ post[i].head \in Heads
                                             /\ post[i].set.wl = dev[post[i].head].wl
AsShown ==
    \A i \in DOMAIN post : Sample(i) =>
        \/ Underway
        \/ post[i].head # info.head /\ \E s \in Sessions : At(s, "opened")
        \/ WillShow(post[i].set.wl)
Samples ==
    /\ wish # NoWish => wish.filter # Keep
    /\ HeadsInfo /\ ShownByLoop /\ ReplyAsSet /\ AsSet /\ AsShown

IInv == Types /\ Threads /\ Pending /\ Shown /\ Samples
-----------------------------------------------------------------------------
(* Queues of signals and changes of one session thread.                    *)

LEMMA Posted ==
    ASSUME NEW T, NEW q \in Seq(T), NEW x \in T
    PROVE  /\ Append(q, x) \in Seq(T) /\ Len(q) \in Nat
           /\ DOMAIN q = 1 .. Len(q) /\ DOMAIN Append(q, x) = 1 .. Len(q) + 1
           /\ Append(q, x)[Len(q) + 1] = x
           /\ \A i \in 1 .. Len(q) : Append(q, x)[i] = q[i]
    BY AppendProperties, LenProperties

LEMMA Taken ==
    ASSUME NEW T, NEW q \in Seq(T), q # <<>>
    PROVE  /\ Tail(q) \in Seq(T) /\ Len(q) \in Nat /\ Len(q) >= 1
           /\ DOMAIN q = 1 .. Len(q) /\ DOMAIN Tail(q) = 1 .. Len(q) - 1
           /\ Head(q) = q[1] /\ q[1] \in T
           /\ \A i \in 1 .. Len(q) - 1 : Tail(q)[i] = q[i + 1]
<1>1. Len(q) \in Nat /\ DOMAIN q = 1 .. Len(q) /\ q \in [1 .. Len(q) -> T]
    BY LenProperties
<1>2. Len(q) # 0
    BY EmptySeq
<1>3. Tail(q) \in Seq(T) /\ Len(Tail(q)) = Len(q) - 1 /\ Head(q) = q[1]
      /\ \A i \in 1 .. Len(Tail(q)) : Tail(q)[i] = q[i + 1]
    BY HeadTailProperties, <1>2
<1>4. DOMAIN Tail(q) = 1 .. Len(q) - 1
    BY <1>3, LenProperties
<1>5. QED
    BY <1>1, <1>2, <1>3, <1>4

\* One thread changes, the others stay.
LEMMA Changed ==
    ASSUME ses \in [Sessions -> Locals], NEW s \in Sessions, NEW new \in Locals, Becomes(s, new)
    PROVE  /\ ses' \in [Sessions -> Locals] /\ ses'[s] = new
           /\ \A t \in Sessions : t # s => ses'[t] = ses[t]
    BY DEF Becomes

-----------------------------------------------------------------------------
(* Types are kept.                                                         *)

LEMMA SettingsTyped ==
    /\ Setting \subseteq Wishes /\ NoWish \in Wishes /\ NoWish \notin Setting
    /\ \A x \in Setting : x.wl \in Values /\ x.filter \in Values
    /\ \A x \in Setting, f \in {"wl", "filter"}, v \in Values : [x EXCEPT ![f] = v] \in Setting
    /\ \A x \in Setting, v \in Values : [x EXCEPT !.filter = v] \in Setting
    /\ \A w \in Wishes : [w EXCEPT !.wl = Keep] \in Wishes
    BY MeterAssumption DEF Setting, Wishes, NoWish, Keep

LEMMA AppliedTyped ==
    ASSUME NEW x \in Setting, NEW w \in Wishes, NEW W \in SUBSET {"wl", "filter"}
    PROVE  /\ Applied(x, w) \in Setting
           /\ [f \in {"wl", "filter"} |-> IF f \in W THEN Applied(x, w)[f] ELSE x[f]] \in Setting
    BY MeterAssumption DEF Applied, Setting, Wishes, Keep

LEMMA SignalsTyped ==
    /\ \A k \in {"info", "filter", "config failed", "finished"} : Signal(k) \in Signals /\ Signal(k).kind = k
    /\ NoReply \in Replies
    BY DEF Signal, Signals, NoReply, Replies, SettingShown

LEMMA GoneTyped == Gone \in Locals /\ [Gone EXCEPT !.at = "starting"] \in Locals
    BY SettingsTyped, SignalsTyped DEF Gone, Locals, Places, Talking

\* The parts of the state a step of the window's thread may leave alone.
LEMMA TypesOfSessions ==
    ASSUME Types, UNCHANGED <<info, ses, post, dev, wish, want_serial>>,
           TypeOK'
    PROVE  Types'
    BY DEF Types, At

LEMMA TypesRefresh ==
    ASSUME Types, NEW l \in [run : BOOLEAN, pending : BOOLEAN, timed_out : BOOLEAN, hold : BOOLEAN],
           NEW is_open \in BOOLEAN, RefreshFrom(l, is_open)
    PROVE  /\ log' \in [run : BOOLEAN, pending : BOOLEAN, timed_out : BOOLEAN, hold : BOOLEAN]
           /\ want' \in BOOLEAN /\ age' \in 0 .. 2 /\ locked' \in BOOLEAN
<1> DEFINE L == [run : BOOLEAN, pending : BOOLEAN, timed_out : BOOLEAN, hold : BOOLEAN]
           l1 == [Started(l, is_open) EXCEPT !.hold = cfgBusy]
<1>1. l1 \in L
    BY DEF Started, Stopped, Types, TypeOK
<1>2. want \in BOOLEAN /\ age \in 0 .. 2 /\ cfgBusy \in BOOLEAN
    BY DEF Types, TypeOK
<1> HIDE DEF l1
<1>3. tick(l1, is_open) /\ locked' \in BOOLEAN
    BY <1>2 DEF RefreshFrom, l1
<1>4. log' \in L /\ want' \in BOOLEAN /\ age' \in 0 .. 2
    <2>1. CASE log' = [l1 EXCEPT !.timed_out = TRUE] /\ UNCHANGED <<want, age>>
        BY <1>1, <1>2, <2>1
    <2>2. CASE log' = [l1 EXCEPT !.pending = TRUE] /\ want' = TRUE /\ age' = 0
        <3>1. want' \in BOOLEAN
            BY <2>2
        <3>2. log' \in L
            BY <1>1, <2>2
        <3>3. age' \in 0 .. 2
            BY <2>2
        <3> QED
            BY <3>1, <3>2, <3>3
    <2>3. CASE log' = l1 /\ UNCHANGED <<want, age>>
        BY <1>1, <1>2, <2>3
    <2> QED
        BY <1>3, <2>1, <2>2, <2>3 DEF tick
<1> QED
    BY <1>3, <1>4

LEMMA TypesOpened ==
    ASSUME Types, Opened, thread # NoSession, ~quit,
           UNCHANGED <<thread, leaked, quit, wish, want_serial, outcome, info, ses, post, dev,
                       cfgBusy, shown, then, awaited>>
    PROVE  Types'
<1>1. Stopped(log) \in [run : BOOLEAN, pending : BOOLEAN, timed_out : BOOLEAN, hold : BOOLEAN]
    BY DEF Types, TypeOK, Stopped
<1>2. /\ log' \in [run : BOOLEAN, pending : BOOLEAN, timed_out : BOOLEAN, hold : BOOLEAN]
      /\ want' \in BOOLEAN /\ age' \in 0 .. 2 /\ locked' \in BOOLEAN
    BY <1>1, TypesRefresh DEF Opened
<1>3. TypeOK'
    BY <1>2 DEF Types, TypeOK, Opened
<1> QED
    BY <1>3, TypesOfSessions

LEMMA TypesNewSession ==
    ASSUME Types, NEW s \in Sessions, NewSession(s), ~m_open, gui' = "opening",
           UNCHANGED <<log, locked, cfgBusy, shown, then, awaited>>
    PROVE  Types'
<1>1. ses' \in [Sessions -> Locals] /\ ses'[s] = [Gone EXCEPT !.at = "starting"]
      /\ \A t \in Sessions : t # s => ses'[t] = ses[t]
    BY GoneTyped, Changed DEF NewSession, Types, Becomes
<1>2. ses'[s].at = "starting"
    BY <1>1 DEF Gone
<1>3. wish' \in Wishes
    BY SettingsTyped DEF NewSession, Types, TypeOK
<1>4. /\ outcome' = "waiting" /\ quit' = FALSE /\ want' = FALSE /\ age' = 0 /\ thread' = s
      /\ UNCHANGED <<m_open, leaked, want_serial, info, post, dev>>
    BY DEF NewSession
<1>5. quit' \in BOOLEAN /\ want' \in BOOLEAN
    BY <1>4
<1>6. TypeOK'
    <2>1. /\ age' \in 0 .. 2 /\ outcome' \in {"waiting", "open", "failed"}
          /\ thread' \in Sessions \cup {NoSession}
        BY <1>4
    <2> QED
        BY <1>3, <1>4, <1>5, <2>1 DEF Types, TypeOK
<1> QED
    BY <1>1, <1>2, <1>4, <1>6 DEF NewSession, Types, At, Talking

LEMMA TypesOpenMeter ==
    ASSUME Types, Threads, OpenMeter
    PROVE  Types'
<1>1. CASE m_open /\ Opened
           /\ UNCHANGED <<thread, leaked, quit, wish, want_serial, outcome, info, ses, post, dev>>
    BY <1>1, TypesOpened DEF OpenMeter, Types, TypeOK
<1>2. CASE ~m_open /\ (\E s \in Sessions : NewSession(s)) /\ gui' = "opening" /\ UNCHANGED <<log, locked>>
    BY <1>2, TypesNewSession DEF OpenMeter
<1>3. CASE gui' = "refused" /\ UNCHANGED <<meter, log, locked>>
    <2>1. TypeOK'
        BY <1>3 DEF OpenMeter, Types, TypeOK, meter, shared
    <2> QED
        BY <1>3, <2>1, TypesOfSessions DEF meter, shared
<1> QED
    BY <1>1, <1>2, <1>3 DEF OpenMeter

LEMMA TypesDeliver ==
    ASSUME Types, Shown, Deliver
    PROVE  Types'
<1> DEFINE signal == Head(post)
<1>1. /\ post' = Tail(post) /\ post' \in Seq(Signals)
      /\ signal \in Signals /\ signal = post[1] /\ 1 \in DOMAIN post
    <2>1. post \in Seq(Signals) /\ post # <<>> /\ post' = Tail(post)
        BY DEF Deliver, Types
    <2> QED
        BY <2>1, Taken
<1>2. log' \in [run : BOOLEAN, pending : BOOLEAN, timed_out : BOOLEAN, hold : BOOLEAN]
    BY DEF Deliver, Types, TypeOK, Answered
<1>3. shown' \in SettingShown
    <2>1. CASE signal.kind = "info"
        BY <2>1 DEF Deliver, Types
    <2>2. CASE signal.kind = "filter"
        <3>1. info.set \in Setting /\ shown # NoWish
            <4>1. ~ \E j \in 1 .. 1 - 1 : post[j].kind = "info"
                OBVIOUS
            <4> QED
                BY <1>1, <2>2, <4>1 DEF Shown
        <3>2. shown \in Setting
            BY <3>1 DEF Types, TypeOK
        <3>3. shown' = [shown EXCEPT !.filter = info.set.filter]
            BY <2>2 DEF Deliver
        <3> QED
            BY <3>1, <3>2, <3>3, SettingsTyped DEF SettingShown
    <2>3. CASE signal.kind \notin {"info", "filter"}
        BY <2>3 DEF Deliver, Types, TypeOK, SettingShown
    <2> QED
        BY <2>1, <2>2, <2>3
<1>4. leaked' \in Sessions \cup {NoSession} /\ cfgBusy' \in BOOLEAN
    BY DEF Deliver, Types, TypeOK
<1>5. TypeOK'
    BY <1>2, <1>3, <1>4 DEF Deliver, Types, TypeOK, SettingShown
<1> QED
    BY <1>1, <1>5 DEF Deliver, Types, At

LEMMA TypesWindow ==
    ASSUME Types, Threads, Refresh \/ OpenReturns \/ Join \/ Leak \/ Refused
    PROVE  Types'
<1>1. CASE Refresh \/ Refused
    <2>1. \E is_open \in BOOLEAN : RefreshFrom(log, is_open)
        BY <1>1 DEF Refresh, Refused, Types, TypeOK
    <2>2. /\ log' \in [run : BOOLEAN, pending : BOOLEAN, timed_out : BOOLEAN, hold : BOOLEAN]
          /\ want' \in BOOLEAN /\ age' \in 0 .. 2 /\ locked' \in BOOLEAN
        BY <2>1, TypesRefresh DEF Types, TypeOK
    <2>3. /\ UNCHANGED <<m_open, thread, leaked, quit, wish, want_serial, outcome, info, ses,
                         post, dev, cfgBusy, shown, then, awaited>>
          /\ gui' \in {"free"}
        <3>1. CASE Refresh
            BY <3>1 DEF Refresh
        <3>2. CASE Refused
            BY <3>2 DEF Refused
        <3> QED
            BY <1>1, <3>1, <3>2
    <2>4. TypeOK'
        BY <2>2, <2>3 DEF Types, TypeOK
    <2> QED
        BY <2>3, <2>4, TypesOfSessions
<1>2. CASE OpenReturns /\ outcome = "open"
    <2>1. thread # NoSession /\ ~quit /\ ~m_open
        BY <1>2 DEF OpenReturns, Threads
    <2>2. Opened /\ UNCHANGED <<thread, quit, then, awaited>>
        BY <1>2 DEF OpenReturns
    <2> QED
        BY <1>2, <2>1, <2>2, TypesOpened DEF OpenReturns
<1>3. CASE OpenReturns /\ outcome # "open"
    <2>1. TypeOK'
        BY <1>3 DEF OpenReturns, BeginClose, Types, TypeOK
    <2> QED
        BY <1>3, <2>1, TypesOfSessions DEF OpenReturns
<1>4. CASE Join \/ Leak
    <2>1. TypeOK'
        BY <1>4 DEF Join, Leak, Types, TypeOK, meter, shared
    <2> QED
        BY <1>4, <2>1, TypesOfSessions DEF Join, Leak, meter, shared
<1> QED
    BY <1>1, <1>2, <1>3, <1>4

LEMMA TypesOperator ==
    ASSUME Types, Threads, Operator \/ Reopen \/ TimePasses
    PROVE  Types'
<1>1. CASE Reopen \/ onMtrRetryOpen
    BY <1>1, TypesOpenMeter DEF Reopen, onMtrRetryOpen
<1>2. CASE onMtrDeviceChanged
    <2>1. want_serial' \in Heads
        BY <1>2 DEF onMtrDeviceChanged
    <2>2. log' \in [run : BOOLEAN, pending : BOOLEAN, timed_out : BOOLEAN, hold : BOOLEAN]
        BY <1>2 DEF onMtrDeviceChanged, Stopped, Types, TypeOK
    <2>3. m_open' = FALSE /\ want' \in BOOLEAN /\ quit' \in BOOLEAN /\ thread' = NoSession
        BY <1>2 DEF onMtrDeviceChanged, BeginClose
    <2>4. /\ gui' \in {"joining", "open"} /\ then' \in {"open", "refused"}
          /\ awaited' \in Sessions \cup {NoSession}
        BY <1>2 DEF onMtrDeviceChanged, Types, TypeOK
    <2>5. TypeOK'
        BY <1>2, <2>1, <2>2, <2>3, <2>4 DEF onMtrDeviceChanged, Types, TypeOK
    <2> QED
        BY <1>2, <2>5 DEF onMtrDeviceChanged, Types, At
<1>3. CASE onMeterCfgChanged
    <2>1. shown' \in Setting /\ wish' = shown'
        <3>1. shown \in Setting /\ wish' = shown'
            BY <1>3 DEF onMeterCfgChanged, Types, TypeOK
        <3>2. PICK f \in {"wl", "filter"}, v \in Values : shown' = [shown EXCEPT ![f] = v]
            BY <1>3 DEF onMeterCfgChanged
        <3> QED
            BY <3>1, <3>2, SettingsTyped
    <2>2. log' \in [run : BOOLEAN, pending : BOOLEAN, timed_out : BOOLEAN, hold : BOOLEAN]
        BY <1>3 DEF onMeterCfgChanged, Types, TypeOK
    <2>3. TypeOK'
        BY <1>3, <2>1, <2>2, SettingsTyped DEF onMeterCfgChanged, Types, TypeOK
    <2> QED
        BY <1>3, <2>3 DEF onMeterCfgChanged, Types, At
<1>4. CASE TimePasses
    <2>1. age' \in 0 .. 2
        BY <1>4 DEF TimePasses, Types, TypeOK
    <2>2. TypeOK'
        BY <1>4, <2>1 DEF TimePasses, Types, TypeOK, window
    <2> QED
        BY <1>4, <2>2, TypesOfSessions DEF TimePasses
<1> QED
    BY <1>1, <1>2, <1>3, <1>4 DEF Operator

\* A step of one session thread, or of its head.
LEMMA TypesOfOneSession ==
    ASSUME Types, UNCHANGED window,
           UNCHANGED <<m_open, thread, leaked, quit, age, want_serial>>,
           NEW s \in Sessions, NEW new \in Locals, Becomes(s, new),
           new.at \in Talking => new.head \in Heads,
           new.at = "emit" => new.reply.kind # "none",
           want' \in BOOLEAN, wish' \in Wishes, outcome' \in {"waiting", "open", "failed"},
           info' \in [head : Heads \cup {NoHead}, set : SettingShown],
           post' \in Seq(Signals), dev' \in [Heads -> Setting]
    PROVE  Types'
<1>1. ses' \in [Sessions -> Locals] /\ ses'[s] = new /\ \A t \in Sessions : t # s => ses'[t] = ses[t]
    BY Changed DEF Types
<1>2. TypeOK'
    BY DEF Types, TypeOK, window, SettingShown
<1> QED
    BY <1>1, <1>2 DEF Types, At

\* What the places of a thread say of its own state.
LEMMA OwnTypes ==
    ASSUME Types, NEW s \in Sessions
    PROVE  /\ ses[s] \in Locals /\ want \in BOOLEAN /\ wish \in Wishes
           /\ outcome \in {"waiting", "open", "failed"}
           /\ info \in [head : Heads \cup {NoHead}, set : SettingShown]
           /\ post \in Seq(Signals) /\ dev \in [Heads -> Setting] /\ want_serial \in Heads
           /\ ses[s].at \in Talking => ses[s].head \in Heads /\ dev[ses[s].head] \in Setting
    BY DEF Types, TypeOK

LEMMA ReadingTyped ==
    ASSUME Types, NEW s \in Sessions, ses[s].at \in Talking,
           NEW kind \in {"none", "ready", "failed", "no data"}
    PROVE  Reading(s, kind) \in Replies
<1>1. ses[s].head \in Heads /\ dev[ses[s].head] \in Setting /\ ses[s] \in Locals
    BY OwnTypes
<1>2. (~ses[s].failed) \in BOOLEAN
    OBVIOUS
<1> QED
    BY <1>1, <1>2 DEF Reading, Replies, SettingShown

LEMMA TypesOpenHead ==
    ASSUME Types, NEW s \in Sessions, OpenHead(s), UNCHANGED window
    PROVE  Types'
<1>1. CASE /\ outcome' = "open"
           /\ info' = [head |-> want_serial, set |-> dev[want_serial]]
           /\ Becomes(s, [ses[s] EXCEPT !.at = "opened", !.head = want_serial, !.streams = TRUE])
    <2> DEFINE new == [ses[s] EXCEPT !.at = "opened", !.head = want_serial, !.streams = TRUE]
    <2>1. new \in Locals /\ new.head \in Heads /\ new.at # "emit"
        BY OwnTypes DEF Locals, Places, Talking
    <2>2. info' \in [head : Heads \cup {NoHead}, set : SettingShown]
        BY <1>1, OwnTypes DEF SettingShown
    <2>3. Becomes(s, new) /\ UNCHANGED <<m_open, thread, leaked, quit, want, age, wish, want_serial, post, dev>>
        BY <1>1 DEF OpenHead
    <2> HIDE DEF new
    <2> QED
        BY <1>1, <2>1, <2>2, <2>3, TypesOfOneSession, OwnTypes
<1>2. CASE outcome' = "failed" /\ Becomes(s, [ses[s] EXCEPT !.at = "refused"]) /\ UNCHANGED info
    <2> DEFINE new == [ses[s] EXCEPT !.at = "refused"]
    <2>1. new \in Locals /\ new.at \notin Talking
        BY OwnTypes DEF Locals, Places, Talking
    <2>2. Becomes(s, new) /\ UNCHANGED <<m_open, thread, leaked, quit, want, age, wish, want_serial, post, dev>>
        BY <1>2 DEF OpenHead
    <2> HIDE DEF new
    <2> QED
        BY <1>2, <2>1, <2>2, TypesOfOneSession, OwnTypes DEF Talking
<1> QED
    BY <1>1, <1>2 DEF OpenHead

LEMMA TypesAnnounce ==
    ASSUME Types, NEW s \in Sessions, Announce(s) \/ Emit(s) \/ Leave(s), UNCHANGED window
    PROVE  Types'
<1>1. CASE Announce(s)
    <2> DEFINE new == [ses[s] EXCEPT !.at = IF At(s, "opened") THEN "loop" ELSE "leaving"]
    <2>1. new \in Locals /\ (new.at \in Talking => new.head \in Heads) /\ new.at # "emit"
        BY OwnTypes DEF Locals, Places, Talking, At
    <2>2. Becomes(s, new) /\ post' = Append(post, Signal("info"))
          /\ UNCHANGED <<shared, info, dev>>
        BY <1>1 DEF Announce
    <2>3. post' \in Seq(Signals)
        BY <2>2, SignalsTyped, OwnTypes, Posted
    <2> HIDE DEF new
    <2> QED
        BY <2>1, <2>2, <2>3, TypesOfOneSession, OwnTypes DEF shared
<1>2. CASE Emit(s)
    <2> DEFINE new == [ses[s] EXCEPT !.at = "loop", !.reply = NoReply]
               said == IF ses[s].reply.kind = "no data"
                       THEN [ses[s].reply EXCEPT !.kind = "failed"] ELSE ses[s].reply
    <2>1. new \in Locals /\ new.head \in Heads /\ new.at # "emit"
        BY <1>2, OwnTypes, SignalsTyped DEF Locals, Places, Talking, At, Emit
    <2>2. said \in Signals
        <3>1. ses[s].reply \in Replies /\ ses[s].reply.kind # "none"
            BY <1>2, OwnTypes DEF Types, Locals, Emit
        <3> QED
            BY <3>1 DEF Replies, Signals
    <2>3. Becomes(s, new) /\ post' = Append(post, said) /\ UNCHANGED <<shared, info, dev>>
        BY <1>2 DEF Emit
    <2> HIDE DEF new, said
    <2>4. post' \in Seq(Signals)
        BY <2>2, <2>3, OwnTypes, Posted
    <2> QED
        BY <2>1, <2>3, <2>4, TypesOfOneSession, OwnTypes DEF shared
<1>3. CASE Leave(s)
    <2>1. Becomes(s, Gone) /\ UNCHANGED <<shared, info, dev>>
        BY <1>3 DEF Leave
    <2>2. Gone.at = "gone"
        BY DEF Gone
    <2>3. post' \in Seq(Signals)
        BY <1>3, SignalsTyped, OwnTypes, Posted DEF Leave
    <2> QED
        BY <2>1, <2>2, <2>3, GoneTyped, TypesOfOneSession, OwnTypes DEF shared, Talking
<1> QED
    BY <1>1, <1>2, <1>3

LEMMA TypesTakeWishes ==
    ASSUME Types, Shown, NEW s \in Sessions, TakeWishes(s), UNCHANGED window
    PROVE  Types'
<1>1. wish' \in Wishes /\ At(s, "loop")
      /\ UNCHANGED <<m_open, thread, leaked, quit, want, age, want_serial, outcome, dev>>
    BY OwnTypes, SettingsTyped DEF TakeWishes
<1>2. ses[s] \in Locals /\ ses[s].head \in Heads /\ dev[ses[s].head] \in Setting
    BY <1>1, OwnTypes DEF At, Talking
<1>3. CASE Becomes(s, [ses[s] EXCEPT !.at = "leaving"]) /\ UNCHANGED <<info, post>>
    <2> DEFINE new == [ses[s] EXCEPT !.at = "leaving"]
    <2>1. new \in Locals /\ new.at \notin Talking
        BY <1>2 DEF Locals, Places, Talking
    <2>2. Becomes(s, new)
        BY <1>3
    <2> HIDE DEF new
    <2> QED
        BY <1>1, <1>3, <2>1, <2>2, TypesOfOneSession, OwnTypes DEF Talking
<1>4. CASE Becomes(s, [ses[s] EXCEPT !.at = "config", !.wish = wish]) /\ UNCHANGED <<info, post>>
    <2> DEFINE new == [ses[s] EXCEPT !.at = "config", !.wish = wish]
    <2>1. new \in Locals /\ new.head \in Heads /\ new.at # "emit"
        BY <1>2, OwnTypes DEF Locals, Places, Talking
    <2>2. Becomes(s, new)
        BY <1>4
    <2> HIDE DEF new
    <2> QED
        BY <1>1, <1>4, <2>1, <2>2, TypesOfOneSession, OwnTypes
<1>5. CASE /\ Becomes(s, [ses[s] EXCEPT !.at = "ask", !.reload = FALSE])
           /\ \/ UNCHANGED <<info, post>>
              \/ /\ info' = [info EXCEPT !.set.filter = dev[ses[s].head].filter]
                 /\ info.set \in Setting
                 /\ post' = Append(post, Signal("filter"))
    <2> DEFINE new == [ses[s] EXCEPT !.at = "ask", !.reload = FALSE]
    <2>1. new \in Locals /\ new.head \in Heads /\ new.at # "emit"
        BY <1>2 DEF Locals, Places, Talking
    <2>2. Becomes(s, new)
        BY <1>5
    <2>3. post' \in Seq(Signals)
        <3>1. Append(post, Signal("filter")) \in Seq(Signals) /\ post \in Seq(Signals)
            BY OwnTypes, SignalsTyped, Posted
        <3>2. post' = post \/ post' = Append(post, Signal("filter"))
            BY <1>5
        <3> QED
            BY <3>1, <3>2
    <2>4. info' \in [head : Heads \cup {NoHead}, set : SettingShown]
        <3>1. dev[ses[s].head].filter \in Values
            BY <1>2, SettingsTyped
        <3>2. info.set \in Setting => [info.set EXCEPT !.filter = dev[ses[s].head].filter] \in Setting
            BY <3>1, SettingsTyped
        <3> QED
            BY <1>5, <3>2, OwnTypes DEF SettingShown
    <2> HIDE DEF new
    <2> QED
        BY <1>1, <2>1, <2>2, <2>3, <2>4, TypesOfOneSession, OwnTypes
<1>6. info.set \in Setting
    BY <1>1 DEF Shown, At, Talking
<1> QED
    BY <1>1, <1>3, <1>4, <1>5, <1>6 DEF TakeWishes

LEMMA TypesConfig ==
    ASSUME Types, NEW s \in Sessions, Config(s), UNCHANGED window
    PROVE  Types'
<1>1. /\ ses[s] \in Locals /\ ses[s].head \in Heads /\ dev[ses[s].head] \in Setting
      /\ ses[s].wish \in Wishes /\ At(s, "config") /\ UNCHANGED shared
    BY OwnTypes DEF At, Talking, Config, Locals
<1>2. \A failed, streams \in BOOLEAN :
          LET new == [Restarted(s) EXCEPT !.failed = failed, !.streams = streams] IN
          new \in Locals /\ new.head \in Heads /\ new.at # "emit"
    BY <1>1, SettingsTyped DEF Restarted, Locals, Places, Talking
<1>3. CASE ConfigOk(s)
    <2> DEFINE new == [Restarted(s) EXCEPT !.mark = 0, !.failed = FALSE, !.reload = FALSE]
               set == Applied(dev[ses[s].head], ses[s].wish)
    <2>1. new \in Locals /\ new.head \in Heads /\ new.at # "emit"
        BY <1>1, SettingsTyped DEF Restarted, Locals, Places, Talking
    <2>2. set \in Setting
        BY <1>1, AppliedTyped
    <2>3. /\ Becomes(s, new) /\ info' = [info EXCEPT !.set = set]
          /\ dev' = [dev EXCEPT ![ses[s].head] = set] /\ post' = Append(post, Signal("info"))
        BY <1>3 DEF ConfigOk
    <2> HIDE DEF new, set
    <2>4. post' \in Seq(Signals)
        BY <2>3, SignalsTyped, OwnTypes, Posted
    <2>5. dev' \in [Heads -> Setting] /\ info' \in [head : Heads \cup {NoHead}, set : SettingShown]
        BY <2>2, <2>3, OwnTypes DEF SettingShown
    <2> QED
        BY <1>1, <2>1, <2>3, <2>4, <2>5, TypesOfOneSession, OwnTypes DEF shared
<1>4. CASE ConfigFails(s)
    <2>1. PICK written \in SUBSET {"wl", "filter"}, restarted \in BOOLEAN :
              /\ dev' = [dev EXCEPT ![ses[s].head] =
                            [f \in {"wl", "filter"} |->
                                IF f \in written THEN Applied(dev[ses[s].head], ses[s].wish)[f]
                                ELSE dev[ses[s].head][f]]]
              /\ Becomes(s, [Restarted(s) EXCEPT !.failed = TRUE, !.streams = restarted])
        BY <1>4, ZenonT(30) DEF ConfigFails
    <2> DEFINE new == [Restarted(s) EXCEPT !.failed = TRUE, !.streams = restarted]
    <2>2. new \in Locals /\ new.head \in Heads /\ new.at # "emit"
        BY <1>2
    <2>3. dev' \in [Heads -> Setting]
        BY <1>1, <2>1, AppliedTyped, OwnTypes
    <2>4. post' \in Seq(Signals)
        BY <1>4, SignalsTyped, OwnTypes, Posted DEF ConfigFails
    <2>5. Becomes(s, new) /\ UNCHANGED info
        BY <1>4, <2>1 DEF ConfigFails
    <2> HIDE DEF new
    <2> QED
        BY <1>1, <2>2, <2>3, <2>4, <2>5, TypesOfOneSession, OwnTypes DEF shared
<1> QED
    BY <1>3, <1>4 DEF Config

LEMMA TypesAnswer ==
    ASSUME Types, NEW s \in Sessions, At(s, "ask"),
           NEW kind \in {"ready", "failed", "no data"}, Answer(s, Reading(s, kind)),
           UNCHANGED <<m_open, thread, leaked, quit, age, wish, want_serial, outcome, info, post, dev>>,
           UNCHANGED window
    PROVE  Types'
<1> DEFINE mark == IF Newer(s) /\ Reading(s, kind).kind # "no data" THEN ses[s].ts ELSE ses[s].mark
           new == [ses[s] EXCEPT !.at = "emit", !.reply = Reading(s, kind), !.mark = mark]
<1>1. ses[s] \in Locals /\ ses[s].head \in Heads /\ dev[ses[s].head] \in Setting
    BY OwnTypes DEF At, Talking
<1>2. Reading(s, kind) \in Replies /\ Reading(s, kind).kind = kind
    BY ReadingTyped DEF At, Talking, Reading
<1>3. mark \in Nat
    BY <1>1 DEF Locals
<1>4. Becomes(s, new)
    BY <1>1 DEF Answer
<1> HIDE DEF mark
<1>5. new \in Locals /\ new.head \in Heads /\ new.reply.kind # "none"
    BY <1>1, <1>2, <1>3 DEF Locals, Places, Talking
<1>6. want' \in BOOLEAN
    BY DEF Answer
<1> HIDE DEF new
<1> QED
    BY <1>4, <1>5, <1>6, TypesOfOneSession, OwnTypes

LEMMA TypesGetData ==
    ASSUME Types, NEW s \in Sessions, GetData(s), UNCHANGED window
    PROVE  Types'
<1>1. /\ ses[s] \in Locals /\ ses[s].head \in Heads /\ dev[ses[s].head] \in Setting /\ At(s, "ask")
      /\ UNCHANGED <<m_open, thread, leaked, quit, age, wish, want_serial, outcome, info, post, dev>>
    BY OwnTypes DEF At, Talking, GetData
<1>2. ASSUME NEW kind \in {"ready", "failed", "no data"}, Answer(s, Reading(s, kind))
      PROVE  Types'
    BY <1>1, <1>2, TypesAnswer
<1>3. CASE Becomes(s, [ses[s] EXCEPT !.at = "loop"]) /\ UNCHANGED want
    <2> DEFINE new == [ses[s] EXCEPT !.at = "loop"]
    <2>1. new \in Locals /\ new.head \in Heads /\ new.at # "emit"
        BY <1>1 DEF Locals, Places, Talking
    <2>2. Becomes(s, new)
        BY <1>3
    <2> HIDE DEF new
    <2> QED
        BY <1>1, <1>3, <2>1, <2>2, TypesOfOneSession, OwnTypes
<1>4. CASE /\ Becomes(s, [ses[s] EXCEPT !.at = "loop", !.mark = ses[s].ts,
                                        !.reload = @ \/ ses[s].item = "filter"])
           /\ UNCHANGED want
    <2> DEFINE again == ses[s].reload \/ ses[s].item = "filter"
               new == [ses[s] EXCEPT !.at = "loop", !.mark = ses[s].ts, !.reload = again]
    <2>1. again \in BOOLEAN
        BY <1>1 DEF Locals
    <2>2. Becomes(s, new)
        BY <1>1, <1>4
    <2> HIDE DEF again
    <2>3. new \in Locals /\ new.head \in Heads /\ new.at # "emit"
        BY <1>1, <2>1 DEF Locals, Places, Talking
    <2> HIDE DEF new
    <2> QED
        BY <1>1, <1>4, <2>2, <2>3, TypesOfOneSession, OwnTypes
<1> QED
    BY <1>2, <1>3, <1>4 DEF GetData, NothingAsked, DataFails, TakeItem, NothingNewer

LEMMA TypesHead ==
    ASSUME Types, NEW s \in Sessions, Delivers(s) \/ Turned(s), UNCHANGED window
    PROVE  Types'
<1>1. /\ ses[s] \in Locals /\ ses[s].head \in Heads /\ dev[ses[s].head] \in Setting
      /\ ses[s].at \in {"opened", "loop", "ask", "emit"} /\ UNCHANGED <<shared, info, post>>
      /\ At(s, "emit") => ses[s].reply.kind # "none"
    BY OwnTypes DEF At, Talking, Delivers, Turned, Types
<1>2. PICK kind \in {"reading", "unusable", "notice", "filter"} :
          Becomes(s, [ses[s] EXCEPT !.ts = @ + 1, !.item = kind])
    BY DEF Delivers, Turned
<1> DEFINE new == [ses[s] EXCEPT !.ts = @ + 1, !.item = kind]
<1>3. new \in Locals /\ new.head \in Heads /\ (new.at = "emit" => new.reply.kind # "none")
    <2>1. new \in Locals
        <3>1. ses[s] \in Locals /\ ses[s].ts \in Nat
            BY <1>1 DEF Locals
        <3>2. ses[s].ts + 1 \in Nat
            BY <3>1
        <3> QED
            BY <3>1, <3>2 DEF Locals
    <2>2. new.head = ses[s].head /\ new.at = ses[s].at /\ new.reply = ses[s].reply
        BY <1>1 DEF Locals
    <2> QED
        BY <1>1, <2>1, <2>2 DEF At
<1>4. dev' \in [Heads -> Setting]
    <2>1. CASE Delivers(s)
        BY <2>1, OwnTypes DEF Delivers
    <2>2. CASE Turned(s)
        <3>1. PICK v \in Values : dev' = [dev EXCEPT ![ses[s].head].filter = v]
            BY <2>2 DEF Turned
        <3>2. dev' = [dev EXCEPT ![ses[s].head] = [dev[ses[s].head] EXCEPT !.filter = v]]
            BY <3>1
        <3> QED
            BY <1>1, <3>2, SettingsTyped, OwnTypes
    <2> QED
        BY <2>1, <2>2
<1>5. Becomes(s, new)
    BY <1>2
<1> HIDE DEF new
<1> QED
    BY <1>1, <1>3, <1>4, <1>5, TypesOfOneSession, OwnTypes DEF shared

LEMMA TypesNext ==
    ASSUME IInv, Next
    PROVE  Types'
<1>1. Types /\ Threads /\ Shown
    BY DEF IInv
<1> QED
    BY <1>1, TypesDeliver, TypesWindow, TypesOperator, TypesOpenHead, TypesAnnounce, TypesTakeWishes,
       TypesConfig, TypesGetData, TypesHead
       DEF Next, GuiStep, Operator, FilterTurned, ByHand, Surroundings, MeterStep, SessionStep

-----------------------------------------------------------------------------
(* What any step of a session thread, or of its head, leaves alone.        *)

ThreadStep(s) == (SessionStep(s) \/ Delivers(s) \/ Turned(s)) /\ UNCHANGED window

LEMMA StepOfOne ==
    ASSUME Types, NEW s \in Sessions, ThreadStep(s)
    PROVE  /\ UNCHANGED <<m_open, thread, leaked, quit, age, want_serial>>
           /\ UNCHANGED window
           /\ Alive(s) /\ \A t \in Sessions : t # s => ses'[t] = ses[t]
           /\ Alive(s)' \/ Leave(s)
           /\ Leave(s) => ~Alive(s)'
           /\ post' = post \/ \E x \in Signals :
                  post' = Append(post, x) /\ (x.kind = "finished" => Leave(s) /\ leaked = s)
<1>1. ses \in [Sessions -> Locals]
    BY DEF Types
<1>9. Leave(s) => ~Alive(s)'
    BY <1>1 DEF Leave, Becomes, Alive, Gone
<1>2. CASE OpenHead(s) \/ Delivers(s) \/ Turned(s)
    <2>1. UNCHANGED <<m_open, thread, leaked, quit, age, want_serial, post>> /\ Alive(s)
        BY <1>2 DEF OpenHead, Delivers, Turned, At, Alive, shared
    <2>2. Alive(s)' /\ \A t \in Sessions : t # s => ses'[t] = ses[t]
        <3>1. CASE OpenHead(s)
            BY <1>1, <3>1 DEF OpenHead, Becomes, Alive, Locals
        <3>2. CASE Delivers(s) \/ Turned(s)
            <4>1. PICK kind : Becomes(s, [ses[s] EXCEPT !.ts = @ + 1, !.item = kind])
                BY <3>2 DEF Delivers, Turned
            <4> QED
                BY <1>1, <2>1, <4>1 DEF Becomes, Alive, Locals
        <3> QED
            BY <1>2, <3>1, <3>2
    <2> QED
        BY <1>9, <2>1, <2>2 DEF ThreadStep
<1>3. CASE Announce(s)
    <2>1. Signal("info") \in Signals /\ Signal("info").kind = "info"
        BY SignalsTyped
    <2>2. post' = Append(post, Signal("info"))
        BY <1>3 DEF Announce
    <2>3. UNCHANGED <<m_open, thread, leaked, quit, age, want_serial>> /\ Alive(s) /\ Alive(s)'
          /\ \A t \in Sessions : t # s => ses'[t] = ses[t]
        BY <1>1, <1>3 DEF Announce, Becomes, At, Alive, shared, Locals
    <2> QED
        BY <1>9, <2>1, <2>2, <2>3 DEF ThreadStep
<1>4. CASE TakeWishes(s)
    <2>1. Signal("filter") \in Signals /\ Signal("filter").kind = "filter"
        BY SignalsTyped
    <2>2. post' = post \/ post' = Append(post, Signal("filter"))
        BY <1>4 DEF TakeWishes
    <2>3. /\ UNCHANGED <<m_open, thread, leaked, quit, age, want_serial>> /\ Alive(s)
          /\ \E new \in {[ses[s] EXCEPT !.at = "leaving"], [ses[s] EXCEPT !.at = "config", !.wish = wish],
                         [ses[s] EXCEPT !.at = "ask", !.reload = FALSE]} : Becomes(s, new)
        BY <1>1, <1>4 DEF TakeWishes, At, Alive
    <2>4. Alive(s)' /\ \A t \in Sessions : t # s => ses'[t] = ses[t]
        BY <1>1, <2>3 DEF Becomes, Alive, Locals
    <2> QED
        BY <1>9, <2>1, <2>2, <2>3, <2>4 DEF ThreadStep
<1>5. CASE Config(s)
    <2>1. /\ Signal("info") \in Signals /\ Signal("info").kind = "info"
          /\ Signal("config failed") \in Signals /\ Signal("config failed").kind = "config failed"
        BY SignalsTyped
    <2>2. post' = Append(post, Signal("info")) \/ post' = Append(post, Signal("config failed"))
        BY <1>5 DEF Config, ConfigOk, ConfigFails
    <2>3. UNCHANGED <<m_open, thread, leaked, quit, age, want_serial>> /\ Alive(s)
        BY <1>5 DEF Config, At, Alive, shared
    <2>4. Alive(s)' /\ \A t \in Sessions : t # s => ses'[t] = ses[t]
        <3>1. \E new : Becomes(s, new) /\ new.at = "ask"
            <4>1. CASE ConfigOk(s)
                <5>1. [Restarted(s) EXCEPT !.mark = 0, !.failed = FALSE, !.reload = FALSE].at = "ask"
                    BY <1>1 DEF Restarted, Locals
                <5> QED
                    BY <4>1, <5>1 DEF ConfigOk
            <4>2. CASE ConfigFails(s)
                <5>1. PICK restarted \in BOOLEAN :
                          Becomes(s, [Restarted(s) EXCEPT !.failed = TRUE, !.streams = restarted])
                    BY <4>2 DEF ConfigFails
                <5>2. [Restarted(s) EXCEPT !.failed = TRUE, !.streams = restarted].at = "ask"
                    BY <1>1 DEF Restarted, Locals
                <5> QED
                    BY <5>1, <5>2
            <4> QED
                BY <1>5, <4>1, <4>2 DEF Config
        <3> QED
            BY <1>1, <3>1 DEF Becomes, Alive
    <2> QED
        BY <1>9, <2>1, <2>2, <2>3, <2>4 DEF ThreadStep
<1>6. CASE GetData(s)
    <2>1. UNCHANGED <<m_open, thread, leaked, quit, age, want_serial, post>> /\ Alive(s)
        BY <1>6 DEF GetData, At, Alive
    <2>2. \E new : Becomes(s, new) /\ new.at \in {"loop", "emit"}
        <3>1. CASE \E reply : Answer(s, reply)
            <4>1. PICK reply : Answer(s, reply)
                BY <3>1
            <4> DEFINE new == [ses[s] EXCEPT !.at = "emit", !.reply = reply,
                              !.mark = IF Newer(s) /\ reply.kind # "no data" THEN ses[s].ts ELSE @]
            <4>2. Becomes(s, new)
                BY <4>1 DEF Answer
            <4>3. new.at = "emit"
                BY <1>1 DEF Locals
            <4> QED
                BY <4>2, <4>3
        <3>2. CASE Becomes(s, [ses[s] EXCEPT !.at = "loop"])
            <4>1. [ses[s] EXCEPT !.at = "loop"].at = "loop"
                BY <1>1 DEF Locals
            <4> QED
                BY <3>2, <4>1
        <3>3. CASE Becomes(s, [ses[s] EXCEPT !.at = "loop", !.mark = ses[s].ts,
                                             !.reload = @ \/ ses[s].item = "filter"])
            <4>1. [ses[s] EXCEPT !.at = "loop", !.mark = ses[s].ts,
                                 !.reload = @ \/ ses[s].item = "filter"].at = "loop"
                BY <1>1 DEF Locals
            <4> QED
                BY <3>3, <4>1
        <3> QED
            BY <1>6, <3>1, <3>2, <3>3 DEF GetData, NothingAsked, DataFails, TakeItem, NothingNewer
    <2>3. Alive(s)' /\ \A t \in Sessions : t # s => ses'[t] = ses[t]
        BY <1>1, <2>2 DEF Becomes, Alive
    <2> QED
        BY <1>9, <2>1, <2>3 DEF ThreadStep
<1>7. CASE Emit(s)
    <2>1. /\ UNCHANGED <<m_open, thread, leaked, quit, age, want_serial>> /\ Alive(s) /\ Alive(s)'
          /\ \A t \in Sessions : t # s => ses'[t] = ses[t]
        BY <1>1, <1>7 DEF Emit, Becomes, At, Alive, shared, Locals
    <2>2. PICK x : post' = Append(post, x) /\ x \in Signals /\ x.kind # "finished"
        <3>1. ses[s].reply \in Replies /\ ses[s].reply.kind # "none"
            BY <1>1, <1>7 DEF Types, Locals, Emit
        <3>2. CASE ses[s].reply.kind = "no data"
            <4>1. [ses[s].reply EXCEPT !.kind = "failed"] \in Signals
                  /\ [ses[s].reply EXCEPT !.kind = "failed"].kind = "failed"
                BY <3>1 DEF Replies, Signals
            <4> QED
                BY <1>7, <3>2, <4>1 DEF Emit
        <3>3. CASE ses[s].reply.kind # "no data"
            <4>1. ses[s].reply \in Signals /\ ses[s].reply.kind # "finished"
                BY <3>1, <3>3 DEF Replies, Signals
            <4> QED
                BY <1>7, <3>3, <4>1 DEF Emit
        <3> QED
            BY <3>2, <3>3
    <2> QED
        BY <1>9, <2>1, <2>2 DEF ThreadStep
<1>8. CASE Leave(s)
    <2>1. /\ UNCHANGED <<m_open, thread, leaked, quit, age, want_serial>> /\ Alive(s) /\ ~Alive(s)'
          /\ \A t \in Sessions : t # s => ses'[t] = ses[t]
        BY <1>1, <1>8 DEF Leave, Becomes, At, Alive, shared, Gone
    <2>2. Signal("finished") \in Signals /\ Signal("finished").kind = "finished"
        BY SignalsTyped
    <2> QED
        BY <1>8, <2>1, <2>2 DEF ThreadStep, Leave
<1> QED
    BY <1>2, <1>3, <1>4, <1>5, <1>6, <1>7, <1>8, <1>9 DEF ThreadStep, SessionStep

-----------------------------------------------------------------------------
(* One thread at a time.                                                   *)

\* The signals are numbered from the oldest; one more is the last.
LEMMA PostedHere ==
    ASSUME Types, NEW x \in Signals, post' = Append(post, x)
    PROVE  /\ Len(post) \in Nat /\ DOMAIN post = 1 .. Len(post)
           /\ DOMAIN post' = 1 .. Len(post) + 1 /\ post'[Len(post) + 1] = x
           /\ \A i \in DOMAIN post : i \in DOMAIN post' /\ post'[i] = post[i]
<1>1. post \in Seq(Signals)
    BY DEF Types
<1> QED
    BY <1>1, Posted

LEMMA ThreadsOfOne ==
    ASSUME Types, Threads, NEW s \in Sessions, ThreadStep(s)
    PROVE  Threads'
<1>1. /\ UNCHANGED <<m_open, thread, leaked, quit, age, want_serial>> /\ UNCHANGED window
      /\ Alive(s) /\ \A t \in Sessions : t # s => ses'[t] = ses[t]
      /\ Leave(s) => ~Alive(s)'
    BY StepOfOne
<1>2. \A t \in Sessions : Alive(t)' => Alive(t)
    BY <1>1 DEF Alive
<1>3. UNCHANGED <<gui, then, awaited>>
    BY <1>1 DEF window
<1>4. /\ \A t \in Sessions : Alive(t)' => t \in {thread', leaked', awaited'}
      /\ thread' # NoSession => leaked' = NoSession /\ awaited' = NoSession
      /\ awaited' # NoSession => leaked' = NoSession
      /\ gui' = "free" => awaited' = NoSession /\ (~m_open' => thread' = NoSession)
      /\ gui' = "opening" => thread' # NoSession /\ ~m_open' /\ ~quit'
      /\ gui' \in {"open", "refused"} => thread' = NoSession /\ awaited' = NoSession
      /\ gui' \in {"joining", "leaking"} => thread' = NoSession /\ awaited' # NoSession
    BY <1>1, <1>2, <1>3 DEF Threads
<1>5. leaked \in Sessions \cup {NoSession}
    BY DEF Types, TypeOK
<1>6. \A i \in DOMAIN post' : post'[i].kind = "finished" =>
          /\ leaked' # NoSession /\ ~Alive(leaked)'
          /\ \A j \in DOMAIN post' : post'[j].kind = "finished" => j = i
    <2>1. CASE post' = post
        BY <1>1, <1>2, <1>5, <2>1 DEF Threads
    <2>2. ASSUME NEW x \in Signals, post' = Append(post, x), x.kind = "finished" => Leave(s) /\ leaked = s
          PROVE  <1>6!:
        <3>1. /\ DOMAIN post = 1 .. Len(post) /\ DOMAIN post' = 1 .. Len(post) + 1
              /\ Len(post) \in Nat /\ post'[Len(post) + 1] = x
              /\ \A i \in DOMAIN post : i \in DOMAIN post' /\ post'[i] = post[i]
            BY <2>2, PostedHere
        <3>2. CASE x.kind = "finished"
            <4>1. leaked = s /\ s # NoSession /\ ~Alive(s)'
                BY <1>1, <2>2, <3>2 DEF Sessions, NoSession
            <4>2. \A i \in DOMAIN post : post[i].kind # "finished"
                BY <1>1, <4>1 DEF Threads
            <4> QED
                BY <1>1, <3>1, <4>1, <4>2
        <3>3. CASE x.kind # "finished"
            <4>1. \A i \in DOMAIN post' : post'[i].kind = "finished" => i \in DOMAIN post /\ post'[i] = post[i]
                BY <3>1, <3>3
            <4> QED
                BY <1>1, <1>2, <1>5, <4>1 DEF Threads
        <3> QED
            BY <3>2, <3>3
    <2> QED
        BY <2>1, <2>2, StepOfOne
<1> QED
    BY <1>4, <1>6 DEF Threads, Alive

LEMMA ThreadsDeliver ==
    ASSUME Types, Threads, Deliver
    PROVE  Threads'
<1>1. /\ post' = Tail(post) /\ Head(post) = post[1] /\ Len(post) \in Nat /\ Len(post) >= 1
      /\ DOMAIN post = 1 .. Len(post) /\ DOMAIN post' = 1 .. Len(post) - 1
      /\ \A i \in 1 .. Len(post) - 1 : post'[i] = post[i + 1]
    <2>1. post \in Seq(Signals) /\ post # <<>> /\ post' = Tail(post)
        BY DEF Deliver, Types
    <2> QED
        BY <2>1, Taken
<1>2. /\ UNCHANGED <<m_open, thread, quit, ses, gui, then, awaited>>
      /\ leaked' = IF post[1].kind = "finished" THEN NoSession ELSE leaked
    BY <1>1 DEF Deliver
<1>3. CASE post[1].kind = "finished"
    <2>1. leaked' = NoSession /\ ~Alive(leaked)
        BY <1>1, <1>2, <1>3 DEF Threads
    <2>2. \A i \in DOMAIN post' : post'[i].kind # "finished"
        <3>1. \A j \in DOMAIN post : post[j].kind = "finished" => j = 1
            BY <1>1, <1>3 DEF Threads
        <3> QED
            BY <1>1, <3>1
    <2>3. \A t \in Sessions : Alive(t)' => t \in {thread', leaked', awaited'}
        BY <1>2, <2>1 DEF Threads, Alive
    <2> QED
        BY <1>2, <2>1, <2>2, <2>3 DEF Threads, Alive
<1>4. CASE post[1].kind # "finished"
    <2>1. UNCHANGED leaked
        BY <1>2, <1>4
    <2>2. \A i \in DOMAIN post' : post'[i].kind = "finished" =>
              /\ leaked' # NoSession /\ ~Alive(leaked)'
              /\ \A j \in DOMAIN post' : post'[j].kind = "finished" => j = i
        <3> TAKE i \in DOMAIN post'
        <3> HAVE post'[i].kind = "finished"
        <3>1. i + 1 \in DOMAIN post /\ post[i + 1].kind = "finished" /\ i \in Nat
            BY <1>1
        <3>2. leaked # NoSession /\ ~Alive(leaked) /\ \A j \in DOMAIN post : post[j].kind = "finished" => j = i + 1
            BY <3>1 DEF Threads
        <3>3. \A j \in DOMAIN post' : post'[j].kind = "finished" => j = i
            BY <1>1, <3>1, <3>2
        <3> QED
            BY <1>2, <2>1, <3>2, <3>3 DEF Alive
    <2> QED
        BY <1>2, <2>1, <2>2 DEF Threads, Alive
<1> QED
    BY <1>3, <1>4

LEMMA ThreadsOpenMeter ==
    ASSUME Types, Threads, OpenMeter, gui \in {"free", "open"}
    PROVE  Threads'
<1>0. awaited = NoSession /\ (~m_open => thread = NoSession) /\ (m_open => thread # NoSession)
    BY DEF Threads, Types, TypeOK
<1>1. CASE m_open /\ Opened
           /\ UNCHANGED <<thread, leaked, quit, wish, want_serial, outcome, info, ses, post, dev>>
    BY <1>0, <1>1 DEF Opened, OpenMeter, Threads, Alive
<1>2. CASE ~m_open /\ CanOpen /\ (\E s \in Sessions : NewSession(s)) /\ gui' = "opening" /\ UNCHANGED <<log, locked>>
    <2>1. PICK s \in Sessions : NewSession(s)
        BY <1>2
    <2>2. /\ \A t \in Sessions : ~Alive(t)
          /\ thread = NoSession /\ leaked = NoSession /\ \A i \in DOMAIN post : post[i].kind # "finished"
        BY <1>0, <1>2 DEF Threads, CanOpen, Sessions, NoSession
    <2>3. /\ thread' = s /\ s # NoSession /\ \A t \in Sessions : Alive(t)' => t = s
          /\ quit' = FALSE /\ UNCHANGED <<m_open, leaked, post, awaited>>
        BY <2>1, <2>2 DEF NewSession, OpenMeter, Types, Alive, Sessions, NoSession
    <2> QED
        BY <1>0, <1>2, <2>2, <2>3 DEF Threads, Alive
<1>3. CASE ~m_open /\ gui' = "refused" /\ UNCHANGED <<meter, log, locked>>
    BY <1>0, <1>3 DEF OpenMeter, Threads, Alive, meter, shared
<1> QED
    BY <1>1, <1>2, <1>3 DEF OpenMeter

LEMMA ThreadsWindow ==
    ASSUME Types, Threads, GuiStep \/ Operator \/ TimePasses
    PROVE  Threads'
<1>1. CASE Refresh \/ onMeterCfgChanged \/ TimePasses
    <2>1. UNCHANGED <<m_open, thread, leaked, quit, ses, post, gui, awaited>>
        BY <1>1 DEF Refresh, onMeterCfgChanged, TimePasses, window
    <2> QED
        BY <2>1 DEF Threads, Alive
<1>2. CASE Reopen \/ onMtrRetryOpen
    BY <1>2, ThreadsOpenMeter DEF Reopen, onMtrRetryOpen
<1>3. CASE OpenReturns
    BY <1>3 DEF OpenReturns, Opened, BeginClose, Threads, Alive
<1>4. CASE Join
    BY <1>4 DEF Join, Threads, Alive, Types, TypeOK, meter, shared
<1>5. CASE Leak
    BY <1>5 DEF Leak, Threads, Alive, Types, TypeOK
<1>6. CASE Refused
    BY <1>6 DEF Refused, Threads, Alive
<1>7. CASE onMtrDeviceChanged
    BY <1>7 DEF onMtrDeviceChanged, BeginClose, Threads, Alive
<1> QED
    BY <1>1, <1>2, <1>3, <1>4, <1>5, <1>6, <1>7, ThreadsDeliver DEF GuiStep, Operator

LEMMA NextSteps ==
    ASSUME Next
    PROVE  GuiStep \/ Operator \/ TimePasses \/ \E s \in Sessions : ThreadStep(s)
    BY DEF Next, FilterTurned, ByHand, Surroundings, MeterStep, ThreadStep

LEMMA ThreadsNext ==
    ASSUME Types, Threads, Next
    PROVE  Threads'
    BY NextSteps, ThreadsOfOne, ThreadsWindow

-----------------------------------------------------------------------------
(* The mark is one of the present stream, or a change has failed.           *)

MarkStep ==
    \A s \in Sessions :
        (MarkIsFresh(s) \/ ChangeSucceeds(s)) /\ ~ChangeFails(s) => MarkIsFresh(s)'

LEMMA MarkNext ==
    ASSUME IInv, Next
    PROVE  MarkStep
<1>0. ses \in [Sessions -> Locals]
    BY DEF IInv, Types
<1>1. ASSUME NEW s \in Sessions, NEW new, Becomes(s, new), ~At(s, "config"),
             ses[s].mark <= ses[s].ts => new.mark <= new.ts
      PROVE  MarkStep
    BY <1>0, <1>1 DEF Becomes, MarkStep, MarkIsFresh, ChangeSucceeds, At
<1>6. ASSUME NEW s \in Sessions, NEW new, Becomes(s, new), NEW n \in Nat, new.mark = n,
             new.ts = n \/ new.ts = n + 1
      PROVE  MarkStep
    <2>1. new.mark <= new.ts
        BY <1>6
    <2> QED
        BY <1>0, <1>6, <2>1 DEF Becomes, MarkStep, MarkIsFresh, ChangeSucceeds, At
<1>2. CASE UNCHANGED ses
    BY <1>2 DEF MarkStep, MarkIsFresh, ChangeSucceeds, At
<1>3. CASE \E s \in Sessions : NewSession(s)
    <2>1. PICK s \in Sessions : NewSession(s)
        BY <1>3
    <2>2. Becomes(s, [Gone EXCEPT !.at = "starting"]) /\ [Gone EXCEPT !.at = "starting"].mark = 0
          /\ [Gone EXCEPT !.at = "starting"].ts = 0
        BY <2>1 DEF NewSession, Becomes, Gone
    <2> QED
        BY <1>6, <2>2
<1>4. ASSUME NEW s \in Sessions, ThreadStep(s)
      PROVE  MarkStep
    <2>1. ses[s] \in Locals /\ ses[s].mark \in Nat /\ ses[s].ts \in Nat
        BY <1>0 DEF Locals
    <2>2. CASE OpenHead(s) \/ Announce(s) \/ TakeWishes(s) \/ Emit(s)
        <3>1. PICK new : Becomes(s, new) /\ new.mark = ses[s].mark /\ new.ts = ses[s].ts
            <4>1. CASE OpenHead(s)
                <5>1. PICK new \in {[ses[s] EXCEPT !.at = "opened", !.head = want_serial, !.streams = TRUE],
                                    [ses[s] EXCEPT !.at = "refused"]} : Becomes(s, new)
                    BY <4>1 DEF OpenHead
                <5>2. new.mark = ses[s].mark /\ new.ts = ses[s].ts
                    BY <2>1 DEF Locals
                <5> QED
                    BY <5>1, <5>2
            <4>2. CASE Announce(s)
                <5>1. PICK place : Becomes(s, [ses[s] EXCEPT !.at = place])
                    BY <4>2 DEF Announce
                <5> DEFINE new == [ses[s] EXCEPT !.at = place]
                <5>2. new.mark = ses[s].mark /\ new.ts = ses[s].ts
                    BY <2>1 DEF Locals
                <5> QED
                    BY <5>1, <5>2
            <4>3. CASE TakeWishes(s)
                <5>1. PICK new \in {[ses[s] EXCEPT !.at = "leaving"], [ses[s] EXCEPT !.at = "config", !.wish = wish],
                                    [ses[s] EXCEPT !.at = "ask", !.reload = FALSE]} : Becomes(s, new)
                    BY <4>3 DEF TakeWishes
                <5>2. new.mark = ses[s].mark /\ new.ts = ses[s].ts
                    BY <2>1 DEF Locals
                <5> QED
                    BY <5>1, <5>2
            <4>4. CASE Emit(s)
                <5> DEFINE new == [ses[s] EXCEPT !.at = "loop", !.reply = NoReply]
                <5>1. Becomes(s, new)
                    BY <4>4 DEF Emit
                <5>2. new.mark = ses[s].mark /\ new.ts = ses[s].ts
                    BY <2>1 DEF Locals
                <5> QED
                    BY <5>1, <5>2
            <4> QED
                BY <2>2, <4>1, <4>2, <4>3, <4>4
        <3>2. ~At(s, "config")
            BY <2>2 DEF OpenHead, Announce, TakeWishes, Emit, At
        <3> QED
            BY <1>1, <3>1, <3>2
    <2>3. CASE Leave(s)
        <3>1. Becomes(s, Gone) /\ Gone.mark = 0 /\ Gone.ts = 0
            BY <2>3 DEF Leave, Gone
        <3> QED
            BY <1>6, <3>1
    <2>4. CASE ConfigOk(s)
        <3> DEFINE new == [Restarted(s) EXCEPT !.mark = 0, !.failed = FALSE, !.reload = FALSE]
        <3>1. Becomes(s, new)
            BY <2>4 DEF ConfigOk
        <3>2. new.mark = 0 /\ new.ts = 0
            BY <2>1 DEF Restarted, Locals
        <3> HIDE DEF new
        <3> QED
            BY <1>6, <3>1, <3>2
    <2>5. CASE At(s, "config") /\ ConfigFails(s)
        <3>1. PICK restarted \in BOOLEAN : Becomes(s, [Restarted(s) EXCEPT !.failed = TRUE, !.streams = restarted])
            BY <2>5 DEF ConfigFails
        <3> DEFINE new == [Restarted(s) EXCEPT !.failed = TRUE, !.streams = restarted]
        <3>2. new.failed /\ new.at = "ask"
            BY <2>1 DEF Restarted, Locals
        <3> HIDE DEF new
        <3>3. ses'[s] = new /\ \A t \in Sessions \ {s} : ses'[t] = ses[t]
            BY <1>0, <3>1 DEF Becomes, new
        <3>4. ChangeFails(s)
            BY <2>5, <3>2, <3>3 DEF ChangeFails
        <3> QED
            BY <3>3, <3>4 DEF MarkStep, MarkIsFresh, ChangeSucceeds, At
    <2>6. ASSUME NEW reply, Answer(s, reply), At(s, "ask")
          PROVE  MarkStep
        <3> DEFINE mark == IF Newer(s) /\ reply.kind # "no data" THEN ses[s].ts ELSE ses[s].mark
                   new == [ses[s] EXCEPT !.at = "emit", !.reply = reply, !.mark = mark]
        <3>1. Becomes(s, new)
            BY <2>1, <2>6 DEF Answer
        <3>2. ses[s].mark <= ses[s].ts => mark <= ses[s].ts
            <4>1. mark = ses[s].ts \/ mark = ses[s].mark
                OBVIOUS
            <4>2. ses[s].ts <= ses[s].ts
                BY <2>1
            <4> QED
                BY <2>1, <4>1, <4>2
        <3> HIDE DEF mark
        <3>3. new.mark = mark /\ new.ts = ses[s].ts
            BY <2>1 DEF Locals
        <3> HIDE DEF new
        <3> QED
            BY <1>1, <2>6, <3>1, <3>2, <3>3 DEF At
    <2>7. CASE GetData(s)
        <3>1. CASE Becomes(s, [ses[s] EXCEPT !.at = "loop"])
            <4> DEFINE new == [ses[s] EXCEPT !.at = "loop"]
            <4>1. new.mark = ses[s].mark /\ new.ts = ses[s].ts
                BY <2>1 DEF Locals
            <4> QED
                BY <1>1, <2>1, <2>7, <3>1, <4>1 DEF GetData, At
        <3>2. CASE Becomes(s, [ses[s] EXCEPT !.at = "loop", !.mark = ses[s].ts,
                                             !.reload = @ \/ ses[s].item = "filter"])
            <4> DEFINE new == [ses[s] EXCEPT !.at = "loop", !.mark = ses[s].ts,
                                             !.reload = @ \/ ses[s].item = "filter"]
            <4>1. new.mark = ses[s].ts /\ new.ts = ses[s].ts
                BY <2>1 DEF Locals
            <4> HIDE DEF new
            <4> QED
                BY <1>6, <2>1, <3>2, <4>1 DEF new
        <3> QED
            BY <2>6, <2>7, <3>1, <3>2 DEF GetData, NothingAsked, DataFails, TakeItem, NothingNewer
    <2>8. CASE Delivers(s) \/ Turned(s)
        <3>1. PICK kind : Becomes(s, [ses[s] EXCEPT !.ts = @ + 1, !.item = kind])
            BY <2>8 DEF Delivers, Turned
        <3> DEFINE new == [ses[s] EXCEPT !.ts = @ + 1, !.item = kind]
        <3>2. new.mark = ses[s].mark /\ new.ts = ses[s].ts + 1
            BY <2>1 DEF Locals
        <3>3. ses[s].mark <= ses[s].ts => new.mark <= new.ts
            BY <2>1, <3>2
        <3>4. Becomes(s, new)
            BY <3>1
        <3> HIDE DEF new
        <3> QED
            BY <1>1, <2>8, <3>3, <3>4 DEF Delivers, Turned, At
    <2> QED
        BY <1>4, <2>2, <2>3, <2>4, <2>5, <2>7, <2>8 DEF ThreadStep, SessionStep, Config
<1>5. CASE GuiStep \/ Operator \/ TimePasses
    <2>1. UNCHANGED ses \/ \E s \in Sessions : NewSession(s)
        <3>1. CASE OpenMeter
            BY <3>1 DEF OpenMeter, meter
        <3>2. CASE Refresh \/ Deliver \/ OpenReturns \/ Join \/ Leak \/ Refused
            BY <3>2 DEF Refresh, Deliver, OpenReturns, Join, Leak, Refused, meter
        <3>3. CASE onMtrDeviceChanged \/ onMeterCfgChanged \/ TimePasses
            BY <3>3 DEF onMtrDeviceChanged, onMeterCfgChanged, TimePasses
        <3> QED
            BY <1>5, <3>1, <3>2, <3>3 DEF GuiStep, Operator, Reopen, onMtrRetryOpen
    <2> QED
        BY <1>2, <1>3, <2>1
<1> QED
    BY <1>4, <1>5, NextSteps

-----------------------------------------------------------------------------
(* A request under way is heard.                                           *)

\* The refresh asks only an open meter, and otherwise drops or keeps the request
\* there was.
LEMMA RefreshPending ==
    ASSUME NEW l \in [run : BOOLEAN, pending : BOOLEAN, timed_out : BOOLEAN, hold : BOOLEAN],
           NEW is_open \in BOOLEAN, RefreshFrom(l, is_open), log'.pending
    PROVE  (want' /\ is_open) \/ (l.pending /\ want' = want)
<1> DEFINE L == [run : BOOLEAN, pending : BOOLEAN, timed_out : BOOLEAN, hold : BOOLEAN]
           started == Started(l, is_open)
           l1 == [started EXCEPT !.hold = cfgBusy]
<1>1. started \in L /\ (started.pending => l.pending)
    BY DEF Started, Stopped
<1> HIDE DEF started
<1>2. (l1.pending => l.pending) /\ \A b \in BOOLEAN : [l1 EXCEPT !.timed_out = b].pending = l1.pending
    BY <1>1
<1>3. tick(l1, is_open)
    BY DEF RefreshFrom, started
<1> HIDE DEF l1
<1> QED
    BY <1>2, <1>3 DEF tick

LEMMA PendingOfOne ==
    ASSUME Types, Pending, NEW s \in Sessions, ThreadStep(s)
    PROVE  Pending'
<1>1. /\ UNCHANGED m_open /\ UNCHANGED window /\ \A t \in Sessions : t # s => ses'[t] = ses[t]
      /\ post' = post \/ \E x \in Signals : post' = Append(post, x)
    BY StepOfOne
<1>2. UNCHANGED log
    BY <1>1 DEF window
<1>3. Queued({"ready", "failed"}) => Queued({"ready", "failed"})'
    <2>1. ASSUME NEW x \in Signals, post' = Append(post, x)
          PROVE  <1>3!:
        BY <2>1, PostedHere DEF Queued
    <2>2. CASE post' = post
        BY <2>2 DEF Queued
    <2> QED
        BY <1>1, <2>1, <2>2
<1>4. ses \in [Sessions -> Locals]
    BY DEF Types
<1>5. At(s, "emit") => At(s, "emit")' \/ Queued({"ready", "failed"})'
    <2>1. CASE Emit(s)
        <3>1. ses[s].reply \in Replies /\ ses[s].reply.kind # "none"
            BY <1>4, <2>1 DEF Types, Locals, Emit
        <3> DEFINE said == IF ses[s].reply.kind = "no data"
                           THEN [ses[s].reply EXCEPT !.kind = "failed"] ELSE ses[s].reply
        <3>2. said \in Signals /\ said.kind \in {"ready", "failed"}
            BY <3>1 DEF Replies, Signals
        <3>3. post' = Append(post, said)
            BY <2>1 DEF Emit
        <3> HIDE DEF said
        <3> QED
            BY <3>2, <3>3, PostedHere DEF Queued
    <2>2. CASE Delivers(s) \/ Turned(s)
        <3>1. PICK kind : Becomes(s, [ses[s] EXCEPT !.ts = @ + 1, !.item = kind])
            BY <2>2 DEF Delivers, Turned
        <3> QED
            BY <1>4, <3>1 DEF Becomes, At, Locals
    <2>3. CASE OpenHead(s) \/ Announce(s) \/ TakeWishes(s) \/ Config(s) \/ GetData(s) \/ Leave(s)
        BY <2>3 DEF OpenHead, Announce, TakeWishes, Config, GetData, Leave, At
    <2> QED
        BY <2>1, <2>2, <2>3 DEF ThreadStep, SessionStep
<1>6. want => want' \/ At(s, "emit")'
    <2>1. ASSUME NEW reply, Answer(s, reply)
          PROVE  At(s, "emit")'
        <3> DEFINE new == [ses[s] EXCEPT !.at = "emit", !.reply = reply,
                              !.mark = IF Newer(s) /\ reply.kind # "no data" THEN ses[s].ts ELSE @]
        <3>1. Becomes(s, new)
            BY <2>1 DEF Answer
        <3>2. new.at = "emit"
            BY <1>4 DEF Locals
        <3> HIDE DEF new
        <3> QED
            BY <1>4, <3>1, <3>2 DEF Becomes, At
    <2>2. CASE GetData(s)
        BY <2>1, <2>2 DEF GetData, NothingAsked, DataFails, TakeItem, NothingNewer
    <2>3. CASE ~GetData(s)
        BY <2>3 DEF ThreadStep, SessionStep, OpenHead, Announce, TakeWishes, Config, Emit, Leave,
                    Delivers, Turned, shared
    <2> QED
        BY <2>2, <2>3
<1>7. \A t \in Sessions : At(t, "emit") => At(t, "emit")' \/ Queued({"ready", "failed"})'
    BY <1>1, <1>5 DEF At
<1> QED
    BY <1>1, <1>2, <1>3, <1>6, <1>7 DEF Pending, PendingIsHeard

LEMMA PendingWindow ==
    ASSUME Types, Threads, Pending, GuiStep \/ Operator \/ TimePasses
    PROVE  Pending'
<1>0. /\ log \in [run : BOOLEAN, pending : BOOLEAN, timed_out : BOOLEAN, hold : BOOLEAN] /\ m_open \in BOOLEAN
      /\ Stopped(log) \in [run : BOOLEAN, pending : BOOLEAN, timed_out : BOOLEAN, hold : BOOLEAN]
      /\ ~Stopped(log).pending
    BY DEF Types, TypeOK, Stopped
<1>1. CASE Refresh \/ Refused
    <2>1. \E is_open \in BOOLEAN : RefreshFrom(log, is_open) /\ (is_open => m_open)
        BY <1>0, <1>1 DEF Refresh, Refused
    <2>2. UNCHANGED <<m_open, ses, post>>
        BY <1>1 DEF Refresh, Refused
    <2>3. log'.pending => (want' /\ m_open) \/ (log.pending /\ want' = want)
        BY <1>0, <2>1, RefreshPending
    <2> QED
        BY <2>2, <2>3 DEF Pending, PendingIsHeard, Queued, At
<1>2. CASE Opened
    <2>1. m_open' /\ (log'.pending => want')
        BY <1>0, <1>2, RefreshPending DEF Opened
    <2> QED
        BY <2>1 DEF Pending, PendingIsHeard
<1>3. CASE ~log'.pending
    BY <1>3 DEF Pending, PendingIsHeard
<1>4. CASE OpenReturns
    <2>1. ~m_open /\ ~log.pending
        BY <1>4 DEF OpenReturns, Threads, Pending
    <2>2. Opened \/ UNCHANGED log
        BY <1>4 DEF OpenReturns
    <2> QED
        BY <1>2, <1>3, <2>1, <2>2
<1>5. CASE OpenMeter
    <2>1. Opened \/ (~m_open /\ UNCHANGED log)
        BY <1>5 DEF OpenMeter
    <2> QED
        BY <1>2, <1>3, <2>1 DEF Pending
<1>6. CASE onMtrDeviceChanged
    BY <1>0, <1>3, <1>6 DEF onMtrDeviceChanged
<1>7. CASE Deliver
    <2>1. /\ post' = Tail(post) /\ Head(post) = post[1] /\ Len(post) \in Nat /\ Len(post) >= 1
          /\ DOMAIN post = 1 .. Len(post) /\ DOMAIN post' = 1 .. Len(post) - 1
          /\ \A i \in 1 .. Len(post) - 1 : post'[i] = post[i + 1]
        <3>1. post \in Seq(Signals) /\ post # <<>> /\ post' = Tail(post)
            BY <1>7 DEF Deliver, Types
        <3> QED
            BY <3>1, Taken
    <2>2. CASE log.pending /\ post[1].kind \notin {"ready", "failed"}
        <3>1. Queued({"ready", "failed"}) => Queued({"ready", "failed"})'
            <4> SUFFICES ASSUME NEW i \in DOMAIN post, post[i].kind \in {"ready", "failed"}
                         PROVE  Queued({"ready", "failed"})'
                BY DEF Queued
            <4>1. i # 1
                BY <2>2
            <4>2. i - 1 \in DOMAIN post' /\ post'[i - 1] = post[i]
                BY <2>1, <4>1
            <4> QED
                BY <4>2 DEF Queued
        <3>2. UNCHANGED <<m_open, want, ses, log>>
            BY <1>7, <2>1, <2>2 DEF Deliver
        <3> QED
            BY <3>1, <3>2 DEF Pending, PendingIsHeard, At
    <2>3. CASE ~(log.pending /\ post[1].kind \notin {"ready", "failed"})
        <3>1. ~log'.pending
            BY <1>0, <1>7, <2>1, <2>3 DEF Deliver, Answered
        <3> QED
            BY <1>3, <3>1
    <2> QED
        BY <2>2, <2>3
<1>8. CASE Join \/ Leak \/ onMeterCfgChanged \/ TimePasses
    <2>1. UNCHANGED <<m_open, want, ses, post>>
        BY <1>8 DEF Join, Leak, onMeterCfgChanged, TimePasses, meter, shared
    <2>2. log'.pending = log.pending
        BY <1>0, <1>8 DEF Join, Leak, onMeterCfgChanged, TimePasses, window
    <2> QED
        BY <2>1, <2>2 DEF Pending, PendingIsHeard, Queued, At
<1> QED
    BY <1>1, <1>4, <1>5, <1>6, <1>7, <1>8 DEF GuiStep, Operator, Reopen, onMtrRetryOpen

LEMMA PendingNext ==
    ASSUME Types, Threads, Pending, Next
    PROVE  Pending'
    BY NextSteps, PendingOfOne, PendingWindow

-----------------------------------------------------------------------------
(* What the window shows are settings of a head.                           *)

LEMMA DeliveredHere ==
    ASSUME Types, Deliver
    PROVE  /\ post' = Tail(post) /\ Head(post) = post[1] /\ post[1] \in Signals
           /\ Len(post) \in Nat /\ Len(post) >= 1
           /\ DOMAIN post = 1 .. Len(post) /\ DOMAIN post' = 1 .. Len(post) - 1
           /\ \A i \in DOMAIN post' : i + 1 \in DOMAIN post /\ post'[i] = post[i + 1]
           /\ \A i \in DOMAIN post : i # 1 => i - 1 \in DOMAIN post' /\ post'[i - 1] = post[i]
<1>1. post \in Seq(Signals) /\ post # <<>> /\ post' = Tail(post)
    BY DEF Deliver, Types
<1>2. /\ Tail(post) \in Seq(Signals) /\ Len(post) \in Nat /\ Len(post) >= 1
      /\ DOMAIN post = 1 .. Len(post) /\ DOMAIN Tail(post) = 1 .. Len(post) - 1
      /\ Head(post) = post[1] /\ post[1] \in Signals
      /\ \A i \in 1 .. Len(post) - 1 : Tail(post)[i] = post[i + 1]
    BY <1>1, Taken
<1>3. \A i \in DOMAIN post' : i + 1 \in DOMAIN post /\ post'[i] = post[i + 1]
    BY <1>1, <1>2
<1>4. \A i \in DOMAIN post : i # 1 => i - 1 \in DOMAIN post' /\ post'[i - 1] = post[i]
    BY <1>1, <1>2
<1> QED
    BY <1>1, <1>2, <1>3, <1>4

\* A thread comes to talk to its head by opening it, and goes on once it has
\* said so.
LEMMA PlacesOfOne ==
    ASSUME Types, NEW s \in Sessions, ThreadStep(s)
    PROVE  /\ At(s, "opened")' => At(s, "opened") \/ (At(s, "starting") /\ info'.set = dev[want_serial])
           /\ ses'[s].at \in Talking \ {"opened"} =>
                  \/ ses[s].at \in Talking \ {"opened"}
                  \/ At(s, "opened") /\ post' = Append(post, Signal("info")) /\ UNCHANGED info
<1>1. ses[s] \in Locals
    BY DEF Types
<1>2. CASE OpenHead(s)
    <2>1. CASE ses'[s] = [ses[s] EXCEPT !.at = "refused"]
        <3>1. ses'[s].at = "refused"
            BY <1>1, <2>1 DEF Locals
        <3> QED
            BY <3>1 DEF At, Talking
    <2>2. CASE /\ info' = [head |-> want_serial, set |-> dev[want_serial]]
               /\ ses'[s] = [ses[s] EXCEPT !.at = "opened", !.head = want_serial, !.streams = TRUE]
        <3>1. ses'[s].at = "opened"
            BY <1>1, <2>2 DEF Locals
        <3> QED
            BY <1>2, <2>2, <3>1 DEF At, Talking, OpenHead
    <2> QED
        BY <1>2, <2>1, <2>2 DEF OpenHead, Becomes, Types
<1>3. CASE Announce(s)
    <2>1. ses'[s].at = IF At(s, "opened") THEN "loop" ELSE "leaving"
        BY <1>1, <1>3 DEF Announce, Becomes, Types, Locals
    <2> QED
        BY <1>3, <2>1 DEF Announce, At, Talking
<1>4. CASE TakeWishes(s) \/ Config(s) \/ GetData(s) \/ Emit(s)
    <2>1. ses[s].at \in Talking \ {"opened"}
        BY <1>4 DEF TakeWishes, Config, GetData, Emit, At, Talking
    <2>2. ~At(s, "opened")'
        <3>1. PICK new : Becomes(s, new) /\ new.at # "opened"
            <4>1. CASE TakeWishes(s)
                <5>1. PICK new \in {[ses[s] EXCEPT !.at = "leaving"], [ses[s] EXCEPT !.at = "config", !.wish = wish],
                                    [ses[s] EXCEPT !.at = "ask", !.reload = FALSE]} : Becomes(s, new)
                    BY <4>1 DEF TakeWishes
                <5>2. new.at # "opened"
                    BY <1>1 DEF Locals
                <5> QED
                    BY <5>1, <5>2
            <4>2. CASE ConfigOk(s)
                <5>1. [Restarted(s) EXCEPT !.mark = 0, !.failed = FALSE, !.reload = FALSE].at = "ask"
                    BY <1>1 DEF Restarted, Locals
                <5> QED
                    BY <4>2, <5>1 DEF ConfigOk
            <4>3. CASE ConfigFails(s)
                <5>1. PICK restarted \in BOOLEAN :
                          Becomes(s, [Restarted(s) EXCEPT !.failed = TRUE, !.streams = restarted])
                    BY <4>3 DEF ConfigFails
                <5>2. [Restarted(s) EXCEPT !.failed = TRUE, !.streams = restarted].at = "ask"
                    BY <1>1 DEF Restarted, Locals
                <5> QED
                    BY <5>1, <5>2
            <4>4. CASE \E reply : Answer(s, reply)
                <5>1. PICK reply : Answer(s, reply)
                    BY <4>4
                <5> DEFINE new == [ses[s] EXCEPT !.at = "emit", !.reply = reply,
                                  !.mark = IF Newer(s) /\ reply.kind # "no data" THEN ses[s].ts ELSE @]
                <5>2. Becomes(s, new)
                    BY <5>1 DEF Answer
                <5>3. new.at = "emit"
                    BY <1>1 DEF Locals
                <5> QED
                    BY <5>2, <5>3
            <4>5. CASE Becomes(s, [ses[s] EXCEPT !.at = "loop"])
                <5>1. [ses[s] EXCEPT !.at = "loop"].at = "loop"
                    BY <1>1 DEF Locals
                <5> QED
                    BY <4>5, <5>1
            <4>6. CASE Becomes(s, [ses[s] EXCEPT !.at = "loop", !.mark = ses[s].ts,
                                                 !.reload = @ \/ ses[s].item = "filter"])
                <5>1. [ses[s] EXCEPT !.at = "loop", !.mark = ses[s].ts,
                                     !.reload = @ \/ ses[s].item = "filter"].at = "loop"
                    BY <1>1 DEF Locals
                <5> QED
                    BY <4>6, <5>1
            <4>7. CASE Emit(s)
                <5>1. [ses[s] EXCEPT !.at = "loop", !.reply = NoReply].at = "loop"
                    BY <1>1 DEF Locals
                <5> QED
                    BY <4>7, <5>1 DEF Emit
            <4> QED
                BY <1>4, <4>1, <4>2, <4>3, <4>4, <4>5, <4>6, <4>7
                   DEF Config, GetData, NothingAsked, DataFails, TakeItem, NothingNewer
        <3> QED
            BY <3>1 DEF Becomes, At, Types
    <2> QED
        BY <2>1, <2>2
<1>5. CASE Leave(s)
    <2>1. ses'[s].at = "gone"
        BY <1>5 DEF Leave, Becomes, Gone, Types
    <2> QED
        BY <2>1 DEF At, Talking
<1>6. CASE Delivers(s) \/ Turned(s)
    <2>1. PICK kind : Becomes(s, [ses[s] EXCEPT !.ts = @ + 1, !.item = kind])
        BY <1>6 DEF Delivers, Turned
    <2>2. ses'[s].at = ses[s].at
        BY <1>1, <2>1 DEF Becomes, Types, Locals
    <2> QED
        BY <2>2 DEF At
<1> QED
    BY <1>2, <1>3, <1>4, <1>5, <1>6 DEF ThreadStep, SessionStep

\* Settings that are published stay settings.
LEMMA InfoOfOne ==
    ASSUME Types, NEW s \in Sessions, ThreadStep(s), info.set \in Setting
    PROVE  info'.set \in Setting
<1>1. CASE OpenHead(s)
    BY <1>1, OwnTypes DEF OpenHead
<1>2. CASE TakeWishes(s)
    <2>1. dev[ses[s].head] \in Setting
        BY <1>2, OwnTypes DEF TakeWishes, At, Talking
    <2>2. [info.set EXCEPT !.filter = dev[ses[s].head].filter] \in Setting
        BY <2>1, SettingsTyped
    <2>3. UNCHANGED info \/ info' = [info EXCEPT !.set.filter = dev[ses[s].head].filter]
        BY <1>2 DEF TakeWishes
    <2>4. info \in [head : Heads \cup {NoHead}, set : SettingShown]
        BY DEF Types
    <2> QED
        BY <2>2, <2>3, <2>4
<1>3. CASE ConfigOk(s) /\ At(s, "config")
    <2>1. dev[ses[s].head] \in Setting /\ ses[s].wish \in Wishes
        BY <1>3, OwnTypes DEF At, Talking, Locals
    <2>2. Applied(dev[ses[s].head], ses[s].wish) \in Setting
        BY <2>1, AppliedTyped
    <2>3. info' = [info EXCEPT !.set = Applied(dev[ses[s].head], ses[s].wish)]
        BY <1>3 DEF ConfigOk
    <2> QED
        BY <2>2, <2>3 DEF Types
<1>4. CASE Announce(s) \/ ConfigFails(s) \/ GetData(s) \/ Emit(s) \/ Leave(s) \/ Delivers(s) \/ Turned(s)
    BY <1>4 DEF Announce, ConfigFails, GetData, Emit, Leave, Delivers, Turned
<1> QED
    BY <1>1, <1>2, <1>3, <1>4 DEF ThreadStep, SessionStep, Config

LEMMA ShownOfOne ==
    ASSUME Types, Shown, NEW s \in Sessions, ThreadStep(s)
    PROVE  Shown'
<1>1. /\ UNCHANGED shown /\ \A t \in Sessions : t # s => ses'[t] = ses[t]
      /\ post' = post \/ \E x \in Signals : post' = Append(post, x)
    BY StepOfOne DEF window
<1>2. Queued({"info"}) => Queued({"info"})'
    <2>1. ASSUME NEW x \in Signals, post' = Append(post, x)
          PROVE  <1>2!:
        BY <2>1, PostedHere DEF Queued
    <2>2. CASE post' = post
        BY <2>2 DEF Queued
    <2> QED
        BY <1>1, <2>1, <2>2
<1>3. \A t \in Sessions : ses'[t].at \in Talking => info'.set \in Setting
    <2> SUFFICES ASSUME NEW t \in Sessions, ses'[t].at \in Talking
                 PROVE  info'.set \in Setting
        OBVIOUS
    <2>1. CASE ses[t].at \in Talking
        BY <2>1, InfoOfOne DEF Shown
    <2>2. CASE ses[t].at \notin Talking
        <3>1. t = s
            BY <1>1, <2>2
        <3>2. info'.set = dev[want_serial]
            BY <2>2, <3>1, PlacesOfOne DEF At, Talking
        <3> QED
            BY <3>2, OwnTypes
    <2> QED
        BY <2>1, <2>2
<1>4. \A t \in Sessions : ses'[t].at \in Talking \ {"opened"} => shown' # NoWish \/ Queued({"info"})'
    <2> SUFFICES ASSUME NEW t \in Sessions, ses'[t].at \in Talking \ {"opened"}
                 PROVE  shown' # NoWish \/ Queued({"info"})'
        OBVIOUS
    <2>1. CASE ses[t].at \in Talking \ {"opened"}
        BY <1>1, <1>2, <2>1 DEF Shown
    <2>2. CASE ses[t].at \notin Talking \ {"opened"}
        <3>1. t = s
            BY <1>1, <2>2
        <3>2. post' = Append(post, Signal("info"))
            BY <2>2, <3>1, PlacesOfOne
        <3>3. PICK x \in Signals : post' = Append(post, x) /\ x.kind = "info"
            BY <3>2, SignalsTyped
        <3>4. Len(post) + 1 \in DOMAIN post' /\ post'[Len(post) + 1] = x
            BY <3>3, PostedHere
        <3> QED
            BY <3>3, <3>4 DEF Queued
    <2> QED
        BY <2>1, <2>2
<1>5. \A i \in DOMAIN post' : post'[i].kind = "filter" =>
          info'.set \in Setting /\ (shown' # NoWish \/ \E j \in 1 .. i - 1 : post'[j].kind = "info")
    <2>1. CASE post' = post
        BY <1>1, <2>1, InfoOfOne DEF Shown
    <2>2. ASSUME NEW x \in Signals, post' = Append(post, x)
          PROVE  <1>5!:
        <3>1. /\ Len(post) \in Nat /\ DOMAIN post = 1 .. Len(post)
              /\ DOMAIN post' = 1 .. Len(post) + 1 /\ post'[Len(post) + 1] = x
              /\ \A i \in DOMAIN post : i \in DOMAIN post' /\ post'[i] = post[i]
            BY <2>2, PostedHere
        <3>2. x.kind = "filter" => ses[s].at = "loop"
            <4>1. CASE TakeWishes(s)
                BY <4>1 DEF TakeWishes, At
            <4>2. CASE Announce(s)
                <5>1. x = Signal("info")
                    BY <2>2, <3>1, <4>2, SignalsTyped, PostedHere DEF Announce
                <5> QED
                    BY <5>1, SignalsTyped
            <4>3. CASE Config(s)
                <5>1. x = Signal("info") \/ x = Signal("config failed")
                    BY <2>2, <3>1, <4>3, SignalsTyped, PostedHere DEF Config, ConfigOk, ConfigFails
                <5> QED
                    BY <5>1, SignalsTyped
            <4>4. CASE Leave(s)
                <5>1. x = Signal("finished") \/ post' = post
                    BY <2>2, <3>1, <4>4, SignalsTyped, PostedHere DEF Leave
                <5>2. post' # post
                    BY <3>1
                <5> QED
                    BY <5>1, <5>2, SignalsTyped
            <4>5. CASE Emit(s)
                <5> DEFINE said == IF ses[s].reply.kind = "no data"
                                   THEN [ses[s].reply EXCEPT !.kind = "failed"] ELSE ses[s].reply
                <5>1. ses[s].reply \in Replies /\ ses[s].reply.kind # "none"
                    BY <4>5 DEF Types, Locals, Emit
                <5>2. said \in Signals /\ said.kind \in {"ready", "failed"}
                    BY <5>1 DEF Replies, Signals
                <5>3. post' = Append(post, said)
                    BY <4>5 DEF Emit
                <5> HIDE DEF said
                <5>4. x = said
                    BY <3>1, <5>2, <5>3, PostedHere
                <5> QED
                    BY <5>2, <5>4
            <4>6. CASE OpenHead(s) \/ GetData(s) \/ Delivers(s) \/ Turned(s)
                <5>1. post' = post
                    BY <4>6 DEF OpenHead, GetData, Delivers, Turned
                <5> QED
                    BY <3>1, <5>1
            <4> QED
                BY <4>1, <4>2, <4>3, <4>4, <4>5, <4>6 DEF ThreadStep, SessionStep
        <3>3. TAKE i \in DOMAIN post'
        <3>4. HAVE post'[i].kind = "filter"
        <3>5. CASE i \in DOMAIN post
            <4>1. info.set \in Setting /\ (shown # NoWish \/ \E j \in 1 .. i - 1 : post[j].kind = "info")
                BY <3>1, <3>4, <3>5 DEF Shown
            <4>2. \A j \in 1 .. i - 1 : post'[j] = post[j]
                BY <3>1, <3>5
            <4> QED
                BY <1>1, <4>1, <4>2, InfoOfOne
        <3>6. CASE i \notin DOMAIN post
            <4>1. i = Len(post) + 1 /\ ses[s].at = "loop"
                BY <3>1, <3>2, <3>4, <3>6
            <4>2. info.set \in Setting /\ (shown # NoWish \/ Queued({"info"}))
                BY <4>1 DEF Shown, Talking
            <4>3. Queued({"info"}) => \E j \in 1 .. i - 1 : post'[j].kind = "info"
                BY <3>1, <4>1 DEF Queued
            <4> QED
                BY <1>1, <4>2, <4>3, InfoOfOne
        <3> QED
            BY <3>5, <3>6
    <2> QED
        BY <1>1, <2>1, <2>2
<1> QED
    BY <1>3, <1>4, <1>5 DEF Shown

LEMMA ShownDeliver ==
    ASSUME Types, Shown, Deliver
    PROVE  Shown'
<1>1. /\ DOMAIN post = 1 .. Len(post) /\ DOMAIN post' = 1 .. Len(post) - 1 /\ Len(post) \in Nat
      /\ \A i \in DOMAIN post' : i + 1 \in DOMAIN post /\ post'[i] = post[i + 1]
      /\ \A i \in DOMAIN post : i # 1 => i - 1 \in DOMAIN post' /\ post'[i - 1] = post[i]
      /\ Head(post) = post[1] /\ 1 \in DOMAIN post
    BY DeliveredHere
<1>2. UNCHANGED <<info, ses>>
      /\ shown' = CASE post[1].kind = "info" -> info.set
                    [] post[1].kind = "filter" -> [shown EXCEPT !.filter = info.set.filter]
                    [] OTHER -> shown
    BY <1>1 DEF Deliver
<1>3. CASE post[1].kind = "info"
    <2>1. shown' = info.set
        BY <1>2, <1>3
    <2>2. info.set \in Setting => shown' # NoWish
        BY <2>1, SettingsTyped
    <2>3. \A i \in DOMAIN post' : post'[i].kind = "filter" => info.set \in Setting
        BY <1>1 DEF Shown
    <2>4. \A s \in Sessions : ses[s].at \in Talking => info.set \in Setting
        BY DEF Shown
    <2> QED
        BY <1>2, <2>2, <2>3, <2>4 DEF Shown
<1>4. CASE post[1].kind # "info"
    <2>1. shown # NoWish => shown' # NoWish
        <3>1. CASE post[1].kind = "filter"
            <4>1. info.set \in Setting
                BY <1>1, <3>1 DEF Shown
            <4>2. shown # NoWish => shown \in Setting
                BY DEF Types, TypeOK
            <4>3. shown' = [shown EXCEPT !.filter = info.set.filter]
                BY <1>2, <3>1
            <4> QED
                BY <4>1, <4>2, <4>3, SettingsTyped
        <3>2. CASE post[1].kind # "filter"
            BY <1>2, <1>4, <3>2
        <3> QED
            BY <3>1, <3>2
    <2>2. Queued({"info"}) => Queued({"info"})'
        <3> SUFFICES ASSUME NEW i \in DOMAIN post, post[i].kind = "info"
                     PROVE  Queued({"info"})'
            BY DEF Queued
        <3>1. i - 1 \in DOMAIN post' /\ post'[i - 1] = post[i]
            BY <1>1, <1>4
        <3> QED
            BY <3>1 DEF Queued
    <2>3. \A i \in DOMAIN post' : post'[i].kind = "filter" =>
              info.set \in Setting /\ (shown' # NoWish \/ \E j \in 1 .. i - 1 : post'[j].kind = "info")
        <3> TAKE i \in DOMAIN post'
        <3> HAVE post'[i].kind = "filter"
        <3>1. i + 1 \in DOMAIN post /\ post[i + 1].kind = "filter" /\ i \in Nat
            BY <1>1
        <3>2. info.set \in Setting /\ (shown # NoWish \/ \E j \in 1 .. (i + 1) - 1 : post[j].kind = "info")
            BY <3>1 DEF Shown
        <3>3. ASSUME NEW j \in 1 .. (i + 1) - 1, post[j].kind = "info"
              PROVE  \E k \in 1 .. i - 1 : post'[k].kind = "info"
            <4>1. j \in DOMAIN post /\ j # 1 /\ j - 1 \in 1 .. i - 1
                BY <1>1, <1>4, <3>1, <3>3
            <4> QED
                BY <1>1, <3>3, <4>1
        <3> QED
            BY <2>1, <3>2, <3>3
    <2> QED
        BY <1>2, <2>1, <2>2, <2>3 DEF Shown
<1> QED
    BY <1>3, <1>4

LEMMA ShownWindow ==
    ASSUME Types, Shown, GuiStep \/ Operator \/ TimePasses
    PROVE  Shown'
<1>1. CASE UNCHANGED <<info, ses, post>> /\ (shown' = shown \/ shown' # NoWish)
    BY <1>1 DEF Shown, Queued
<1>2. CASE OpenMeter
    <2>1. CASE \E s \in Sessions : NewSession(s)
        <3>1. PICK s \in Sessions : NewSession(s)
            BY <2>1
        <3>2. UNCHANGED <<info, post, shown>> /\ ses'[s].at = "starting" /\ \A t \in Sessions : t # s => ses'[t] = ses[t]
            BY <1>2, <3>1 DEF NewSession, OpenMeter, Types, Gone
        <3>3. \A t \in Sessions : ses'[t].at \in Talking => ses'[t] = ses[t]
            BY <3>2 DEF Talking
        <3> QED
            BY <3>2, <3>3 DEF Shown, Queued
    <2>2. CASE UNCHANGED <<info, ses, post, shown>>
        BY <1>1, <2>2
    <2> QED
        BY <1>2, <2>1, <2>2 DEF OpenMeter, meter
<1>3. CASE onMeterCfgChanged
    <2>1. shown' \in Setting
        <3>1. shown \in Setting
            BY <1>3 DEF onMeterCfgChanged, Types, TypeOK
        <3>2. PICK f \in {"wl", "filter"}, v \in Values : shown' = [shown EXCEPT ![f] = v]
            BY <1>3 DEF onMeterCfgChanged
        <3> QED
            BY <3>1, <3>2, SettingsTyped
    <2> QED
        BY <1>1, <1>3, <2>1, SettingsTyped DEF onMeterCfgChanged
<1>4. CASE Refresh \/ OpenReturns \/ Join \/ Leak \/ Refused \/ onMtrDeviceChanged \/ TimePasses
    BY <1>1, <1>4 DEF Refresh, OpenReturns, Join, Leak, Refused, onMtrDeviceChanged, TimePasses, meter, window
<1> QED
    BY <1>2, <1>3, <1>4, ShownDeliver DEF GuiStep, Operator, Reopen, onMtrRetryOpen

LEMMA ShownNext ==
    ASSUME Types, Shown, Next
    PROVE  Shown'
    BY NextSteps, ShownOfOne, ShownWindow

-----------------------------------------------------------------------------
(* A sample was measured as the window shows it.                           *)

LEMMA OneAlive ==
    ASSUME Threads, NEW s \in Sessions, Alive(s), NEW t \in Sessions, t # s
    PROVE  ~Alive(t) /\ ses[t].at \notin Talking /\ ~At(t, "opened") /\ ~At(t, "config") /\ ~At(t, "emit")
<1>1. ~Alive(t)
    BY DEF Threads, Sessions, NoSession
<1> QED
    BY <1>1 DEF Alive, At, Talking

\* What one more signal does to the samples on their way.
LEMMA SampleSent ==
    ASSUME Types, NEW x \in Signals, post' = Append(post, x)
    PROVE  /\ x.kind \in News => \A i \in DOMAIN post' : ~Sample(i)'
           /\ \A i \in DOMAIN post' : Sample(i)' =>
                  \/ i \in DOMAIN post /\ post'[i] = post[i] /\ Sample(i)
                  \/ post'[i] = x /\ x.kind = "ready" /\ x.sure
           /\ Queued({"info"})' <=> Queued({"info"}) \/ x.kind = "info"
<1>1. /\ DOMAIN post = 1 .. Len(post) /\ DOMAIN post' = 1 .. Len(post) + 1 /\ Len(post) \in Nat
      /\ post'[Len(post) + 1] = x /\ \A i \in DOMAIN post : i \in DOMAIN post' /\ post'[i] = post[i]
    BY PostedHere
<1>2. ASSUME x.kind \in News, NEW i \in DOMAIN post', Sample(i)'
      PROVE  FALSE
    <2>1. post'[i].kind = "ready" /\ i \in 1 .. Len(post) + 1
        BY <1>1, <1>2 DEF Sample
    <2>2. i # Len(post) + 1
        <3>1. x.kind # "ready"
            BY <1>2 DEF News
        <3> QED
            BY <1>1, <2>1, <3>1
    <2>3. Len(post) + 1 > i /\ Len(post) + 1 \in DOMAIN post'
        BY <1>1, <2>1, <2>2
    <2> QED
        BY <1>1, <1>2, <2>3 DEF Sample
<1>3. ASSUME NEW i \in DOMAIN post', Sample(i)'
      PROVE  \/ i \in DOMAIN post /\ post'[i] = post[i] /\ Sample(i)
             \/ post'[i] = x /\ x.kind = "ready" /\ x.sure
    <2>1. CASE i \in DOMAIN post
        <3>1. post'[i] = post[i] /\ post[i].kind = "ready" /\ post[i].sure
            BY <1>1, <1>3, <2>1 DEF Sample
        <3>2. \A j \in DOMAIN post : j > i => post[j].kind \notin News
            BY <1>1, <1>3 DEF Sample
        <3> QED
            BY <2>1, <3>1, <3>2 DEF Sample
    <2>2. CASE i \notin DOMAIN post
        <3>1. post'[i] = x
            BY <1>1, <2>2
        <3> QED
            BY <1>3, <3>1 DEF Sample
    <2> QED
        BY <2>1, <2>2
<1>4. Queued({"info"})' <=> Queued({"info"}) \/ x.kind = "info"
    <2>1. \A i \in DOMAIN post' : i \in DOMAIN post \/ post'[i] = x
        BY <1>1
    <2>2. \E i \in DOMAIN post' : post'[i] = x
        BY <1>1
    <2> QED
        BY <1>1, <2>1, <2>2 DEF Queued
<1> QED
    BY <1>2, <1>3, <1>4

\* A step that publishes no wavelength: the thread goes from one place to another,
\* may ask the head and may send what it was answered.
LEMMA SamplesCalm ==
    ASSUME Types, Threads, Samples, NEW s \in Sessions, ThreadStep(s),
           wish' = wish, info'.head = info.head, info'.set.wl = info.set.wl,
           \A h \in Heads : dev'[h].wl = dev[h].wl,
           ~At(s, "config"), ~At(s, "config")',
           At(s, "opened") => At(s, "opened")',
           ses'[s].at \in Talking => /\ ses[s].at \in Talking
                                     /\ ses'[s].head = ses[s].head
                                     /\ ses'[s].failed = ses[s].failed,
           ses'[s].at \in {"loop", "ask", "emit"} => ses[s].at \in {"loop", "ask", "emit"},
           At(s, "emit")' => \/ At(s, "emit") /\ ses'[s].reply = ses[s].reply
                             \/ \E kind : ses'[s].reply = Reading(s, kind),
           \/ post' = post
           \/ \E x \in Signals :
                 /\ post' = Append(post, x) /\ x.kind \notin News
                 /\ x.kind = "ready" => At(s, "emit") /\ x = ses[s].reply
    PROVE  Samples'
<1>1. /\ \A t \in Sessions : t # s => ses'[t] = ses[t]
      /\ UNCHANGED shown /\ Alive(s)
    BY StepOfOne DEF window
<1>2. \A t \in Sessions : t # s =>
          /\ ses[t].at \notin Talking /\ ~At(t, "opened") /\ ~At(t, "config") /\ ~At(t, "emit")
          /\ ses'[t].at \notin Talking /\ ~At(t, "config")'
    BY <1>1, OneAlive DEF At
<1>3. Underway <=> Underway'
    BY <1>1, <1>2 DEF Underway
<1>4. Queued({"info"})' <=> Queued({"info"})
    BY SampleSent DEF Queued, News
<1>5. \A wl : WillShow(wl) => WillShow(wl)'
    BY <1>1, <1>4 DEF WillShow
<1>6. (\E t \in Sessions : At(t, "opened")) => (\E t \in Sessions : At(t, "opened"))'
    BY <1>2
<1>7. ses[s].at \in Talking => ses[s].head \in Heads /\ ses[s].head = info.head
    BY DEF Samples, HeadsInfo, Types
<1>8. HeadsInfo'
    <2> SUFFICES ASSUME NEW t \in Sessions, ses'[t].at \in Talking
                 PROVE  /\ ses'[t].head = info'.head
                        /\ ~ses'[t].failed => info'.set.wl = dev'[info'.head].wl
        BY DEF HeadsInfo
    <2>1. t = s
        BY <1>2
    <2> QED
        BY <1>7, <2>1 DEF Samples, HeadsInfo
<1>9. ShownByLoop'
    <2> SUFFICES ASSUME NEW t \in Sessions, ses'[t].at \in {"loop", "ask", "emit"}, ~ses'[t].failed
                 PROVE  Underway' \/ WillShow(info.set.wl)'
        BY <1>5 DEF ShownByLoop, WillShow
    <2>1. t = s
        BY <1>2 DEF Talking
    <2>2. ses[s].at \in {"loop", "ask", "emit"} /\ ~ses[s].failed
        BY <2>1 DEF Talking
    <2>3. Underway \/ WillShow(info.set.wl)
        BY <2>2 DEF Samples, ShownByLoop
    <2> QED
        BY <1>1, <1>3, <1>4, <2>3 DEF WillShow
<1>10. ReplyAsSet'
    <2> SUFFICES ASSUME NEW t \in Sessions, At(t, "emit")', ses'[t].reply.sure
                 PROVE  /\ ~ses'[t].failed /\ ses'[t].reply.head = ses'[t].head
                        /\ ses'[t].reply.set.wl = dev'[ses'[t].head].wl
        BY DEF ReplyAsSet, At
    <2>1. t = s
        BY <1>2 DEF Talking, At
    <2>2. ses'[s].head = ses[s].head /\ ses'[s].failed = ses[s].failed /\ ses[s].at \in Talking
          /\ ses[s].head \in Heads
        BY <1>7, <2>1 DEF Talking, At
    <2>3. CASE At(s, "emit") /\ ses'[s].reply = ses[s].reply
        BY <2>1, <2>2, <2>3 DEF Samples, ReplyAsSet
    <2>4. CASE \E kind : ses'[s].reply = Reading(s, kind)
        <3>1. PICK kind : ses'[s].reply = Reading(s, kind)
            BY <2>4
        <3>2. /\ ses'[s].reply.head = ses[s].head /\ ses'[s].reply.set = dev[ses[s].head]
              /\ ses'[s].reply.sure = ~ses[s].failed
            BY <3>1 DEF Reading
        <3>3. ~ses'[s].failed
            BY <2>1, <2>2, <3>2
        <3> QED
            BY <2>1, <2>2, <3>2, <3>3
    <2> QED
        BY <2>1, <2>3, <2>4
<1>11. \A i \in DOMAIN post' : Sample(i)' =>
           /\ post'[i].head \in Heads /\ post'[i].set.wl = dev'[post'[i].head].wl
           /\ \/ Underway'
              \/ post'[i].head # info'.head /\ \E t \in Sessions : At(t, "opened")'
              \/ WillShow(post[i].set.wl)' /\ post'[i] = post[i]
              \/ WillShow(info.set.wl)' /\ post'[i].set.wl = info.set.wl
    <2>1. ASSUME NEW i \in DOMAIN post, Sample(i), post'[i] = post[i]
          PROVE  <1>11!(i)!2
        <3>1. post[i].head \in Heads /\ post[i].set.wl = dev[post[i].head].wl
            BY <2>1 DEF Samples, AsSet
        <3>2. \/ Underway
              \/ post[i].head # info.head /\ \E t \in Sessions : At(t, "opened")
              \/ WillShow(post[i].set.wl)
            BY <2>1 DEF Samples, AsShown
        <3> QED
            BY <1>3, <1>5, <1>6, <2>1, <3>1, <3>2
    <2>2. ASSUME NEW i \in DOMAIN post', At(s, "emit"), post'[i] = ses[s].reply, post'[i].sure
          PROVE  <1>11!(i)!2
        <3>1. ~ses[s].failed /\ post'[i].head = ses[s].head /\ post'[i].set.wl = dev[ses[s].head].wl
            BY <2>2 DEF Samples, ReplyAsSet
        <3>2. ses[s].head \in Heads /\ ses[s].head = info.head /\ info.set.wl = dev[info.head].wl
            BY <1>7, <2>2, <3>1 DEF At, Talking, Samples, HeadsInfo
        <3>3. Underway \/ WillShow(info.set.wl)
            BY <2>2, <3>1 DEF At, Samples, ShownByLoop
        <3> QED
            BY <1>3, <1>5, <3>1, <3>2, <3>3
    <2>3. CASE post' = post
        <3>1. \A i \in DOMAIN post' : Sample(i)' => Sample(i)
            BY <2>3 DEF Sample
        <3> QED
            BY <2>1, <2>3, <3>1
    <2>4. ASSUME NEW x \in Signals, post' = Append(post, x), x.kind \notin News,
                 x.kind = "ready" => At(s, "emit") /\ x = ses[s].reply
          PROVE  <1>11!:
        <3> TAKE i \in DOMAIN post'
        <3> HAVE Sample(i)'
        <3>1. CASE i \in DOMAIN post /\ post'[i] = post[i] /\ Sample(i)
            BY <2>1, <3>1
        <3>2. CASE post'[i] = x /\ x.kind = "ready" /\ x.sure
            BY <2>2, <2>4, <3>2
        <3> QED
            BY <2>4, <3>1, <3>2, SampleSent
    <2> QED
        BY <2>3, <2>4
<1>12. AsSet'
    BY <1>11 DEF AsSet
<1>13. AsShown'
    <2> SUFFICES ASSUME NEW i \in DOMAIN post', Sample(i)'
                 PROVE  \/ Underway'
                        \/ post'[i].head # info'.head /\ \E t \in Sessions : At(t, "opened")'
                        \/ WillShow(post[i].set.wl)'
        BY DEF AsShown
    <2> QED
        BY <1>4, <1>11 DEF WillShow
<1>14. wish' # NoWish => wish'.filter # Keep
    BY DEF Samples
<1> QED
    BY <1>8, <1>9, <1>10, <1>12, <1>13, <1>14 DEF Samples

\* News of settings: no sample before it counts.
LEMMA SamplesNews ==
    ASSUME Types, Threads, Samples, NEW s \in Sessions, ThreadStep(s),
           NEW x \in Signals, post' = Append(post, x), x.kind \in News,
           wish' = wish, ~At(s, "emit")',
           ses'[s].at \in Talking => /\ ses'[s].head = info'.head
                                     /\ ~ses'[s].failed => info'.set.wl = dev'[info'.head].wl,
           ses'[s].at \in {"loop", "ask", "emit"} /\ ~ses'[s].failed => x.kind = "info"
    PROVE  Samples'
<1>1. /\ \A t \in Sessions : t # s => ses'[t] = ses[t]
      /\ Alive(s)
    BY StepOfOne DEF window
<1>2. \A t \in Sessions : t # s => ses'[t].at \notin Talking
    BY <1>1, OneAlive
<1>3. \A i \in DOMAIN post' : ~Sample(i)'
    BY SampleSent
<1>4. HeadsInfo'
    BY <1>2 DEF HeadsInfo
<1>5. ShownByLoop'
    <2> SUFFICES ASSUME NEW t \in Sessions, ses'[t].at \in {"loop", "ask", "emit"}, ~ses'[t].failed
                 PROVE  WillShow(info.set.wl)'
        BY DEF ShownByLoop
    <2>1. t = s
        BY <1>2 DEF Talking
    <2>2. Queued({"info"})'
        BY <2>1, SampleSent
    <2> QED
        BY <2>2 DEF WillShow
<1>6. ReplyAsSet'
    BY <1>2 DEF ReplyAsSet, At, Talking
<1>7. wish' # NoWish => wish'.filter # Keep
    BY DEF Samples
<1> QED
    BY <1>3, <1>4, <1>5, <1>6, <1>7 DEF Samples, AsSet, AsShown

LEMMA SamplesOpenHead ==
    ASSUME Types, Threads, Samples, NEW s \in Sessions, ThreadStep(s), OpenHead(s)
    PROVE  Samples'
<1>0. ses[s] \in Locals /\ At(s, "starting") /\ ses \in [Sessions -> Locals]
    BY DEF OpenHead, Types
<1>1. CASE /\ outcome' = "open"
           /\ info' = [head |-> want_serial, set |-> dev[want_serial]]
           /\ Becomes(s, [ses[s] EXCEPT !.at = "opened", !.head = want_serial, !.streams = TRUE])
    <2>1. ses'[s] = [ses[s] EXCEPT !.at = "opened", !.head = want_serial, !.streams = TRUE]
        BY <1>0, <1>1 DEF Becomes
    <2>2. ses'[s].at = "opened" /\ ses'[s].head = want_serial
        BY <1>0, <2>1 DEF Locals
    <2>3. UNCHANGED <<wish, post, dev, shown>> /\ info'.head = want_serial /\ info'.set = dev[want_serial]
        BY <1>1 DEF OpenHead, ThreadStep, window
    <2>4. /\ \A t \in Sessions : t # s => ses'[t] = ses[t] /\ ses'[t].at \notin Talking
          /\ \A t \in Sessions : ~At(t, "opened") /\ ~At(t, "config") /\ ~At(t, "config")'
        <3>1. Alive(s) /\ \A t \in Sessions : t # s => ses'[t] = ses[t]
            BY StepOfOne
        <3> QED
            BY <1>0, <2>2, <3>1, OneAlive DEF At
    <2>5. Underway <=> Underway'
        BY <2>3, <2>4 DEF Underway
    <2>6. Queued({"info"})' <=> Queued({"info"})
        BY <2>3 DEF Queued
    <2>7. HeadsInfo' /\ ShownByLoop' /\ ReplyAsSet'
        BY <2>2, <2>3, <2>4 DEF HeadsInfo, ShownByLoop, ReplyAsSet, Talking, At
    <2>8. \A i : Sample(i)' => Sample(i)
        BY <2>3 DEF Sample
    <2>9. AsSet'
        BY <2>3, <2>8 DEF Samples, AsSet
    <2>10. AsShown'
        <3> SUFFICES ASSUME NEW i \in DOMAIN post, Sample(i)
                     PROVE  \/ Underway'
                            \/ post[i].head # want_serial
                            \/ WillShow(post[i].set.wl)'
            BY <2>2, <2>3, <2>8 DEF AsShown, At
        <3>1. Underway \/ WillShow(post[i].set.wl)
            BY <2>4 DEF Samples, AsShown
        <3>2. post[i].set.wl = dev[post[i].head].wl
            BY DEF Samples, AsSet
        <3> QED
            BY <2>3, <2>5, <2>6, <3>1, <3>2 DEF WillShow
    <2> QED
        BY <2>3, <2>7, <2>9, <2>10 DEF Samples
<1>2. CASE outcome' = "failed" /\ Becomes(s, [ses[s] EXCEPT !.at = "refused"]) /\ UNCHANGED info
    <2>1. ses'[s].at = "refused"
        BY <1>0, <1>2 DEF Becomes, Locals
    <2>2. UNCHANGED <<wish, post, dev, info>>
        BY <1>2 DEF OpenHead
    <2> QED
        BY <1>0, <2>1, <2>2, SamplesCalm DEF At, Talking
<1> QED
    BY <1>1, <1>2 DEF OpenHead

LEMMA SamplesAnnounce ==
    ASSUME Types, Threads, Samples, NEW s \in Sessions, ThreadStep(s), Announce(s)
    PROVE  Samples'
<1>1. ses[s] \in Locals /\ ses \in [Sessions -> Locals]
    BY DEF Types
<1>2. ses'[s] = [ses[s] EXCEPT !.at = IF At(s, "opened") THEN "loop" ELSE "leaving"]
    BY <1>1 DEF Announce, Becomes
<1>3. /\ ses'[s].at = IF At(s, "opened") THEN "loop" ELSE "leaving"
      /\ ses'[s].head = ses[s].head /\ ses'[s].failed = ses[s].failed
    BY <1>1, <1>2 DEF Locals
<1>4. UNCHANGED <<wish, info, dev>> /\ post' = Append(post, Signal("info"))
    BY DEF Announce, shared
<1>5. Signal("info") \in Signals /\ Signal("info").kind = "info"
    BY SignalsTyped
<1>6. ses'[s].at \in Talking => ses[s].at \in Talking
    BY <1>3 DEF At, Talking
<1>7. ses[s].at \in Talking => /\ ses[s].head = info.head
                               /\ ~ses[s].failed => info.set.wl = dev[info.head].wl
    BY DEF Samples, HeadsInfo
<1> QED
    BY <1>3, <1>4, <1>5, <1>6, <1>7, SamplesNews DEF At, News

LEMMA SamplesConfig ==
    ASSUME Types, Threads, Samples, NEW s \in Sessions, ThreadStep(s), Config(s)
    PROVE  Samples'
<1>1. /\ ses[s] \in Locals /\ ses \in [Sessions -> Locals] /\ At(s, "config") /\ wish' = wish
      /\ ses[s].head \in Heads /\ ses[s].head = info.head
    BY DEF Types, Config, At, Talking, shared, Samples, HeadsInfo
<1>2. CASE ConfigOk(s)
    <2> DEFINE new == [Restarted(s) EXCEPT !.mark = 0, !.failed = FALSE, !.reload = FALSE]
               set == Applied(dev[ses[s].head], ses[s].wish)
    <2>1. new.at = "ask" /\ new.head = ses[s].head /\ new.failed = FALSE
        BY <1>1 DEF Restarted, Locals
    <2>2. /\ Becomes(s, new) /\ info' = [info EXCEPT !.set = set]
          /\ dev' = [dev EXCEPT ![ses[s].head] = set] /\ post' = Append(post, Signal("info"))
        BY <1>2 DEF ConfigOk
    <2> HIDE DEF new, set
    <2>3. ses'[s] = new
        BY <1>1, <2>2 DEF Becomes
    <2>4. info'.head = info.head /\ info'.set = set /\ dev'[ses[s].head] = set
        BY <1>1, <2>2, OwnTypes
    <2>5. Signal("info") \in Signals /\ Signal("info").kind = "info"
        BY SignalsTyped
    <2> QED
        BY <1>1, <2>1, <2>2, <2>3, <2>4, <2>5, SamplesNews DEF At, News
<1>3. CASE ConfigFails(s)
    <2>1. PICK restarted \in BOOLEAN : Becomes(s, [Restarted(s) EXCEPT !.failed = TRUE, !.streams = restarted])
        BY <1>3 DEF ConfigFails
    <2> DEFINE new == [Restarted(s) EXCEPT !.failed = TRUE, !.streams = restarted]
    <2>2. new.at = "ask" /\ new.head = ses[s].head /\ new.failed
        BY <1>1 DEF Restarted, Locals
    <2>3. ses'[s] = new
        BY <1>1, <2>1 DEF Becomes
    <2> HIDE DEF new
    <2>4. UNCHANGED info /\ post' = Append(post, Signal("config failed"))
        BY <1>3 DEF ConfigFails
    <2>5. Signal("config failed") \in Signals /\ Signal("config failed").kind = "config failed"
        BY SignalsTyped
    <2> QED
        BY <1>1, <2>2, <2>3, <2>4, <2>5, SamplesNews DEF At, News
<1> QED
    BY <1>2, <1>3 DEF Config

LEMMA SamplesTakeWishes ==
    ASSUME Types, Threads, Samples, NEW s \in Sessions, ThreadStep(s), TakeWishes(s)
    PROVE  Samples'
<1>1. /\ ses[s] \in Locals /\ ses \in [Sessions -> Locals] /\ At(s, "loop") /\ UNCHANGED dev
      /\ info \in [head : Heads \cup {NoHead}, set : SettingShown]
    BY DEF Types, TakeWishes
<1>2. CASE Becomes(s, [ses[s] EXCEPT !.at = "leaving"]) /\ UNCHANGED <<wish, info, post>>
    <2>1. ses'[s].at = "leaving"
        BY <1>1, <1>2 DEF Becomes, Locals
    <2> QED
        BY <1>1, <1>2, <2>1, SamplesCalm DEF At, Talking
<1>3. CASE Becomes(s, [ses[s] EXCEPT !.at = "config", !.wish = wish]) /\ wish' = NoWish /\ UNCHANGED <<info, post>>
    <2>1. /\ ses'[s].at = "config" /\ ses'[s].head = ses[s].head /\ ses'[s].failed = ses[s].failed
        BY <1>1, <1>3 DEF Becomes, Locals
    <2>2. \A t \in Sessions : t # s => ses'[t] = ses[t] /\ ses'[t].at \notin Talking
        <3>1. Alive(s) /\ \A t \in Sessions : t # s => ses'[t] = ses[t]
            BY StepOfOne
        <3> QED
            BY <3>1, OneAlive
    <2>3. Underway'
        BY <2>1 DEF Underway, At
    <2>4. HeadsInfo'
        BY <1>1, <1>3, <2>1, <2>2 DEF HeadsInfo, Samples, At, Talking
    <2>5. ShownByLoop' /\ ReplyAsSet' /\ AsShown'
        BY <2>1, <2>2, <2>3 DEF ShownByLoop, ReplyAsSet, AsShown, At, Talking
    <2>6. \A i : Sample(i)' => Sample(i)
        BY <1>3 DEF Sample
    <2>7. AsSet'
        BY <1>1, <1>3, <2>6 DEF Samples, AsSet
    <2> QED
        BY <1>3, <2>4, <2>5, <2>7 DEF Samples
<1>4. CASE /\ wish' = wish
           /\ Becomes(s, [ses[s] EXCEPT !.at = "ask", !.reload = FALSE])
           /\ \/ UNCHANGED <<info, post>>
              \/ /\ info' = [info EXCEPT !.set.filter = dev[ses[s].head].filter]
                 /\ post' = Append(post, Signal("filter"))
    <2>1. /\ ses'[s].at = "ask" /\ ses'[s].head = ses[s].head /\ ses'[s].failed = ses[s].failed
        BY <1>1, <1>4 DEF Becomes, Locals
    <2>2. Signal("filter") \in Signals /\ Signal("filter").kind = "filter"
        BY SignalsTyped
    <2>3. info'.head = info.head /\ info'.set.wl = info.set.wl
        <3>1. info.set \in [wl : Values \cup {Keep}, filter : Values \cup {Keep}]
            BY <1>1, SettingsTyped DEF SettingShown, Wishes
        <3> QED
            BY <1>1, <1>4, <3>1
    <2> QED
        BY <1>1, <1>4, <2>1, <2>2, <2>3, SamplesCalm DEF At, Talking, News
<1> QED
    BY <1>2, <1>3, <1>4 DEF TakeWishes

LEMMA SamplesGetData ==
    ASSUME Types, Threads, Samples, NEW s \in Sessions, ThreadStep(s), GetData(s)
    PROVE  Samples'
<1>1. /\ ses[s] \in Locals /\ ses \in [Sessions -> Locals] /\ At(s, "ask")
      /\ UNCHANGED <<wish, info, post, dev>>
    BY DEF Types, GetData
<1>2. ASSUME ses'[s].at \in {"loop", "emit"}, ses'[s].head = ses[s].head, ses'[s].failed = ses[s].failed,
             ses'[s].at = "emit" => \E kind : ses'[s].reply = Reading(s, kind)
      PROVE  Samples'
    BY <1>1, <1>2, SamplesCalm DEF At, Talking
<1>3. ASSUME NEW kind, Answer(s, Reading(s, kind))
      PROVE  Samples'
    <2> DEFINE mark == IF Newer(s) /\ Reading(s, kind).kind # "no data" THEN ses[s].ts ELSE ses[s].mark
               new == [ses[s] EXCEPT !.at = "emit", !.reply = Reading(s, kind), !.mark = mark]
    <2>1. Becomes(s, new)
        BY <1>1, <1>3 DEF Answer
    <2> HIDE DEF mark
    <2>2. new.at = "emit" /\ new.head = ses[s].head /\ new.failed = ses[s].failed /\ new.reply = Reading(s, kind)
        BY <1>1 DEF Locals
    <2> HIDE DEF new
    <2> QED
        BY <1>1, <1>2, <2>1, <2>2 DEF Becomes
<1>4. CASE Becomes(s, [ses[s] EXCEPT !.at = "loop"])
    <2>1. [ses[s] EXCEPT !.at = "loop"].at = "loop" /\ [ses[s] EXCEPT !.at = "loop"].head = ses[s].head
          /\ [ses[s] EXCEPT !.at = "loop"].failed = ses[s].failed
        BY <1>1 DEF Locals
    <2> QED
        BY <1>1, <1>2, <1>4, <2>1 DEF Becomes
<1>5. CASE Becomes(s, [ses[s] EXCEPT !.at = "loop", !.mark = ses[s].ts,
                                     !.reload = @ \/ ses[s].item = "filter"])
    <2> DEFINE new == [ses[s] EXCEPT !.at = "loop", !.mark = ses[s].ts,
                                     !.reload = @ \/ ses[s].item = "filter"]
    <2>1. new.at = "loop" /\ new.head = ses[s].head /\ new.failed = ses[s].failed
        BY <1>1 DEF Locals
    <2>2. Becomes(s, new)
        BY <1>5
    <2> HIDE DEF new
    <2> QED
        BY <1>1, <1>2, <2>1, <2>2 DEF Becomes
<1> QED
    BY <1>3, <1>4, <1>5 DEF GetData, NothingAsked, DataFails, TakeItem, NothingNewer

LEMMA SamplesEmit ==
    ASSUME Types, Threads, Samples, NEW s \in Sessions, ThreadStep(s), Emit(s)
    PROVE  Samples'
<1>1. /\ ses[s] \in Locals /\ ses \in [Sessions -> Locals] /\ At(s, "emit")
      /\ UNCHANGED <<wish, info, dev>>
    BY DEF Types, Emit, shared
<1>2. ses'[s].at = "loop" /\ ses'[s].head = ses[s].head /\ ses'[s].failed = ses[s].failed
    BY <1>1 DEF Emit, Becomes, Locals
<1> DEFINE said == IF ses[s].reply.kind = "no data"
                   THEN [ses[s].reply EXCEPT !.kind = "failed"] ELSE ses[s].reply
<1>3. ses[s].reply \in Replies /\ ses[s].reply.kind # "none"
    BY <1>1 DEF Types, Locals
<1>4. said \in Signals /\ said.kind \in {"ready", "failed"} /\ (said.kind = "ready" => said = ses[s].reply)
    BY <1>3 DEF Replies, Signals
<1>5. post' = Append(post, said)
    BY DEF Emit
<1> HIDE DEF said
<1> QED
    BY <1>1, <1>2, <1>4, <1>5, SamplesCalm DEF At, Talking, News

LEMMA SamplesLeave ==
    ASSUME Types, Threads, Samples, NEW s \in Sessions, ThreadStep(s), Leave(s)
    PROVE  Samples'
<1>1. At(s, "leaving") /\ UNCHANGED <<wish, info, dev>>
    BY DEF Leave, shared
<1>2. ses'[s].at = "gone"
    BY DEF Leave, Becomes, Gone, Types
<1>3. Signal("finished") \in Signals /\ Signal("finished").kind = "finished"
    BY SignalsTyped
<1>4. post' = post \/ post' = Append(post, Signal("finished"))
    BY DEF Leave
<1> QED
    BY <1>1, <1>2, <1>3, <1>4, SamplesCalm DEF At, Talking, News

LEMMA SamplesHead ==
    ASSUME Types, Threads, Samples, NEW s \in Sessions, ThreadStep(s), Delivers(s) \/ Turned(s)
    PROVE  Samples'
<1>1. /\ ses[s] \in Locals /\ ses \in [Sessions -> Locals] /\ UNCHANGED <<wish, info, post>>
      /\ ses[s].at \in {"opened", "loop", "ask", "emit"} /\ dev \in [Heads -> Setting]
      /\ ses[s].head \in Heads
    BY OwnTypes DEF Types, Delivers, Turned, shared, Talking
<1>2. PICK kind : Becomes(s, [ses[s] EXCEPT !.ts = @ + 1, !.item = kind])
    BY DEF Delivers, Turned
<1>3. /\ ses'[s].at = ses[s].at /\ ses'[s].head = ses[s].head /\ ses'[s].failed = ses[s].failed
      /\ ses'[s].reply = ses[s].reply
    BY <1>1, <1>2 DEF Becomes, Locals
<1>4. \A h \in Heads : dev'[h].wl = dev[h].wl
    <2>1. CASE Delivers(s)
        BY <2>1 DEF Delivers
    <2>2. CASE Turned(s)
        <3>1. PICK v \in Values : dev' = [dev EXCEPT ![ses[s].head].filter = v]
            BY <2>2 DEF Turned
        <3>2. dev' = [dev EXCEPT ![ses[s].head] = [dev[ses[s].head] EXCEPT !.filter = v]]
            BY <3>1
        <3>3. [dev[ses[s].head] EXCEPT !.filter = v].wl = dev[ses[s].head].wl
            BY <1>1 DEF Setting
        <3> QED
            BY <1>1, <3>2, <3>3
    <2> QED
        BY <2>1, <2>2
<1> QED
    BY <1>1, <1>3, <1>4, SamplesCalm DEF At, Talking

LEMMA SamplesOfOne ==
    ASSUME Types, Threads, Samples, NEW s \in Sessions, ThreadStep(s)
    PROVE  Samples'
    BY SamplesOpenHead, SamplesAnnounce, SamplesTakeWishes, SamplesConfig, SamplesGetData,
       SamplesEmit, SamplesLeave, SamplesHead DEF ThreadStep, SessionStep

LEMMA SamplesDeliver ==
    ASSUME Types, Threads, Shown, Samples, Deliver
    PROVE  Samples'
<1>1. /\ DOMAIN post = 1 .. Len(post) /\ DOMAIN post' = 1 .. Len(post) - 1 /\ Len(post) \in Nat
      /\ \A i \in DOMAIN post' : i + 1 \in DOMAIN post /\ post'[i] = post[i + 1]
      /\ \A i \in DOMAIN post : i # 1 => i - 1 \in DOMAIN post' /\ post'[i - 1] = post[i]
      /\ Head(post) = post[1] /\ 1 \in DOMAIN post
    BY DeliveredHere
<1>2. UNCHANGED <<wish, info, ses, dev>>
      /\ shown' = CASE post[1].kind = "info" -> info.set
                    [] post[1].kind = "filter" -> [shown EXCEPT !.filter = info.set.filter]
                    [] OTHER -> shown
    BY <1>1 DEF Deliver
<1>3. Underway' <=> Underway
    BY <1>2 DEF Underway, At
<1>4. \A i \in DOMAIN post' : Sample(i)' => i + 1 \in DOMAIN post /\ Sample(i + 1) /\ post'[i] = post[i + 1]
    <2> TAKE i \in DOMAIN post'
    <2> HAVE Sample(i)'
    <2>1. i + 1 \in DOMAIN post /\ post'[i] = post[i + 1] /\ i \in Nat
        BY <1>1
    <2>2. \A j \in DOMAIN post : j > i + 1 => post[j].kind \notin News
        <3> SUFFICES ASSUME NEW j \in DOMAIN post, j > i + 1
                     PROVE  post[j].kind \notin News
            OBVIOUS
        <3>1. j # 1 /\ j - 1 > i
            BY <1>1, <2>1
        <3>2. j - 1 \in DOMAIN post' /\ post'[j - 1] = post[j]
            BY <1>1, <3>1
        <3> QED
            BY <3>1, <3>2 DEF Sample
    <2> QED
        BY <2>1, <2>2 DEF Sample
<1>5. \A wl : WillShow(wl) => WillShow(wl)'
    <2>1. CASE post[1].kind = "info"
        <3>1. shown' = info.set
            BY <1>2, <2>1
        <3>2. Queued({"info"})
            BY <1>1, <2>1 DEF Queued
        <3> QED
            BY <1>2, <3>1, <3>2 DEF WillShow
    <2>2. CASE post[1].kind # "info"
        <3>1. Queued({"info"}) => Queued({"info"})'
            <4> SUFFICES ASSUME NEW i \in DOMAIN post, post[i].kind = "info"
                         PROVE  Queued({"info"})'
                BY DEF Queued
            <4>1. i - 1 \in DOMAIN post' /\ post'[i - 1] = post[i]
                BY <1>1, <2>2
            <4> QED
                BY <4>1 DEF Queued
        <3>2. Queued({"info"})' => Queued({"info"})
            BY <1>1 DEF Queued
        <3>3. shown'.wl = shown.wl
            <4>1. shown \in Wishes
                BY SettingsTyped DEF Types, TypeOK
            <4>2. CASE post[1].kind = "filter"
                <5>1. shown' = [shown EXCEPT !.filter = info.set.filter]
                    BY <1>2, <4>2
                <5> QED
                    BY <4>1, <5>1 DEF Wishes
            <4>3. CASE post[1].kind # "filter"
                BY <1>2, <2>2, <4>3
            <4> QED
                BY <4>2, <4>3
        <3> QED
            BY <1>2, <3>1, <3>2, <3>3 DEF WillShow
    <2> QED
        BY <2>1, <2>2
<1>6. HeadsInfo' /\ ReplyAsSet'
    BY <1>2 DEF Samples, HeadsInfo, ReplyAsSet, At
<1>7. ShownByLoop'
    BY <1>2, <1>3, <1>5 DEF Samples, ShownByLoop, WillShow
<1>8. AsSet'
    BY <1>2, <1>4 DEF Samples, AsSet
<1>9. AsShown'
    <2> SUFFICES ASSUME NEW i \in DOMAIN post', Sample(i)'
                 PROVE  \/ Underway'
                        \/ post'[i].head # info'.head /\ \E t \in Sessions : At(t, "opened")'
                        \/ WillShow(post[i].set.wl)'
        BY DEF AsShown
    <2>1. i + 1 \in DOMAIN post /\ Sample(i + 1) /\ post'[i] = post[i + 1]
        BY <1>4
    <2>2. \/ Underway
          \/ post[i + 1].head # info.head /\ \E t \in Sessions : At(t, "opened")
          \/ WillShow(post[i + 1].set.wl)
        BY <2>1 DEF Samples, AsShown
    <2>3. WillShow(post[i + 1].set.wl) => WillShow(post[i].set.wl)'
        BY <1>5, <2>1 DEF WillShow
    <2> QED
        BY <1>2, <1>3, <2>1, <2>2, <2>3 DEF At
<1>10. wish' # NoWish => wish'.filter # Keep
    BY <1>2 DEF Samples
<1> QED
    BY <1>6, <1>7, <1>8, <1>9, <1>10 DEF Samples

LEMMA SamplesWindow ==
    ASSUME Types, Threads, Shown, Samples, GuiStep \/ Operator \/ TimePasses
    PROVE  Samples'
<1>1. CASE UNCHANGED <<wish, info, ses, post, dev, shown>>
    BY <1>1 DEF Samples, HeadsInfo, ShownByLoop, ReplyAsSet, AsSet, AsShown, Sample, Underway,
                WillShow, Queued, At
<1>2. CASE OpenMeter /\ gui \in {"free", "open"}
    <2>1. ASSUME NEW s \in Sessions, NewSession(s), CanOpen
          PROVE  Samples'
        <3>1. UNCHANGED <<info, post, dev, shown>>
            BY <1>2, <2>1 DEF NewSession, OpenMeter
        <3>2. wish' = [wish EXCEPT !.wl = Keep] /\ wish \in Wishes
            BY <2>1 DEF NewSession, Types, TypeOK
        <3>3. (wish = NoWish <=> wish' = NoWish) /\ (wish' # NoWish => wish'.filter # Keep)
            BY <3>2 DEF Samples, Wishes, NoWish
        <3>4. \A t \in Sessions : ~Alive(t)
            <4>1. thread = NoSession /\ leaked = NoSession /\ awaited = NoSession
                BY <1>2, <2>1 DEF CanOpen, Threads
            <4> QED
                BY <4>1 DEF Threads, Sessions, NoSession
        <3>5. ses'[s].at = "starting" /\ \A t \in Sessions : t # s => ses'[t] = ses[t]
            BY <2>1 DEF NewSession, Types, Gone
        <3>6. \A t \in Sessions : ses[t].at \notin Talking /\ ses'[t].at \notin Talking
            BY <3>4, <3>5 DEF Alive, Talking
        <3>7. Underway <=> Underway'
            BY <3>3, <3>6 DEF Underway, At, Talking
        <3>8. HeadsInfo' /\ ShownByLoop' /\ ReplyAsSet'
            BY <3>6 DEF HeadsInfo, ShownByLoop, ReplyAsSet, At, Talking
        <3>9. AsSet'
            BY <3>1 DEF Samples, AsSet, Sample
        <3>10. AsShown'
            BY <3>1, <3>6, <3>7 DEF Samples, AsShown, Sample, WillShow, Queued, At, Talking
        <3> QED
            BY <3>3, <3>8, <3>9, <3>10 DEF Samples
    <2>2. CASE UNCHANGED <<wish, info, ses, post, dev, shown>>
        BY <1>1, <2>2
    <2> QED
        BY <1>2, <2>1, <2>2 DEF OpenMeter, meter, shared
<1>3. CASE onMeterCfgChanged
    <2>1. shown' \in Setting
        <3>1. shown \in Setting
            BY <1>3 DEF onMeterCfgChanged, Types, TypeOK
        <3>2. PICK f \in {"wl", "filter"}, v \in Values : shown' = [shown EXCEPT ![f] = v]
            BY <1>3 DEF onMeterCfgChanged
        <3> QED
            BY <3>1, <3>2, SettingsTyped
    <2>2. wish' = shown' /\ UNCHANGED <<info, ses, post, dev>>
        BY <1>3 DEF onMeterCfgChanged
    <2>3. wish' # NoWish /\ wish'.filter # Keep
        BY <2>1, <2>2, SettingsTyped, MeterAssumption DEF Keep
    <2>4. Underway'
        BY <2>3 DEF Underway
    <2>5. HeadsInfo' /\ ReplyAsSet' /\ AsSet'
        BY <2>2 DEF Samples, HeadsInfo, ReplyAsSet, AsSet, Sample, At
    <2> QED
        BY <2>3, <2>4, <2>5 DEF Samples, ShownByLoop, AsShown
<1>4. CASE Refresh \/ OpenReturns \/ Join \/ Leak \/ Refused \/ onMtrDeviceChanged \/ TimePasses
    <2>1. UNCHANGED <<wish, info, ses, post, dev, shown>>
        BY <1>4 DEF Refresh, OpenReturns, Join, Leak, Refused, onMtrDeviceChanged, TimePasses, meter, shared, window
    <2> QED
        BY <1>1, <2>1
<1> QED
    BY <1>2, <1>3, <1>4, SamplesDeliver DEF GuiStep, Operator, Reopen, onMtrRetryOpen

LEMMA SamplesNext ==
    ASSUME Types, Threads, Shown, Samples, Next
    PROVE  Samples'
    BY NextSteps, SamplesOfOne, SamplesWindow

-----------------------------------------------------------------------------
(* The theorems.                                                           *)

LEMMA InitIInv ==
    ASSUME Init
    PROVE  IInv
<1>1. (CHOOSE h \in Heads : TRUE) \in Heads
    BY MeterAssumption
<1>2. /\ NoWish \in Wishes /\ NoReply \in Replies
      /\ [wl |-> 1, filter |-> 1] \in Setting /\ Gone \in Locals
    BY SettingsTyped, SignalsTyped, GoneTyped, MeterAssumption DEF Setting
<1>3. post = <<>> /\ post \in Seq(Signals) /\ DOMAIN post = {}
    BY DEF Init, MeterInit
<1>4. TypeOK
    <2>1. /\ thread \in Sessions \cup {NoSession} /\ leaked \in Sessions \cup {NoSession}
          /\ awaited \in Sessions \cup {NoSession} /\ wish \in Wishes /\ want_serial \in Heads
          /\ outcome \in {"waiting", "open", "failed"} /\ age \in 0 .. 2
          /\ info.head \in Heads \cup {NoHead} /\ info.set \in Setting \cup {NoWish}
          /\ dev \in [Heads -> Setting] /\ shown \in Setting \cup {NoWish}
        BY <1>1, <1>2 DEF Init, MeterInit
    <2>2. log \in [run : BOOLEAN, pending : BOOLEAN, timed_out : BOOLEAN, hold : BOOLEAN]
        BY DEF Init
    <2>3. m_open = FALSE /\ quit \in BOOLEAN /\ want \in BOOLEAN /\ cfgBusy \in BOOLEAN /\ locked \in BOOLEAN
        BY DEF Init, MeterInit
    <2>4. gui = "open" /\ then = "open"
        BY DEF Init
    <2> QED
        BY <2>1, <2>2, <2>3, <2>4 DEF TypeOK
<1>5. \A s \in Sessions : ses[s] = Gone
    BY DEF Init, MeterInit
<1>6. Gone.at = "gone" /\ Gone.mark = 0 /\ Gone.ts = 0
    BY DEF Gone
<1>7. Types
    BY <1>2, <1>3, <1>4, <1>5, <1>6 DEF Types, Init, MeterInit, At, Talking, SettingShown
<1>8. Threads
    BY <1>3, <1>5, <1>6 DEF Threads, Alive, Init, MeterInit
<1>9. Pending
    BY DEF Pending, PendingIsHeard, Init
<1>10. Shown /\ Samples
    BY <1>3, <1>5, <1>6 DEF Shown, Samples, HeadsInfo, ShownByLoop, ReplyAsSet,
                            AsSet, AsShown, At, Talking, Init, MeterInit
<1> QED
    BY <1>7, <1>8, <1>9, <1>10 DEF IInv

LEMMA NextIInv ==
    ASSUME IInv, [Next]_vars
    PROVE  IInv'
<1>1. CASE Next
    BY <1>1, TypesNext, ThreadsNext, PendingNext, ShownNext, SamplesNext DEF IInv
<1>2. CASE UNCHANGED vars
    BY <1>2 DEF vars, meter, shared, window, IInv, Types, TypeOK, Threads, Pending, PendingIsHeard, Shown,
                Samples, HeadsInfo, ShownByLoop, ReplyAsSet, AsSet, AsShown, Sample,
                WillShow, Underway, Queued, At, Alive
<1> QED
    BY <1>1, <1>2

LEMMA AlwaysIInv == Spec => []IInv
    BY InitIInv, NextIInv, PTL DEF Spec

\* Every variable of the meter and of the window keeps to its type, and an open
\* meter has a session that nobody has asked to end (open() and close() of
\* src/scan/ophirmeter.cpp).
THEOREM MeterTypeCorrect == Spec => []TypeOK
<1>1. IInv => TypeOK
    BY DEF IInv, Types
<1> QED
    BY <1>1, AlwaysIInv, PTL

\* A request under way is still to be read by the session thread, or its answer is
\* about to be sent or on its way: tick() never waits for an answer that nobody
\* will give.
THEOREM PendingAlwaysHeard == Spec => []PendingIsHeard
<1>1. IInv => PendingIsHeard
    BY DEF IInv, Pending
<1> QED
    BY <1>1, AlwaysIInv, PTL

\* However often the meter is closed and opened again while a thread hangs in the
\* driver, at most one session thread is alive.
THEOREM OneSessionAtATime == Spec => []OneSession
<1>1. IInv => OneSession
    <2> SUFFICES ASSUME IInv
                 PROVE  OneSession
        OBVIOUS
    <2> DEFINE alive == {s \in Sessions : Alive(s)}
    <2>1. \A s, t \in alive : s = t
        BY OneAlive DEF IInv
    <2>2. CASE alive = {}
        BY <2>2, FS_EmptySet DEF OneSession
    <2>3. CASE alive # {}
        <3>1. PICK s : alive = {s}
            BY <2>1, <2>3
        <3>2. Cardinality(alive) = 1
            BY <3>1, FS_Singleton
        <3> QED
            BY <3>2 DEF OneSession
    <2> QED
        BY <2>2, <2>3
<1> QED
    BY <1>1, AlwaysIInv, PTL

\* Whatever is opened, closed, exchanged and set: a stream that starts meets the mark
\* of an earlier one only by a change of settings that failed, where runSession keeps
\* it on purpose, and a change that succeeds takes any such mark away.
THEOREM MarkAlwaysOfItsStream == Spec => MarkOfItsStream
<1>1. IInv /\ [Next]_vars =>
          [\A s \in Sessions :
              (MarkIsFresh(s) \/ ChangeSucceeds(s)) /\ ~ChangeFails(s) => MarkIsFresh(s)']_vars
    BY MarkNext DEF MarkStep
<1> QED
    BY <1>1, AlwaysIInv, PTL DEF Spec, MarkOfItsStream

\* Once a change of settings has settled, no sample of the head the window shows
\* is recorded that was measured with another wavelength than the one it shows,
\* whatever was queued while the change, or another head, was under way.
THEOREM WavelengthsAreAsShown == Spec => ReadingAsShown
<1>1. IInv /\ [Next]_vars =>
          [Recorded /\ Settled /\ Head(post).sure /\ Head(post).head = info.head
             => Head(post).set.wl = shown.wl]_vars
    <2> SUFFICES ASSUME IInv, Recorded, Settled, Head(post).sure, Head(post).head = info.head
                 PROVE  Head(post).set.wl = shown.wl
        OBVIOUS
    <2>1. post \in Seq(Signals) /\ post # <<>> /\ Head(post).kind = "ready"
        BY DEF IInv, Types, Recorded
    <2>2. Head(post) = post[1] /\ 1 \in DOMAIN post
        BY <2>1, Taken
    <2>3. \A j \in DOMAIN post : post[j].kind \notin News
        BY DEF Settled, Queued, News
    <2>4. Sample(1)
        BY <2>1, <2>2, <2>3 DEF Sample
    <2>5. WillShow(post[1].set.wl)
        BY <2>2, <2>4 DEF IInv, Samples, AsShown, Underway, Settled
    <2>6. ~Queued({"info"})
        BY <2>3 DEF Queued, News
    <2> QED
        BY <2>2, <2>5, <2>6 DEF WillShow
<1> QED
    BY <1>1, AlwaysIInv, PTL DEF Spec, ReadingAsShown
=============================================================================
