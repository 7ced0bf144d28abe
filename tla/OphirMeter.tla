------------------------------ MODULE OphirMeter ------------------------------
(***************************************************************************)
(* The power meter of src/scan/ophirmeter.cpp: the members the window's    *)
(* thread and the session thread share, the session thread (runSession),   *)
(* which alone talks to the driver, and the head at the other end.  What   *)
(* the window's thread calls (open, close, requestReading, the wishes) is  *)
(* stated here as operators; MeterLog has the actions that call them.      *)
(*                                                                         *)
(* A head numbers the items of a stream from 1 and starts again when the   *)
(* stream is started; GetData answers with what it has of the stream, of   *)
(* which the thread takes the newest.  Of its four settings two stand for  *)
(* all: wl is set before filter, and only filter can be turned by hand.    *)
(* The newest item of a stream was measured with the settings the head     *)
(* has: a change by hand is an item itself, one by the program starts a    *)
(* stream.                                                                 *)
(***************************************************************************)
EXTENDS Naturals, Sequences, FiniteSets, SequencesExt

CONSTANTS
    Heads,      \* the serial numbers on the USB bus
    Values,     \* the choices a setting has
    Hangs,      \* a call of the driver may hang longer than anybody waits
    Faults,     \* what may happen: "open", "data" and "config" fail, an item is
                \* "unusable" or a "notice", a filter is "turned" by hand
    MaxStamp    \* bound: items of one stream

ASSUME MeterAssumption ==
    /\ Heads # {} /\ Values \subseteq Nat \ {0} /\ 1 \in Values
    /\ Hangs \in BOOLEAN /\ MaxStamp \in Nat

Keep == 0
Setting == [wl : Values, filter : Values]
Wishes == [wl : Values \cup {Keep}, filter : Values \cup {Keep}]
NoWish == [wl |-> Keep, filter |-> Keep]

NoHead == "no head"
Sessions == {1, 2}
NoSession == 0

VARIABLES
    m_open,     \* the meter is open
    thread,     \* the session thread the window's thread holds, or NoSession
    leaked,     \* the one it has given up waiting for, or NoSession
    quit,       \* the session is to end
    want,       \* a reading is asked for
    age,        \* of that request: 0, 1 past k_stale_ms, 2 past kTimeoutMs
    wish,       \* want_wl .. want_filter: settings to be changed
    want_serial,    \* the head to open
    outcome,    \* open_done and open_ok: "waiting", "open", "failed"
    info,       \* what is published about the head: [head, set]
    ses,        \* the locals of each session thread
    post,       \* signals on their way to the window's thread, oldest first
    dev         \* the settings of each head

shared == <<m_open, thread, leaked, quit, want, age, wish, want_serial, outcome>>
meter == <<shared, info, ses, post, dev>>

-----------------------------------------------------------------------------
(* What a session thread keeps.                                            *)

Kinds == {"none", "reading", "unusable", "notice", "filter"}
NoReply == [kind |-> "none", head |-> NoHead, set |-> NoWish, sure |-> TRUE]

Gone == [at |-> "gone", head |-> NoHead, wish |-> NoWish, mark |-> 0, ts |-> 0,
         item |-> "none", streams |-> FALSE, failed |-> FALSE, reload |-> FALSE,
         reply |-> NoReply]

Signal(kind) == [NoReply EXCEPT !.kind = kind]
Reading(s, kind) ==
    [kind |-> kind, head |-> ses[s].head, set |-> dev[ses[s].head], sure |-> ~ses[s].failed]

Alive(s) == ses[s].at # "gone"

MeterInit ==
    /\ m_open = FALSE /\ thread = NoSession /\ leaked = NoSession
    /\ quit = FALSE /\ want = FALSE /\ age = 0 /\ wish = NoWish
    /\ want_serial = (CHOOSE h \in Heads : TRUE) /\ outcome = "waiting"
    /\ info = [head |-> NoHead, set |-> NoWish]
    /\ ses = [s \in Sessions |-> Gone]
    /\ post = <<>>
    /\ dev = [h \in Heads |-> [wl |-> 1, filter |-> 1]]

-----------------------------------------------------------------------------
(* What the window's thread does with the meter.                           *)

\* Wrong: one that was given up does not count.
CanOpenBesideLeaked == thread = NoSession

\* open() refuses while a session it holds or has leaked still runs.
CanOpen == thread = NoSession /\ leaked = NoSession

\* Wrong: the mark that ended the last session ends this one too.
NewSessionQuits(s) ==
    /\ s = CHOOSE t \in Sessions : ~Alive(t)
    /\ outcome' = "waiting" /\ want' = FALSE /\ age' = 0
    /\ wish' = [wish EXCEPT !.wl = Keep]
    /\ thread' = s
    /\ ses' = [ses EXCEPT ![s] = [Gone EXCEPT !.at = "starting"]]
    /\ UNCHANGED <<m_open, leaked, quit, want_serial, info, post, dev>>

\* The session open() starts: marks of the last one are taken back first (the
\* wish for the filter is not among them).
NewSession(s) ==
    /\ s = CHOOSE t \in Sessions : ~Alive(t)
    /\ outcome' = "waiting" /\ quit' = FALSE /\ want' = FALSE /\ age' = 0
    /\ wish' = [wish EXCEPT !.wl = Keep]
    /\ thread' = s
    /\ ses' = [ses EXCEPT ![s] = [Gone EXCEPT !.at = "starting"]]
    /\ UNCHANGED <<m_open, leaked, want_serial, info, post, dev>>

\* close() until it waits for the thread.
BeginClose ==
    /\ m_open' = FALSE /\ want' = FALSE
    /\ thread' = NoSession
    /\ quit' = (quit \/ thread # NoSession)

-----------------------------------------------------------------------------
(* The session thread.                                                     *)

Becomes(s, new) == ses' = [ses EXCEPT ![s] = new]
At(s, place) == ses[s].at = place

\* Up to the answer open() waits for.  Whatever fails, the answer is "failed".
OpenHead(s) ==
    /\ At(s, "starting")
    /\ \/ /\ outcome' = "open"
          /\ info' = [head |-> want_serial, set |-> dev[want_serial]]
          /\ Becomes(s, [ses[s] EXCEPT !.at = "opened", !.head = want_serial, !.streams = TRUE])
       \/ /\ "open" \in Faults
          /\ outcome' = "failed"
          /\ Becomes(s, [ses[s] EXCEPT !.at = "refused"])
          /\ UNCHANGED info
    /\ UNCHANGED <<m_open, thread, leaked, quit, want, age, wish, want_serial, post, dev>>

\* The head and its settings are announced, or the list of heads alone.
Announce(s) ==
    /\ At(s, "opened") \/ At(s, "refused")
    /\ post' = Append(post, Signal("info"))
    /\ Becomes(s, [ses[s] EXCEPT !.at = IF At(s, "opened") THEN "loop" ELSE "leaving"])
    /\ UNCHANGED <<shared, info, dev>>

\* The top of the loop: the wishes are taken, and a filter that reported a
\* change is read again if there are none.
TakeWishes(s) ==
    /\ At(s, "loop")
    /\ wish' = IF quit THEN wish ELSE NoWish
    /\ \/ /\ quit
          /\ Becomes(s, [ses[s] EXCEPT !.at = "leaving"])
          /\ UNCHANGED <<info, post>>
       \/ /\ ~quit /\ wish # NoWish
          /\ Becomes(s, [ses[s] EXCEPT !.at = "config", !.wish = wish])
          /\ UNCHANGED <<info, post>>
       \/ /\ ~quit /\ wish = NoWish
          /\ Becomes(s, [ses[s] EXCEPT !.at = "ask", !.reload = FALSE])
          /\ LET now == dev[ses[s].head].filter IN
             IF ses[s].reload /\ now # info.set.filter
             THEN /\ info' = [info EXCEPT !.set.filter = now]
                  /\ post' = Append(post, Signal("filter"))
             ELSE UNCHANGED <<info, post>>
    /\ UNCHANGED <<m_open, thread, leaked, quit, want, age, want_serial, outcome, dev>>

Applied(set, w) == [f \in {"wl", "filter"} |-> IF w[f] = Keep THEN set[f] ELSE w[f]]

\* The stream is stopped, the settings are written in their order and the
\* stream is started again.  A failure stops the writing where it comes, and
\* the stream is started again for the old mark.
Restarted(s) == [ses[s] EXCEPT !.at = "ask", !.wish = NoWish, !.ts = 0, !.item = "none",
                               !.streams = TRUE]

\* Wrong: the new stream is read from the mark of the old one.
ConfigKeepsMark(s) ==
    LET new == Applied(dev[ses[s].head], ses[s].wish) IN
    /\ dev' = [dev EXCEPT ![ses[s].head] = new]
    /\ info' = [info EXCEPT !.set = new]
    /\ Becomes(s, [Restarted(s) EXCEPT !.failed = FALSE, !.reload = FALSE])
    /\ post' = Append(post, Signal("info"))

\* Wrong: the settings are announced and not read back.
ConfigUnread(s) ==
    LET new == Applied(dev[ses[s].head], ses[s].wish) IN
    /\ dev' = [dev EXCEPT ![ses[s].head] = new]
    /\ Becomes(s, [Restarted(s) EXCEPT !.mark = 0, !.failed = FALSE, !.reload = FALSE])
    /\ post' = Append(post, Signal("info"))
    /\ UNCHANGED info

ConfigOk(s) ==
    LET new == Applied(dev[ses[s].head], ses[s].wish) IN
    /\ dev' = [dev EXCEPT ![ses[s].head] = new]
    /\ info' = [info EXCEPT !.set = new]
    /\ Becomes(s, [Restarted(s) EXCEPT !.mark = 0, !.failed = FALSE, !.reload = FALSE])
    /\ post' = Append(post, Signal("info"))

\* Wrong: nobody is told.
ConfigFailsSilently(s) ==
    /\ "config" \in Faults
    /\ \E restarted \in BOOLEAN :
          Becomes(s, [Restarted(s) EXCEPT !.failed = TRUE, !.streams = restarted])
    /\ UNCHANGED <<dev, info, post>>

ConfigFails(s) ==
    /\ "config" \in Faults
    /\ \E written \in SUBSET {"wl", "filter"}, restarted \in BOOLEAN :
          /\ "filter" \in written => "wl" \in written
          /\ dev' = [dev EXCEPT ![ses[s].head] =
                        [f \in {"wl", "filter"} |->
                            IF f \in written THEN Applied(@, ses[s].wish)[f] ELSE @[f]]]
          /\ Becomes(s, [Restarted(s) EXCEPT !.failed = TRUE, !.streams = restarted])
    /\ post' = Append(post, Signal("config failed"))
    /\ UNCHANGED info

Config(s) ==
    /\ At(s, "config")
    /\ ConfigOk(s) \/ ConfigFails(s)
    /\ UNCHANGED shared

-----------------------------------------------------------------------------
(* The half of the loop that answers a request.  The request is taken back *)
(* before its answer is sent, never after.                                 *)

Newer(s) == ses[s].ts > ses[s].mark /\ ses[s].item # "none"

Answer(s, reply) ==
    /\ want' = FALSE
    /\ Becomes(s, [ses[s] EXCEPT !.at = "emit", !.reply = reply,
                                 !.mark = IF Newer(s) /\ reply.kind # "no data" THEN ses[s].ts ELSE @])

NothingAsked(s) ==
    /\ ~want
    /\ Becomes(s, [ses[s] EXCEPT !.at = "loop"])
    /\ UNCHANGED want

\* Wrong: the request is taken back and not answered.
DataFailsSilently(s) ==
    /\ want /\ "data" \in Faults
    /\ want' = FALSE
    /\ Becomes(s, [ses[s] EXCEPT !.at = "loop"])

DataFails(s) ==
    /\ want /\ "data" \in Faults
    /\ Answer(s, Reading(s, "no data"))

TakeItem(s) ==
    /\ want /\ Newer(s)
    /\ \/ ses[s].item = "reading" /\ Answer(s, Reading(s, "ready"))
       \/ ses[s].item = "unusable" /\ Answer(s, Reading(s, "failed"))
       \/ /\ ses[s].item \in {"notice", "filter"}
          /\ Becomes(s, [ses[s] EXCEPT !.at = "loop", !.mark = ses[s].ts,
                                       !.reload = @ \/ ses[s].item = "filter"])
          /\ UNCHANGED want

NothingNewer(s) ==
    /\ want /\ ~Newer(s)
    /\ \/ age >= 1 /\ Answer(s, Reading(s, "failed"))
       \/ age = 0 /\ Becomes(s, [ses[s] EXCEPT !.at = "loop"]) /\ UNCHANGED want

GetData(s) ==
    /\ At(s, "ask")
    /\ NothingAsked(s) \/ DataFails(s) \/ TakeItem(s) \/ NothingNewer(s)
    /\ UNCHANGED <<m_open, thread, leaked, quit, age, wish, want_serial, outcome,
                   info, post, dev>>

Emit(s) ==
    /\ At(s, "emit")
    /\ post' = Append(post, IF ses[s].reply.kind = "no data"
                            THEN [ses[s].reply EXCEPT !.kind = "failed"] ELSE ses[s].reply)
    /\ Becomes(s, [ses[s] EXCEPT !.at = "loop", !.reply = NoReply])
    /\ UNCHANGED <<shared, info, dev>>

\* The head is given back and the thread ends.  Only a thread close() has
\* given up waiting for is asked to report it.
Leave(s) ==
    /\ At(s, "leaving")
    /\ Becomes(s, Gone)
    /\ post' = IF leaked = s THEN Append(post, Signal("finished")) ELSE post
    /\ UNCHANGED <<shared, info, dev>>

SessionStep(s) ==
    OpenHead(s) \/ Announce(s) \/ TakeWishes(s) \/ Config(s) \/ GetData(s) \/ Emit(s) \/ Leave(s)

-----------------------------------------------------------------------------
(* The head.                                                               *)

Delivers(s) ==
    /\ ses[s].streams /\ ses[s].at \in {"opened", "loop", "ask", "emit"}
    /\ ses[s].ts < MaxStamp
    /\ \E kind \in {"reading"} \cup ({"unusable", "notice"} \cap Faults) :
          Becomes(s, [ses[s] EXCEPT !.ts = @ + 1, !.item = kind])
    /\ UNCHANGED <<shared, info, post, dev>>

\* The filter is turned by hand; the head says so in its stream.
Turned(s) ==
    /\ "turned" \in Faults
    /\ ses[s].streams /\ ses[s].at \in {"opened", "loop", "ask", "emit"}
    /\ ses[s].ts < MaxStamp
    /\ \E v \in Values \ {dev[ses[s].head].filter} :
          /\ dev' = [dev EXCEPT ![ses[s].head].filter = v]
          /\ Becomes(s, [ses[s] EXCEPT !.ts = @ + 1, !.item = "filter"])
    /\ UNCHANGED <<shared, info, post>>

MeterStep == \E s \in Sessions : SessionStep(s) \/ Delivers(s)
ByHand == \E s \in Sessions : Turned(s)
=============================================================================
