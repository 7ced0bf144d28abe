------------------------------- MODULE MCWorker -------------------------------
(***************************************************************************)
(* Small instances of EcatWorker for TLC: one axis on a line of positions, *)
(* or two axes that stand.  The GUI and the surroundings act as often as   *)
(* Budget says; the worker, its frames and the drives are unbounded.       *)
(* A command is posted where the queue is next looked at, since nobody     *)
(* looks earlier, and no more than two wait there.                         *)
(***************************************************************************)
EXTENDS EcatWorker

CONSTANT Scenes     \* the scenes a behaviour may belong to

VARIABLE scene      \* the one it belongs to

Plain(t)    == [t |-> t]
ZeroOf(a)   == [t |-> "ZERO", axis |-> a]
CenterOf(a) == [t |-> "CENTER", axis |-> a]
RangeOf(v)  == [t |-> "RANGE", value |-> v]
HomeOf(mask, limit, off, span) ==
    [t |-> "HOME", mask |-> mask, limit |-> limit, off |-> off, span |-> span]

MCPoint   == {0}
MCLine    == -3 .. 4
MCTargets == {-1, 2}
MCSensor  == {1, 2}

HomeTogether == HomeOf({0, 1}, FALSE, 0, FALSE)
OnOff == {Plain("DISABLE"), Plain("ENABLE")}

MCMove == OnOff \union {Plain("CONNECT"), Plain("FAULT_RESET"), ZeroOf(0), CenterOf(0),
                        RangeOf(1)}
MCHome == {HomeOf({0}, limit, off, FALSE) : limit \in BOOLEAN, off \in {0, 1}} \union {ZeroOf(0)}
MCSpan == {HomeOf({0}, FALSE, off, TRUE) : off \in {-1, 0, 1}}
MCLive == {HomeOf({0}, FALSE, 0, TRUE), Plain("DISABLE")}
MCBatch == {HomeTogether, HomeOf({1}, FALSE, 0, FALSE)} \union OnOff
MCBus == OnOff \union {Plain("CONNECT"), Plain("DISCONNECT"), Plain("FAULT_RESET"), HomeTogether}
MCCommands == {c \in MCMove \union MCHome \union MCSpan \union MCLive \union MCBatch \union MCBus :
                  c.t = "HOME" => c.mask \subseteq Axes}

\* What the GUI may post, the range it has set, and how often it and the
\* surroundings act: ops of the GUI, pushes, faults, drives that leave OP and
\* short frames.
Scene(name) ==
    LET of(commands, range0, ops, pushes, faults, drops, glitches) ==
            [commands |-> commands, range |-> range0,
             left |-> [ops |-> ops, pushes |-> pushes, faults |-> faults, drops |-> drops,
                       glitches |-> glitches]]
    IN CASE name = "move"     -> of(MCMove, 2, 3, 1, 1, 0, 1)
         [] name = "home"     -> of(MCHome, 2, 2, 0, 0, 0, 0)
         [] name = "measure"  -> of(MCSpan, 4, 1, 0, 1, 0, 2)
         [] name = "stop"     -> of(MCSpan, 2, 2, 0, 0, 0, 0)
         [] name = "live"     -> of(MCLive, 2, 3, 0, 0, 1, 0)
         [] name = "together" -> of(MCBatch, 2, 2, 0, 1, 0, 1)
         [] name = "leave"    -> of(MCBatch, 2, 1, 0, 0, 1, 0)
         [] name = "closed"   -> of(MCBus, 2, 3, 0, 0, 1, 0)

MCBudget == Scene("closed").left

\* Connected, with every axis energised and held where it is: where CONNECT and
\* ENABLE lead.
EnabledInit ==
    /\ queue = <<>> /\ want = All(0) /\ stop = FALSE /\ quit = FALSE /\ look = "none"
    /\ telem = [homing |-> FALSE, spanning |-> FALSE, comm_bad |-> FALSE]
    /\ at = "top" /\ job = NoJob /\ conn = TRUE /\ ready = TRUE /\ kept = TRUE
    /\ keep = TRUE
    /\ gen = 1 /\ origin = All(0) /\ tgt = All(0) /\ range = Scene(scene).range
    /\ s = NoSession /\ latched = FALSE /\ tries = 0 /\ maybe_live = FALSE
    /\ cw = All("on") /\ csp = All(0) /\ hmode = {}
    /\ on = Axes /\ fault = {} /\ out = {}
    /\ pos = All(0)
    /\ seen = [on |-> Axes, fault |-> {}, pos |-> All(0)]
    /\ fresh = TRUE /\ bad = 0
    /\ left = Scene(scene).left
    /\ asked = {} /\ held = Axes /\ pressed = FALSE /\ stranded = FALSE
    /\ shown = {<<1, All(0)>>}

MCInit ==
    /\ scene \in Scenes
    /\ IF scene = "closed" THEN Init ELSE EnabledInit

MCNext ==
    /\ \/ /\ at \in {"drain", "frame"} /\ Len(queue) < 2
          /\ \E c \in Scene(scene).commands : Post(c)
       \/ SetTarget \/ StopLook \/ StopAct \/ requestQuit
       \/ Surroundings \/ Drain \/ Climb \/ Loop \/ JobFrame
    /\ UNCHANGED scene

MCSpec == MCInit /\ [][MCNext]_<<vars, scene>>
MCFairSpec == MCSpec /\ Fairness
=============================================================================
