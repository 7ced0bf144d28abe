------------------------------ MODULE BusSession ------------------------------
(***************************************************************************)
(* One connection to the drives, from em_open to the end of em_shutdown    *)
(* (src/motor_api/ec_motor.c), as doConnectInner and teardown of           *)
(* hmi/ecatworker.cpp call them.  What is cyclic (frames, enabling,        *)
(* homing, recovery) is the matter of EcatWorker; here it is the mailbox:  *)
(* the tables that say which fields the process image has, extended if     *)
(* fields are missing, and the polarity of the inputs (2300h).  Both are   *)
(* changed in the drive's memory and must be put back.                     *)
(*                                                                         *)
(* A table is a count (sub-index 0) and entries; it is written one SDO at  *)
(* a time: count to zero, the entries, the count.  Between two SDOs the    *)
(* program may be killed; an SDO may be lost, or its answer.               *)
(***************************************************************************)
EXTENDS Integers, Sequences, FiniteSets, SequencesExt, FiniteSetsExt

CONSTANTS
    N,              \* drives on the bus; all of them are selected
    Drives,         \* what a drive may be like when the program meets it
    WantDigIn,      \* m_want_dig_in, a setting: have 60FDh in the image
    AbortsPass,     \* ecx_SDOwrite takes a drive's refusal for success
    MaxSessions,    \* bound: connections
    MaxFaults       \* bound: SDOs and state changes that go wrong

Axes == 1 .. N
Directions == {"rx", "tx"}

\* The objects that say which table is in force for a direction, the tables
\* there are, and the one chosen if none is in force.
AssignOf == [rx |-> "1C12h", tx |-> "1C13h"]
TablesOf == [rx |-> {"1600h", "1601h"}, tx |-> {"1A00h"}]
Fallback == [rx |-> "1600h", tx |-> "1A00h"]
Objects  == {"1C12h", "1600h", "1601h", "1C13h", "1A00h"}

Field(name, bits) == [name |-> name, bits |-> bits]

\* How an assign object names a table.
Entry(o) == Field(o, 16)

\* The fields without which the image is extended ...
Need == [rx |-> <<Field("control", 16), Field("target_pos", 32), Field("target_vel", 32)>>,
         tx |-> <<Field("status", 16), Field("act_pos", 32), Field("act_vel", 32)>>
                \o (IF WantDigIn THEN <<Field("dig_in", 32)>> ELSE <<>>)
                \o <<Field("err_code", 16)>>]

\* ... and those that are looked for, and used if they are there.
Find == [rx |-> {Field("modes", 8), Field("prof_acc", 32), Field("prof_dec", 32)},
         tx |-> {Field("dig_in", 32), Field("err_code", 16)}]

Sought(d) == Range(Need[d]) \cup Find[d]
Bound == Sought("rx") \cup Sought("tx")

\* The names an entry may carry; "flag" is for any field the program does not know.
Names  == Objects \cup {"control", "target_pos", "target_vel", "modes", "prof_acc", "prof_dec", "status",
                      "act_pos", "act_vel", "dig_in", "err_code", "flag", "none"}
Fields == [name : Names, bits : Nat]

\* What may be found on the bus: counts within the entries, and assign objects that
\* name tables of their direction.
Drive ==
    {x \in [al : {"INIT", "PRE_OP", "SAFE_OP", "OP"},
            obj : [Objects -> [n : Nat, e : Seq(Fields)]],
            takes : SUBSET Fields, di : {"npn", "pnp"}] :
        /\ \A o \in Objects : x.obj[o].n <= Len(x.obj[o].e)
        /\ \A d \in Directions : \A i \in DOMAIN x.obj[AssignOf[d]].e :
              x.obj[AssignOf[d]].e[i] \in {Entry(t) : t \in TablesOf[d]}}

ASSUME BusAssumption ==
    /\ N \in Nat \ {0}
    /\ Drives \subseteq Drive
    /\ {WantDigIn, AbortsPass} \subseteq BOOLEAN
    /\ {MaxSessions, MaxFaults} \subseteq Nat

VARIABLES
    drive,      \* per axis: al (its state), obj (count and entries of each object),
                \* takes (the entries it accepts), di (2300h)
    \* the connection
    pc,         \* where doConnectInner or teardown is
    cur, dir,   \* the axis and the direction at hand
    todo,       \* the tables still to be written to axis cur: object and content
    sent,       \* how many SDOs of the first of them have been sent
    pdo,        \* rx_pdo and tx_pdo of each axis
    snap,       \* snap_rx, snap_tx: per axis and object, the table before it was written
    changed,    \* the objects that were written to the end, per axis
    mapped, in_op,
    off,        \* off_...: the place of each field in the image of its axis
    di_orig,    \* di_logic_orig, or Unread
    di_changed, \* di_logic_changed: a set of axes
    \* history and bounds
    found,      \* tables and polarity of each drive when the connection was opened
    clean,      \* since then nothing has gone wrong on the mailbox
    told,       \* axes whose polarity was reported as not written
    left        \* sessions and faults that may still come

held == <<pdo, snap, changed, mapped, in_op, off, di_orig, di_changed>>
vars == <<drive, pc, cur, dir, todo, sent, held, found, clean, told, left>>

Unread  == "unread"
NoPlace == -1
NoTable == <<Field("none", 0)>>     \* have = 0

-------------------------------------------------------------------------------
(* Tables. *)

Content(o) == SubSeq(o.e, 1, o.n)
TableOf(a, o) == Content(drive[a].obj[o])

\* What process data of a direction consists of: the tables in force, one
\* after the other.
Image(a, d) ==
    LET in_force == TableOf(a, AssignOf[d])
    IN FlattenSeq([i \in DOMAIN in_force |-> TableOf(a, in_force[i].name)])

BitsBefore(t, i) == FoldSeq(LAMBDA f, sum : f.bits + sum, 0, SubSeq(t, 1, i - 1))

\* em_map_offset
Place(t, f) ==
    LET at == {i \in DOMAIN t : t[i].name = f.name}
        i  == Min(at)
    IN IF /\ at # {}
          /\ t[i].bits = f.bits
          /\ BitsBefore(t, i) % 8 = 0
          /\ \A j \in 1 .. i : t[j].bits > 0
       THEN BitsBefore(t, i) \div 8
       ELSE NoPlace

\* The SDOs that write table t: count to zero (the 0th), the entries, the count.
Sdo(t, k) ==
    [sub |-> IF k \in DOMAIN t THEN k ELSE 0,
     v   |-> CASE k = 0 -> 0 [] k \in DOMAIN t -> t[k] [] OTHER -> Len(t)]

\* A drive lets its tables be written in PRE_OP only, entries only while the count
\* is zero, and no count beyond the entries it has.
Accepts(a, o, w) ==
    LET obj == drive[a].obj[o]
    IN /\ drive[a].al = "PRE_OP"
       /\ IF w.sub = 0 THEN w.v <= Len(obj.e)
          ELSE obj.n = 0 /\ w.sub <= Len(obj.e) + 1 /\ w.v \in drive[a].takes

Written(obj, w) ==
    IF w.sub = 0 THEN [obj EXCEPT !.n = w.v]
    ELSE [obj EXCEPT !.e = IF w.sub \in DOMAIN @ THEN [@ EXCEPT ![w.sub] = w.v] ELSE Append(@, w.v)]

-------------------------------------------------------------------------------
(* Steps that several phases share. *)

\* Something goes wrong.
Fault ==
    /\ left.faults > 0
    /\ left' = [left EXCEPT !.faults = @ - 1]
    /\ clean' = FALSE

Fine == UNCHANGED <<left, clean>>

\* What is to be written to axis cur.
Queue(jobs) == todo' = jobs /\ sent' = 0

Job(o, t) == [o |-> o, t |-> t]

\* Everything the program knows of a connection it has just opened or has left.
Forgotten ==
    /\ cur' = 1 /\ dir' = "rx" /\ Queue(<<>>)
    /\ pdo' = [a \in Axes |-> Fallback]
    /\ snap' = [a \in Axes |-> [o \in Objects |-> NoTable]]
    /\ changed' = [a \in Axes |-> {}]
    /\ mapped' = FALSE /\ in_op' = FALSE
    /\ off' = [a \in Axes |-> [f \in Bound |-> NoPlace]]
    /\ di_orig' = [a \in Axes |-> Unread] /\ di_changed' = {}

Goto(p, a) == pc' = p /\ cur' = a /\ dir' = "rx" /\ Queue(<<>>)

\* em_setup, em_enter_op and em_shutdown go from axis to axis.
NextAxis(again, then) == IF cur < N THEN Goto(again, cur + 1) ELSE Goto(then, 1)

\* teardown: em_shutdown begins with the polarity.
Teardown == Goto("restore_di", 1)

\* em_wait_state: the drive gets there; or it does not, is stopped on the way, or gets
\* there when nobody waits any longer.
Reaches(want) == drive' = [drive EXCEPT ![cur].al = want] /\ Fine
Balks(want) ==
    /\ Fault
    /\ \/ UNCHANGED drive
       \/ drive' = [drive EXCEPT ![cur].al = want]

\* em__verified_write of 2300h: written and read back; or lost; or written, and
\* the answer or the read-back lost.
Polarity(v) == drive' = [drive EXCEPT ![cur].di = v]
Confirmed(v) == Polarity(v) /\ Fine
Unconfirmed(v) == (Polarity(v) \/ UNCHANGED drive) /\ Fault

-------------------------------------------------------------------------------
(* Connecting. *)

\* ecx_config_init brings every drive to PRE_OP, or not every one.
em_open ==
    /\ pc = "closed" /\ left.sessions > 0
    /\ \E S \in SUBSET Axes :
          /\ drive' = [a \in Axes |-> [drive[a] EXCEPT !.al = IF a \in S THEN "PRE_OP" ELSE "INIT"]]
          /\ S # Axes => left.faults > 0
          /\ left' = [sessions |-> left.sessions - 1,
                      faults |-> IF S = Axes THEN left.faults ELSE left.faults - 1]
    /\ found' = [a \in Axes |-> [t |-> [o \in Objects |-> TableOf(a, o)], di |-> drive[a].di]]
    /\ clean' = TRUE /\ told' = {}
    /\ pc' = "gate" /\ Forgotten

\* em_setup, 1: nothing is done unless every drive is in a clean PRE_OP.
Gate ==
    /\ pc = "gate"
    /\ IF \A a \in Axes : drive[a].al = "PRE_OP" THEN Goto("discover", 1) ELSE Teardown
    /\ UNCHANGED <<drive, held, found, clean, told, left>>

\* em_discover_pdo, for both directions: ask which table is in force.  Several
\* for one direction are refused.
Discover ==
    /\ pc = "discover"
    /\ LET in_force(d) == TableOf(cur, AssignOf[d])
       IN \/ /\ \A d \in Directions : Len(in_force(d)) <= 1
             /\ pdo' = [pdo EXCEPT ![cur] =
                   [d \in Directions |-> IF in_force(d) = <<>> THEN Fallback[d] ELSE in_force(d)[1].name]]
             /\ Goto("ensure", cur) /\ Fine
          \/ /\ \E d \in Directions : Len(in_force(d)) > 1
             /\ Teardown /\ Fine /\ UNCHANGED pdo
          \/ Fault /\ Teardown /\ UNCHANGED pdo
    /\ UNCHANGED <<drive, snap, changed, mapped, in_op, off, di_orig, di_changed, found, told>>

\* em_map_ensure has succeeded for a direction.  That an axis has been written to is
\* noted when both have (em_setup, 2).
Ensured ==
    IF dir = "rx"
    THEN /\ pc' = "ensure" /\ dir' = "tx" /\ Queue(<<>>)
         /\ UNCHANGED <<cur, mapped>>
    ELSE /\ mapped' = (mapped \/ changed[cur] # {})
         /\ NextAxis("discover", "group")

\* Wrong: what looks untouched is not kept.
SnapshotOfTable(a, o, assign) == [snap EXCEPT ![a][o] = TableOf(a, o)]

\* em_snap_take, of a table and of the object that puts it in force.
Snapshot(a, o, assign) ==
    [snap EXCEPT ![a][o] = TableOf(a, o), ![a][assign] = TableOf(a, assign)]

\* What em_map_ensure may find missing: a part of what is needed, in its order.
Parts ==
    [d \in Directions |->
        UNION {{[k \in 1 .. n |-> Need[d][pick[k]]] :
                   pick \in {p \in [1 .. n -> DOMAIN Need[d]] : \A i, j \in 1 .. n : i < j => p[i] < p[j]}} :
               n \in 0 .. Len(Need[d])}]

\* em_map_ensure, 1 to 6: append what is missing, if every field then has a
\* place.  The tables are read once more for the snapshot before the first SDO is written.
MapEnsure ==
    /\ pc = "ensure"
    /\ \E missing \in Parts[dir] :
          LET o      == pdo[cur][dir]
              assign == AssignOf[dir]
              table  == TableOf(cur, o)
              whole  == table \o missing
              unassigned == TableOf(cur, assign) = <<>>
              in_force   == Range(TableOf(cur, assign)) \subseteq {Entry(o)}
          IN /\ \A f \in Range(Need[dir]) : f \in Range(missing) <=> Place(table, f) = NoPlace
             /\ \/ /\ missing = <<>> /\ ~unassigned /\ in_force
                   /\ Ensured /\ Fine /\ UNCHANGED snap
                \/ /\ ~in_force \/ \E f \in Range(Need[dir]) : Place(whole, f) = NoPlace
                   /\ Teardown /\ Fine /\ UNCHANGED <<snap, mapped>>
                \/ Fault /\ Teardown /\ UNCHANGED <<snap, mapped>>
                \/ /\ in_force /\ (missing # <<>> \/ unassigned)
                   /\ \A f \in Range(Need[dir]) : Place(whole, f) # NoPlace
                   /\ snap' = Snapshot(cur, o, assign)
                   /\ Queue((IF unassigned THEN <<Job(assign, <<Entry(o)>>)>> ELSE <<>>) \o <<Job(o, whole)>>)
                   /\ pc' = "write" /\ Fine /\ UNCHANGED <<cur, dir, mapped>>
    /\ UNCHANGED <<drive, pdo, changed, in_op, off, di_orig, di_changed, found, told>>

\* em__sdo_write_raw, in em_map_ensure (7, 8) and in em_snap_restore: accepted, refused,
\* lost, or done with its answer lost.  The first gives up; the second goes on with the next table.
SdoWrite ==
    /\ pc \in {"write", "unwrite"} /\ todo # <<>>
    /\ LET o       == Head(todo).o
           t       == Head(todo).t
           w       == Sdo(t, sent)
           last    == sent > Len(t)
           accept  == Accepts(cur, o, w)
           done    == drive' = [drive EXCEPT ![cur].obj[o] = Written(@, w)]
           succeed ==
               /\ IF last THEN Queue(Tail(todo)) ELSE sent' = sent + 1 /\ UNCHANGED todo
               /\ changed' = IF last /\ pc = "write"
                             THEN [changed EXCEPT ![cur] = @ \cup {o}] ELSE changed
               /\ UNCHANGED <<pc, cur, dir>>
           fail ==
               /\ IF pc = "write" THEN Teardown ELSE Queue(Tail(todo)) /\ UNCHANGED <<pc, cur, dir>>
               /\ UNCHANGED changed
       IN \/ accept /\ done /\ succeed /\ Fine
          \/ ~accept /\ AbortsPass /\ succeed /\ Fine /\ UNCHANGED drive
          \/ ~accept /\ ~AbortsPass /\ fail /\ clean' = FALSE /\ UNCHANGED <<drive, left>>
          \/ ((accept /\ done) \/ UNCHANGED drive) /\ fail /\ Fault
    /\ UNCHANGED <<pdo, snap, mapped, in_op, off, di_orig, di_changed, found, told>>

MapWritten ==
    /\ pc = "write" /\ todo = <<>>
    /\ Ensured
    /\ UNCHANGED <<drive, pdo, snap, changed, in_op, off, di_orig, di_changed, found, clean, told,
                   left>>

\* em_setup, 3: ecx_config_map_group asks the drives for their tables.
MapGroup ==
    /\ pc = "group"
    /\ \/ /\ \E a \in Axes, d \in Directions : Image(a, d) # <<>>
          /\ mapped' = TRUE /\ Goto("bind", 1) /\ Fine
       \/ /\ \A a \in Axes, d \in Directions : Image(a, d) = <<>>
          /\ Teardown /\ Fine /\ UNCHANGED mapped
       \/ Fault /\ Teardown /\ UNCHANGED mapped
    /\ UNCHANGED <<drive, pdo, snap, changed, in_op, off, di_orig, di_changed, found, told>>

\* em_axis_bind and em__find_field: where the drive says a field is.
PlaceRead(a, f) == Place(TableOf(a, pdo[a][IF f \in Sought("rx") THEN "rx" ELSE "tx"]), f)

\* Wrong: an axis without a control or a status word is taken.
UsableSomehow(a) == \A d \in Directions : Image(a, d) # <<>>

\* em_setup, 4: an axis without them is refused.
Usable(a) ==
    \A d \in Directions : Image(a, d) # <<>> /\ PlaceRead(a, Need[d][1]) # NoPlace

\* The table is read again for the fields that are needed, and for each that is
\* looked for.  Only the latter may fail, and then the field counts as missing.
Bind ==
    /\ pc = "bind"
    /\ LET go(unread) ==
               /\ off' = [off EXCEPT ![cur] =
                     [f \in Bound |-> IF f \in unread THEN NoPlace ELSE PlaceRead(cur, f)]]
               /\ NextAxis("bind", "safe")
       IN \/ Usable(cur) /\ go({}) /\ Fine
          \/ Usable(cur) /\ Fault /\ \E d \in Directions, f \in Bound : f \in Find[d] /\ go({f})
          \/ ~Usable(cur) /\ Teardown /\ Fine /\ UNCHANGED off
          \/ Fault /\ Teardown /\ UNCHANGED off
    /\ UNCHANGED <<drive, pdo, snap, changed, mapped, in_op, di_orig, di_changed, found, told>>

\* em_setup, 5.
SafeOp ==
    /\ pc = "safe"
    /\ \/ Reaches("SAFE_OP") /\ NextAxis("safe", "polarity")
       \/ Balks("SAFE_OP") /\ Teardown
    /\ UNCHANGED <<held, found, told>>

\* em_di_set_logic, 1, if the setting asks for it: nothing is written unless all are known.
ReadPolarity ==
    /\ pc = "polarity"
    /\ \/ Goto("op", 1) /\ Fine /\ UNCHANGED di_orig
       \/ /\ di_orig' = [a \in Axes |-> drive[a].di]
          /\ Goto("write_di", 1) /\ Fine
       \/ /\ \E k \in Axes : di_orig' = [a \in Axes |-> IF a < k THEN drive[a].di ELSE di_orig[a]]
          /\ Goto("op", 1) /\ Fault
    /\ UNCHANGED <<drive, pdo, snap, changed, mapped, in_op, off, di_changed, found, told>>

\* em_di_set_logic, 2.
WritePolarity ==
    /\ pc = "write_di"
    /\ NextAxis("write_di", "op")
    /\ \/ /\ di_orig[cur] = "npn"
          /\ Fine /\ UNCHANGED <<drive, di_changed, told>>
       \/ /\ di_orig[cur] # "npn" /\ Confirmed("npn")
          /\ di_changed' = di_changed \cup {cur} /\ UNCHANGED told
       \/ /\ di_orig[cur] # "npn" /\ Unconfirmed("npn")
          /\ told' = told \cup {cur} /\ UNCHANGED di_changed
    /\ UNCHANGED <<pdo, snap, changed, mapped, in_op, off, di_orig, found>>

em_enter_op ==
    /\ pc = "op"
    /\ \/ Reaches("OP") /\ NextAxis("op", "running") /\ in_op' = (cur = N)
       \/ Balks("OP") /\ Teardown /\ UNCHANGED in_op
    /\ UNCHANGED <<pdo, snap, changed, mapped, off, di_orig, di_changed, found, told>>

-------------------------------------------------------------------------------
(* em_shutdown.  De-energising the drives (1, 2) is in EcatWorker. *)

Disconnect ==
    /\ pc = "running" /\ Teardown
    /\ UNCHANGED <<drive, held, found, clean, told, left>>

\* Wrong: only if the drives had come up.
RestorableInOp(a) == a \in di_changed /\ in_op

\* 2.5: whether the tables were changed does not matter here.
Restorable(a) == a \in di_changed

RestorePolarity ==
    /\ pc = "restore_di"
    /\ NextAxis("restore_di", IF mapped THEN "restore_map" ELSE "lower")
    /\ \/ /\ ~Restorable(cur)
          /\ Fine /\ UNCHANGED <<drive, di_changed, told>>
       \/ /\ Restorable(cur) /\ Confirmed(di_orig[cur])
          /\ di_changed' = di_changed \ {cur} /\ UNCHANGED told
       \/ /\ Restorable(cur) /\ Unconfirmed(di_orig[cur])
          /\ told' = told \cup {cur} /\ UNCHANGED di_changed
    /\ UNCHANGED <<pdo, snap, changed, mapped, in_op, off, di_orig, found>>

\* em_snap_restore: only what was written to the end.
Undo(a, o) == IF o \in changed[a] THEN <<Job(o, snap[a][o])>> ELSE <<>>

\* Wrong: a table put in force stays in force.
UndoTables(a) == Undo(a, pdo[a].tx) \o Undo(a, pdo[a].rx)

\* In the reverse order.
UndoAll(a) ==
    Undo(a, pdo[a].tx) \o Undo(a, "1C13h") \o Undo(a, pdo[a].rx) \o Undo(a, "1C12h")

\* 3.
RestoreMap ==
    /\ pc = "restore_map"
    /\ Queue(UndoAll(cur))
    /\ pc' = "unwrite"
    /\ UNCHANGED <<drive, cur, dir, held, found, clean, told, left>>

MapRestored ==
    /\ pc = "unwrite" /\ todo = <<>>
    /\ NextAxis("restore_map", "lower")
    /\ UNCHANGED <<drive, held, found, clean, told, left>>

\* 4, 5: back to PRE_OP, as far as the drives follow, and close.
Lower ==
    /\ pc = "lower"
    /\ \/ ~mapped /\ Fine /\ UNCHANGED drive
       \/ /\ mapped
          /\ \E S \in SUBSET Axes :
                /\ drive' = [a \in Axes |-> IF a \in S THEN [drive[a] EXCEPT !.al = "PRE_OP"]
                                           ELSE drive[a]]
                /\ IF S = Axes THEN Fine ELSE Fault
    /\ pc' = "closed" /\ Forgotten
    /\ UNCHANGED <<found, told>>

\* The program is killed.
Killed ==
    /\ pc # "closed" /\ Fault
    /\ pc' = "closed" /\ Forgotten
    /\ UNCHANGED <<drive, found, told>>

-------------------------------------------------------------------------------
Init ==
    /\ drive \in [Axes -> Drives]
    /\ pc = "closed" /\ cur = 1 /\ dir = "rx" /\ todo = <<>> /\ sent = 0
    /\ pdo = [a \in Axes |-> Fallback]
    /\ snap = [a \in Axes |-> [o \in Objects |-> NoTable]]
    /\ changed = [a \in Axes |-> {}]
    /\ mapped = FALSE /\ in_op = FALSE
    /\ off = [a \in Axes |-> [f \in Bound |-> NoPlace]]
    /\ di_orig = [a \in Axes |-> Unread] /\ di_changed = {}
    /\ found = [a \in Axes |-> [t |-> [o \in Objects |-> TableOf(a, o)], di |-> drive[a].di]]
    /\ clean = TRUE /\ told = {}
    /\ left = [sessions |-> MaxSessions, faults |-> MaxFaults]

Connecting ==
    \/ em_open \/ Gate \/ Discover \/ MapEnsure \/ SdoWrite \/ MapWritten \/ MapGroup \/ Bind
    \/ SafeOp \/ ReadPolarity \/ WritePolarity \/ em_enter_op

em_shutdown == Disconnect \/ RestorePolarity \/ RestoreMap \/ MapRestored \/ Lower

Next == Connecting \/ em_shutdown \/ Killed

Spec == Init /\ [][Next]_vars

-------------------------------------------------------------------------------
(* Properties. *)

\* Every place the program writes to or reads from is where the drive has that field,
\* whatever was refused or lost while the tables were extended; and with process
\* data there is always a place for the control and the status word.  A control word
\* written elsewhere would be taken for a target.
FieldsInPlace ==
    pc \in {"safe", "polarity", "write_di", "op", "running"} =>
        \A a \in Axes, d \in Directions :
            /\ \A f \in Sought(d) :
                  off[a][f] # NoPlace => off[a][f] = Place(Image(a, d), f)
            /\ off[a][Need[d][1]] # NoPlace

\* Whatever a connection has changed in a drive, it holds the original of, from before
\* the first SDO on and through every failure: a table in its snapshot, 2300h in
\* di_logic_orig.
OriginalsHeld ==
    pc # "closed" =>
        \A a \in Axes :
            /\ \A o \in Objects :
                  TableOf(a, o) # found[a].t[o] => snap[a][o] = found[a].t[o]
            /\ drive[a].di # found[a].di => di_orig[a] = found[a].di

\* When em_shutdown has been through the polarities, every drive has its own again,
\* or the operator has been told about that drive.
PolarityPutBack ==
    pc \in {"restore_map", "unwrite", "lower"} =>
        \A a \in Axes : drive[a].di # found[a].di => a \in told

\* A connection that fails before a drive has left PRE_OP, with every SDO answered, takes
\* back what it did to all drives, also to the one at which it failed.  It does so
\* if one axis at least had both of its tables ready (mapped).
TablesPutBack ==
    /\ pc = "lower" /\ clean /\ mapped
    /\ \A a \in Axes : drive[a].al = "PRE_OP"
    => \A a \in Axes, o \in Objects : TableOf(a, o) = found[a].t[o]

-------------------------------------------------------------------------------
(* Claims that do not hold (README, section 5). *)

\* ec_motor.h:374 and README.md:306: the shutdown puts the tables back.  It writes
\* them while the drives are still in OP, where (ec_motor.c:1436) they cannot be written.
TablesPutBackAfterOp ==
    pc = "lower" /\ clean /\ in_op =>
        \A a \in Axes, o \in Objects : TableOf(a, o) = found[a].t[o]

\* The same of a connection that fails at its first drive, between the two directions:
\* mapped is still unset, and nothing is put back.
TablesPutBackUnmapped ==
    pc = "lower" /\ clean /\ ~mapped =>
        \A a \in Axes, o \in Objects : TableOf(a, o) = found[a].t[o]

\* ec_motor.c:1640: what is in the image in force must be driven through it.  A
\* read that was lost counts as "not in the image".
FieldsKnown ==
    pc = "running" =>
        \A a \in Axes, d \in Directions, f \in Bound :
            f \in Find[d] => off[a][f] = Place(Image(a, d), f)

\* ec_motor.c:2424: a drive whose 2300h could not be written keeps its polarity.
UntoldIsUnchanged ==
    pc = "op" => \A a \in told : drive[a].di = found[a].di
===============================================================================
