--------------------------- MODULE BusSessionProofs ---------------------------
(***************************************************************************)
(* What holds of a connection for any number of drives, whatever they are  *)
(* like and whatever goes wrong: the program holds the original of all it  *)
(* has changed in them, puts the polarity back or says that it has not,    *)
(* puts the tables back, and has every field where the drive has it.  Only *)
(* the last of these asks something of the drives (TablesTaken).           *)
(***************************************************************************)
EXTENDS BusSession, SequenceTheorems, TLAPS

\* What the entries of an object are: an assign object names tables of its direction.
EntriesOf(o) ==
    IF o = "1C12h" THEN {Entry(t) : t \in TablesOf["rx"]}
    ELSE IF o = "1C13h" THEN {Entry(t) : t \in TablesOf["tx"]}
    ELSE Fields

Box == [al : {"INIT", "PRE_OP", "SAFE_OP", "OP"},
        obj : [Objects -> [n : Nat, e : Seq(Fields)]],
        takes : SUBSET Fields, di : {"npn", "pnp"}]

\* An object's count is within its entries.
Sound(o, x) == x.n <= Len(x.e) /\ x.e \in Seq(EntriesOf(o))

DriveTypes ==
    /\ drive \in [Axes -> Box]
    /\ \A a \in Axes, o \in Objects : Sound(o, drive[a].obj[o])

\* What may be in the queue.
Jobs == {j \in [o : Objects, t : Seq(Fields)] : j.t \in Seq(EntriesOf(j.o))}

WorkTypes ==
    /\ cur \in Axes /\ dir \in Directions /\ sent \in Nat
    /\ todo \in Seq(Jobs)

HeldTypes ==
    /\ pdo \in [Axes -> [Directions -> Objects]]
    /\ \A a \in Axes, d \in Directions : pdo[a][d] \in TablesOf[d]
    /\ snap \in [Axes -> [Objects -> Seq(Fields)]]
    /\ changed \in [Axes -> SUBSET Objects]
    /\ di_orig \in [Axes -> {"npn", "pnp", Unread}]
    /\ di_changed \in SUBSET Axes
    /\ told \in SUBSET Axes
    /\ found \in [Axes -> [t : [Objects -> Seq(Fields)], di : {"npn", "pnp"}]]
    /\ \A a \in Axes, o \in Objects : found[a].t[o] \in Seq(EntriesOf(o))

BusTypes == DriveTypes /\ WorkTypes /\ HeldTypes

\* What em_map_ensure has not come to yet.
Untouched(a, o) ==
    \/ pc = "gate"
    \/ pc = "discover" /\ a >= cur
    \/ pc \in {"ensure", "write"} /\ a > cur
    \/ pc = "ensure" /\ a = cur /\ dir = "rx"
    \/ pc = "ensure" /\ a = cur /\ o \in {"1C13h", "1A00h"}
    \/ pc = "write" /\ a = cur /\ dir = "rx" /\ o \in {"1C13h", "1A00h"}

\* The snapshot of a table is the original wherever it may be needed: the table
\* differs from it, was written to the end, or is being written.
SnapHolds(a, o) == snap[a][o] = found[a].t[o]

Snapped(a) == {j \in Jobs : SnapHolds(a, j.o)}

\* The tables of a direction.
About(d) == {j \in Jobs : j.o \in TablesOf[d] \union {AssignOf[d]}}

TablesInv ==
    /\ pc # "closed" => \A a \in Axes, o \in Objects : TableOf(a, o) # found[a].t[o] => SnapHolds(a, o)
    /\ \A a \in Axes, o \in Objects : Untouched(a, o) => TableOf(a, o) = found[a].t[o]
    /\ \A a \in Axes : \A o \in changed[a] : SnapHolds(a, o)
    /\ pc \in {"write", "unwrite"} => todo \in Seq(Snapped(cur))
    /\ pc = "write" => todo \in Seq(About(dir))

BeforePolarity == {"gate", "discover", "ensure", "write", "group", "bind", "safe", "polarity"}
AfterPolarity  == {"restore_map", "unwrite", "lower"}

\* A polarity is as it was found, or the program knows that it is not, or it was
\* told; and what it knows of has been dealt with once the shutdown has passed it.
PolarityInv ==
    /\ \A a \in di_changed : di_orig[a] = found[a].di
    /\ pc = "write_di" => \A a \in Axes : di_orig[a] = found[a].di
    /\ pc \in BeforePolarity => \A a \in Axes : drive[a].di = found[a].di
    /\ pc # "closed" => \A a \in Axes : drive[a].di # found[a].di =>
                            /\ di_orig[a] = found[a].di
                            /\ a \in di_changed \/ a \in told
    /\ \A a \in di_changed :
          pc \in AfterPolarity \/ (pc = "restore_di" /\ a < cur) => a \in told

BusInv == BusTypes /\ TablesInv /\ PolarityInv
-------------------------------------------------------------------------------
(* Polarity. *)

\* Axes are numbers from one on.
LEMMA AxesAreNumbers ==
    /\ N \in Nat /\ 1 \in Axes
    /\ \A a \in Axes : a \in Int /\ a >= 1 /\ a <= N /\ (a < N => a + 1 \in Axes)
BY BusAssumption DEF Axes

\* Going to the next axis or on to the next phase stays with the axes.
LEMMA NextAxisIsAxis ==
    ASSUME cur \in Axes, NEW p, NEW q, NextAxis(p, q)
    PROVE  /\ cur' \in Axes /\ dir' = "rx" /\ todo' = <<>> /\ sent' = 0
           /\ \/ cur < N /\ pc' = p /\ cur' = cur + 1
              \/ cur = N /\ pc' = q /\ cur' = 1
BY AxesAreNumbers DEF NextAxis, Goto, Queue

\* Whatever of a drive is written, the rest of it stays.
LEMMA OnlyThat ==
    ASSUME NEW f \in [Axes -> Box], NEW c \in Axes, NEW x, NEW o, NEW g,
           \/ g = [f EXCEPT ![c].al = x]
           \/ g = [f EXCEPT ![c].obj[o] = x]
    PROVE  \A a \in Axes : g[a].di = f[a].di
<1>1. \A r \in Box : [r EXCEPT !.al = x].di = r.di
    BY DEF Box
<1>2. \A r \in Box : [r EXCEPT !.obj[o] = x].di = r.di
    BY DEF Box
<1>3. \A a \in Axes : a # c => g[a] = f[a]
    OBVIOUS
<1>4. g[c] = [f[c] EXCEPT !.al = x] \/ g[c] = [f[c] EXCEPT !.obj[o] = x]
    OBVIOUS
<1>5. f[c] \in Box
    OBVIOUS
<1>6. g[c].di = f[c].di
    <2>1. CASE g[c] = [f[c] EXCEPT !.al = x]
        BY <1>1, <1>5, <2>1
    <2>2. CASE g[c] = [f[c] EXCEPT !.obj[o] = x]
        BY <1>2, <1>5, <2>2
    <2> QED
        BY <1>4, <2>1, <2>2
<1> QED
    BY <1>3, <1>6

\* An axis whose polarity must have been dealt with.
Past(a) == pc \in AfterPolarity \/ (pc = "restore_di" /\ a < cur)

\* A step that has nothing to do with the polarity and comes no nearer to the end
\* of its restoring keeps the invariant.
LEMMA PolarityRests ==
    ASSUME PolarityInv, UNCHANGED <<di_orig, di_changed, found, told>>,
           di_changed \subseteq Axes,
           \A a \in Axes : drive'[a].di = drive[a].di,
           pc # "closed", pc' # "write_di",
           pc' \in BeforePolarity => pc \in BeforePolarity,
           \A a \in Axes : Past(a)' => Past(a)
    PROVE  PolarityInv'
<1>1. \A a \in Axes : drive'[a].di # found'[a].di =>
             di_orig'[a] = found'[a].di /\ (a \in di_changed' \/ a \in told')
    BY DEF PolarityInv
<1>2. \A a \in di_changed' : Past(a)' => a \in told'
    <2>1. \A a \in di_changed : Past(a) => a \in told
        BY DEF PolarityInv, Past
    <2> QED
        BY <2>1
<1>3. pc' \in BeforePolarity => \A a \in Axes : drive'[a].di = found'[a].di
    BY DEF PolarityInv
<1> QED
    BY <1>1, <1>2, <1>3 DEF PolarityInv, Past

\* Every step keeps what is known of the polarities.
LEMMA PolarityKept == BusInv /\ [Next]_vars => PolarityInv'
<1> SUFFICES ASSUME BusInv, [Next]_vars PROVE PolarityInv'
    OBVIOUS
<1> USE DEF BeforePolarity, AfterPolarity
<1>a. PolarityInv /\ cur \in Axes /\ drive \in [Axes -> Box] /\ di_changed \subseteq Axes
    BY DEF BusInv, BusTypes, DriveTypes, WorkTypes, HeldTypes
<1>b. ASSUME pc' = "restore_di", cur' = 1 PROVE \A a \in Axes : ~Past(a)'
    BY <1>b, AxesAreNumbers DEF Past
<1>1. CASE em_open
    <2>1. \A a \in Axes : drive'[a].di = drive[a].di /\ found'[a].di = drive[a].di
        BY <1>1, <1>a DEF em_open, Box
    <2>2. pc' = "gate" /\ di_changed' = {}
        BY <1>1 DEF em_open, Forgotten
    <2> QED
        BY <2>1, <2>2 DEF PolarityInv
<1>2. CASE Gate \/ Discover \/ MapEnsure \/ MapWritten \/ MapGroup \/ Bind
    <2>1. UNCHANGED <<drive, di_orig, di_changed, found, told>>
        BY <1>2 DEF Gate, Discover, MapEnsure, MapWritten, MapGroup, Bind, held
    <2>2. pc \in BeforePolarity
        BY <1>2 DEF Gate, Discover, MapEnsure, MapWritten, MapGroup, Bind
    <2>3. pc' \in BeforePolarity \/ (pc' = "restore_di" /\ cur' = 1)
        BY <1>2 DEF Gate, Discover, MapEnsure, MapWritten, MapGroup, Bind, Ensured, NextAxis, Goto, Teardown
    <2>4. \A a \in Axes : ~Past(a)'
        BY <2>3, <1>b DEF Past
    <2> QED
        BY <1>a, <2>1, <2>2, <2>3, <2>4, PolarityRests
<1>3. CASE SdoWrite
    <2>1. UNCHANGED <<di_orig, di_changed, found, told>> /\ pc \in {"write", "unwrite"}
        BY <1>3 DEF SdoWrite
    <2>2. drive' = drive \/ \E o, x : drive' = [drive EXCEPT ![cur].obj[o] = x]
        BY <1>3 DEF SdoWrite
    <2>3. \A a \in Axes : drive'[a].di = drive[a].di
        BY <1>a, <2>2, OnlyThat
    <2>4. pc' = pc \/ (pc = "write" /\ pc' = "restore_di" /\ cur' = 1)
        BY <1>3 DEF SdoWrite, Teardown, Goto
    <2>5. \A a \in Axes : Past(a)' => Past(a)
        BY <2>1, <2>4, <1>b DEF Past
    <2> QED
        BY <1>a, <2>1, <2>3, <2>4, <2>5, PolarityRests
<1>4. CASE SafeOp \/ em_enter_op
    <2>1. UNCHANGED <<di_orig, di_changed, found, told>> /\ pc \in {"safe", "op"}
        BY <1>4 DEF SafeOp, em_enter_op, held
    <2>2. drive' = drive \/ \E x : drive' = [drive EXCEPT ![cur].al = x]
        BY <1>4 DEF SafeOp, em_enter_op, Reaches, Balks
    <2>3. \A a \in Axes : drive'[a].di = drive[a].di
        BY <1>a, <2>2, OnlyThat
    <2>4. pc' \in {pc, "running"} \/ (pc = "safe" /\ pc' = "polarity") \/ (pc' = "restore_di" /\ cur' = 1)
        BY <1>4 DEF SafeOp, em_enter_op, NextAxis, Goto, Teardown
    <2>5. \A a \in Axes : ~Past(a)'
        BY <2>1, <2>4, <1>b DEF Past
    <2> QED
        BY <1>a, <2>1, <2>3, <2>4, <2>5, PolarityRests
<1>5. CASE ReadPolarity
    <2>1. UNCHANGED <<drive, di_changed, found, told>> /\ pc = "polarity"
        BY <1>5 DEF ReadPolarity
    <2>2. \/ pc' = "op" /\ \A a \in Axes : drive[a].di = found[a].di
          \/ pc' = "write_di" /\ di_orig' = [a \in Axes |-> drive[a].di]
        BY <1>a, <1>5 DEF ReadPolarity, Goto, PolarityInv
    <2>3. \A a \in di_changed : di_orig'[a] = found[a].di
        BY <1>a, <1>5 DEF ReadPolarity, PolarityInv
    <2> QED
        BY <1>a, <2>1, <2>2, <2>3 DEF PolarityInv
<1>6. CASE WritePolarity
    <2>1. UNCHANGED <<di_orig, found>> /\ pc = "write_di" /\ pc' \in {"write_di", "op"}
        BY <1>6 DEF WritePolarity, NextAxis, Goto
    <2>2. \A a \in Axes : a # cur => drive'[a] = drive[a]
        BY <1>a, <1>6 DEF WritePolarity, Confirmed, Unconfirmed, Polarity
    <2>3. \/ UNCHANGED <<drive, di_changed, told>>
          \/ di_changed' = di_changed \union {cur} /\ told' = told
          \/ told' = told \union {cur} /\ di_changed' = di_changed
        BY <1>6 DEF WritePolarity
    <2> QED
        BY <1>a, <2>1, <2>2, <2>3 DEF PolarityInv
<1>7. CASE Disconnect \/ RestoreMap \/ MapRestored
    <2>1. UNCHANGED <<drive, di_orig, di_changed, found, told>>
        BY <1>7 DEF Disconnect, RestoreMap, MapRestored, held
    <2>2. \/ pc = "running" /\ pc' = "restore_di" /\ cur' = 1
          \/ pc \in AfterPolarity /\ pc' \in AfterPolarity
        BY <1>7 DEF Disconnect, RestoreMap, MapRestored, Teardown, NextAxis, Goto
    <2>3. \A a \in Axes : Past(a)' => Past(a)
        BY <2>2, <1>b DEF Past
    <2> QED
        BY <1>a, <2>1, <2>2, <2>3, PolarityRests
<1>8. CASE RestorePolarity
    <2>1. UNCHANGED <<di_orig, found>> /\ pc = "restore_di"
        BY <1>8 DEF RestorePolarity
    <2>2. \A a \in Axes : a # cur => drive'[a] = drive[a]
        BY <1>a, <1>8 DEF RestorePolarity, Confirmed, Unconfirmed, Polarity
    <2>3. \/ UNCHANGED <<drive, di_changed, told>> /\ cur \notin di_changed
          \/ di_changed' = di_changed \ {cur} /\ told' = told /\ drive'[cur].di = di_orig[cur] /\ cur \in di_changed
          \/ told' = told \union {cur} /\ di_changed' = di_changed /\ cur \in di_changed
        BY <1>a, <1>8 DEF RestorePolarity, Restorable, Confirmed, Polarity, Box
    <2>4. pc' \in {"restore_di", "restore_map", "lower"} /\ \A a \in Axes : Past(a)' => a <= cur
        <3>1. \/ pc' = "restore_di" /\ cur' = cur + 1
              \/ pc' \in {"restore_map", "lower"} /\ cur = N
            BY <1>8 , <1>a, AxesAreNumbers DEF RestorePolarity, NextAxis, Goto, Axes
        <3>2. \A a \in Axes : a \in Int /\ a <= N
            BY AxesAreNumbers
        <3> QED
            BY <1>a, <3>1, <3>2 DEF Past
    <2>5. \A a \in di_changed' : a \in told' \/ (a # cur /\ a \in di_changed)
        BY <2>3
    <2>6. \A a \in di_changed' : Past(a)' => a \in told'
        <3>1. SUFFICES ASSUME NEW a \in di_changed', Past(a)', a # cur, a \in di_changed PROVE a \in told'
            BY <2>5
        <3>2. a \in Axes /\ a < cur
            BY <1>a, <2>4, <3>1, AxesAreNumbers
        <3> QED
            BY <1>a, <2>1, <2>3, <3>1, <3>2 DEF PolarityInv
    <2>7. \A a \in Axes : drive'[a].di # found'[a].di =>
             di_orig'[a] = found'[a].di /\ (a \in di_changed' \/ a \in told')
        BY <1>a, <2>1, <2>2, <2>3 DEF PolarityInv
    <2> QED
        BY <1>a, <2>1, <2>3, <2>4, <2>6, <2>7 DEF PolarityInv, Past
<1>9. CASE Lower \/ Killed
    <2>1. pc' = "closed" /\ di_changed' = {}
        BY <1>9 DEF Lower, Killed, Forgotten
    <2> QED
        BY <2>1 DEF PolarityInv
<1>10. CASE UNCHANGED vars
    BY <1>a, <1>10 DEF vars, held, PolarityInv
<1> QED
    BY <1>1, <1>2, <1>3, <1>4, <1>5, <1>6, <1>7, <1>8, <1>9, <1>10 DEF Next, Connecting, em_shutdown
-------------------------------------------------------------------------------
(* Types. *)

\* What an entry is.
LEMMA EntriesAreFields == \A o \in Objects : EntriesOf(o) \subseteq Fields
<1>1. \A o \in {"1600h", "1601h", "1A00h"} : Entry(o) \in Fields
    BY DEF Fields, Names, Objects, Entry, Field
<1>2. TablesOf["rx"] \subseteq {"1600h", "1601h", "1A00h"} /\ TablesOf["tx"] \subseteq {"1600h", "1601h", "1A00h"}
    BY DEF TablesOf
<1> QED
    BY <1>1, <1>2 DEF EntriesOf

\* A sequence over a smaller set is one over a larger.
LEMMA LargerSeq ==
    ASSUME NEW S, NEW T, S \subseteq T, NEW q \in Seq(S)
    PROVE  q \in Seq(T)
OBVIOUS

\* What an object holds is a table of its entries.
LEMMA ContentIsTable ==
    ASSUME NEW o \in Objects, NEW x \in [n : Nat, e : Seq(Fields)], Sound(o, x)
    PROVE  Content(x) \in Seq(EntriesOf(o)) /\ Content(x) \in Seq(Fields)
<1>1. SubSeq(x.e, 1, x.n) \in Seq(EntriesOf(o))
    <2>1. \A i \in 1 .. x.n : i \in 1 .. Len(x.e)
        BY DEF Sound
    <2>2. \A i \in 1 .. x.n : x.e[i] \in EntriesOf(o)
        BY <2>1, ElementOfSeq DEF Sound
    <2> QED
        BY <2>1, <2>2, SubSeqProperties DEF Sound
<1> QED
    BY <1>1, EntriesAreFields, LargerSeq DEF Content

\* An SDO that is accepted leaves an object sound.
LEMMA WrittenIsSound ==
    ASSUME NEW o \in Objects, NEW x \in [n : Nat, e : Seq(Fields)], Sound(o, x),
           NEW t \in Seq(EntriesOf(o)), NEW k \in Nat,
           IF Sdo(t, k).sub = 0 THEN Sdo(t, k).v <= Len(x.e)
           ELSE x.n = 0 /\ Sdo(t, k).sub <= Len(x.e) + 1
    PROVE  Written(x, Sdo(t, k)) \in [n : Nat, e : Seq(Fields)] /\ Sound(o, Written(x, Sdo(t, k)))
<1> DEFINE w == Sdo(t, k)
           y == Written(x, w)
<1>a. \A q : [x EXCEPT !.e = q] = [n |-> x.n, e |-> q] /\ [x EXCEPT !.n = q] = [n |-> q, e |-> x.e]
    OBVIOUS
<1>b. w.sub = 0 => y = [x EXCEPT !.n = w.v]
    BY DEF Written
<1>c. w.sub # 0 => y = [x EXCEPT !.e = IF w.sub \in DOMAIN x.e THEN [x.e EXCEPT ![w.sub] = w.v]
                                      ELSE Append(x.e, w.v)]
    BY DEF Written
<1>1. CASE k \in DOMAIN t
    <2> HIDE DEF y
    <2>1. w.sub = k /\ w.v = t[k] /\ k >= 1 /\ t[k] \in EntriesOf(o)
        BY <1>1 DEF Sdo
    <2>2. y.n = 0 /\ x.n = 0
        BY <1>a, <1>b, <1>c, <2>1
    <2>3. CASE k \in DOMAIN x.e
        <3>2. y = [n |-> 0, e |-> [x.e EXCEPT ![k] = t[k]]]
            BY <1>a, <1>b, <1>c, <2>1, <2>2, <2>3
        <3>3. [x.e EXCEPT ![k] = t[k]] \in Seq(EntriesOf(o)) /\ Len([x.e EXCEPT ![k] = t[k]]) = Len(x.e)
            BY <2>1, <2>3, ExceptSeq DEF Sound
        <3> QED
            BY <3>2, <3>3, EntriesAreFields, LargerSeq DEF Sound, y
    <2>4. CASE k \notin DOMAIN x.e
        <3>2. y = [n |-> 0, e |-> Append(x.e, t[k])]
            BY <1>a, <1>b, <1>c, <2>1, <2>2, <2>4
        <3>3. Append(x.e, t[k]) \in Seq(EntriesOf(o)) /\ Len(Append(x.e, t[k])) = Len(x.e) + 1
            BY <2>1 DEF Sound
        <3> QED
            BY <3>2, <3>3, EntriesAreFields, LargerSeq DEF Sound, y
    <2> QED
        BY <2>3, <2>4
<1>2. CASE k \notin DOMAIN t
    <2>1. w.sub = 0 /\ w.v \in Nat /\ w.v <= Len(x.e)
        BY <1>2 DEF Sdo
    <2>2. y = [n |-> w.v, e |-> x.e]
        BY <2>1 DEF Written
    <2> QED
        BY <2>1, <2>2 DEF Sound
<1> QED
    BY <1>1, <1>2

\* What is needed is a table, and so is every part of it that is found missing.
LEMMA PartsAreTables == \A d \in Directions : Parts[d] \subseteq Seq(Fields)
<1>1. \A d \in Directions : Need[d] \in Seq(Fields)
    <2>1. /\ {Field("control", 16), Field("target_pos", 32), Field("target_vel", 32)} \subseteq Fields
          /\ {Field("status", 16), Field("act_pos", 32), Field("act_vel", 32)} \subseteq Fields
          /\ {Field("dig_in", 32), Field("err_code", 16)} \subseteq Fields
        BY DEF Field, Fields, Names
    <2>2. Need["rx"] \in Seq(Fields)
        BY <2>1 DEF Need
    <2>3. Need["tx"] \in Seq(Fields)
        <3>1. /\ <<Field("status", 16), Field("act_pos", 32), Field("act_vel", 32)>> \in Seq(Fields)
              /\ (IF WantDigIn THEN <<Field("dig_in", 32)>> ELSE <<>>) \in Seq(Fields)
              /\ <<Field("err_code", 16)>> \in Seq(Fields)
            BY <2>1
        <3> QED
            BY <3>1, ConcatProperties DEF Need
    <2> QED
        BY <2>2, <2>3 DEF Directions
<1> SUFFICES ASSUME NEW d \in Directions, NEW m \in Parts[d] PROVE m \in Seq(Fields)
    OBVIOUS
<1>2. PICK n \in 0 .. Len(Need[d]) : \E pick \in [1 .. n -> DOMAIN Need[d]] :
          m = [k \in 1 .. n |-> Need[d][pick[k]]]
    BY DEF Parts
<1>3. \A i \in DOMAIN Need[d] : Need[d][i] \in Fields
    BY <1>1, ElementOfSeq
<1>4. n \in Nat
    BY <1>1
<1>5. m \in [1 .. n -> Fields]
    BY <1>2, <1>3
<1> QED
    BY <1>4, <1>5

\* Of a drive, the state, the polarity or one object is written.
LEMMA BoxWritten ==
    ASSUME NEW r \in Box
    PROVE  /\ \A x \in {"INIT", "PRE_OP", "SAFE_OP", "OP"} :
                 [r EXCEPT !.al = x] \in Box /\ [r EXCEPT !.al = x].obj = r.obj
           /\ \A x \in {"npn", "pnp"} :
                 [r EXCEPT !.di = x] \in Box /\ [r EXCEPT !.di = x].obj = r.obj
           /\ \A o \in Objects, x \in [n : Nat, e : Seq(Fields)] :
                 [r EXCEPT !.obj[o] = x] \in Box /\ [r EXCEPT !.obj[o] = x].obj = [r.obj EXCEPT ![o] = x]
BY DEF Box

\* A step that leaves all tables alone.
SameTables == \A a \in Axes, o \in Objects : TableOf(a, o)' = TableOf(a, o)

\* The tables stay as they are if every drive stays a drive with its objects.
LEMMA SameObjects ==
    ASSUME DriveTypes, drive' \in [Axes -> Box], \A a \in Axes : drive'[a].obj = drive[a].obj
    PROVE  DriveTypes' /\ SameTables
BY DEF DriveTypes, SameTables, TableOf

\* The drives stay drives, and only an SDO changes a table.
LEMMA DrivesKept == BusInv /\ [Next]_vars => DriveTypes' /\ (SameTables \/ SdoWrite)
<1> SUFFICES ASSUME BusInv, [Next]_vars PROVE DriveTypes' /\ (SameTables \/ SdoWrite)
    OBVIOUS
<1>a. DriveTypes /\ WorkTypes /\ HeldTypes /\ PolarityInv
    BY DEF BusInv, BusTypes
<1>b. drive \in [Axes -> Box] /\ cur \in Axes
    BY <1>a DEF DriveTypes, WorkTypes
<1>c. ASSUME NEW x, x \in {"INIT", "PRE_OP", "SAFE_OP", "OP"}, drive' = [drive EXCEPT ![cur].al = x]
      PROVE  DriveTypes' /\ SameTables
    <2>1. \A a \in Axes : drive'[a] = IF a = cur THEN [drive[cur] EXCEPT !.al = x] ELSE drive[a]
        BY <1>b, <1>c
    <2>2. drive' \in [Axes -> Box] /\ \A a \in Axes : drive'[a].obj = drive[a].obj
        BY <1>b, <1>c, <2>1, BoxWritten
    <2> QED
        BY <1>a, <2>2, SameObjects
<1>d. ASSUME NEW x, x \in {"npn", "pnp"}, drive' = [drive EXCEPT ![cur].di = x]
      PROVE  DriveTypes' /\ SameTables
    <2>1. \A a \in Axes : drive'[a] = IF a = cur THEN [drive[cur] EXCEPT !.di = x] ELSE drive[a]
        BY <1>b, <1>d
    <2>2. drive' \in [Axes -> Box] /\ \A a \in Axes : drive'[a].obj = drive[a].obj
        BY <1>b, <1>d, <2>1, BoxWritten
    <2> QED
        BY <1>a, <2>2, SameObjects
<1>e. ASSUME \A a \in Axes : \E x \in {"INIT", "PRE_OP", "SAFE_OP", "OP"} :
                 drive'[a] \in {drive[a], [drive[a] EXCEPT !.al = x]},
             DOMAIN drive' = Axes, drive' = [a \in Axes |-> drive'[a]]
      PROVE  DriveTypes' /\ SameTables
    <2>1. ASSUME NEW a \in Axes PROVE drive'[a].obj = drive[a].obj /\ drive'[a] \in Box
        <3>1. PICK x \in {"INIT", "PRE_OP", "SAFE_OP", "OP"} : drive'[a] \in {drive[a], [drive[a] EXCEPT !.al = x]}
            BY <1>e
        <3>2. drive[a] \in Box
            BY <1>b
        <3> QED
            BY <3>1, <3>2, BoxWritten
    <2>2. drive' \in [Axes -> Box]
        BY <1>e, <2>1
    <2> QED
        BY <1>a, <2>1, <2>2, SameObjects
<1>1. CASE em_open
    <2>1. PICK S \in SUBSET Axes :
              drive' = [a \in Axes |-> [drive[a] EXCEPT !.al = IF a \in S THEN "PRE_OP" ELSE "INIT"]]
        BY <1>1 DEF em_open
    <2> QED
        BY <1>e, <2>1
<1>2. CASE UNCHANGED drive
    BY <1>a, <1>2 DEF DriveTypes, SameTables, TableOf
<1>3. CASE SdoWrite /\ drive' # drive
    <2> DEFINE o == Head(todo).o
               t == Head(todo).t
               w == Sdo(t, sent)
               x == drive[cur].obj[o]
    <2>1. todo # <<>> /\ Accepts(cur, o, w) /\ drive' = [drive EXCEPT ![cur].obj[o] = Written(@, w)]
        BY <1>3 DEF SdoWrite
    <2>2. o \in Objects /\ t \in Seq(EntriesOf(o)) /\ sent \in Nat
        <3>1. Head(todo) \in Jobs
            BY <1>a, <2>1, HeadTailProperties DEF WorkTypes
        <3> QED
            BY <1>a, <3>1 DEF WorkTypes, Jobs
    <2>3. x \in [n : Nat, e : Seq(Fields)] /\ Sound(o, x)
        BY <1>a, <1>b, <2>2 DEF DriveTypes, Box
    <2>4. Written(x, w) \in [n : Nat, e : Seq(Fields)] /\ Sound(o, Written(x, w))
        <3>1. IF w.sub = 0 THEN w.v <= Len(x.e) ELSE x.n = 0 /\ w.sub <= Len(x.e) + 1
            BY <2>1 DEF Accepts
        <3> QED
            BY <2>2, <2>3, <3>1, WrittenIsSound
    <2> HIDE DEF o, t, w, x
    <2>5. \A a \in Axes : drive'[a] = IF a = cur THEN [drive[cur] EXCEPT !.obj[o] = Written(x, w)] ELSE drive[a]
        BY <1>b, <2>1 DEF x
    <2>6. drive' \in [Axes -> Box]
        BY <1>b, <2>1, <2>2, <2>4, <2>5, BoxWritten
    <2>7. \A a \in Axes : drive'[a].obj = IF a = cur THEN [drive[cur].obj EXCEPT ![o] = Written(x, w)] ELSE drive[a].obj
        <3>1. [drive[cur] EXCEPT !.obj[o] = Written(x, w)].obj = [drive[cur].obj EXCEPT ![o] = Written(x, w)]
            BY <1>b, <2>2, <2>4, BoxWritten
        <3> QED
            BY <2>5, <3>1
    <2>8. \A a \in Axes, p \in Objects : Sound(p, drive'[a].obj[p])
        <3> SUFFICES ASSUME NEW a \in Axes, NEW p \in Objects PROVE Sound(p, drive'[a].obj[p])
            OBVIOUS
        <3>1. drive[cur].obj \in [Objects -> [n : Nat, e : Seq(Fields)]]
            BY <1>b DEF Box
        <3> QED
            BY <1>a, <2>4, <2>7, <3>1 DEF DriveTypes
    <2> QED
        BY <1>3, <2>6, <2>8 DEF DriveTypes
<1>4. CASE SafeOp \/ em_enter_op
    BY <1>2, <1>4, <1>c DEF SafeOp, em_enter_op, Reaches, Balks
<1>5. CASE WritePolarity
    BY <1>2, <1>5, <1>d DEF WritePolarity, Confirmed, Unconfirmed, Polarity
<1>6. CASE RestorePolarity /\ drive' # drive
    <2>1. cur \in di_changed /\ drive' = [drive EXCEPT ![cur].di = di_orig[cur]]
        BY <1>6 DEF RestorePolarity, Restorable, Confirmed, Unconfirmed, Polarity
    <2>2. di_orig[cur] \in {"npn", "pnp"}
        BY <1>a, <1>b, <2>1 DEF PolarityInv, HeldTypes
    <2> QED
        BY <1>d, <2>1, <2>2
<1>7. CASE Lower
    <2>1. CASE \E S \in SUBSET Axes :
              drive' = [a \in Axes |-> IF a \in S THEN [drive[a] EXCEPT !.al = "PRE_OP"] ELSE drive[a]]
        <3>1. PICK S \in SUBSET Axes :
                  drive' = [a \in Axes |-> IF a \in S THEN [drive[a] EXCEPT !.al = "PRE_OP"] ELSE drive[a]]
            BY <2>1
        <3> QED
            BY <1>e, <3>1
    <2> QED
        BY <1>2, <1>7, <2>1 DEF Lower
<1>8. CASE Gate \/ Discover \/ MapEnsure \/ MapWritten \/ MapGroup \/ Bind \/ ReadPolarity \/ Disconnect
           \/ RestoreMap \/ MapRestored \/ Killed \/ UNCHANGED vars
    <2>1. UNCHANGED drive
        BY <1>8 DEF Gate, Discover, MapEnsure, MapWritten, MapGroup, Bind, ReadPolarity, Disconnect, RestoreMap,
                    MapRestored, Killed, vars
    <2> QED
        BY <1>2, <2>1
<1> QED
    BY <1>1, <1>2, <1>3, <1>4, <1>5, <1>6, <1>7, <1>8 DEF Next, Connecting, em_shutdown

\* An empty queue needs no more than an axis.
LEMMA NothingToDo ==
    ASSUME cur' \in Axes, dir' \in Directions, todo' = <<>>, sent' = 0
    PROVE  WorkTypes'
BY EmptySeq DEF WorkTypes

\* A job is one if its content fits its object.
LEMMA JobIsJob ==
    ASSUME NEW o \in Objects, NEW t \in Seq(EntriesOf(o))
    PROVE  Job(o, t) \in Jobs /\ <<Job(o, t)>> \in Seq(Jobs)
<1>1. t \in Seq(Fields)
    BY EntriesAreFields, LargerSeq
<1>2. Job(o, t) \in Jobs
    BY <1>1 DEF Job, Jobs
<1> QED
    BY <1>2

\* Going on to the next axis, and giving up.
LEMMA GoingOn ==
    ASSUME cur \in Axes
    PROVE  /\ \A p, q : NextAxis(p, q) => WorkTypes'
           /\ \A p, a : a \in Axes /\ Goto(p, a) => WorkTypes'
           /\ Teardown => WorkTypes'
           /\ Forgotten => WorkTypes'
<1>1. ASSUME NEW a, a \in Axes, cur' = a, dir' = "rx", todo' = <<>>, sent' = 0 PROVE WorkTypes'
    BY <1>1, NothingToDo DEF Directions
<1>2. \A p, q : NextAxis(p, q) => WorkTypes'
    BY <1>1, NextAxisIsAxis
<1>3. \A p, a : a \in Axes /\ Goto(p, a) => WorkTypes'
    BY <1>1 DEF Goto, Queue
<1>4. Teardown => WorkTypes'
    BY <1>3, AxesAreNumbers DEF Teardown
<1>5. Forgotten => WorkTypes'
    BY <1>1, AxesAreNumbers DEF Forgotten, Queue
<1> QED
    BY <1>2, <1>3, <1>4, <1>5

\* The tables of sound drives.
LEMMA TablesAreTyped ==
    ASSUME DriveTypes, NEW a \in Axes, NEW o \in Objects
    PROVE  TableOf(a, o) \in Seq(EntriesOf(o)) /\ TableOf(a, o) \in Seq(Fields)
<1>1. drive[a].obj[o] \in [n : Nat, e : Seq(Fields)] /\ Sound(o, drive[a].obj[o])
    BY DEF DriveTypes, Box
<1> QED
    BY <1>1, ContentIsTable DEF TableOf

\* What em_map_ensure writes: the object that puts a table in force, and the table
\* extended.
Extension(a, d, missing) ==
    (IF TableOf(a, AssignOf[d]) = <<>> THEN <<Job(AssignOf[d], <<Entry(pdo[a][d])>>)>> ELSE <<>>)
        \o <<Job(pdo[a][d], TableOf(a, pdo[a][d]) \o missing)>>

Extended(a, d) == {pdo[a][d], AssignOf[d]}

\* It is made of jobs about the direction at hand.
LEMMA ExtensionIsJobs ==
    ASSUME DriveTypes, HeldTypes, NEW a \in Axes, NEW d \in Directions, NEW missing \in Parts[d]
    PROVE  /\ pdo[a][d] \in Objects /\ AssignOf[d] \in Objects
           /\ Extended(a, d) \subseteq TablesOf[d] \union {AssignOf[d]}
           /\ Extension(a, d, missing) \in Seq({j \in Jobs : j.o \in Extended(a, d)})
           /\ Extension(a, d, missing) \in
                  Seq({j \in Jobs : /\ j.o \in Extended(a, d)
                                    /\ \/ TableOf(a, j.o) = <<>>
                                       \/ j.t = TableOf(a, j.o) \o missing})
<1> DEFINE o == pdo[a][d]
           assign == AssignOf[d]
           J == {j \in Jobs : /\ j.o \in Extended(a, d)
                              /\ \/ TableOf(a, j.o) = <<>>
                                 \/ j.t = TableOf(a, j.o) \o missing}
<1>1. o \in TablesOf[d] /\ o \in Objects /\ assign \in Objects
    BY DEF HeldTypes, AssignOf, Directions, Objects
<1>2. EntriesOf(o) = Fields /\ Entry(o) \in EntriesOf(assign)
    <2>1. o # "1C12h" /\ o # "1C13h"
        BY <1>1 DEF TablesOf, Directions
    <2>2. CASE d = "rx"
        BY <1>1, <2>1, <2>2 DEF EntriesOf, AssignOf
    <2>3. CASE d = "tx"
        BY <1>1, <2>1, <2>3 DEF EntriesOf, AssignOf
    <2> QED
        BY <2>2, <2>3 DEF Directions
<1>3. <<Entry(o)>> \in Seq(EntriesOf(assign))
    BY <1>2
<1>4. TableOf(a, o) \o missing \in Seq(EntriesOf(o))
    BY <1>1, <1>2, TablesAreTyped, PartsAreTables, ConcatProperties
<1>5. /\ TableOf(a, assign) = <<>> => Job(assign, <<Entry(o)>>) \in J
      /\ Job(o, TableOf(a, o) \o missing) \in J
    BY <1>1, <1>3, <1>4, JobIsJob DEF Job, Extended
<1> HIDE DEF J
<1>6. /\ TableOf(a, assign) = <<>> => <<Job(assign, <<Entry(o)>>)>> \in Seq(J)
      /\ <<Job(o, TableOf(a, o) \o missing)>> \in Seq(J)
    BY <1>5
<1>7. (IF TableOf(a, assign) = <<>> THEN <<Job(assign, <<Entry(o)>>)>> ELSE <<>>)
          \o <<Job(o, TableOf(a, o) \o missing)>> \in Seq(J)
    BY <1>6, ConcatProperties, EmptySeq
<1>8. Extension(a, d, missing) \in Seq(J)
    BY <1>7 DEF Extension
<1>9. Extension(a, d, missing) \in Seq({j \in Jobs : j.o \in Extended(a, d)})
    BY <1>8, LargerSeq DEF J
<1> QED
    BY <1>1, <1>8, <1>9 DEF Extended, J

\* The jobs that write what was found.
Originals(a) == {j \in Jobs : j.t = found[a].t[j.o]}

\* What is put back is made of jobs that write the original, from its snapshot.
LEMMA UndoIsJobs ==
    ASSUME HeldTypes, TablesInv, NEW a \in Axes
    PROVE  UndoAll(a) \in Seq(Snapped(a)) /\ UndoAll(a) \in Seq(Originals(a))
<1> DEFINE J == Snapped(a) \intersect Originals(a)
<1>1. \A p \in Objects : Undo(a, p) \in Seq(J)
    <2> SUFFICES ASSUME NEW p \in Objects, p \in changed[a] PROVE <<Job(p, snap[a][p])>> \in Seq(J)
        BY EmptySeq DEF Undo
    <2>1. SnapHolds(a, p)
        BY DEF TablesInv
    <2>2. snap[a][p] \in Seq(EntriesOf(p))
        BY <2>1 DEF SnapHolds, HeldTypes
    <2>3. Job(p, snap[a][p]) \in J
        BY <2>1, <2>2, JobIsJob DEF Snapped, Job, Originals, SnapHolds
    <2> HIDE DEF J
    <2> QED
        BY <2>3
<1>2. {pdo[a].tx, "1C13h", pdo[a].rx, "1C12h"} \subseteq Objects
    BY DEF HeldTypes, Objects, Directions
<1>3. UndoAll(a) \in Seq(J)
    <2> HIDE DEF J
    <2> QED
        BY <1>1, <1>2, ConcatProperties DEF UndoAll
<1> QED
    BY <1>3, LargerSeq

\* What is extended and what is put back is made of jobs.
LEMMA WorkKept == BusInv /\ [Next]_vars => WorkTypes'
<1> SUFFICES ASSUME BusInv, [Next]_vars PROVE WorkTypes'
    OBVIOUS
<1>a. DriveTypes /\ WorkTypes /\ HeldTypes /\ TablesInv /\ cur \in Axes /\ dir \in Directions
    BY DEF BusInv, BusTypes, WorkTypes
<1>b. CASE UNCHANGED <<cur, dir, todo, sent>>
    BY <1>a, <1>b DEF WorkTypes
<1>1. CASE em_open \/ Gate \/ Discover \/ MapGroup \/ Bind \/ SafeOp \/ ReadPolarity \/ WritePolarity \/ em_enter_op
    BY <1>1, <1>a, GoingOn, AxesAreNumbers
       DEF em_open, Gate, Discover, MapGroup, Bind, SafeOp, ReadPolarity, WritePolarity, em_enter_op
<1>2. CASE Disconnect \/ RestorePolarity \/ MapRestored \/ Lower \/ Killed
    BY <1>2, <1>a, GoingOn DEF Disconnect, RestorePolarity, MapRestored, Lower, Killed
<1>3. ASSUME Ensured PROVE WorkTypes'
    <2>1. CASE dir = "rx"
        BY <1>a, <1>3, <2>1, NothingToDo DEF Ensured, Queue, Directions
    <2> QED
        BY <1>a, <1>3, <2>1, GoingOn DEF Ensured
<1>4. CASE MapEnsure
    <2>1. PICK missing \in Parts[dir] :
              \/ Ensured
              \/ Teardown
              \/ Queue(Extension(cur, dir, missing)) /\ UNCHANGED <<cur, dir>>
        BY <1>4 DEF MapEnsure, Extension
    <2>2. Extension(cur, dir, missing) \in Seq(Jobs)
        BY <1>a, ExtensionIsJobs, LargerSeq
    <2> QED
        BY <1>a, <1>3, <2>1, <2>2, GoingOn DEF WorkTypes, Queue
<1>5. CASE SdoWrite
    <2>1. todo # <<>>
        BY <1>5 DEF SdoWrite
    <2>2. Tail(todo) \in Seq(Jobs)
        BY <1>a, <2>1, HeadTailProperties DEF WorkTypes
    <2>3. \/ Teardown
          \/ /\ UNCHANGED <<cur, dir>>
             /\ \/ todo' = Tail(todo) /\ sent' = 0
                \/ UNCHANGED todo /\ sent' = sent + 1
        BY <1>5 DEF SdoWrite, Queue
    <2> QED
        BY <1>a, <2>2, <2>3, GoingOn DEF WorkTypes
<1>6. CASE MapWritten
    BY <1>3, <1>6 DEF MapWritten
<1>7. CASE RestoreMap
    <2>3. UndoAll(cur) \in Seq(Jobs)
        BY <1>a, UndoIsJobs, LargerSeq DEF Snapped
    <2> QED
        BY <1>a, <1>7, <2>3 DEF RestoreMap, WorkTypes, Queue
<1> QED
    BY <1>b, <1>1, <1>2, <1>4, <1>5, <1>6, <1>7 DEF Next, Connecting, em_shutdown, vars

\* What a snapshot changes of what is held.
LEMMA SnapshotIs ==
    ASSUME snap \in [Axes -> [Objects -> Seq(Fields)]],
           NEW a \in Axes, NEW o \in Objects, NEW assign \in Objects,
           TableOf(a, o) \in Seq(Fields), TableOf(a, assign) \in Seq(Fields)
    PROVE  /\ Snapshot(a, o, assign) \in [Axes -> [Objects -> Seq(Fields)]]
           /\ \A b \in Axes, p \in Objects :
                 Snapshot(a, o, assign)[b][p] = IF b = a /\ p \in {o, assign} THEN TableOf(a, p) ELSE snap[b][p]
<1> DEFINE once == [snap EXCEPT ![a][o] = TableOf(a, o)]
<1>1. once \in [Axes -> [Objects -> Seq(Fields)]]
    OBVIOUS
<1>2. \A b \in Axes, p \in Objects : once[b][p] = IF b = a /\ p = o THEN TableOf(a, p) ELSE snap[b][p]
    OBVIOUS
<1>3. Snapshot(a, o, assign) = [once EXCEPT ![a][assign] = TableOf(a, assign)]
    BY DEF Snapshot
<1> HIDE DEF once
<1> QED
    BY <1>1, <1>2, <1>3

\* What is held stays of its type.
LEMMA HeldKept == BusInv /\ [Next]_vars => HeldTypes'
<1> SUFFICES ASSUME BusInv, [Next]_vars PROVE HeldTypes'
    OBVIOUS
<1>a. DriveTypes /\ WorkTypes /\ HeldTypes /\ PolarityInv /\ cur \in Axes /\ dir \in Directions
    BY DEF BusInv, BusTypes, WorkTypes
<1>b. \A a \in Axes, o \in Objects : TableOf(a, o) \in Seq(EntriesOf(o)) /\ TableOf(a, o) \in Seq(Fields)
    BY <1>a, TablesAreTyped
<1>c. ASSUME Forgotten, told' \in SUBSET Axes,
             found' \in [Axes -> [t : [Objects -> Seq(Fields)], di : {"npn", "pnp"}]],
             \A a \in Axes, o \in Objects : found'[a].t[o] \in Seq(EntriesOf(o))
      PROVE  HeldTypes'
    <2>1. pdo' \in [Axes -> [Directions -> Objects]] /\ \A a \in Axes, d \in Directions : pdo'[a][d] \in TablesOf[d]
        BY <1>c DEF Forgotten, Fallback, TablesOf, Directions, Objects
    <2>2. snap' \in [Axes -> [Objects -> Seq(Fields)]]
        <3>1. Field("none", 0) \in Fields
            BY DEF Field, Fields, Names
        <3>2. NoTable \in Seq(Fields)
            BY <3>1 DEF NoTable
        <3> QED
            BY <1>c, <3>2 DEF Forgotten
    <2>3. changed' \in [Axes -> SUBSET Objects] /\ di_orig' \in [Axes -> {"npn", "pnp", Unread}] /\ di_changed' \in SUBSET Axes
        BY <1>c DEF Forgotten
    <2> QED
        BY <1>c, <2>1, <2>2, <2>3 DEF HeldTypes
<1>1. CASE em_open
    <2>1. found' = [a \in Axes |-> [t |-> [o \in Objects |-> TableOf(a, o)], di |-> drive[a].di]]
        BY <1>1 DEF em_open
    <2>2. \A a \in Axes : drive[a].di \in {"npn", "pnp"}
        BY <1>a DEF DriveTypes, Box
    <2>3. found' \in [Axes -> [t : [Objects -> Seq(Fields)], di : {"npn", "pnp"}]]
        BY <1>b, <2>1, <2>2
    <2>4. \A a \in Axes, o \in Objects : found'[a].t[o] \in Seq(EntriesOf(o))
        BY <1>b, <2>1
    <2> QED
        BY <1>1, <1>c, <2>3, <2>4 DEF em_open
<1>2. CASE Lower \/ Killed
    BY <1>2, <1>a, <1>c DEF Lower, Killed, HeldTypes
<1>3. CASE Discover
    <2>1. /\ UNCHANGED <<snap, changed, di_orig, di_changed, told, found>>
          /\ \/ UNCHANGED pdo
             \/ pdo' = [pdo EXCEPT ![cur] =
                   [d \in Directions |-> IF TableOf(cur, AssignOf[d]) = <<>> THEN Fallback[d]
                                         ELSE TableOf(cur, AssignOf[d])[1].name]]
        BY <1>3 DEF Discover
    <2>2. ASSUME NEW d \in Directions, TableOf(cur, AssignOf[d]) # <<>>
          PROVE  TableOf(cur, AssignOf[d])[1].name \in TablesOf[d]
        <3>1. AssignOf[d] \in Objects /\ EntriesOf(AssignOf[d]) = {Entry(t) : t \in TablesOf[d]}
            BY DEF AssignOf, Objects, EntriesOf, Directions
        <3>2. TableOf(cur, AssignOf[d]) \in Seq({Entry(t) : t \in TablesOf[d]})
            BY <1>a, <1>b, <3>1
        <3>3. TableOf(cur, AssignOf[d])[1] \in {Entry(t) : t \in TablesOf[d]}
            BY <2>2, <3>2
        <3>4. PICK t \in TablesOf[d] : TableOf(cur, AssignOf[d])[1] = Entry(t)
            BY <3>3
        <3>5. Entry(t).name = t
            BY DEF Entry, Field
        <3> QED
            BY <3>4, <3>5
    <2>3. \A d \in Directions : Fallback[d] \in TablesOf[d] /\ TablesOf[d] \subseteq Objects
        BY DEF Fallback, TablesOf, Directions, Objects
    <2> QED
        <3>1. pdo \in [Axes -> [Directions -> Objects]] /\ \A a \in Axes, d \in Directions : pdo[a][d] \in TablesOf[d]
            BY <1>a DEF HeldTypes
        <3>2. pdo' \in [Axes -> [Directions -> Objects]] /\ \A a \in Axes, d \in Directions : pdo'[a][d] \in TablesOf[d]
            <4>1. CASE UNCHANGED pdo
                BY <3>1, <4>1
            <4>2. CASE pdo' = [pdo EXCEPT ![cur] =
                          [d \in Directions |-> IF TableOf(cur, AssignOf[d]) = <<>> THEN Fallback[d]
                                                ELSE TableOf(cur, AssignOf[d])[1].name]]
                <5> DEFINE new == [d \in Directions |-> IF TableOf(cur, AssignOf[d]) = <<>> THEN Fallback[d]
                                                        ELSE TableOf(cur, AssignOf[d])[1].name]
                <5>1. new \in [Directions -> Objects] /\ \A d \in Directions : new[d] \in TablesOf[d]
                    BY <2>2, <2>3
                <5>2. pdo' = [pdo EXCEPT ![cur] = new]
                    BY <4>2
                <5> HIDE DEF new
                <5> QED
                    BY <1>a, <3>1, <5>1, <5>2
            <4> QED
                BY <2>1, <4>1, <4>2
        <3> QED
            BY <1>a, <2>1, <3>2 DEF HeldTypes
<1>4. CASE MapEnsure
    <2>1. /\ UNCHANGED <<pdo, changed, di_orig, di_changed, told, found>>
          /\ UNCHANGED snap \/ snap' = Snapshot(cur, pdo[cur][dir], AssignOf[dir])
        BY <1>4 DEF MapEnsure
    <2>2. pdo[cur][dir] \in Objects /\ AssignOf[dir] \in Objects
        BY <1>a DEF HeldTypes, AssignOf, Directions, Objects
    <2>3. snap' \in [Axes -> [Objects -> Seq(Fields)]]
        BY <1>a, <1>b, <2>1, <2>2, SnapshotIs DEF HeldTypes
    <2> QED
        BY <1>a, <2>1, <2>3 DEF HeldTypes
<1>5. CASE SdoWrite
    <2>1. /\ UNCHANGED <<pdo, snap, di_orig, di_changed, told, found>>
          /\ UNCHANGED changed \/ changed' = [changed EXCEPT ![cur] = @ \cup {Head(todo).o}]
          /\ todo # <<>>
        BY <1>5 DEF SdoWrite
    <2>2. Head(todo).o \in Objects
        BY <1>a, <2>1, HeadTailProperties DEF WorkTypes, Jobs
    <2>3. changed' \in [Axes -> SUBSET Objects]
        <3>1. changed \in [Axes -> SUBSET Objects]
            BY <1>a DEF HeldTypes
        <3>2. \A o \in Objects : [changed EXCEPT ![cur] = @ \cup {o}] \in [Axes -> SUBSET Objects]
            BY <1>a, <3>1
        <3> QED
            BY <2>1, <2>2, <3>1, <3>2
    <2> QED
        BY <1>a, <2>1, <2>3 DEF HeldTypes
<1>6. CASE ReadPolarity
    <2>1. /\ UNCHANGED <<pdo, snap, changed, di_changed, told, found>>
          /\ \/ UNCHANGED di_orig
             \/ di_orig' = [a \in Axes |-> drive[a].di]
             \/ \E k \in Axes : di_orig' = [a \in Axes |-> IF a < k THEN drive[a].di ELSE di_orig[a]]
        BY <1>6 DEF ReadPolarity
    <2>2. \A a \in Axes : drive[a].di \in {"npn", "pnp"}
        BY <1>a DEF DriveTypes, Box
    <2> QED
        BY <1>a, <2>1, <2>2 DEF HeldTypes
<1>7. CASE WritePolarity \/ RestorePolarity
    <2>1. /\ UNCHANGED <<pdo, snap, changed, di_orig, found>>
          /\ di_changed' \subseteq di_changed \union {cur} /\ told' \subseteq told \union {cur}
        BY <1>7 DEF WritePolarity, RestorePolarity
    <2> QED
        BY <1>a, <2>1 DEF HeldTypes
<1>8. CASE Gate \/ MapWritten \/ MapGroup \/ Bind \/ SafeOp \/ em_enter_op \/ Disconnect \/ RestoreMap \/ MapRestored
           \/ UNCHANGED vars
    <2>1. UNCHANGED <<pdo, snap, changed, di_orig, di_changed, told, found>>
        BY <1>8 DEF Gate, MapWritten, MapGroup, Bind, SafeOp, em_enter_op, Disconnect, RestoreMap, MapRestored, vars, held
    <2> QED
        BY <1>a, <2>1 DEF HeldTypes
<1> QED
    BY <1>1, <1>2, <1>3, <1>4, <1>5, <1>6, <1>7, <1>8 DEF Next, Connecting, em_shutdown

-------------------------------------------------------------------------------
(* Tables. *)

\* A step that changes no table, takes no snapshot and writes nothing new to the end.
LEMMA TablesRest ==
    ASSUME TablesInv, SameTables, UNCHANGED <<snap, found, changed>>, pc # "closed",
           \A a \in Axes, o \in Objects : Untouched(a, o)' => Untouched(a, o),
           pc' \in {"write", "unwrite"} => todo' \in Seq(Snapped(cur)'),
           pc' = "write" => todo' \in Seq(About(dir)')
    PROVE  TablesInv'
<1>1. \A a \in Axes, o \in Objects : SnapHolds(a, o)' = SnapHolds(a, o)
    BY DEF SnapHolds
<1>2. \A a \in Axes, o \in Objects : TableOf(a, o)' # found'[a].t[o] => SnapHolds(a, o)'
    BY <1>1 DEF TablesInv, SameTables
<1>3. \A a \in Axes, o \in Objects : Untouched(a, o)' => TableOf(a, o)' = found'[a].t[o]
    BY DEF TablesInv, SameTables
<1>4. \A a \in Axes : \A o \in changed'[a] : SnapHolds(a, o)'
    BY DEF TablesInv, SnapHolds
<1> QED
    BY <1>2, <1>3, <1>4 DEF TablesInv

\* With nothing to write and no axis left to extend, two conditions remain.
LEMMA TablesDone ==
    ASSUME pc' \notin {"gate", "discover", "ensure", "write", "unwrite"},
           pc' # "closed" => \A a \in Axes, o \in Objects : TableOf(a, o)' # found'[a].t[o] => SnapHolds(a, o)',
           \A a \in Axes : \A o \in changed'[a] : SnapHolds(a, o)'
    PROVE  TablesInv'
BY DEF TablesInv, Untouched

\* em_map_ensure has done with a direction: what is still untouched was so before.
LEMMA EnsuredIsPast ==
    ASSUME Ensured, cur \in Axes, dir \in Directions, pc \in {"ensure", "write"}
    PROVE  /\ \A a \in Axes, o \in Objects : Untouched(a, o)' => Untouched(a, o)
           /\ pc' \in {"ensure", "discover", "group"}
<1>1. CASE dir = "rx"
    <2>1. pc' = "ensure" /\ dir' = "tx" /\ cur' = cur
        BY <1>1 DEF Ensured
    <2> QED
        BY <1>1, <2>1 DEF Untouched
<1>2. CASE dir # "rx"
    <2>1. (pc' = "discover" /\ cur' = cur + 1) \/ pc' = "group"
        BY <1>2, NextAxisIsAxis DEF Ensured
    <2>2. \A a \in Axes : a >= cur + 1 => a > cur
        BY AxesAreNumbers
    <2> QED
        BY <2>1, <2>2 DEF Untouched
<1> QED
    BY <1>1, <1>2

\* Every step keeps what is known of the tables.
LEMMA TablesKept == BusInv /\ [Next]_vars => TablesInv'
<1> SUFFICES ASSUME BusInv, [Next]_vars PROVE TablesInv'
    OBVIOUS
<1>a. DriveTypes /\ WorkTypes /\ HeldTypes /\ TablesInv /\ cur \in Axes /\ dir \in Directions /\ todo \in Seq(Jobs)
    BY DEF BusInv, BusTypes, WorkTypes
<1>b. SameTables \/ SdoWrite
    BY DrivesKept
<1>1. CASE em_open
    <2>1. /\ found' = [a \in Axes |-> [t |-> [o \in Objects |-> TableOf(a, o)], di |-> drive[a].di]]
          /\ pc' = "gate" /\ changed' = [a \in Axes |-> {}]
        BY <1>1 DEF em_open, Forgotten
    <2>2. SameTables
        BY <1>1, <1>b DEF em_open, SdoWrite
    <2>3. \A a \in Axes, o \in Objects : TableOf(a, o)' = found'[a].t[o]
        BY <2>1, <2>2 DEF SameTables
    <2> QED
        BY <2>1, <2>3 DEF TablesInv
<1>2. CASE Gate \/ Discover
    <2>1. /\ UNCHANGED <<snap, found, changed>> /\ pc \in {"gate", "discover"}
          /\ \/ pc' = "restore_di"
             \/ pc = "gate" /\ pc' = "discover"
             \/ pc = "discover" /\ pc' = "ensure" /\ cur' = cur
        BY <1>2 DEF Gate, Discover, held, Goto, Teardown
    <2>2. cur \in Int /\ \A a \in Axes : a \in Int
        BY <1>a, AxesAreNumbers
    <2>3. cur >= cur /\ \A a \in Axes : a > cur => a >= cur
        BY <2>2
    <2>4. \A a \in Axes, o \in Objects : Untouched(a, o)' => Untouched(a, o)
        BY <2>1, <2>2, <2>3 DEF Untouched
    <2> QED
        BY <1>a, <1>b, <2>1, <2>4, TablesRest DEF SdoWrite
<1>3. CASE MapEnsure
    <2> DEFINE E == Extended(cur, dir)
    <2>1. /\ UNCHANGED <<found, changed>> /\ pc = "ensure" /\ SameTables
          /\ \E missing \in Parts[dir] :
              \/ (Ensured \/ Teardown) /\ UNCHANGED snap
              \/ /\ Queue(Extension(cur, dir, missing)) /\ UNCHANGED <<cur, dir>> /\ pc' = "write"
                 /\ snap' = Snapshot(cur, pdo[cur][dir], AssignOf[dir])
        BY <1>3, <1>b DEF MapEnsure, SdoWrite, Extension
    <2>2. CASE (Ensured \/ Teardown) /\ UNCHANGED snap
        <3>1. \/ Ensured
              \/ pc' = "restore_di"
            BY <2>2 DEF Teardown, Goto
        <3>2. /\ \A a \in Axes, p \in Objects : Untouched(a, p)' => Untouched(a, p)
              /\ pc' \notin {"write", "unwrite"}
            BY <1>a, <2>1, <3>1, EnsuredIsPast DEF Untouched
        <3> QED
            BY <1>a, <2>1, <2>2, <3>2, TablesRest
    <2>3. ASSUME NEW missing \in Parts[dir],
                 Queue(Extension(cur, dir, missing)), UNCHANGED <<cur, dir>>, pc' = "write",
                 snap' = Snapshot(cur, pdo[cur][dir], AssignOf[dir])
          PROVE  TablesInv'
        <3>1. /\ pdo[cur][dir] \in Objects /\ AssignOf[dir] \in Objects
              /\ E \subseteq TablesOf[dir] \union {AssignOf[dir]} /\ E \subseteq Objects
              /\ todo' \in Seq({j \in Jobs : j.o \in E})
            <4>1. todo' = Extension(cur, dir, missing)
                BY <2>3 DEF Queue
            <4>2. E = {pdo[cur][dir], AssignOf[dir]}
                BY DEF Extended
            <4> QED
                BY <1>a, <4>1, <4>2, ExtensionIsJobs
        <3>2. \A a \in Axes, p \in Objects :
                  snap'[a][p] = IF a = cur /\ p \in E THEN TableOf(a, p) ELSE snap[a][p]
            <4>1. snap \in [Axes -> [Objects -> Seq(Fields)]]
                BY <1>a DEF HeldTypes
            <4>2. TableOf(cur, pdo[cur][dir]) \in Seq(Fields) /\ TableOf(cur, AssignOf[dir]) \in Seq(Fields)
                BY <1>a, <3>1, TablesAreTyped
            <4>3. E = {pdo[cur][dir], AssignOf[dir]}
                BY DEF Extended
            <4>4. \A a \in Axes, p \in Objects :
                      Snapshot(cur, pdo[cur][dir], AssignOf[dir])[a][p] =
                          IF a = cur /\ p \in {pdo[cur][dir], AssignOf[dir]} THEN TableOf(a, p) ELSE snap[a][p]
                <5> DEFINE o == pdo[cur][dir]
                           assign == AssignOf[dir]
                <5>1. o \in Objects /\ assign \in Objects /\ TableOf(cur, o) \in Seq(Fields) /\ TableOf(cur, assign) \in Seq(Fields)
                    BY <3>1, <4>2
                <5> HIDE DEF o, assign
                <5>2. \A a \in Axes, p \in Objects : Snapshot(cur, o, assign)[a][p] =
                          IF a = cur /\ p \in {o, assign} THEN TableOf(cur, p) ELSE snap[a][p]
                    BY <1>a, <4>1, <5>1, SnapshotIs
                <5> QED
                    BY <5>2 DEF o, assign
            <4> HIDE DEF E
            <4> QED
                BY <2>3, <4>3, <4>4
        <3>3. \A p \in E : Untouched(cur, p)
            <4>1. CASE dir = "rx"
                BY <2>1, <4>1 DEF Untouched
            <4>2. CASE dir = "tx"
                BY <2>1, <3>1, <4>2 DEF Untouched, TablesOf, AssignOf
            <4> QED
                BY <1>a, <4>1, <4>2 DEF Directions
        <3>4. \A p \in E : SnapHolds(cur, p)'
            <4> SUFFICES ASSUME NEW p \in E PROVE SnapHolds(cur, p)'
                OBVIOUS
            <4>1. snap'[cur][p] = TableOf(cur, p)
                BY <1>a, <3>1, <3>2
            <4>2. TableOf(cur, p) = found[cur].t[p]
                BY <1>a, <3>1, <3>3 DEF TablesInv
            <4> QED
                BY <2>1, <2>3, <4>1, <4>2 DEF SnapHolds
        <3> HIDE DEF E
        <3>5. \A a \in Axes, p \in Objects : SnapHolds(a, p) => SnapHolds(a, p)'
            BY <2>1, <3>2, <3>4 DEF SnapHolds
        <3>6. \A a \in Axes, p \in Objects : TableOf(a, p)' # found'[a].t[p] => SnapHolds(a, p)'
            BY <1>a, <2>1, <3>5 DEF TablesInv, SameTables
        <3>7. \A a \in Axes, p \in Objects : Untouched(a, p)' => TableOf(a, p)' = found'[a].t[p]
            <4>1. \A a \in Axes, p \in Objects : Untouched(a, p)' => Untouched(a, p)
                BY <2>1, <2>3 DEF Untouched
            <4> QED
                BY <1>a, <2>1, <4>1 DEF TablesInv, SameTables
        <3>8. \A a \in Axes : \A p \in changed'[a] : SnapHolds(a, p)'
            BY <1>a, <2>1, <3>5 DEF TablesInv, HeldTypes
        <3>9. todo' \in Seq(Snapped(cur)')
            <4>1. {j \in Jobs : j.o \in E} \subseteq Snapped(cur)'
                BY <2>3, <3>4 DEF Snapped
            <4> QED
                BY <3>1, <4>1, LargerSeq
        <3>10. todo' \in Seq(About(dir)')
            <4>1. {j \in Jobs : j.o \in E} \subseteq About(dir)'
                BY <2>3, <3>1 DEF About
            <4> QED
                BY <3>1, <4>1, LargerSeq
        <3> QED
            BY <2>3, <3>6, <3>7, <3>8, <3>9, <3>10 DEF TablesInv
    <2> QED
        BY <2>1, <2>2, <2>3
<1>4. CASE SdoWrite
    <2> DEFINE o == Head(todo).o
    <2>1. /\ pc \in {"write", "unwrite"} /\ todo # <<>> /\ UNCHANGED <<snap, found>>
          /\ \/ UNCHANGED drive
             \/ drive' = [drive EXCEPT ![cur].obj[o] = Written(@, Sdo(Head(todo).t, sent))]
          /\ UNCHANGED changed \/ changed' = [changed EXCEPT ![cur] = @ \cup {o}]
          /\ \/ pc' = "restore_di"
             \/ UNCHANGED <<pc, cur, dir>> /\ todo' \in {todo, Tail(todo)}
        BY <1>4 DEF SdoWrite, Queue, Teardown, Goto
    <2>2. todo \in Seq(Snapped(cur)) /\ (pc = "write" => todo \in Seq(About(dir)))
        BY <1>a, <2>1 DEF TablesInv
    <2>3. o \in Objects /\ SnapHolds(cur, o) /\ (pc = "write" => o \in TablesOf[dir] \union {AssignOf[dir]})
        BY <2>1, <2>2, HeadTailProperties DEF Snapped, About, Jobs
    <2>4. /\ Tail(todo) \in Seq(Snapped(cur))
          /\ pc = "write" => Tail(todo) \in Seq(About(dir))
        BY <2>1, <2>2, HeadTailProperties
    <2>5. \A a \in Axes, p \in Objects : TableOf(a, p)' = TableOf(a, p) \/ (a = cur /\ p = o)
        <3> SUFFICES ASSUME NEW a \in Axes, NEW p \in Objects, a # cur \/ p # o PROVE TableOf(a, p)' = TableOf(a, p)
            OBVIOUS
        <3> DEFINE new == Written(drive[cur].obj[o], Sdo(Head(todo).t, sent))
        <3>1. CASE UNCHANGED drive
            BY <3>1 DEF TableOf
        <3>2. CASE drive' = [drive EXCEPT ![cur].obj[o] = new]
            <4> HIDE DEF new, o
            <4>1. drive[cur] \in Box /\ drive \in [Axes -> Box]
                BY <1>a DEF DriveTypes
            <4>2. CASE a # cur
                BY <3>2, <4>1, <4>2 DEF TableOf
            <4>3. CASE a = cur
                <5>1. drive'[cur] = [drive[cur] EXCEPT !.obj[o] = new]
                    BY <1>a, <3>2, <4>1
                <5>2. drive'[cur].obj = [drive[cur].obj EXCEPT ![o] = new]
                    BY <4>1, <5>1 DEF Box
                <5>3. drive'[cur].obj[p] = drive[cur].obj[p]
                    BY <4>1, <4>3, <5>2 DEF Box
                <5> QED
                    BY <4>3, <5>3 DEF TableOf
            <4> QED
                BY <4>2, <4>3
        <3> QED
            BY <2>1, <3>1, <3>2
    <2>6. \A a \in Axes : \A p \in changed'[a] : p \in changed[a] \/ (a = cur /\ p = o)
        BY <1>a, <2>1 DEF HeldTypes
    <2> HIDE DEF o
    <2>7. \A a \in Axes, p \in Objects : TableOf(a, p)' # found'[a].t[p] => SnapHolds(a, p)'
        BY <1>a, <2>1, <2>3, <2>5 DEF TablesInv, SnapHolds
    <2>8. \A a \in Axes : \A p \in changed'[a] : SnapHolds(a, p)'
        BY <1>a, <2>1, <2>3, <2>6 DEF TablesInv, SnapHolds
    <2>9. CASE pc' = "restore_di"
        BY <2>7, <2>8, <2>9, TablesDone
    <2>10. CASE UNCHANGED <<pc, cur, dir>> /\ todo' \in {todo, Tail(todo)}
        <3>1. todo' \in Seq(Snapped(cur)') /\ (pc' = "write" => todo' \in Seq(About(dir)'))
            <4>1. Snapped(cur)' = Snapped(cur) /\ About(dir)' = About(dir)
                BY <2>1, <2>10 DEF Snapped, About, SnapHolds
            <4> QED
                BY <2>2, <2>4, <2>10, <4>1
        <3>2. \A a \in Axes, p \in Objects : Untouched(a, p)' => Untouched(a, p) /\ (a # cur \/ p # o)
            <4>1. \A a \in Axes, p \in Objects : Untouched(a, p)' => Untouched(a, p)
                BY <2>10 DEF Untouched
            <4>2. ASSUME NEW p, Untouched(cur, p) PROVE p # o
                <5>1. ~(cur > cur)
                    BY <1>a, AxesAreNumbers
                <5>2. dir = "rx" /\ pc = "write" /\ p \in {"1C13h", "1A00h"}
                    BY <2>1, <4>2, <5>1 DEF Untouched
                <5> QED
                    BY <2>3, <5>2 DEF TablesOf, AssignOf
            <4> QED
                BY <4>1, <4>2
        <3>3. \A a \in Axes, p \in Objects : Untouched(a, p)' => TableOf(a, p)' = found'[a].t[p]
            BY <1>a, <2>1, <2>5, <3>2 DEF TablesInv
        <3> QED
            BY <2>7, <2>8, <3>1, <3>3 DEF TablesInv
    <2> QED
        BY <2>1, <2>9, <2>10
<1>5. CASE MapWritten
    <2>1. Ensured /\ UNCHANGED <<drive, snap, found, changed>> /\ pc = "write"
        BY <1>5 DEF MapWritten
    <2>2. SameTables
        BY <2>1 DEF SameTables, TableOf
    <2> QED
        BY <1>a, <2>1, <2>2, EnsuredIsPast, TablesRest
<1>6. CASE MapGroup \/ Bind \/ SafeOp \/ ReadPolarity \/ WritePolarity \/ em_enter_op \/ Disconnect
           \/ RestorePolarity \/ MapRestored
    <2>1. UNCHANGED <<snap, found, changed>> /\ pc # "closed"
        BY <1>6 DEF MapGroup, Bind, SafeOp, ReadPolarity, WritePolarity, em_enter_op, Disconnect, RestorePolarity,
                    MapRestored, held
    <2>2. pc' \in {"bind", "safe", "polarity", "write_di", "op", "running", "restore_di", "restore_map", "lower"}
        BY <1>6 DEF MapGroup, Bind, SafeOp, ReadPolarity, WritePolarity, em_enter_op, Disconnect, RestorePolarity,
                    MapRestored, NextAxis, Goto, Teardown
    <2>3. SameTables
        BY <1>6, <1>b DEF SdoWrite, MapGroup, Bind, SafeOp, ReadPolarity, WritePolarity, em_enter_op, Disconnect,
                    RestorePolarity, MapRestored
    <2>4. \A a \in Axes, o \in Objects : ~Untouched(a, o)'
        BY <2>2 DEF Untouched
    <2> QED
        BY <1>a, <2>1, <2>2, <2>3, <2>4, TablesRest
<1>7. CASE RestoreMap
    <2>1. UNCHANGED <<drive, snap, found, changed, cur>> /\ pc = "restore_map" /\ pc' = "unwrite" /\ todo' = UndoAll(cur)
        BY <1>7 DEF RestoreMap, held, Queue
    <2>2. SameTables
        BY <2>1 DEF SameTables, TableOf
    <2>3. todo' \in Seq(Snapped(cur)')
        <3>1. Snapped(cur)' = Snapped(cur)
            BY <2>1 DEF Snapped, SnapHolds
        <3> QED
            BY <1>a, <2>1, <3>1, UndoIsJobs
    <2>4. \A a \in Axes, o \in Objects : ~Untouched(a, o)'
        BY <2>1 DEF Untouched
    <2> QED
        BY <1>a, <2>1, <2>2, <2>3, <2>4, TablesRest
<1>8. CASE Lower \/ Killed
    <2>1. pc' = "closed" /\ changed' = [a \in Axes |-> {}]
        BY <1>8 DEF Lower, Killed, Forgotten
    <2> QED
        BY <2>1, TablesDone
<1>9. CASE UNCHANGED vars
    BY <1>a, <1>9 DEF vars, held, TablesInv, Untouched, SnapHolds, Snapped, About, TableOf
<1> QED
    BY <1>1, <1>2, <1>3, <1>4, <1>5, <1>6, <1>7, <1>8, <1>9 DEF Next, Connecting, em_shutdown

-------------------------------------------------------------------------------
(* The theorems. *)

\* What is found on the bus is a drive; nothing has been done to it yet.
LEMMA BusInit == Init => BusInv
<1> SUFFICES ASSUME Init PROVE BusInv
    OBVIOUS
<1>1. DriveTypes
    <2>1. \A x \in Drive : x \in Box /\ \A o \in Objects : Sound(o, x.obj[o])
        <3>0. \A x \in Drive : x \in Box
            BY DEF Drive, Box
        <3> SUFFICES ASSUME NEW x \in Drive, NEW o \in Objects PROVE Sound(o, x.obj[o])
            BY <3>0
        <3>1. x \in Box /\ x.obj[o].n <= Len(x.obj[o].e) /\ x.obj[o].e \in Seq(Fields)
            BY DEF Drive, Box
        <3>2. CASE \E d \in Directions : o = AssignOf[d]
            <4>1. PICK d \in Directions : o = AssignOf[d]
                BY <3>2
            <4>2. EntriesOf(o) = {Entry(t) : t \in TablesOf[d]}
                BY <4>1 DEF EntriesOf, AssignOf, Directions
            <4>3. \A i \in 1 .. Len(x.obj[o].e) : x.obj[o].e[i] \in EntriesOf(o)
                BY <3>1, <4>1, <4>2 DEF Drive
            <4>4. x.obj[o].e \in Seq(EntriesOf(o))
                BY <3>1, <4>3
            <4> QED
                BY <3>1, <4>4 DEF Sound
        <3>3. CASE ~\E d \in Directions : o = AssignOf[d]
            <4>1. o # "1C12h" /\ o # "1C13h"
                BY <3>3 DEF AssignOf, Directions
            <4> QED
                BY <3>1, <4>1 DEF EntriesOf, Sound
        <3> QED
            BY <3>1, <3>2, <3>3
    <2> QED
        BY <2>1, BusAssumption DEF Init, DriveTypes
<1>2. WorkTypes
    BY AxesAreNumbers, EmptySeq DEF Init, WorkTypes, Directions
<1>3. HeldTypes
    <2>1. pdo \in [Axes -> [Directions -> Objects]] /\ \A a \in Axes, d \in Directions : pdo[a][d] \in TablesOf[d]
        BY DEF Init, Fallback, TablesOf, Directions, Objects
    <2>2. snap \in [Axes -> [Objects -> Seq(Fields)]]
        <3>1. Field("none", 0) \in Fields
            BY DEF Field, Fields, Names
        <3>2. NoTable \in Seq(Fields)
            BY <3>1 DEF NoTable
        <3> QED
            BY <3>2 DEF Init
    <2>3. /\ found \in [Axes -> [t : [Objects -> Seq(Fields)], di : {"npn", "pnp"}]]
          /\ \A a \in Axes, o \in Objects : found[a].t[o] \in Seq(EntriesOf(o))
        <3>1. found = [a \in Axes |-> [t |-> [o \in Objects |-> TableOf(a, o)], di |-> drive[a].di]]
            BY DEF Init
        <3>2. \A a \in Axes : drive[a].di \in {"npn", "pnp"}
            BY <1>1 DEF DriveTypes, Box
        <3>3. \A a \in Axes, o \in Objects : TableOf(a, o) \in Seq(EntriesOf(o)) /\ TableOf(a, o) \in Seq(Fields)
            BY <1>1, TablesAreTyped
        <3> QED
            BY <3>1, <3>2, <3>3
    <2>4. changed \in [Axes -> SUBSET Objects] /\ di_orig \in [Axes -> {"npn", "pnp", Unread}] /\ di_changed \in SUBSET Axes
             /\ told \in SUBSET Axes
        BY DEF Init
    <2> QED
        BY <2>1, <2>2, <2>3, <2>4 DEF HeldTypes
<1>4. pc = "closed" /\ changed = [a \in Axes |-> {}] /\ di_changed = {}
    BY DEF Init
<1>5. TablesInv
    BY <1>4 DEF TablesInv, Untouched
<1>6. PolarityInv
    BY <1>4 DEF PolarityInv, BeforePolarity
<1> QED
    BY <1>1, <1>2, <1>3, <1>5, <1>6 DEF BusInv, BusTypes

\* The invariant, and with it the types of all that is held.
THEOREM BusInvHolds == Spec => []BusInv
<1>1. BusInv /\ [Next]_vars => BusInv'
    BY DrivesKept, WorkKept, HeldKept, TablesKept, PolarityKept DEF BusInv, BusTypes
<1> QED
    BY <1>1, BusInit, PTL DEF Spec

\* Whatever was refused, lost or killed, and however many drives there are: while a
\* connection lasts, the original of every table and polarity it has changed is held.
THEOREM OriginalsAreHeld == Spec => []OriginalsHeld
<1>1. BusInv => OriginalsHeld
    BY DEF BusInv, TablesInv, PolarityInv, SnapHolds, OriginalsHeld
<1> QED
    BY <1>1, BusInvHolds, PTL

\* em_shutdown leaves no polarity changed that it has not reported.
THEOREM PolarityIsPutBack == Spec => []PolarityPutBack
<1>1. BusInv => PolarityPutBack
    BY DEF BusInv, PolarityInv, AfterPolarity, PolarityPutBack
<1> QED
    BY <1>1, BusInvHolds, PTL
-------------------------------------------------------------------------------
(* Where the fields are. *)

\* The image of a direction for which no table is in force, or one.
LEMMA ImageOfNone ==
    ASSUME NEW a, NEW d, TableOf(a, AssignOf[d]) = <<>>
    PROVE  Image(a, d) = <<>>
BY DEF Image, FlattenSeq

LEMMA ImageOfOne ==
    ASSUME NEW a, NEW d, NEW f, TableOf(a, AssignOf[d]) = <<f>>
    PROVE  Image(a, d) = TableOf(a, f.name)
<1> DEFINE seqs == [i \in DOMAIN <<f>> |-> TableOf(a, <<f>>[i].name)]
           step(g) == [i \in 1 .. Len(seqs) |-> IF i = 1 THEN seqs[i] ELSE g[i - 1] \o seqs[i]]
           flatten == CHOOSE g : g = step(g)
<1>1. seqs = <<TableOf(a, f.name)>> /\ Len(seqs) = 1 /\ seqs[1] = TableOf(a, f.name)
    OBVIOUS
<1> HIDE DEF seqs
<1>2. \E g : g = step(g)
    <2>1. LET g == [i \in 1 .. 1 |-> seqs[1]] IN g = step(g)
        BY <1>1
    <2> QED
        BY <2>1
<1>3. flatten = step(flatten)
    BY <1>2
<1>4. flatten[1] = seqs[1]
    <2> HIDE DEF flatten
    <2> QED
        BY <1>1, <1>3
<1>5. FlattenSeq(seqs) = flatten[Len(seqs)]
    BY <1>1 DEF FlattenSeq
<1>6. Image(a, d) = FlattenSeq(seqs)
    BY DEF Image, seqs
<1> QED
    BY <1>1, <1>4, <1>5, <1>6

\* The first k SDOs that write table t have been accepted.
Begun(x, t, k) ==
    /\ k <= Len(t) + 1
    /\ k >= 1 => /\ x.n = 0 /\ k - 1 <= Len(x.e)
                 /\ \A i \in 1 .. k - 1 : x.e[i] = t[i]

\* The next one is within the object, and is one step more; the last leaves the
\* table in the object.
LEMMA NextSdo ==
    ASSUME NEW x \in [n : Nat, e : Seq(Fields)], NEW t \in Seq(Fields), NEW k \in Nat, Begun(x, t, k)
    PROVE  LET w == Sdo(t, k)
           IN  /\ IF w.sub = 0 THEN w.v <= Len(x.e) ELSE x.n = 0 /\ w.sub <= Len(x.e) + 1
               /\ w.sub # 0 => w.v \in {t[i] : i \in DOMAIN t}
               /\ k <= Len(t) => Begun(Written(x, w), t, k + 1)
               /\ k > Len(t) => Content(Written(x, w)) = t
<1> DEFINE w == Sdo(t, k)
           y == Written(x, w)
<1>a. \A q : [x EXCEPT !.e = q] = [n |-> x.n, e |-> q] /\ [x EXCEPT !.n = q] = [n |-> q, e |-> x.e]
    OBVIOUS
<1>b. w.sub = 0 => y = [n |-> w.v, e |-> x.e]
    BY <1>a DEF Written
<1>c. w.sub # 0 => y = [n |-> x.n, e |-> IF w.sub \in DOMAIN x.e THEN [x.e EXCEPT ![w.sub] = w.v]
                                        ELSE Append(x.e, w.v)]
    BY <1>a DEF Written
<1>1. CASE k = 0
    <2>1. w.sub = 0 /\ w.v = 0
        BY <1>1 DEF Sdo
    <2>2. y = [n |-> 0, e |-> x.e]
        BY <1>b, <2>1
    <2> QED
        BY <1>1, <2>1, <2>2 DEF Begun
<1>2. CASE k \in DOMAIN t
    <2>1. w.sub = k /\ w.v = t[k] /\ k >= 1 /\ k <= Len(t) /\ t[k] \in Fields
        BY <1>2 DEF Sdo
    <2>2. x.n = 0 /\ k - 1 <= Len(x.e) /\ \A i \in 1 .. k - 1 : x.e[i] = t[i]
        BY <2>1 DEF Begun
    <2> DEFINE e == IF k \in DOMAIN x.e THEN [x.e EXCEPT ![k] = t[k]] ELSE Append(x.e, t[k])
    <2>3. y = [n |-> 0, e |-> e]
        BY <1>c, <2>1, <2>2
    <2>4. k <= Len(e) /\ \A i \in 1 .. k : e[i] = t[i]
        <3>1. CASE k \in DOMAIN x.e
            BY <2>1, <2>2, <3>1
        <3>2. CASE k \notin DOMAIN x.e
            BY <2>1, <2>2, <3>2
        <3> QED
            BY <3>1, <3>2
    <2> HIDE DEF e
    <2>5. Begun(y, t, k + 1)
        BY <2>1, <2>3, <2>4 DEF Begun
    <2> QED
        BY <1>2, <2>1, <2>2, <2>5
<1>3. CASE k # 0 /\ k \notin DOMAIN t
    <2>1. k = Len(t) + 1 /\ x.n = 0 /\ Len(t) <= Len(x.e) /\ \A i \in 1 .. Len(t) : x.e[i] = t[i]
        BY <1>3 DEF Begun
    <2>2. w.sub = 0 /\ w.v = Len(t)
        BY <1>3 DEF Sdo
    <2>3. y = [n |-> Len(t), e |-> x.e]
        BY <1>b, <2>2
    <2>4. Content(y) = t
        <3>1. Content(y) = SubSeq(x.e, 1, Len(t))
            BY <2>3 DEF Content
        <3> QED
            BY <2>1, <3>1
    <2> QED
        BY <2>1, <2>2, <2>4
<1> QED
    BY <1>1, <1>2, <1>3

\* What one SDO to an axis changes in the drives.
LEMMA SdoOnDrive ==
    ASSUME drive \in [Axes -> Box], cur \in Axes, NEW o \in Objects, NEW x,
           drive' = [drive EXCEPT ![cur].obj[o] = x]
    PROVE  /\ \A a \in Axes : drive'[a].al = drive[a].al /\ drive'[a].takes = drive[a].takes
           /\ \A a \in Axes, p \in Objects :
                 drive'[a].obj[p] = IF a = cur /\ p = o THEN x ELSE drive[a].obj[p]
<1>1. drive[cur] \in Box
    OBVIOUS
<1>2. \A a \in Axes : drive'[a] = IF a = cur THEN [drive[cur] EXCEPT !.obj[o] = x] ELSE drive[a]
    OBVIOUS
<1>3. LET y == [drive[cur] EXCEPT !.obj[o] = x]
      IN  /\ y.al = drive[cur].al /\ y.takes = drive[cur].takes
          /\ \A p \in Objects : y.obj[p] = IF p = o THEN x ELSE drive[cur].obj[p]
    BY <1>1 DEF Box
<1> QED
    BY <1>2, <1>3

\* What a drive takes stays as it is; only a few steps change the states, and
\* an SDO the objects.
LEMMA WhatStepsLeave ==
    ASSUME BusInv, [Next]_vars
    PROVE  /\ \A a \in Axes : drive'[a].takes = drive[a].takes
           /\ \/ \A a \in Axes : drive'[a].al = drive[a].al
              \/ em_open \/ SafeOp \/ em_enter_op \/ Lower
           /\ \/ \A a \in Axes : drive'[a].obj = drive[a].obj
              \/ SdoWrite /\ drive' # drive
<1>b. drive \in [Axes -> Box] /\ cur \in Axes
    BY DEF BusInv, BusTypes, DriveTypes, WorkTypes
<1>c. ASSUME NEW a \in Axes, NEW x, drive'[a] = [drive[a] EXCEPT !.al = x]
      PROVE  drive'[a].takes = drive[a].takes /\ drive'[a].obj = drive[a].obj
    <2>1. drive[a] \in Box
        BY <1>b
    <2> QED
        BY <1>c, <2>1 DEF Box
<1>d. ASSUME NEW a \in Axes, NEW x, drive'[a] = [drive[a] EXCEPT !.di = x]
      PROVE  drive'[a].takes = drive[a].takes /\ drive'[a].obj = drive[a].obj /\ drive'[a].al = drive[a].al
    <2>1. drive[a] \in Box
        BY <1>b
    <2> QED
        BY <1>d, <2>1 DEF Box
<1>1. CASE em_open
    <2>1. PICK S \in SUBSET Axes :
              drive' = [a \in Axes |-> [drive[a] EXCEPT !.al = IF a \in S THEN "PRE_OP" ELSE "INIT"]]
        BY <1>1 DEF em_open
    <2>2. \A a \in Axes : \E x : drive'[a] = [drive[a] EXCEPT !.al = x]
        BY <2>1
    <2> QED
        BY <1>1, <1>c, <2>2
<1>2. CASE UNCHANGED drive
    BY <1>2
<1>3. CASE SdoWrite /\ drive' # drive
    <2> DEFINE o == Head(todo).o
               new == Written(drive[cur].obj[o], Sdo(Head(todo).t, sent))
    <2>1. todo # <<>> /\ drive' = [drive EXCEPT ![cur].obj[o] = new]
        BY <1>3 DEF SdoWrite
    <2>2. o \in Objects
        <3>1. Head(todo) \in Jobs
            BY <2>1, HeadTailProperties DEF BusInv, BusTypes, WorkTypes
        <3> QED
            BY <3>1 DEF Jobs
    <2> HIDE DEF o, new
    <2> QED
        BY <1>3, <1>b, <2>1, <2>2, SdoOnDrive
<1>4. CASE SafeOp \/ em_enter_op
    <2>1. drive' = drive \/ \E x : drive' = [drive EXCEPT ![cur].al = x]
        BY <1>4 DEF SafeOp, em_enter_op, Reaches, Balks
    <2>2. \A a \in Axes : drive'[a] = drive[a] \/ \E x : drive'[a] = [drive[a] EXCEPT !.al = x]
        BY <1>b, <2>1
    <2>3. \A a \in Axes : drive'[a].takes = drive[a].takes /\ drive'[a].obj = drive[a].obj
        BY <1>c, <2>2
    <2> QED
        BY <1>4, <2>3
<1>5. CASE WritePolarity \/ RestorePolarity
    <2>1. drive' = drive \/ \E x : drive' = [drive EXCEPT ![cur].di = x]
        BY <1>5 DEF WritePolarity, RestorePolarity, Confirmed, Unconfirmed, Polarity
    <2>2. \A a \in Axes : drive'[a] = drive[a] \/ \E x : drive'[a] = [drive[a] EXCEPT !.di = x]
        BY <1>b, <2>1
    <2>3. \A a \in Axes : /\ drive'[a].takes = drive[a].takes /\ drive'[a].obj = drive[a].obj
                           /\ drive'[a].al = drive[a].al
        BY <1>d, <2>2
    <2> QED
        BY <2>3
<1>6. CASE Lower
    <2>1. \/ drive' = drive
          \/ \E S \in SUBSET Axes :
                 drive' = [a \in Axes |-> IF a \in S THEN [drive[a] EXCEPT !.al = "PRE_OP"] ELSE drive[a]]
        BY <1>6 DEF Lower
    <2>2. \A a \in Axes : drive'[a] = drive[a] \/ \E x : drive'[a] = [drive[a] EXCEPT !.al = x]
        BY <1>b, <2>1
    <2>3. \A a \in Axes : drive'[a].takes = drive[a].takes /\ drive'[a].obj = drive[a].obj
        BY <1>c, <2>2
    <2> QED
        BY <1>6, <2>3
<1>7. CASE Gate \/ Discover \/ MapEnsure \/ MapWritten \/ MapGroup \/ Bind \/ ReadPolarity \/ Disconnect
           \/ RestoreMap \/ MapRestored \/ Killed \/ UNCHANGED vars
    <2>1. UNCHANGED drive
        BY <1>7 DEF Gate, Discover, MapEnsure, MapWritten, MapGroup, Bind, ReadPolarity, Disconnect, RestoreMap,
                    MapRestored, Killed, vars
    <2> QED
        BY <1>2, <2>1
<1> QED
    BY <1>1, <1>2, <1>3, <1>4, <1>5, <1>6, <1>7 DEF Next, Connecting, em_shutdown

\* One SDO of a table that the drive takes whole, and that has been written so far:
\* either it goes wrong, or the table is one step further.
LEMMA SdoStep ==
    ASSUME BusInv, SdoWrite, drive[cur].al = "PRE_OP",
           AbortsPass => \A i \in DOMAIN Head(todo).t : Head(todo).t[i] \in drive[cur].takes,
           Begun(drive[cur].obj[Head(todo).o], Head(todo).t, sent)
    PROVE  \/ /\ ~clean'
              /\ pc = "write" => pc' = "restore_di"
           \/ /\ UNCHANGED <<pc, cur, dir>> /\ sent <= Len(Head(todo).t)
              /\ todo' = todo /\ sent' = sent + 1
              /\ Begun(drive'[cur].obj[Head(todo).o], Head(todo).t, sent + 1)
           \/ /\ UNCHANGED <<pc, cur, dir>> /\ sent > Len(Head(todo).t)
              /\ todo' = Tail(todo) /\ sent' = 0
              /\ Content(drive'[cur].obj[Head(todo).o]) = Head(todo).t
<1> DEFINE o == Head(todo).o
           t == Head(todo).t
           w == Sdo(t, sent)
           x == drive[cur].obj[o]
<1>1. Head(todo) \in Jobs /\ sent \in Nat /\ drive \in [Axes -> Box] /\ cur \in Axes
    <2>1. todo \in Seq(Jobs) /\ todo # <<>>
        BY DEF BusInv, BusTypes, WorkTypes, SdoWrite
    <2> QED
        BY <2>1, HeadTailProperties DEF BusInv, BusTypes, WorkTypes, DriveTypes
<1>2. o \in Objects /\ t \in Seq(Fields) /\ x \in [n : Nat, e : Seq(Fields)]
    BY <1>1 DEF Jobs, Box
<1>3. /\ IF w.sub = 0 THEN w.v <= Len(x.e) ELSE x.n = 0 /\ w.sub <= Len(x.e) + 1
      /\ w.sub # 0 => w.v \in {t[i] : i \in DOMAIN t}
      /\ sent <= Len(t) => Begun(Written(x, w), t, sent + 1)
      /\ sent > Len(t) => Content(Written(x, w)) = t
    BY <1>1, <1>2, NextSdo
<1>4. Accepts(cur, o, w) \/ ~AbortsPass
    BY <1>3 DEF Accepts
<1>5. \/ ~clean' /\ (pc = "write" => pc' = "restore_di")
      \/ /\ UNCHANGED <<pc, cur, dir>>
         /\ drive' = [drive EXCEPT ![cur].obj[o] = Written(x, w)]
         /\ IF sent > Len(t) THEN todo' = Tail(todo) /\ sent' = 0 ELSE sent' = sent + 1 /\ todo' = todo
    BY <1>4 DEF SdoWrite, Fault, Queue, Teardown, Goto
<1>6. CASE /\ UNCHANGED <<pc, cur, dir>>
           /\ drive' = [drive EXCEPT ![cur].obj[o] = Written(x, w)]
           /\ IF sent > Len(t) THEN todo' = Tail(todo) /\ sent' = 0 ELSE sent' = sent + 1 /\ todo' = todo
    <2> HIDE DEF w, t, o
    <2>1. drive'[cur].obj[o] = Written(x, w)
        <3> DEFINE new == Written(x, w)
        <3>1. drive' = [drive EXCEPT ![cur].obj[o] = new] /\ o \in Objects
            BY <1>2, <1>6 DEF o
        <3>2. drive \in [Axes -> Box] /\ cur \in Axes
            BY <1>1
        <3> HIDE DEF new, x
        <3>3. drive'[cur] = [drive[cur] EXCEPT !.obj[o] = new] /\ drive[cur] \in Box
            BY <3>1, <3>2
        <3>4. drive'[cur].obj[o] = new
            BY <3>1, <3>3 DEF Box
        <3> QED
            BY <3>4 DEF new
    <2>2. CASE sent > Len(t)
        <3>1. Content(drive'[cur].obj[o]) = t
            BY <1>3, <2>1, <2>2
        <3> QED
            BY <1>6, <2>2, <3>1 DEF o, t
    <2>3. CASE ~(sent > Len(t))
        <3>1. sent <= Len(t)
            BY <1>1, <1>2, <2>3
        <3> QED
            BY <1>3, <1>6, <2>1, <2>3, <3>1 DEF o, t
    <2> QED
        BY <2>2, <2>3
<1> QED
    BY <1>5, <1>6

\* What the program relies on where a refused entry passes for a written one: a drive
\* lets each of its tables be put in force.  A drive that refused the fallback, with another
\* table named behind the count of zero, would get the fields of the one and have the image
\* of the other.
TablesTaken ==
    AbortsPass => \A x \in Drives, d \in Directions : \A t \in TablesOf[d] : Entry(t) \in x.takes

TakesTables ==
    AbortsPass =>
        \A a \in Axes, d \in Directions : \A t \in TablesOf[d] : Entry(t) \in drive[a].takes

AllPreOp == \A a \in Axes : drive[a].al = "PRE_OP"

\* em_discover_pdo has been through with an axis, and em_axis_bind.
Operating     == {"safe", "polarity", "write_di", "op", "running"}
Discovered(a) ==
    \/ pc \in {"ensure", "write"} /\ a <= cur
    \/ pc = "discover" /\ a < cur
    \/ pc \in {"group", "bind"} \union Operating
Located(a) == (pc = "bind" /\ a < cur) \/ pc \in Operating

\* No table of an axis is in force but the one that was discovered.
InForce(a, d) == TableOf(a, AssignOf[d]) \in {<<>>, <<Entry(pdo[a][d])>>}

\* What puts that table in force is written with its name.
Named == {j \in Jobs : j.o = AssignOf[dir] => j.t = <<Entry(pdo[cur][dir])>>}

ForceInv ==
    /\ TakesTables
    /\ pc \in {"discover", "ensure", "write", "group", "bind"} => AllPreOp
    /\ \A a \in Axes, d \in Directions : Discovered(a) => InForce(a, d)
    /\ pc = "write" => todo \in Seq(Named)
    /\ pc = "write" /\ todo # <<>> /\ Head(todo).o = AssignOf[dir] =>
           Begun(drive[cur].obj[Head(todo).o], Head(todo).t, sent)

\* The places of an axis are those in the table in force.
Placed(a, d) ==
    /\ TableOf(a, AssignOf[d]) # <<>>
    /\ \A f \in Sought(d) : off[a][f] # NoPlace => off[a][f] = Place(TableOf(a, pdo[a][d]), f)
    /\ off[a][Need[d][1]] # NoPlace

PlacesInv ==
    /\ DOMAIN off = Axes
    /\ \A a \in Axes, d \in Directions : Located(a) => Placed(a, d)

\* An axis that is past in the next state was so before, if a step keeps to its phase
\* or ends the one that goes through all axes.
LEMMA EnsuredDiscovers ==
    ASSUME BusInv, Ensured, pc \in {"ensure", "write"}
    PROVE  /\ pc' \in {"ensure", "discover", "group"} /\ pc' # "write"
           /\ \A a \in Axes : Discovered(a)' => Discovered(a)
<1>1. cur \in Axes /\ dir \in Directions
    BY DEF BusInv, BusTypes, WorkTypes
<1>2. \/ pc' = "ensure" /\ cur' = cur
      \/ cur < N /\ pc' = "discover" /\ cur' = cur + 1
      \/ cur = N /\ pc' = "group"
    BY <1>1, NextAxisIsAxis DEF Ensured
<1>3. \A a \in Axes : a \in Int /\ a <= N
    BY AxesAreNumbers
<1> QED
    BY <1>1, <1>2, <1>3 DEF Discovered, Operating

\* A step that leaves tables and discoveries alone.
LEMMA ForceRests ==
    ASSUME ForceInv, SameTables, pdo' = pdo,
           \A a \in Axes : drive'[a].takes = drive[a].takes,
           pc' \in {"discover", "ensure", "write", "group", "bind"} => AllPreOp',
           \A a \in Axes : Discovered(a)' => Discovered(a),
           pc' # "write"
    PROVE  ForceInv'
<1>1. TakesTables'
    BY DEF ForceInv, TakesTables
<1>2. \A a \in Axes, d \in Directions : Discovered(a)' => InForce(a, d)'
    <2> SUFFICES ASSUME NEW a \in Axes, NEW d \in Directions, Discovered(a)' PROVE InForce(a, d)'
        OBVIOUS
    <2>1. InForce(a, d)
        BY DEF ForceInv
    <2>2. AssignOf[d] \in Objects
        BY DEF AssignOf, Objects, Directions
    <2>3. TableOf(a, AssignOf[d])' = TableOf(a, AssignOf[d])
        BY <2>2 DEF SameTables
    <2> QED
        BY <2>1, <2>3 DEF InForce
<1> QED
    BY <1>1, <1>2 DEF ForceInv

\* Which table is in force is known from em_discover_pdo on, and stays so while it is
\* extended.
LEMMA ForceKept == BusInv /\ ForceInv /\ [Next]_vars => ForceInv'
<1> SUFFICES ASSUME BusInv, ForceInv, [Next]_vars PROVE ForceInv'
    OBVIOUS
<1>a. /\ DriveTypes /\ WorkTypes /\ HeldTypes /\ TablesInv /\ cur \in Axes /\ dir \in Directions
      /\ drive \in [Axes -> Box]
    BY DEF BusInv, BusTypes, WorkTypes, DriveTypes
<1>b. SameTables \/ SdoWrite
    BY DrivesKept
<1>c. \A a \in Axes : drive'[a].takes = drive[a].takes
    BY WhatStepsLeave
<1>d. TakesTables'
    BY <1>c DEF ForceInv, TakesTables
<1>e. ASSUME SameTables, pc' \notin {"discover", "ensure", "write", "group", "bind"} \union Operating
      PROVE  ForceInv'
    BY <1>d, <1>e DEF ForceInv, Discovered, Operating
<1>1. CASE em_open
    <2>1. pc' = "gate"
        BY <1>1 DEF em_open
    <2>2. SameTables
        BY <1>1, <1>b DEF em_open, SdoWrite
    <2> QED
        BY <2>1, <2>2, <1>e DEF Operating
<1>2. CASE Gate
    <2>1. /\ UNCHANGED drive
          /\ \/ pc' = "discover" /\ cur' = 1 /\ AllPreOp
             \/ pc' = "restore_di"
        BY <1>2 DEF Gate, Goto, Teardown, AllPreOp
    <2>2. SameTables /\ (AllPreOp => AllPreOp')
        BY <2>1 DEF SameTables, TableOf, AllPreOp
    <2>3. CASE pc' = "discover" /\ cur' = 1 /\ AllPreOp
        <3>1. \A a \in Axes : ~Discovered(a)'
            BY <2>3, AxesAreNumbers DEF Discovered, Operating
        <3> QED
            BY <1>d, <2>2, <2>3, <3>1 DEF ForceInv
    <2> QED
        BY <2>1, <2>2, <2>3, <1>e DEF Operating
<1>3. CASE Discover
    <2>1. UNCHANGED drive /\ pc = "discover"
        BY <1>3 DEF Discover
    <2>2. SameTables /\ (AllPreOp => AllPreOp') /\ AllPreOp
        BY <2>1 DEF SameTables, TableOf, AllPreOp, ForceInv
    <2>3. \/ pc' = "restore_di"
          \/ /\ pc' = "ensure" /\ cur' = cur
             /\ \A d \in Directions : Len(TableOf(cur, AssignOf[d])) <= 1
             /\ pdo' = [pdo EXCEPT ![cur] = [d \in Directions |->
                     IF TableOf(cur, AssignOf[d]) = <<>> THEN Fallback[d] ELSE TableOf(cur, AssignOf[d])[1].name]]
        BY <1>3 DEF Discover, Goto, Teardown
    <2>4. CASE /\ pc' = "ensure" /\ cur' = cur
               /\ \A d \in Directions : Len(TableOf(cur, AssignOf[d])) <= 1
               /\ pdo' = [pdo EXCEPT ![cur] = [d \in Directions |->
                     IF TableOf(cur, AssignOf[d]) = <<>> THEN Fallback[d] ELSE TableOf(cur, AssignOf[d])[1].name]]
        <3>1. ASSUME NEW a \in Axes, NEW d \in Directions, Discovered(a)' PROVE InForce(a, d)'
            <4> DEFINE table == TableOf(cur, AssignOf[d])
            <4>1. AssignOf[d] \in Objects /\ EntriesOf(AssignOf[d]) = {Entry(t) : t \in TablesOf[d]}
                BY DEF AssignOf, Objects, Directions, EntriesOf
            <4>2. CASE a = cur
                <5>1. table \in Seq(EntriesOf(AssignOf[d])) /\ Len(table) <= 1
                    BY <1>a, <2>4, <4>1, TablesAreTyped
                <5>2. TableOf(a, AssignOf[d])' = table
                    BY <2>2, <4>1, <4>2 DEF SameTables
                <5>3. pdo'[a][d] = IF table = <<>> THEN Fallback[d] ELSE table[1].name
                    BY <1>a, <2>4, <4>2 DEF HeldTypes
                <5> HIDE DEF table
                <5>4. CASE table = <<>>
                    BY <5>2, <5>4 DEF InForce
                <5>5. CASE table # <<>>
                    <6>0. table \in Seq(EntriesOf(AssignOf[d])) /\ Len(table) = 1
                        <7>1. Len(table) # 0
                            BY <5>1, <5>5, EmptySeq
                        <7>2. Len(table) \in Nat
                            BY <5>1
                        <7>3. Len(table) <= 1
                            BY <5>1
                        <7>4. \A n \in Nat : n <= 1 /\ n # 0 => n = 1
                            OBVIOUS
                        <7>5. Len(table) = 1
                            BY <7>1, <7>2, <7>3, <7>4
                        <7> QED
                            BY <5>1, <7>5
                    <6>1. table = <<table[1]>> /\ table[1] \in {Entry(t) : t \in TablesOf[d]}
                        <7>1. table[1] \in EntriesOf(AssignOf[d])
                            BY <6>0, ElementOfSeq
                        <7>2. table = <<table[1]>>
                            BY <6>0
                        <7> QED
                            BY <4>1, <7>1, <7>2
                    <6>2. table[1] = Entry(table[1].name)
                        BY <6>1 DEF Entry, Field
                    <6> QED
                        BY <5>2, <5>3, <5>5, <6>1, <6>2 DEF InForce
                <5> QED
                    BY <5>4, <5>5
            <4>3. CASE a # cur
                <5>1. Discovered(a)
                    BY <1>a, <2>1, <2>4, <3>1, <4>3, AxesAreNumbers DEF Discovered, Operating
                <5>2. InForce(a, d)
                    BY <5>1 DEF ForceInv
                <5>3. TableOf(a, AssignOf[d])' = TableOf(a, AssignOf[d])
                    BY <2>2, <4>1 DEF SameTables
                <5>4. pdo'[a][d] = pdo[a][d]
                    BY <1>a, <2>4, <4>3 DEF HeldTypes
                <5> QED
                    BY <5>2, <5>3, <5>4 DEF InForce
            <4> QED
                BY <4>2, <4>3
        <3> QED
            BY <1>d, <2>2, <2>4, <3>1 DEF ForceInv
    <2> QED
        BY <2>2, <2>3, <2>4, <1>e DEF Operating
<1>4. CASE MapEnsure
    <2>1. UNCHANGED <<drive, pdo>> /\ pc = "ensure"
        BY <1>4 DEF MapEnsure
    <2>2. SameTables /\ AllPreOp'
        BY <2>1 DEF SameTables, TableOf, AllPreOp, ForceInv
    <2>3. PICK missing \in Parts[dir] :
              \/ Ensured
              \/ Teardown
              \/ Queue(Extension(cur, dir, missing)) /\ UNCHANGED <<cur, dir>> /\ pc' = "write"
        BY <1>4 DEF MapEnsure, Extension
    <2>4. CASE Ensured
        BY <1>c, <2>1, <2>2, <2>4, EnsuredDiscovers, ForceRests
    <2>5. CASE Queue(Extension(cur, dir, missing)) /\ UNCHANGED <<cur, dir>> /\ pc' = "write"
        <3>1. todo' = Extension(cur, dir, missing) /\ sent' = 0
            BY <2>5 DEF Queue
        <3>2. todo' \in Seq(Named)
            <4> DEFINE o == pdo[cur][dir]
                       assign == AssignOf[dir]
                       whole == TableOf(cur, o) \o missing
            <4>1. o \in TablesOf[dir] /\ o \in Objects /\ assign \in Objects /\ o # assign
                BY <1>a DEF HeldTypes, AssignOf, TablesOf, Directions, Objects
            <4>2. EntriesOf(o) = Fields /\ <<Entry(o)>> \in Seq(EntriesOf(assign))
                <5>1. CASE dir = "rx"
                    BY <4>1, <5>1 DEF EntriesOf, AssignOf, TablesOf
                <5>2. CASE dir = "tx"
                    BY <4>1, <5>2 DEF EntriesOf, AssignOf, TablesOf
                <5> QED
                    BY <1>a, <5>1, <5>2 DEF Directions
            <4>3. whole \in Seq(EntriesOf(o))
                BY <1>a, <4>1, <4>2, TablesAreTyped, PartsAreTables, ConcatProperties
            <4>4. Job(assign, <<Entry(o)>>) \in Named
                BY <4>1, <4>2, JobIsJob DEF Named, Job
            <4>5. Job(o, whole) \in Named
                BY <4>1, <4>3, JobIsJob DEF Named, Job
            <4>6. <<Job(assign, <<Entry(o)>>)>> \in Seq(Named) /\ <<Job(o, whole)>> \in Seq(Named)
                BY <4>4, <4>5
            <4>7. (IF TableOf(cur, assign) = <<>> THEN <<Job(assign, <<Entry(o)>>)>> ELSE <<>>)
                     \o <<Job(o, whole)>> \in Seq(Named)
                BY <4>6, ConcatProperties, EmptySeq
            <4> QED
                BY <3>1, <4>7 DEF Extension
        <3>3. Named' = Named
            BY <2>1, <2>5 DEF Named
        <3>4. todo' # <<>> => Begun(drive'[cur'].obj[Head(todo').o], Head(todo').t, sent')
            <4>1. todo' \in Seq(Jobs)
                BY WorkKept DEF WorkTypes
            <4>2. todo' # <<>> => Head(todo') \in Jobs
                BY <4>1, HeadTailProperties
            <4>3. todo' # <<>> => Len(Head(todo').t) \in Nat
                BY <4>2 DEF Jobs
            <4> QED
                BY <3>1, <4>3 DEF Begun
        <3>5. \A a \in Axes, d \in Directions : Discovered(a)' => InForce(a, d)'
            <4>1. \A a \in Axes : Discovered(a)' => Discovered(a)
                BY <2>1, <2>5 DEF Discovered, Operating
            <4>2. \A d \in Directions : AssignOf[d] \in Objects
                BY DEF AssignOf, Objects, Directions
            <4> QED
                BY <2>1, <2>2, <4>1, <4>2 DEF ForceInv, InForce, SameTables
        <3> QED
            BY <1>d, <2>2, <3>2, <3>3, <3>4, <3>5 DEF ForceInv
    <2>6. CASE Teardown
        BY <2>2, <2>6, <1>e DEF Teardown, Goto, Operating
    <2> QED
        BY <2>3, <2>4, <2>5, <2>6
<1>5. CASE MapWritten
    <2>1. UNCHANGED <<drive, pdo>> /\ pc = "write" /\ Ensured
        BY <1>5 DEF MapWritten
    <2>2. SameTables /\ AllPreOp'
        BY <2>1 DEF SameTables, TableOf, AllPreOp, ForceInv
    <2> QED
        BY <1>c, <2>1, <2>2, EnsuredDiscovers, ForceRests
<1>6. CASE MapGroup
    <2>1. UNCHANGED <<drive, pdo>> /\ pc = "group" /\ pc' \in {"bind", "restore_di"}
        BY <1>6 DEF MapGroup, Goto, Teardown
    <2>2. SameTables /\ AllPreOp'
        BY <2>1 DEF SameTables, TableOf, AllPreOp, ForceInv
    <2>3. \A a \in Axes : Discovered(a)' => Discovered(a)
        BY <2>1 DEF Discovered
    <2> QED
        BY <1>c, <2>1, <2>2, <2>3, ForceRests
<1>7. CASE Bind
    <2>1. UNCHANGED <<drive, pdo>> /\ pc = "bind" /\ pc' \in {"bind", "safe", "restore_di"}
        BY <1>7 DEF Bind, Goto, Teardown, NextAxis
    <2>2. SameTables /\ AllPreOp'
        BY <2>1 DEF SameTables, TableOf, AllPreOp, ForceInv
    <2>3. \A a \in Axes : Discovered(a)' => Discovered(a)
        BY <2>1 DEF Discovered
    <2> QED
        BY <1>c, <2>1, <2>2, <2>3, ForceRests
<1>8. CASE SafeOp \/ ReadPolarity \/ WritePolarity \/ em_enter_op
    <2>1. pdo' = pdo /\ pc \in Operating /\ pc' \in Operating \union {"restore_di"}
        BY <1>8 DEF SafeOp, ReadPolarity, WritePolarity, em_enter_op, Goto, Teardown, NextAxis, held, Operating
    <2>2. SameTables
        BY <1>8, <1>b DEF SdoWrite, SafeOp, ReadPolarity, WritePolarity, em_enter_op
    <2>3. \A a \in Axes : Discovered(a)' => Discovered(a)
        BY <2>1 DEF Discovered
    <2>4. pc' \notin {"discover", "ensure", "write", "group", "bind"}
        BY <2>1 DEF Operating
    <2> QED
        BY <1>c, <2>1, <2>2, <2>3, <2>4, ForceRests
<1>9. CASE Disconnect \/ RestorePolarity \/ RestoreMap \/ MapRestored \/ Lower \/ Killed
    <2>1. pc' \in {"restore_di", "restore_map", "unwrite", "lower", "closed"}
        BY <1>9 DEF Disconnect, RestorePolarity, RestoreMap, MapRestored, Lower, Killed, NextAxis, Goto, Teardown
    <2>2. \A a \in Axes : ~Discovered(a)'
        BY <2>1 DEF Discovered, Operating
    <2> QED
        BY <1>d, <2>1, <2>2 DEF ForceInv
<1>10. CASE SdoWrite
    <2>1. /\ pdo' = pdo /\ pc \in {"write", "unwrite"} /\ todo # <<>>
          /\ pc' = "restore_di" \/ UNCHANGED <<pc, cur, dir>>
        BY <1>10 DEF SdoWrite, Teardown, Goto
    <2>2. CASE pc' \in {"restore_di", "unwrite"}
        <3>1. \A a \in Axes : ~Discovered(a)'
            BY <2>2 DEF Discovered, Operating
        <3> QED
            BY <1>d, <2>2, <3>1 DEF ForceInv
    <2>3. CASE pc = "write" /\ pc' = "write" /\ UNCHANGED <<cur, dir>>
        <3> DEFINE o == Head(todo).o
        <3>1. todo \in Seq(Named) /\ todo \in Seq(About(dir))
            BY <1>a, <2>3 DEF ForceInv, TablesInv
        <3>2. Head(todo) \in Named /\ o \in Objects /\ Head(todo).t \in Seq(Fields) /\ Tail(todo) \in Seq(Named)
            BY <2>1, <3>1, HeadTailProperties DEF Named, Jobs
        <3>3. drive[cur].al = "PRE_OP"
            BY <1>a, <2>3 DEF ForceInv, AllPreOp
        <3>4. AllPreOp'
            <4>1. \A a \in Axes : drive'[a].al = drive[a].al
                BY <1>10, <2>3, WhatStepsLeave DEF em_open, SafeOp, em_enter_op, Lower
            <4> QED
                BY <2>3, <4>1 DEF ForceInv, AllPreOp
        <3>5. todo' \in {todo, Tail(todo)} /\ Named' = Named
            BY <1>10, <2>1, <2>3 DEF SdoWrite, Queue, Named, Teardown, Goto
        <3>6. \A a \in Axes, p \in Objects : a # cur \/ p # o => drive'[a].obj[p] = drive[a].obj[p]
            <4> DEFINE new == Written(drive[cur].obj[o], Sdo(Head(todo).t, sent))
            <4>1. drive' = drive \/ drive' = [drive EXCEPT ![cur].obj[o] = new]
                BY <1>10 DEF SdoWrite
            <4> HIDE DEF new, o
            <4>2. CASE drive' = [drive EXCEPT ![cur].obj[o] = new]
                BY <1>a, <3>2, <4>2, SdoOnDrive
            <4> QED
                BY <4>1, <4>2
        <3>7. CASE o # AssignOf[dir]
            <4>1. \A a \in Axes, d \in Directions : TableOf(a, AssignOf[d])' = TableOf(a, AssignOf[d])
                <5>1. o \in TablesOf[dir]
                    BY <2>1, <3>1, <3>7, HeadTailProperties DEF About
                <5>2. \A d \in Directions : AssignOf[d] # o /\ AssignOf[d] \in Objects
                    BY <1>a, <5>1 DEF AssignOf, TablesOf, Directions, Objects
                <5> QED
                    BY <3>6, <5>2 DEF TableOf
            <4>2. \A a \in Axes, d \in Directions : Discovered(a)' => InForce(a, d)'
                <5>1. \A a \in Axes : Discovered(a)' => Discovered(a)
                    BY <2>3 DEF Discovered, Operating
                <5> QED
                    BY <2>1, <4>1, <5>1 DEF ForceInv, InForce
            <4>3. todo' # <<>> /\ Head(todo').o = AssignOf[dir] =>
                      Begun(drive'[cur].obj[Head(todo').o], Head(todo').t, sent')
                <5>1. CASE todo' = todo
                    BY <3>7, <5>1
                <5>2. CASE todo' = Tail(todo) /\ sent' = 0
                    <6>1. todo' \in Seq(Named)
                        BY <3>2, <5>2
                    <6>2. todo' # <<>> => Head(todo') \in Named
                        BY <6>1, HeadTailProperties
                    <6>3. todo' # <<>> => Len(Head(todo').t) \in Nat
                        BY <6>2 DEF Named, Jobs
                    <6> QED
                        BY <5>2, <6>3 DEF Begun
                <5>3. todo' = todo \/ (todo' = Tail(todo) /\ sent' = 0)
                    BY <1>10, <2>1, <2>3 DEF SdoWrite, Queue, Teardown, Goto
                <5> QED
                    BY <5>1, <5>2, <5>3
            <4>4. todo' \in Seq(Named')
                BY <3>1, <3>2, <3>5
            <4> QED
                BY <1>d, <2>3, <3>4, <4>2, <4>3, <4>4 DEF ForceInv
        <3>8. CASE o = AssignOf[dir]
            <4>1. Head(todo).t = <<Entry(pdo[cur][dir])>> /\ Begun(drive[cur].obj[o], Head(todo).t, sent)
                BY <2>1, <2>3, <3>2, <3>8 DEF ForceInv, Named
            <4>2. AbortsPass => \A i \in DOMAIN Head(todo).t : Head(todo).t[i] \in drive[cur].takes
                <5>1. pdo[cur][dir] \in TablesOf[dir]
                    BY <1>a DEF HeldTypes
                <5> QED
                    BY <1>a, <4>1, <5>1 DEF ForceInv, TakesTables
            <4>3. \/ /\ sent <= Len(Head(todo).t) /\ todo' = todo /\ sent' = sent + 1
                     /\ Begun(drive'[cur].obj[o], Head(todo).t, sent + 1)
                  \/ /\ todo' = Tail(todo) /\ sent' = 0
                     /\ Content(drive'[cur].obj[o]) = Head(todo).t
                BY <1>10, <2>3, <3>3, <4>1, <4>2, SdoStep
            <4>4. Content(drive'[cur].obj[o]) \in {<<>>, <<Entry(pdo[cur][dir])>>}
                <5>1. CASE Begun(drive'[cur].obj[o], Head(todo).t, sent + 1)
                    <6>1. drive'[cur].obj[o].n = 0
                        BY <1>a, <5>1 DEF Begun, WorkTypes
                    <6>2. drive'[cur].obj[o].e \in Seq(Fields)
                        BY <1>a, <3>2, DrivesKept DEF DriveTypes, Box
                    <6> QED
                        BY <6>1, <6>2 DEF Content
                <5> QED
                    BY <4>1, <4>3, <5>1
            <4>5. \A a \in Axes, d \in Directions : Discovered(a)' => InForce(a, d)'
                <5> SUFFICES ASSUME NEW a \in Axes, NEW d \in Directions, Discovered(a)' PROVE InForce(a, d)'
                    OBVIOUS
                <5>1. CASE a = cur /\ d = dir
                    BY <2>1, <2>3, <3>8, <4>4, <5>1 DEF InForce, TableOf
                <5>2. CASE a # cur \/ d # dir
                    <6>1. Discovered(a)
                        BY <2>3 DEF Discovered, Operating
                    <6>2. AssignOf[d] \in Objects /\ (d # dir => AssignOf[d] # o)
                        BY <1>a, <3>8 DEF AssignOf, Directions, Objects
                    <6>3. drive'[a].obj[AssignOf[d]] = drive[a].obj[AssignOf[d]]
                        BY <3>6, <5>2, <6>2
                    <6> QED
                        BY <2>1, <6>1, <6>3 DEF ForceInv, InForce, TableOf
                <5> QED
                    BY <5>1, <5>2
            <4>6. todo' # <<>> => Begun(drive'[cur].obj[Head(todo').o], Head(todo').t, sent')
                <5>1. CASE todo' = Tail(todo) /\ sent' = 0
                    <6>1. todo' \in Seq(Named)
                        BY <3>2, <5>1
                    <6>2. todo' # <<>> => Head(todo') \in Named
                        BY <6>1, HeadTailProperties
                    <6>3. todo' # <<>> => Len(Head(todo').t) \in Nat
                        BY <6>2 DEF Named, Jobs
                    <6> QED
                        BY <5>1, <6>3 DEF Begun
                <5> QED
                    BY <4>3, <5>1
            <4>7. todo' \in Seq(Named')
                BY <3>1, <3>2, <3>5
            <4> QED
                BY <1>d, <2>3, <3>4, <4>5, <4>6, <4>7 DEF ForceInv
        <3> QED
            BY <3>7, <3>8
    <2> QED
        BY <2>1, <2>2, <2>3
<1>11. CASE UNCHANGED vars
    BY <1>11 DEF vars, held, ForceInv, TakesTables, AllPreOp, Discovered, InForce, Named, TableOf
<1> QED
    BY <1>1, <1>2, <1>3, <1>4, <1>5, <1>6, <1>7, <1>8, <1>9, <1>10, <1>11 DEF Next, Connecting, em_shutdown

\* What comes first stays first.
LEMMA FirstStays ==
    ASSUME NEW S, NEW p \in Seq(S), NEW q \in Seq(S), Len(p) >= 1
    PROVE  p \o q \in Seq(S) /\ (p \o q)[1] = p[1] /\ Len(p \o q) >= 1
<1>1. Len(p) \in Nat /\ Len(q) \in Nat /\ Len(p \o q) = Len(p) + Len(q)
    BY ConcatProperties
<1>2. (p \o q)[1] = p[1]
    <2>1. 1 \in 1 .. Len(p) + Len(q)
        BY <1>1
    <2>2. (p \o q)[1] = IF 1 <= Len(p) THEN p[1] ELSE q[1 - Len(p)]
        BY <2>1, ConcatProperties
    <2> QED
        BY <2>2
<1> QED
    BY <1>1, <1>2, ConcatProperties

\* The fields that are sought in one direction have other names than those of the other.
LEMMA SoughtApart ==
    /\ \A f \in Sought("tx") : f \notin Sought("rx")
    /\ \A d \in Directions : Sought(d) \subseteq Bound /\ Need[d][1] \in Sought(d) /\ Need[d][1] \notin Find[d]
    /\ \A d \in Directions : \A f \in Find[d] : \A c \in Directions : f # Need[c][1]
<1>1. Range(Need["rx"]) = {Field("control", 16), Field("target_pos", 32), Field("target_vel", 32)}
    BY DEF Need, Range
<1>2. Need["rx"][1] = Field("control", 16)
    BY DEF Need
<1> DEFINE S == [name : {"status", "act_pos", "act_vel", "dig_in", "err_code"}, bits : Nat]
           s == <<Field("status", 16), Field("act_pos", 32), Field("act_vel", 32)>>
           w == IF WantDigIn THEN <<Field("dig_in", 32)>> ELSE <<>>
           e == <<Field("err_code", 16)>>
<1>3. s \in Seq(S) /\ w \in Seq(S) /\ e \in Seq(S) /\ Len(s) = 3 /\ s[1] = Field("status", 16)
    <2>1. {Field("status", 16), Field("act_pos", 32), Field("act_vel", 32), Field("dig_in", 32),
           Field("err_code", 16)} \subseteq S
        BY DEF Field
    <2> HIDE DEF S
    <2>2. s \in Seq(S) /\ Len(s) = 3 /\ s[1] = Field("status", 16)
        BY <2>1
    <2>3. w \in Seq(S)
        BY <2>1
    <2>4. e \in Seq(S)
        BY <2>1
    <2> QED
        BY <2>2, <2>3, <2>4
<1> HIDE DEF s, w, e
<1>4. /\ \A f \in Range(Need["tx"]) : f.name \in {"status", "act_pos", "act_vel", "dig_in", "err_code"}
      /\ Need["tx"][1] = Field("status", 16) /\ Field("status", 16) \in Range(Need["tx"])
    <2>1. Need["tx"] = s \o w \o e
        BY DEF Need, s, w, e
    <2>2. s \o w \in Seq(S) /\ (s \o w)[1] = s[1] /\ Len(s \o w) >= 1
        <3>1. Len(s) >= 1
            BY <1>3
        <3> HIDE DEF S
        <3> QED
            BY <1>3, <3>1, FirstStays
    <2>3. Need["tx"] \in Seq(S) /\ Need["tx"][1] = s[1] /\ Len(Need["tx"]) >= 1
        <3> HIDE DEF S
        <3>1. (s \o w) \o e \in Seq(S) /\ ((s \o w) \o e)[1] = (s \o w)[1] /\ Len((s \o w) \o e) >= 1
            BY <1>3, <2>2, FirstStays
        <3> QED
            BY <2>1, <2>2, <3>1
    <2>4. \A i \in DOMAIN Need["tx"] : Need["tx"][i] \in S
        <3> HIDE DEF S
        <3> QED
            BY <2>3, ElementOfSeq
    <2>5. 1 \in DOMAIN Need["tx"]
        BY <2>3
    <2> QED
        BY <1>3, <2>3, <2>4, <2>5 DEF Range
<1>5. \A f \in Sought("rx") : f.name \in {"control", "target_pos", "target_vel", "modes", "prof_acc", "prof_dec"}
    BY <1>1 DEF Sought, Find, Field
<1>6. \A f \in Sought("tx") : f.name \in {"status", "act_pos", "act_vel", "dig_in", "err_code"}
    BY <1>4 DEF Sought, Find, Field
<1>7. \A f \in Sought("tx") : f \notin Sought("rx")
    BY <1>5, <1>6
<1>8. \A d \in Directions : Sought(d) \subseteq Bound /\ Need[d][1] \in Sought(d)
    BY <1>1, <1>2, <1>4 DEF Directions, Bound, Sought
<1>9. \A d \in Directions : \A f \in Find[d] : \A c \in Directions : f # Need[c][1]
    BY <1>2, <1>4 DEF Directions, Find, Field
<1> QED
    BY <1>7, <1>8, <1>9

\* Once bound, an axis has the places of its table.
LEMMA PlacesKept == BusInv /\ ForceInv /\ PlacesInv /\ [Next]_vars => PlacesInv'
<1>o. ASSUME PlacesInv, [Next]_vars PROVE DOMAIN off' = Axes
    <2>1. off' = off \/ Forgotten \/ \E x : off' = [off EXCEPT ![cur] = x]
        BY <1>o DEF Next, Connecting, em_shutdown, em_open, Gate, Discover, MapEnsure, SdoWrite, MapWritten, MapGroup,
                    Bind, SafeOp, ReadPolarity, WritePolarity, em_enter_op, Disconnect, RestorePolarity, RestoreMap,
                    MapRestored, Lower, Killed, vars, held
    <2> QED
        BY <1>o, <2>1 DEF PlacesInv, Forgotten
<1> SUFFICES ASSUME BusInv, ForceInv, PlacesInv, [Next]_vars,
                    NEW a \in Axes, NEW d \in Directions, Located(a)'
             PROVE  Placed(a, d)'
    BY <1>o DEF PlacesInv
<1>a. cur \in Axes /\ DriveTypes /\ HeldTypes
    BY DEF BusInv, BusTypes, WorkTypes
<1>b. SameTables \/ SdoWrite
    BY DrivesKept
<1>c. AssignOf[d] \in Objects /\ pdo[a][d] \in Objects
    BY <1>a DEF AssignOf, Objects, Directions, HeldTypes
<1>d. ASSUME SameTables, UNCHANGED <<pdo, off>>, Located(a) PROVE Placed(a, d)'
    <2>1. Placed(a, d)
        BY <1>d DEF PlacesInv
    <2>2. TableOf(a, AssignOf[d])' = TableOf(a, AssignOf[d]) /\ TableOf(a, pdo[a][d])' = TableOf(a, pdo[a][d])
        BY <1>c, <1>d DEF SameTables
    <2> QED
        BY <1>d, <2>1, <2>2 DEF Placed
<1>1. CASE Bind
    <2>1. UNCHANGED <<drive, pdo>> /\ pc = "bind"
        BY <1>1 DEF Bind
    <2>2. SameTables
        BY <2>1 DEF SameTables, TableOf
    <2>3. \/ pc' = "restore_di"
          \/ /\ Usable(cur) /\ NextAxis("bind", "safe")
             /\ \E unread : /\ \A c \in Directions : Need[c][1] \notin unread
                            /\ off' = [off EXCEPT ![cur] =
                                          [f \in Bound |-> IF f \in unread THEN NoPlace ELSE PlaceRead(cur, f)]]
        <3> DEFINE go(unread) ==
                       /\ off' = [off EXCEPT ![cur] =
                                      [f \in Bound |-> IF f \in unread THEN NoPlace ELSE PlaceRead(cur, f)]]
                       /\ NextAxis("bind", "safe")
        <3>1. \/ pc' = "restore_di"
              \/ Usable(cur) /\ go({})
              \/ Usable(cur) /\ \E c \in Directions : \E f \in Find[c] : go({f})
            BY <1>1 DEF Bind, Teardown, Goto
        <3>2. \A unread : unread = {} \/ (\E c \in Directions : \E f \in Find[c] : unread = {f})
                  => \A c \in Directions : Need[c][1] \notin unread
            BY SoughtApart
        <3>3. pc' = "restore_di" \/ \E unread : Usable(cur) /\ go(unread) /\ \A c \in Directions : Need[c][1] \notin unread
            <4> HIDE DEF go
            <4>1. CASE Usable(cur) /\ go({})
                BY <3>2, <4>1
            <4>2. CASE Usable(cur) /\ \E c \in Directions : \E f \in Find[c] : go({f})
                BY <3>2, <4>2
            <4> QED
                BY <3>1, <4>1, <4>2
        <3> QED
            BY <3>3
    <2>4. PICK unread : /\ Usable(cur) /\ NextAxis("bind", "safe")
                        /\ \A c \in Directions : Need[c][1] \notin unread
                        /\ off' = [off EXCEPT ![cur] =
                                      [f \in Bound |-> IF f \in unread THEN NoPlace ELSE PlaceRead(cur, f)]]
        BY <2>3 DEF Located, Operating
    <2>5. CASE a = cur
        <3>1. TableOf(cur, AssignOf[d]) = <<Entry(pdo[cur][d])>>
            <4>1. InForce(cur, d)
                BY <1>a, <2>1 DEF ForceInv, Discovered
            <4>2. TableOf(cur, AssignOf[d]) # <<>>
                BY <2>4, ImageOfNone DEF Usable
            <4> QED
                BY <4>1, <4>2 DEF InForce
        <3>2. \A f \in Sought(d) : PlaceRead(cur, f) = Place(TableOf(cur, pdo[cur][d]), f)
            BY SoughtApart DEF PlaceRead, Directions
        <3>3. \A f \in Bound : off'[cur][f] = IF f \in unread THEN NoPlace ELSE PlaceRead(cur, f)
            <4>1. off'[cur] = [f \in Bound |-> IF f \in unread THEN NoPlace ELSE PlaceRead(cur, f)]
                BY <1>a, <2>4 DEF PlacesInv
            <4> QED
                BY <4>1
        <3>4. TableOf(a, AssignOf[d])' = TableOf(a, AssignOf[d]) /\ TableOf(a, pdo[a][d])' = TableOf(a, pdo[a][d])
            BY <1>c, <2>1, <2>2 DEF SameTables
        <3>5. PlaceRead(cur, Need[d][1]) # NoPlace
            BY <2>4 DEF Usable
        <3> QED
            BY <2>4, <2>5, <3>1, <3>2, <3>3, <3>4, <3>5, SoughtApart DEF Placed
    <2>6. CASE a # cur
        <3>1. Located(a)
            <4>1. (cur < N /\ pc' = "bind" /\ cur' = cur + 1) \/ (cur = N /\ pc' = "safe")
                BY <1>a, <2>4, NextAxisIsAxis
            <4>2. a \in Int /\ cur \in Int /\ a <= N /\ a # cur
                BY <1>a, <2>6, AxesAreNumbers
            <4>3. CASE cur < N /\ pc' = "bind" /\ cur' = cur + 1
                <5>1. a < cur + 1
                    BY <4>3 DEF Located, Operating
                <5> QED
                    BY <2>1, <4>2, <5>1 DEF Located
            <4>4. CASE cur = N
                BY <2>1, <4>2, <4>4 DEF Located
            <4> QED
                BY <4>1, <4>3, <4>4
        <3>2. off'[a] = off[a]
            BY <2>4, <2>6 DEF PlacesInv
        <3>3. TableOf(a, AssignOf[d])' = TableOf(a, AssignOf[d]) /\ TableOf(a, pdo[a][d])' = TableOf(a, pdo[a][d])
            BY <1>c, <2>1, <2>2 DEF SameTables
        <3>4. Placed(a, d)
            BY <3>1 DEF PlacesInv
        <3> QED
            BY <2>1, <3>2, <3>3, <3>4 DEF Placed
    <2> QED
        BY <2>5, <2>6
<1>2. CASE SafeOp \/ ReadPolarity \/ WritePolarity \/ em_enter_op
    <2>1. UNCHANGED <<pdo, off>> /\ pc \in Operating
        BY <1>2 DEF SafeOp, ReadPolarity, WritePolarity, em_enter_op, held, Operating
    <2>2. SameTables
        BY <1>2, <1>b DEF SdoWrite, SafeOp, ReadPolarity, WritePolarity, em_enter_op
    <2> QED
        BY <2>1, <2>2, <1>d DEF Located
<1>3. CASE em_open \/ Gate \/ Discover \/ MapEnsure \/ MapWritten \/ SdoWrite \/ Disconnect \/ RestorePolarity
           \/ RestoreMap \/ MapRestored \/ Lower \/ Killed
    <2>1. pc' \in {"gate", "discover", "ensure", "write", "group", "unwrite", "restore_di", "restore_map", "lower", "closed"}
        BY <1>3 DEF em_open, Gate, Discover, MapEnsure, MapWritten, SdoWrite, Disconnect, RestorePolarity, RestoreMap,
                    MapRestored, Lower, Killed, Ensured, NextAxis, Goto, Teardown
    <2> QED
        BY <2>1 DEF Located, Operating
<1>4. CASE MapGroup
    <2>1. pc' = "restore_di" \/ (pc' = "bind" /\ cur' = 1)
        BY <1>4 DEF MapGroup, Goto, Teardown
    <2> QED
        BY <2>1, AxesAreNumbers DEF Located, Operating
<1>5. CASE UNCHANGED vars
    <2>1. UNCHANGED <<drive, pdo, off, pc, cur>>
        BY <1>5 DEF vars, held
    <2>2. SameTables /\ Located(a)
        BY <2>1 DEF SameTables, TableOf, Located
    <2> QED
        BY <2>1, <2>2, <1>d
<1> QED
    BY <1>1, <1>2, <1>3, <1>4, <1>5 DEF Next, Connecting, em_shutdown

LEMMA PlacesBegin == TablesTaken /\ Init => ForceInv /\ PlacesInv
<1> SUFFICES ASSUME TablesTaken, Init PROVE ForceInv /\ PlacesInv
    OBVIOUS
<1>1. pc = "closed" /\ DOMAIN off = Axes /\ drive \in [Axes -> Drives]
    BY DEF Init
<1>2. TakesTables
    BY <1>1 DEF TakesTables, TablesTaken
<1>3. \A a \in Axes : ~Discovered(a) /\ ~Located(a)
    BY <1>1 DEF Discovered, Located, Operating
<1> QED
    BY <1>1, <1>2, <1>3 DEF ForceInv, PlacesInv

\* However many drives there are, and whatever was refused or lost while their tables
\* were extended: the program writes and reads every field where the drive has it, and
\* has a place for the control and the status word (em_map_ensure, em_axis_bind).
THEOREM FieldsAlwaysInPlace ==
    ASSUME TablesTaken
    PROVE  Spec => []FieldsInPlace
<1>1. Init => ForceInv /\ PlacesInv
    BY PlacesBegin
<1>2. BusInv /\ ForceInv /\ PlacesInv /\ [Next]_vars => ForceInv' /\ PlacesInv'
    BY ForceKept, PlacesKept
<1>3. BusInv /\ ForceInv /\ PlacesInv => FieldsInPlace
    <2> SUFFICES ASSUME BusInv, ForceInv, PlacesInv, pc \in Operating, NEW a \in Axes, NEW d \in Directions
                 PROVE  /\ \A f \in Sought(d) : off[a][f] # NoPlace => off[a][f] = Place(Image(a, d), f)
                        /\ off[a][Need[d][1]] # NoPlace
        BY DEF FieldsInPlace, Operating
    <2>1. InForce(a, d) /\ Placed(a, d)
        BY DEF ForceInv, PlacesInv, Discovered, Located
    <2>2. TableOf(a, AssignOf[d]) = <<Entry(pdo[a][d])>>
        BY <2>1 DEF InForce, Placed
    <2>3. Image(a, d) = TableOf(a, pdo[a][d])
        BY <2>2, ImageOfOne DEF Entry, Field
    <2> QED
        BY <2>1, <2>3 DEF Placed
<1> QED
    BY <1>1, <1>2, <1>3, BusInvHolds, PTL DEF Spec

-------------------------------------------------------------------------------
(* What is put back. *)

\* em_map_ensure only ever appends: what a table was found to hold is still the beginning
\* of its entries, whatever its count, and of what is to be written to it.
Begins(f, e) == Len(f) <= Len(e) /\ \A i \in 1 .. Len(f) : e[i] = f[i]

Longer(a) == {j \in Jobs : Begins(found[a].t[j.o], j.t)}

EntriesInv ==
    /\ \A a \in Axes, o \in Objects : Begins(found[a].t[o], drive[a].obj[o].e)
    /\ pc = "write" => todo \in Seq(Longer(cur))
    /\ pc = "unwrite" => todo \in Seq(Originals(cur))

Differs(a, o) == TableOf(a, o) # found[a].t[o]

\* What em_snap_restore looks at, and the tables em_map_ensure may have queued.
Undone(a) == {pdo[a].tx, "1C13h", pdo[a].rx, "1C12h"}
Chosen    == {j \in Jobs : j.o \in Extended(cur, dir)}

\* Axes to which nothing has been written yet.
Spared(a) ==
    \/ pc = "gate"
    \/ pc = "discover" /\ a >= cur
    \/ pc \in {"ensure", "write"} /\ a > cur

MarksInv ==
    /\ \A a \in Axes : Spared(a) => changed[a] = {}
    /\ \A a \in Axes : changed[a] \subseteq Undone(a)
    /\ pc = "write" => todo \in Seq(Chosen)

\* Up to the tables' restoring, a table that differs was written to the end, or is
\* being written.
Building == {"gate", "discover", "ensure", "write", "group", "bind", "restore_di"} \union Operating

InHand(a, o) == pc = "write" /\ a = cur /\ todo # <<>> /\ o = Head(todo).o /\ sent > 0

WriteInv ==
    clean /\ pc \in Building =>
        \A a \in Axes, o \in Objects : Differs(a, o) => o \in changed[a] \/ InHand(a, o)

\* A sequence of jobs has one about an object.
Has(q, o) == \E i \in DOMAIN q : q[i].o = o

\* Then one that differs is still to come, or in the queue.
PutBackInv ==
    clean /\ AllPreOp =>
        /\ pc = "restore_map" =>
               \A a \in Axes, o \in Objects : Differs(a, o) => a >= cur /\ o \in changed[a]
        /\ pc = "unwrite" =>
               \A a \in Axes, o \in Objects :
                   Differs(a, o) => (a > cur /\ o \in changed[a]) \/ (a = cur /\ Has(todo, o))
        /\ pc = "lower" /\ mapped => \A a \in Axes, o \in Objects : ~Differs(a, o)

\* An SDO touches one object of one axis.
LEMMA SdoTouches ==
    ASSUME BusInv, SdoWrite
    PROVE  \A a \in Axes, o \in Objects :
               a # cur \/ o # Head(todo).o => drive'[a].obj[o] = drive[a].obj[o]
<1> DEFINE p == Head(todo).o
           new == Written(drive[cur].obj[p], Sdo(Head(todo).t, sent))
<1>1. p \in Objects
    <2>1. todo \in Seq(Jobs) /\ todo # <<>>
        BY DEF BusInv, BusTypes, WorkTypes, SdoWrite
    <2>2. Head(todo) \in Jobs
        BY <2>1, HeadTailProperties
    <2> QED
        BY <2>2 DEF Jobs
<1>2. drive' = drive \/ drive' = [drive EXCEPT ![cur].obj[p] = new]
    BY DEF SdoWrite
<1>3. drive \in [Axes -> Box] /\ cur \in Axes
    BY DEF BusInv, BusTypes, DriveTypes, WorkTypes
<1> HIDE DEF new, p
<1>4. CASE drive' = [drive EXCEPT ![cur].obj[p] = new]
    <2>1. \A a \in Axes, o \in Objects : a # cur \/ o # p => drive'[a].obj[o] = drive[a].obj[o]
        BY <1>1, <1>3, <1>4, SdoOnDrive
    <2> QED
        BY <2>1 DEF p
<1> QED
    BY <1>2, <1>4

\* A table begins what it is extended to; the originals are what they are.
LEMMA BeginsItself ==
    ASSUME NEW S, NEW f \in Seq(S), NEW e \in Seq(S)
    PROVE  Begins(f, f \o e) /\ Begins(f, f)
BY ConcatProperties DEF Begins

LEMMA OriginalsAreLonger == \A a \in Axes : HeldTypes => Originals(a) \subseteq Longer(a)
<1> SUFFICES ASSUME HeldTypes, NEW a \in Axes, NEW j \in Originals(a) PROVE Begins(found[a].t[j.o], j.t)
    BY DEF Originals, Longer
<1>1. j.t = found[a].t[j.o] /\ j.o \in Objects
    BY DEF Originals, Jobs
<1>2. found[a].t[j.o] \in Seq(Fields)
    BY <1>1 DEF HeldTypes
<1> QED
    BY <1>1, <1>2 DEF Begins

\* What em_map_ensure is about to write, to tables it has not touched before.
LEMMA ExtensionIsLonger ==
    ASSUME BusInv, pc = "ensure", NEW missing \in Parts[dir]
    PROVE  Extension(cur, dir, missing) \in Seq(Longer(cur))
<1>a. DriveTypes /\ HeldTypes /\ TablesInv /\ cur \in Axes /\ dir \in Directions
    BY DEF BusInv, BusTypes, WorkTypes
<1>b. missing \in Seq(Fields)
    BY <1>a, PartsAreTables
<1>1. \A o \in Extended(cur, dir) : Untouched(cur, o)
    <2>1. pdo[cur][dir] \in TablesOf[dir]
        BY <1>a DEF HeldTypes
    <2>2. CASE dir = "rx"
        BY <2>2 DEF Untouched
    <2>3. CASE dir = "tx"
        <3>1. Extended(cur, dir) \subseteq {"1A00h", "1C13h"}
            BY <2>1, <2>3 DEF TablesOf, AssignOf, Extended
        <3> QED
            BY <2>3, <3>1 DEF Untouched
    <2> QED
        BY <1>a, <2>2, <2>3 DEF Directions
<1>2. ASSUME NEW j \in Jobs, j.o \in Extended(cur, dir),
             TableOf(cur, j.o) = <<>> \/ j.t = TableOf(cur, j.o) \o missing
      PROVE  j \in Longer(cur)
    <2>1. j.o \in Objects /\ j.t \in Seq(Fields)
        BY DEF Jobs
    <2>2. found[cur].t[j.o] = TableOf(cur, j.o)
        BY <1>a, <1>1, <1>2, <2>1 DEF TablesInv
    <2>3. TableOf(cur, j.o) \in Seq(Fields)
        BY <1>a, <2>1, TablesAreTyped
    <2>4. Begins(TableOf(cur, j.o), j.t)
        <3>1. CASE TableOf(cur, j.o) = <<>>
            BY <2>1, <3>1 DEF Begins
        <3>2. CASE j.t = TableOf(cur, j.o) \o missing
            BY <1>b, <2>3, <3>2, BeginsItself
        <3> QED
            BY <1>2, <3>1, <3>2
    <2> QED
        BY <2>2, <2>4 DEF Longer
<1> DEFINE J == {j \in Jobs : /\ j.o \in Extended(cur, dir)
                              /\ \/ TableOf(cur, j.o) = <<>>
                                 \/ j.t = TableOf(cur, j.o) \o missing}
<1>3. J \subseteq Longer(cur)
    BY <1>2
<1>4. Extension(cur, dir, missing) \in Seq(J)
    BY <1>a, ExtensionIsJobs
<1> HIDE DEF J
<1> QED
    BY <1>3, <1>4, LargerSeq

\* What an SDO leaves of the work.
LEMMA SdoQueue ==
    ASSUME SdoWrite
    PROVE  /\ pc \in {"write", "unwrite"} /\ todo # <<>> /\ found' = found
           /\ \/ pc' = "restore_di"
              \/ UNCHANGED <<pc, cur, dir>> /\ todo' \in {todo, Tail(todo)}
BY DEF SdoWrite, Queue, Teardown, Goto

\* Nothing the drive held when it was found is ever overwritten.
LEMMA EntriesKept == BusInv /\ EntriesInv /\ [Next]_vars => EntriesInv'
<1> SUFFICES ASSUME BusInv, EntriesInv, [Next]_vars PROVE EntriesInv'
    OBVIOUS
<1>a. /\ drive \in [Axes -> Box] /\ cur \in Axes /\ DriveTypes /\ HeldTypes /\ TablesInv
      /\ todo \in Seq(Jobs) /\ sent \in Nat
    BY DEF BusInv, BusTypes, DriveTypes, WorkTypes
<1>1. ASSUME NEW a \in Axes, NEW o \in Objects PROVE Begins(found'[a].t[o], drive'[a].obj[o].e)
    <2> DEFINE x == drive[a].obj[o]
               f == found[a].t[o]
    <2>a. x \in [n : Nat, e : Seq(Fields)] /\ x.n <= Len(x.e) /\ f \in Seq(Fields) /\ Begins(f, x.e)
        BY <1>a DEF Box, DriveTypes, Sound, HeldTypes, EntriesInv
    <2>1. CASE em_open
        <3>1. found'[a].t[o] = SubSeq(x.e, 1, x.n)
            BY <2>1 DEF em_open, TableOf, Content
        <3>2. drive'[a].obj[o] = x
            BY <2>1, WhatStepsLeave DEF em_open, SdoWrite
        <3> HIDE DEF x
        <3> QED
            BY <2>a, <3>1, <3>2 DEF Begins
    <2>2. CASE found' = found /\ drive'[a].obj[o] = drive[a].obj[o]
        BY <2>2 DEF EntriesInv
    <2>3. CASE SdoWrite /\ drive'[a].obj[o] # drive[a].obj[o]
        <3> DEFINE t == Head(todo).t
                   w == Sdo(t, sent)
                   new == Written(x, w)
        <3>1. a = cur /\ o = Head(todo).o /\ found' = found /\ todo # <<>> /\ pc \in {"write", "unwrite"}
            BY <2>3, SdoTouches, SdoQueue
        <3>2. Head(todo) \in Jobs /\ Begins(f, t)
            <4>1. todo \in Seq(Longer(cur))
                BY <1>a, <3>1, OriginalsAreLonger, LargerSeq DEF EntriesInv
            <4>2. Head(todo) \in Longer(cur)
                BY <3>1, <4>1, HeadTailProperties
            <4> QED
                BY <3>1, <4>2 DEF Longer
        <3>3. t \in Seq(Fields)
            BY <3>2 DEF Jobs
        <3>4. drive'[a].obj[o] = new
            <4> HIDE DEF w, t
            <4>1. drive' = [drive EXCEPT ![cur].obj[o] = Written(@, w)]
                BY <2>3, <3>1 DEF SdoWrite, w, t
            <4>2. drive'[a] = [drive[a] EXCEPT !.obj[o] = Written(@, w)] /\ drive[a] \in Box
                BY <1>a, <3>1, <4>1
            <4> QED
                BY <4>2 DEF Box
        <3>5. w.sub = 0 \/ (w.sub \in DOMAIN t /\ w.v = t[w.sub])
            BY DEF Sdo
        <3> HIDE DEF w, x, t, f
        <3>6. CASE w.sub = 0
            <4>1. new.e = x.e
                BY <2>a, <3>6 DEF Written
            <4> QED
                BY <2>a, <3>1, <3>4, <4>1 DEF f
        <3>7. CASE w.sub \in DOMAIN t /\ w.v = t[w.sub] /\ w.sub # 0
            <4>1. new.e = IF w.sub \in DOMAIN x.e THEN [x.e EXCEPT ![w.sub] = w.v] ELSE Append(x.e, w.v)
                BY <2>a, <3>7 DEF Written
            <4>2. CASE w.sub \in DOMAIN x.e
                <5>1. new.e = [x.e EXCEPT ![w.sub] = w.v]
                    BY <4>1, <4>2
                <5>2. Begins(f, new.e)
                    BY <2>a, <3>2, <3>3, <3>7, <4>2, <5>1 DEF Begins
                <5> QED
                    BY <3>1, <3>4, <5>2 DEF f
            <4>3. CASE w.sub \notin DOMAIN x.e
                <5>1. new.e = Append(x.e, w.v)
                    BY <4>1, <4>3
                <5>2. Begins(f, new.e)
                    BY <2>a, <5>1 DEF Begins
                <5> QED
                    BY <3>1, <3>4, <5>2 DEF f
            <4> QED
                BY <4>2, <4>3
        <3> QED
            BY <3>5, <3>6, <3>7
    <2>4. found' = found \/ em_open
        BY DEF Next, Connecting, em_shutdown, Gate, Discover, MapEnsure, SdoWrite, MapWritten, MapGroup, Bind,
               SafeOp, ReadPolarity, WritePolarity, em_enter_op, Disconnect, RestorePolarity, RestoreMap,
               MapRestored, Lower, Killed, vars
    <2>5. drive'[a].obj[o] = drive[a].obj[o] \/ SdoWrite
        BY WhatStepsLeave
    <2> QED
        BY <2>1, <2>2, <2>3, <2>4, <2>5
<1>2. CASE MapEnsure /\ pc' = "write"
    <2>1. PICK missing \in Parts[dir] :
              \/ pc' # "write"
              \/ todo' = Extension(cur, dir, missing) /\ UNCHANGED <<cur, found>>
        <3>1. PICK missing \in Parts[dir] :
                  \/ Ensured
                  \/ Teardown
                  \/ Queue(Extension(cur, dir, missing)) /\ UNCHANGED cur
            BY <1>2 DEF MapEnsure, Extension
        <3>2. found' = found /\ pc = "ensure"
            BY <1>2 DEF MapEnsure
        <3>3. Ensured \/ Teardown => pc' # "write"
            BY <3>2, EnsuredDiscovers DEF Teardown, Goto
        <3> QED
            BY <3>1, <3>2, <3>3 DEF Queue
    <2>2. Extension(cur, dir, missing) \in Seq(Longer(cur))
        BY <1>2, ExtensionIsLonger DEF MapEnsure
    <2>3. todo' = Extension(cur, dir, missing) /\ Longer(cur)' = Longer(cur)
        BY <1>2, <2>1 DEF Longer
    <2> QED
        BY <1>1, <1>2, <2>2, <2>3 DEF EntriesInv
<1>3. CASE SdoWrite
    <2>1. CASE pc' = "restore_di"
        BY <1>1, <2>1 DEF EntriesInv
    <2>2. CASE UNCHANGED <<pc, cur, dir>> /\ todo' \in {todo, Tail(todo)}
        <3>1. todo # <<>> /\ Longer(cur)' = Longer(cur) /\ Originals(cur)' = Originals(cur)
            BY <1>3, <2>2, SdoQueue DEF Longer, Originals
        <3>2. \A S : todo \in Seq(S) => todo' \in Seq(S)
            BY <2>2, <3>1, HeadTailProperties
        <3> QED
            BY <1>1, <2>2, <3>1, <3>2 DEF EntriesInv
    <2> QED
        BY <1>3, <2>1, <2>2, SdoQueue
<1>4. CASE RestoreMap
    <2>1. pc' = "unwrite" /\ todo' = UndoAll(cur) /\ cur' = cur /\ found' = found
        BY <1>4 DEF RestoreMap, Queue
    <2>2. UndoAll(cur) \in Seq(Originals(cur))
        BY <1>a, UndoIsJobs
    <2>3. Originals(cur)' = Originals(cur)
        BY <2>1 DEF Originals
    <2> QED
        BY <1>1, <2>1, <2>2, <2>3 DEF EntriesInv
<1>5. ASSUME pc' \notin {"write", "unwrite"} PROVE EntriesInv'
    BY <1>1, <1>5 DEF EntriesInv
<1>6. CASE (MapEnsure /\ pc' # "write") \/ MapWritten
    <2>1. pc' # "unwrite" /\ pc' # "write"
        BY <1>6 DEF MapEnsure, MapWritten, Ensured, NextAxis, Teardown, Goto
    <2> QED
        BY <1>5, <2>1
<1>8. CASE em_open \/ Gate \/ Discover \/ MapGroup \/ Bind \/ SafeOp \/ ReadPolarity \/ WritePolarity
           \/ em_enter_op \/ Disconnect \/ RestorePolarity \/ MapRestored \/ Lower \/ Killed
    <2>1. pc' \in {"gate", "discover", "restore_di", "ensure", "group", "bind", "safe", "polarity",
                   "write_di", "op", "running", "restore_map", "lower", "closed"}
        BY <1>8 DEF em_open, Gate, Discover, MapGroup, Bind, SafeOp, ReadPolarity, WritePolarity,
                    em_enter_op, Disconnect, RestorePolarity, MapRestored, Lower, Killed, NextAxis, Goto, Teardown
    <2> QED
        BY <1>5, <2>1
<1>7. CASE UNCHANGED vars
    BY <1>7 DEF vars, held, EntriesInv, Longer, Originals
<1> QED
    BY <1>2, <1>3, <1>4, <1>6, <1>7, <1>8 DEF Next, Connecting, em_shutdown

\* Only what was queued for an axis is ever marked as written.
LEMMA MarksKept == BusInv /\ MarksInv /\ [Next]_vars => MarksInv'
<1> SUFFICES ASSUME BusInv, MarksInv, [Next]_vars PROVE MarksInv'
    OBVIOUS
<1>a. /\ DriveTypes /\ WorkTypes /\ HeldTypes /\ cur \in Axes /\ dir \in Directions
      /\ changed \in [Axes -> SUBSET Objects] /\ pdo \in [Axes -> [Directions -> Objects]]
    BY DEF BusInv, BusTypes, WorkTypes, HeldTypes
<1>b. ASSUME UNCHANGED <<pdo, changed>>, pc' # "write", \A a \in Axes : Spared(a)' => Spared(a) PROVE MarksInv'
    BY <1>b DEF MarksInv, Undone
<1>c. ASSUME changed' = [a \in Axes |-> {}], pc' # "write" PROVE MarksInv'
    BY <1>c DEF MarksInv
<1>e. cur \in Int /\ (\A a \in Axes : a \in Int)
    BY <1>a, AxesAreNumbers
<1>d. ASSUME Ensured, UNCHANGED <<pdo, changed>>, pc \in {"ensure", "write"} PROVE MarksInv'
    <2>1. \/ pc' = "ensure" /\ cur' = cur
          \/ cur < N /\ pc' = "discover" /\ cur' = cur + 1
          \/ pc' = "group"
        BY <1>a, <1>d, NextAxisIsAxis DEF Ensured
    <2>2. \A a \in Axes : Spared(a)' => Spared(a)
        BY <1>d, <1>e, <2>1 DEF Spared
    <2> QED
        BY <1>b, <1>d, <2>1, <2>2
<1>1. CASE em_open \/ Lower \/ Killed
    <2>1. changed' = [a \in Axes |-> {}] /\ pc' # "write"
        BY <1>1 DEF em_open, Lower, Killed, Forgotten
    <2> QED
        BY <1>c, <2>1
<1>2. CASE Gate
    <2>1. UNCHANGED <<pdo, changed>> /\ pc = "gate" /\ pc' \in {"discover", "restore_di"}
        BY <1>2 DEF Gate, Goto, Teardown, held
    <2> QED
        BY <1>b, <2>1 DEF Spared
<1>3. CASE Discover
    <2>1. changed' = changed /\ pc = "discover"
        BY <1>3 DEF Discover
    <2>2. \/ pc' = "restore_di" /\ pdo' = pdo
          \/ pc' = "ensure" /\ cur' = cur /\ \E x : pdo' = [pdo EXCEPT ![cur] = x]
        BY <1>3 DEF Discover, Goto, Teardown
    <2>3. CASE pc' = "restore_di" /\ pdo' = pdo
        BY <1>b, <2>1, <2>3 DEF Spared
    <2>4. CASE pc' = "ensure" /\ cur' = cur /\ \E x : pdo' = [pdo EXCEPT ![cur] = x]
        <3>1. \A a \in Axes : a # cur => pdo'[a] = pdo[a]
            BY <1>a, <2>4
        <3>2. changed[cur] = {}
            <4>1. cur >= cur
                BY <1>e
            <4> QED
                BY <1>a, <2>1, <4>1 DEF MarksInv, Spared
        <3>3. \A a \in Axes : Spared(a)' => Spared(a)
            BY <1>e, <2>1, <2>4 DEF Spared
        <3>4. \A a \in Axes : changed[a] \subseteq Undone(a)'
            BY <2>1, <3>1, <3>2 DEF MarksInv, Undone
        <3> QED
            BY <2>1, <2>4, <3>3, <3>4 DEF MarksInv
    <2> QED
        BY <2>2, <2>3, <2>4
<1>4. CASE MapEnsure
    <2>1. UNCHANGED <<pdo, changed>> /\ pc = "ensure"
        BY <1>4 DEF MapEnsure
    <2>2. PICK missing \in Parts[dir] :
              \/ Ensured
              \/ Teardown
              \/ Queue(Extension(cur, dir, missing)) /\ UNCHANGED <<cur, dir>> /\ pc' = "write"
        BY <1>4 DEF MapEnsure, Extension
    <2>3. CASE Teardown
        BY <1>b, <2>1, <2>3 DEF Teardown, Goto, Spared
    <2>4. CASE Queue(Extension(cur, dir, missing)) /\ UNCHANGED <<cur, dir>> /\ pc' = "write"
        <3>1. \A a \in Axes : Spared(a)' => Spared(a)
            BY <2>1, <2>4 DEF Spared
        <3>2. todo' \in Seq(Chosen)
            BY <1>a, <2>4, ExtensionIsJobs DEF Queue, Chosen
        <3>3. Chosen' = Chosen
            BY <2>1, <2>4 DEF Chosen, Extended
        <3>4. \A a \in Axes : Undone(a)' = Undone(a)
            BY <2>1 DEF Undone
        <3> QED
            BY <2>1, <2>4, <3>1, <3>2, <3>3, <3>4 DEF MarksInv
    <2> QED
        BY <1>d, <2>1, <2>2, <2>3, <2>4
<1>5. CASE MapWritten
    BY <1>5, <1>d DEF MapWritten
<1>6. CASE MapGroup \/ Bind \/ SafeOp \/ ReadPolarity \/ WritePolarity \/ em_enter_op \/ Disconnect
           \/ RestorePolarity \/ RestoreMap \/ MapRestored
    <2>1. UNCHANGED <<pdo, changed>>
        BY <1>6 DEF MapGroup, Bind, SafeOp, ReadPolarity, WritePolarity, em_enter_op, Disconnect, RestorePolarity,
                    RestoreMap, MapRestored, held
    <2>2. pc' \in {"bind", "safe", "polarity", "write_di", "op", "running", "restore_di", "restore_map", "unwrite", "lower"}
        BY <1>6 DEF MapGroup, Bind, SafeOp, ReadPolarity, WritePolarity, em_enter_op, Disconnect, RestorePolarity,
                    RestoreMap, MapRestored, NextAxis, Goto, Teardown
    <2> QED
        BY <1>b, <2>1, <2>2 DEF Spared
<1>7. CASE SdoWrite
    <2> DEFINE o == Head(todo).o
    <2>1. /\ pdo' = pdo /\ pc \in {"write", "unwrite"} /\ todo # <<>>
          /\ \/ changed' = changed
             \/ pc = "write" /\ changed' = [changed EXCEPT ![cur] = @ \cup {o}]
          /\ \/ pc' = "restore_di"
             \/ UNCHANGED <<pc, cur, dir>> /\ todo' \in {todo, Tail(todo)}
        BY <1>7 DEF SdoWrite, Queue, Teardown, Goto
    <2>2. pc = "write" => o \in Undone(cur) /\ Tail(todo) \in Seq(Chosen)
        <3>1. ASSUME pc = "write" PROVE Head(todo) \in Chosen /\ Tail(todo) \in Seq(Chosen)
            BY <2>1, <3>1, HeadTailProperties DEF MarksInv
        <3>2. Extended(cur, dir) \subseteq Undone(cur)
            <4>1. CASE dir = "rx"
                BY <4>1 DEF Extended, Undone, AssignOf
            <4>2. CASE dir = "tx"
                BY <4>2 DEF Extended, Undone, AssignOf
            <4> QED
                BY <1>a, <4>1, <4>2 DEF Directions
        <3> QED
            BY <3>1, <3>2 DEF Chosen
    <2> HIDE DEF o
    <2>3. \A a \in Axes : changed'[a] \subseteq Undone(a) /\ (a # cur => changed'[a] = changed[a])
        BY <1>a, <2>1, <2>2 DEF MarksInv
    <2>4. \A a \in Axes : Undone(a)' = Undone(a)
        BY <2>1 DEF Undone
    <2>5. \A a \in Axes : Spared(a)' => Spared(a) /\ a # cur
        BY <1>e, <2>1 DEF Spared
    <2>6. pc' = "write" => todo' \in Seq(Chosen) /\ Chosen' = Chosen
        BY <2>1, <2>2 DEF MarksInv, Chosen, Extended
    <2> QED
        BY <2>3, <2>4, <2>5, <2>6 DEF MarksInv
<1>8. CASE UNCHANGED vars
    BY <1>8 DEF vars, held, MarksInv, Spared, Undone, Chosen, Extended
<1> QED
    BY <1>1, <1>2, <1>3, <1>4, <1>5, <1>6, <1>7, <1>8 DEF Next, Connecting, em_shutdown

\* What differs from what was found is what did, while the tables stay.
LEMMA DiffersRests ==
    ASSUME SameTables, found' = found
    PROVE  \A a \in Axes, o \in Objects : Differs(a, o)' <=> Differs(a, o)
BY DEF SameTables, Differs

\* What has been written is marked, or in hand.
LEMMA WriteKept == BusInv /\ WriteInv /\ [Next]_vars => WriteInv'
<1> SUFFICES ASSUME BusInv, WriteInv, [Next]_vars, clean', pc' \in Building,
                    NEW a \in Axes, NEW o \in Objects, Differs(a, o)'
             PROVE  o \in changed'[a] \/ InHand(a, o)'
    BY DEF WriteInv
<1>a. /\ cur \in Axes /\ changed \in [Axes -> SUBSET Objects] /\ sent \in Nat /\ todo \in Seq(Jobs)
    BY DEF BusInv, BusTypes, WorkTypes, HeldTypes
<1>b. ASSUME SameTables, found' = found, changed' = changed, clean, pc \in Building,
             pc # "write" \/ todo = <<>>
      PROVE  o \in changed'[a]
    <2>1. Differs(a, o)
        BY <1>b, DiffersRests
    <2>2. ~InHand(a, o)
        BY <1>b DEF InHand
    <2> QED
        BY <1>b, <2>1, <2>2 DEF WriteInv
<1>c. SameTables \/ SdoWrite
    BY DrivesKept
<1>1. CASE em_open
    <2>1. found'[a].t[o] = TableOf(a, o)
        BY <1>1 DEF em_open
    <2>2. TableOf(a, o)' = TableOf(a, o)
        BY <1>1, <1>c DEF em_open, SdoWrite, SameTables
    <2> QED
        BY <2>1, <2>2 DEF Differs
<1>2. CASE Gate \/ Discover \/ MapEnsure \/ MapWritten \/ MapGroup \/ Bind \/ SafeOp \/ ReadPolarity
           \/ WritePolarity \/ em_enter_op \/ Disconnect \/ RestorePolarity
    <2>1. /\ found' = found /\ changed' = changed
          /\ pc # "write" \/ todo = <<>>
        BY <1>2 DEF Gate, Discover, MapEnsure, MapWritten, MapGroup, Bind, SafeOp, ReadPolarity, WritePolarity,
                    em_enter_op, Disconnect, RestorePolarity, held
    <2>2. /\ pc \in {"gate", "discover", "ensure", "write", "group", "bind", "safe", "polarity", "write_di",
                     "op", "running", "restore_di"}
        BY <1>2 DEF Gate, Discover, MapEnsure, MapWritten, MapGroup, Bind, SafeOp, ReadPolarity, WritePolarity,
                    em_enter_op, Disconnect, RestorePolarity
    <2>3. clean
        BY <1>2 DEF Gate, Discover, MapEnsure, MapWritten, MapGroup, Bind, SafeOp, ReadPolarity, WritePolarity,
                    em_enter_op, Disconnect, RestorePolarity, Fine, Fault, Reaches, Balks, Confirmed, Unconfirmed
    <2>4. SameTables
        BY <1>2, <1>c, <2>2 DEF SdoWrite, Gate, Discover, MapEnsure, MapWritten, MapGroup, Bind, SafeOp,
                    ReadPolarity, WritePolarity, em_enter_op, Disconnect, RestorePolarity
    <2> QED
        BY <1>b, <2>1, <2>2, <2>3, <2>4 DEF Building, Operating
<1>3. CASE SdoWrite
    <2> DEFINE p == Head(todo).o
    <2>1. /\ found' = found /\ todo # <<>> /\ clean
          /\ pc \in {"write", "unwrite"}
        BY <1>3 DEF SdoWrite, Fine, Fault
    <2>2. \/ UNCHANGED <<pc, cur>> /\ todo' = todo /\ sent' = sent + 1 /\ changed' = changed
          \/ /\ UNCHANGED <<pc, cur>> /\ todo' = Tail(todo)
             /\ pc = "write" => changed' = [changed EXCEPT ![cur] = @ \cup {p}]
        BY <1>3, <2>1 DEF SdoWrite, Queue, Fault
    <2>3. pc = "write"
        BY <2>1, <2>2 DEF Building, Operating
    <2>4. CASE a = cur /\ o = p
        <3>1. CASE UNCHANGED <<pc, cur>> /\ todo' = todo /\ sent' = sent + 1 /\ changed' = changed
            <4>1. sent' > 0
                BY <1>a, <3>1
            <4> QED
                BY <2>1, <2>3, <2>4, <3>1, <4>1 DEF InHand
        <3>2. CASE changed' = [changed EXCEPT ![cur] = @ \cup {p}]
            BY <1>a, <2>4, <3>2
        <3> QED
            BY <2>2, <2>3, <3>1, <3>2
    <2>5. CASE a # cur \/ o # p
        <3>1. TableOf(a, o)' = TableOf(a, o)
            BY <1>3, <2>5, SdoTouches DEF TableOf
        <3>2. Differs(a, o)
            BY <2>1, <3>1 DEF Differs
        <3>3. ~InHand(a, o)
            BY <2>5 DEF InHand
        <3>4. o \in changed[a]
            BY <2>1, <2>3, <3>2, <3>3 DEF WriteInv, Building
        <3> HIDE DEF p
        <3>5. changed[a] \subseteq changed'[a]
            BY <1>a, <2>2, <2>3
        <3> QED
            BY <3>4, <3>5
    <2> QED
        BY <2>4, <2>5
<1>4. CASE RestoreMap \/ MapRestored \/ Lower \/ Killed
    <2>1. pc' \in {"unwrite", "restore_map", "lower", "closed"}
        BY <1>4 DEF RestoreMap, MapRestored, Lower, Killed, NextAxis, Goto
    <2> QED
        BY <2>1 DEF Building, Operating
<1>5. CASE UNCHANGED vars
    <2>1. Differs(a, o) /\ clean /\ pc \in Building
        BY <1>5 DEF vars, Differs, TableOf
    <2> QED
        BY <1>5, <2>1 DEF vars, held, WriteInv, InHand
<1> QED
    BY <1>1, <1>2, <1>3, <1>4, <1>5 DEF Next, Connecting, em_shutdown

\* What is in one of two sequences is in the whole.
LEMMA ConcatHas ==
    ASSUME NEW p \in Seq(Jobs), NEW q \in Seq(Jobs), NEW o, Has(p, o) \/ Has(q, o)
    PROVE  p \o q \in Seq(Jobs) /\ Has(p \o q, o)
<1>1. p \o q \in Seq(Jobs) /\ Len(p \o q) = Len(p) + Len(q)
    BY ConcatProperties
<1>2. ASSUME NEW i \in DOMAIN p, p[i].o = o PROVE Has(p \o q, o)
    <2>1. i \in 1 .. Len(p) + Len(q) /\ (p \o q)[i] = p[i]
        BY ConcatProperties
    <2> QED
        BY <1>1, <1>2, <2>1 DEF Has
<1>3. ASSUME NEW i \in DOMAIN q, q[i].o = o PROVE Has(p \o q, o)
    <2>1. Len(p) + i \in 1 .. Len(p) + Len(q) /\ (p \o q)[Len(p) + i] = q[i]
        BY ConcatProperties
    <2> QED
        BY <1>1, <1>3, <2>1 DEF Has
<1> QED
    BY <1>1, <1>2, <1>3 DEF Has

\* Every table of an axis that is marked, and was chosen for it, is put back.
LEMMA UndoHas ==
    ASSUME HeldTypes, TablesInv, NEW a \in Axes, NEW o \in changed[a], o \in Undone(a)
    PROVE  Has(UndoAll(a), o)
<1>1. \A p \in Objects : Undo(a, p) \in Seq(Jobs)
    <2> SUFFICES ASSUME NEW p \in Objects, p \in changed[a] PROVE <<Job(p, snap[a][p])>> \in Seq(Jobs)
        BY EmptySeq DEF Undo
    <2>1. snap[a][p] \in Seq(EntriesOf(p))
        BY DEF TablesInv, SnapHolds, HeldTypes
    <2>2. Job(p, snap[a][p]) \in Jobs
        BY <2>1, JobIsJob
    <2> QED
        BY <2>2
<1>2. \A p : p = o => Has(Undo(a, p), o)
    BY DEF Has, Undo, Job
<1>3. pdo[a].tx \in Objects /\ "1C13h" \in Objects /\ pdo[a].rx \in Objects /\ "1C12h" \in Objects
    BY DEF HeldTypes, Objects, Directions
<1> DEFINE A == Undo(a, pdo[a].tx)
           B == Undo(a, "1C13h")
           C == Undo(a, pdo[a].rx)
           D == Undo(a, "1C12h")
<1>4. A \in Seq(Jobs) /\ B \in Seq(Jobs) /\ C \in Seq(Jobs) /\ D \in Seq(Jobs)
    BY <1>1, <1>3
<1>5. Has(A, o) \/ Has(B, o) \/ Has(C, o) \/ Has(D, o)
    BY <1>2 DEF Undone
<1>6. UndoAll(a) = A \o B \o C \o D
    BY DEF UndoAll
<1> HIDE DEF A, B, C, D
<1>7. A \o B \in Seq(Jobs) /\ (A \o B) \o C \in Seq(Jobs)
    BY <1>4, ConcatProperties
<1>8. CASE Has(D, o)
    <2>1. Has(((A \o B) \o C) \o D, o)
        BY <1>4, <1>7, <1>8, ConcatHas
    <2> QED
        BY <1>6, <2>1
<1>9. CASE Has(A, o) \/ Has(B, o) \/ Has(C, o)
    <2>1. Has(A, o) \/ Has(B, o) => Has(A \o B, o)
        BY <1>4, ConcatHas
    <2>2. Has((A \o B) \o C, o)
        BY <1>4, <1>7, <1>9, <2>1, ConcatHas
    <2>3. Has(((A \o B) \o C) \o D, o)
        BY <1>4, <1>7, <2>2, ConcatHas
    <2> QED
        BY <1>6, <2>3
<1> QED
    BY <1>5, <1>8, <1>9

\* What is still in a queue when its first job is done.
LEMMA TailHas ==
    ASSUME NEW q \in Seq(Jobs), q # <<>>, NEW o, Has(q, o), o # Head(q).o
    PROVE  Has(Tail(q), o)
<1>1. PICK i \in DOMAIN q : q[i].o = o
    BY DEF Has
<1>2. i # 1 /\ i \in 1 .. Len(q)
    BY <1>1
<1>3. i - 1 \in 1 .. Len(q) - 1 /\ Len(Tail(q)) = Len(q) - 1 /\ Tail(q) \in Seq(Jobs)
    BY <1>2, HeadTailProperties
<1>4. Tail(q)[i - 1] = q[i]
    BY <1>2, <1>3
<1> QED
    BY <1>1, <1>3, <1>4 DEF Has

\* The last SDO sets the count, which is in force again what the table was found to be.
LEMMA LastPutsBack ==
    ASSUME BusInv, EntriesInv, SdoWrite, pc = "unwrite", clean', drive[cur].al = "PRE_OP",
           sent > Len(Head(todo).t)
    PROVE  Content(drive'[cur].obj[Head(todo).o]) = found[cur].t[Head(todo).o]
<1> DEFINE o == Head(todo).o
           t == Head(todo).t
           w == Sdo(t, sent)
           x == drive[cur].obj[o]
<1>1. /\ drive \in [Axes -> Box] /\ cur \in Axes /\ sent \in Nat
      /\ todo \in Seq(Originals(cur)) /\ todo # <<>>
    BY SdoQueue DEF BusInv, BusTypes, DriveTypes, WorkTypes, EntriesInv
<1>2. Head(todo) \in Originals(cur)
    BY <1>1, HeadTailProperties
<1>3. o \in Objects /\ t \in Seq(Fields) /\ t = found[cur].t[o]
    BY <1>2 DEF Originals, Jobs
<1>4. x \in [n : Nat, e : Seq(Fields)] /\ Begins(t, x.e)
    BY <1>1, <1>3 DEF Box, EntriesInv
<1>5. w.sub = 0 /\ w.v = Len(t)
    BY <1>1, <1>3 DEF Sdo
<1>6. Accepts(cur, o, w)
    BY <1>4, <1>5 DEF Accepts, Begins
<1>7. drive' = [drive EXCEPT ![cur].obj[o] = Written(@, w)]
    BY <1>6 DEF SdoWrite, Fault
<1> HIDE DEF w, t, o
<1>8. drive'[cur].obj[o] = Written(x, w)
    <2>1. drive'[cur] = [drive[cur] EXCEPT !.obj[o] = Written(@, w)] /\ drive[cur] \in Box
        BY <1>1, <1>7
    <2> QED
        BY <1>3, <2>1 DEF Box
<1>9. Content(Written(x, w)) = t
    <2> HIDE DEF x
    <2>1. Written(x, w).e = x.e /\ Written(x, w).n = Len(t)
        BY <1>4, <1>5 DEF Written
    <2>2. SubSeq(x.e, 1, Len(t)) = t
        BY <1>3, <1>4 DEF Begins
    <2> QED
        BY <2>1, <2>2 DEF Content
<1> QED
    BY <1>3, <1>8, <1>9 DEF o

\* em_snap_restore goes through the axes and, of each, through all that was written.
LEMMA PutBackKept ==
    BusInv /\ EntriesInv /\ MarksInv /\ WriteInv /\ PutBackInv /\ [Next]_vars => PutBackInv'
<1> SUFFICES ASSUME BusInv, EntriesInv, MarksInv, WriteInv, PutBackInv, [Next]_vars, clean', AllPreOp',
                    pc' \in {"restore_map", "unwrite", "lower"}
             PROVE  PutBackInv'
    BY DEF PutBackInv
<1>a. /\ DriveTypes /\ HeldTypes /\ TablesInv /\ cur \in Axes /\ sent \in Nat /\ todo \in Seq(Jobs)
      /\ drive \in [Axes -> Box]
    BY DEF BusInv, BusTypes, DriveTypes, WorkTypes
<1>b. cur \in Int /\ (\A a \in Axes : a \in Int /\ a >= 1 /\ a <= N)
    BY <1>a, AxesAreNumbers
<1>c. SameTables \/ SdoWrite
    BY DrivesKept
<1>1. CASE RestorePolarity
    <2>1. /\ pc = "restore_di" /\ clean /\ found' = found /\ changed' = changed /\ mapped' = mapped
          /\ \/ pc' = "restore_map" /\ cur' = 1
             \/ pc' = "lower" /\ ~mapped
        <3>1. /\ pc = "restore_di" /\ clean /\ found' = found /\ changed' = changed /\ mapped' = mapped
              /\ NextAxis("restore_di", IF mapped THEN "restore_map" ELSE "lower")
            BY <1>1 DEF RestorePolarity, Fine, Fault, Confirmed, Unconfirmed
        <3>2. /\ pc' \in {"restore_di", IF mapped THEN "restore_map" ELSE "lower"}
              /\ pc' # "restore_di" => cur' = 1
            BY <1>a, <3>1, NextAxisIsAxis
        <3>3. CASE mapped
            BY <3>1, <3>2, <3>3
        <3>4. CASE ~mapped
            BY <3>1, <3>2, <3>4
        <3> QED
            BY <3>3, <3>4
    <2>2. SameTables
        BY <1>c, <2>1 DEF SdoWrite
    <2>3. \A a \in Axes, o \in Objects : Differs(a, o)' => o \in changed[a]
        BY <2>1, <2>2, DiffersRests DEF WriteInv, Building, InHand
    <2>4. CASE pc' = "restore_map" /\ cur' = 1
        <3>1. \A a \in Axes : a >= cur'
            BY <1>b, <2>4
        <3> QED
            BY <2>1, <2>3, <2>4, <3>1 DEF PutBackInv
    <2>5. CASE pc' = "lower" /\ ~mapped
        BY <2>1, <2>5 DEF PutBackInv
    <2> QED
        BY <2>1, <2>4, <2>5
<1>2. CASE RestoreMap
    <2>1. /\ pc = "restore_map" /\ pc' = "unwrite" /\ todo' = UndoAll(cur) /\ sent' = 0
          /\ UNCHANGED <<drive, cur, found, clean, changed>>
        BY <1>2 DEF RestoreMap, Queue, held
    <2>2. \A a \in Axes, o \in Objects : Differs(a, o)' => a >= cur /\ o \in changed[a]
        BY <2>1 DEF PutBackInv, AllPreOp, Differs, TableOf
    <2>3. \A o \in changed[cur] : Has(UndoAll(cur), o)
        BY <1>a, UndoHas DEF MarksInv
    <2>4. \A a \in Axes, o \in Objects :
              Differs(a, o)' => (a > cur /\ o \in changed[a]) \/ (a = cur /\ Has(UndoAll(cur), o))
        <3> SUFFICES ASSUME NEW a \in Axes, NEW o \in Objects, Differs(a, o)'
                     PROVE  (a > cur /\ o \in changed[a]) \/ (a = cur /\ Has(UndoAll(cur), o))
            OBVIOUS
        <3>1. a >= cur /\ o \in changed[a]
            BY <2>2
        <3>2. a > cur \/ a = cur
            BY <1>b, <3>1
        <3> QED
            BY <2>3, <3>1, <3>2
    <2> HIDE DEF UndoAll
    <2> QED
        BY <2>1, <2>4 DEF PutBackInv
<1>3. CASE SdoWrite
    <2> DEFINE o == Head(todo).o
               t == Head(todo).t
    <2>1. /\ UNCHANGED <<found, mapped>> /\ todo # <<>> /\ clean /\ pc = "unwrite" /\ pc' = "unwrite"
          /\ UNCHANGED <<changed, cur>>
        BY <1>3 DEF SdoWrite, Fine, Fault, Teardown, Goto
    <2>2. AllPreOp
        <3>1. ~em_open /\ ~SafeOp /\ ~em_enter_op /\ ~Lower
            BY <2>1 DEF em_open, SafeOp, em_enter_op, Lower
        <3>2. \A a \in Axes : drive'[a].al = drive[a].al
            BY <3>1, WhatStepsLeave
        <3> QED
            BY <3>2 DEF AllPreOp
    <2>3. \A a \in Axes, p \in Objects :
              Differs(a, p) => (a > cur /\ p \in changed[a]) \/ (a = cur /\ Has(todo, p))
        BY <2>1, <2>2 DEF PutBackInv
    <2>4. \A a \in Axes, p \in Objects : a # cur \/ p # o => (Differs(a, p)' => Differs(a, p))
        BY <1>3, <2>1, SdoTouches DEF Differs, TableOf
    <2>5. CASE todo' = todo
        <3>1. Has(todo, o)
            <4>1. 1 \in DOMAIN todo /\ todo[1] = Head(todo)
                BY <1>a, <2>1
            <4> QED
                BY <4>1 DEF Has
        <3>2. \A a \in Axes, p \in Objects :
                  Differs(a, p)' => (a > cur /\ p \in changed[a]) \/ (a = cur /\ Has(todo, p))
            BY <2>3, <2>4, <3>1
        <3> QED
            BY <2>1, <2>5, <3>2 DEF PutBackInv
    <2>6. CASE todo' = Tail(todo) /\ sent > Len(t)
        <3>1. \A a \in Axes, p \in Objects : a = cur /\ p = o => ~Differs(a, p)'
            BY <1>3, <1>a, <2>1, <2>2, <2>6, LastPutsBack DEF AllPreOp, Differs, TableOf
        <3>2. \A p : Has(todo, p) /\ p # o => Has(Tail(todo), p)
            BY <1>a, <2>1, TailHas
        <3>3. \A a \in Axes, p \in Objects :
                  Differs(a, p)' => (a > cur /\ p \in changed[a]) \/ (a = cur /\ Has(Tail(todo), p))
            BY <2>3, <2>4, <3>1, <3>2
        <3> QED
            BY <2>1, <2>6, <3>3 DEF PutBackInv
    <2>7. todo' = todo \/ (todo' = Tail(todo) /\ sent > Len(t))
        BY <1>3, <2>1 DEF SdoWrite, Queue, Fault
    <2> QED
        BY <2>5, <2>6, <2>7
<1>4. CASE MapRestored
    <2>1. /\ pc = "unwrite" /\ todo = <<>> /\ UNCHANGED <<drive, found, clean, changed, mapped>>
          /\ \/ cur < N /\ pc' = "restore_map" /\ cur' = cur + 1
             \/ cur = N /\ pc' = "lower"
        BY <1>4, <1>a, NextAxisIsAxis DEF MapRestored, held
    <2>2. \A p : ~Has(todo, p)
        BY <2>1 DEF Has
    <2>3. \A a \in Axes, o \in Objects : Differs(a, o)' => a > cur /\ o \in changed[a]
        BY <2>1, <2>2 DEF PutBackInv, AllPreOp, Differs, TableOf
    <2>4. CASE cur < N /\ pc' = "restore_map" /\ cur' = cur + 1
        <3>1. \A a \in Axes : a > cur => a >= cur'
            BY <1>b, <2>4
        <3> QED
            BY <2>1, <2>3, <2>4, <3>1 DEF PutBackInv
    <2>5. CASE cur = N /\ pc' = "lower"
        <3>1. \A a \in Axes : ~(a > cur)
            BY <1>b, <2>5
        <3> QED
            BY <2>1, <2>3, <2>5, <3>1 DEF PutBackInv
    <2> QED
        BY <2>1, <2>4, <2>5
<1>5. CASE em_open \/ Gate \/ Discover \/ MapEnsure \/ MapWritten \/ MapGroup \/ Bind \/ SafeOp \/ ReadPolarity
           \/ WritePolarity \/ em_enter_op \/ Disconnect \/ Lower \/ Killed
    <2>1. pc' \in {"gate", "discover", "restore_di", "ensure", "write", "group", "bind", "safe", "polarity",
                   "write_di", "op", "running", "closed"}
        BY <1>5 DEF em_open, Gate, Discover, MapEnsure, MapWritten, MapGroup, Bind, SafeOp, ReadPolarity,
                    WritePolarity, em_enter_op, Disconnect, Lower, Killed, NextAxis, Goto, Teardown, Ensured
    <2> QED
        BY <2>1
<1>6. CASE UNCHANGED vars
    BY <1>6 DEF vars, held, PutBackInv, AllPreOp, Differs, TableOf, Originals
<1> QED
    BY <1>1, <1>2, <1>3, <1>4, <1>5, <1>6 DEF Next, Connecting, em_shutdown

\* Nothing is marked, written or queued when the program starts.
LEMMA PutBackBegins == Init => EntriesInv /\ MarksInv /\ WriteInv /\ PutBackInv
<1> SUFFICES ASSUME Init PROVE EntriesInv /\ MarksInv /\ WriteInv /\ PutBackInv
    OBVIOUS
<1>1. BusInv
    BY BusInit
<1>2. pc = "closed" /\ changed = [a \in Axes |-> {}]
    BY DEF Init
<1>3. EntriesInv
    <2> SUFFICES ASSUME NEW a \in Axes, NEW o \in Objects PROVE Begins(found[a].t[o], drive[a].obj[o].e)
        BY <1>2 DEF EntriesInv
    <2> DEFINE x == drive[a].obj[o]
    <2>1. x \in [n : Nat, e : Seq(Fields)] /\ x.n <= Len(x.e)
        BY <1>1 DEF BusInv, BusTypes, DriveTypes, Box, Sound
    <2>2. found[a].t[o] = SubSeq(x.e, 1, x.n)
        BY DEF Init, TableOf, Content
    <2> HIDE DEF x
    <2>3. Begins(SubSeq(x.e, 1, x.n), x.e)
        BY <2>1 DEF Begins
    <2> QED
        BY <2>2, <2>3 DEF x
<1> QED
    BY <1>2, <1>3 DEF MarksInv, WriteInv, PutBackInv, Building, Operating

\* A connection that fails before a drive has left PRE_OP takes back what it did to the
\* tables of all drives, if no SDO was lost (em_snap_restore, ec_motor.c): for any number of
\* drives of any kind, also of one that refuses entries it holds, and whether or not a
\* refusal passes for success.
THEOREM TablesArePutBack == Spec => []TablesPutBack
<1>1. Init => EntriesInv /\ MarksInv /\ WriteInv /\ PutBackInv
    BY PutBackBegins
<1>2. BusInv /\ EntriesInv /\ MarksInv /\ WriteInv /\ PutBackInv /\ [Next]_vars
          => EntriesInv' /\ MarksInv' /\ WriteInv' /\ PutBackInv'
    BY EntriesKept, MarksKept, WriteKept, PutBackKept
<1>3. PutBackInv => TablesPutBack
    BY DEF PutBackInv, TablesPutBack, AllPreOp, Differs
<1> QED
    BY <1>1, <1>2, <1>3, BusInvHolds, PTL DEF Spec
===============================================================================
