-------------------------------- MODULE MCBus ---------------------------------
(***************************************************************************)
(* Two drives for BusSession, of all the kinds em_setup tells apart.       *)
(***************************************************************************)
EXTENDS BusSession

Full == Need.rx \o <<Field("modes", 8)>>
Cut  == <<Field("control", 16), Field("modes", 8)>>

Stored(t) == [n |-> Len(t), e |-> t]

\* force: the tables in force for rx; old, new: 1600h and 1601h; tx: 1A00h, in force if
\* it is not empty; refused: entries the drive does not take.
Kind(force, old, new, tx, refused, di) ==
    [al |-> "INIT",
     obj |-> [o \in Objects |->
        CASE o = "1C12h" -> Stored([i \in DOMAIN force |-> Entry(force[i])])
          [] o = "1600h" -> Stored(old)
          [] o = "1601h" -> Stored(new)
          [] o = "1C13h" -> Stored(IF tx = <<>> THEN <<>> ELSE <<Entry("1A00h")>>)
          [] o = "1A00h" -> Stored(tx)],
     takes |-> (Range(Full) \cup Range(Need.tx) \cup Range(tx)
               \cup {Entry(o) : o \in TablesOf.rx \cup TablesOf.tx}) \ refused,
     di |-> di]

Complete   == Kind(<<"1601h">>, Cut, Full, Need.tx, {}, "npn")
Short      == Kind(<<"1601h">>, Full, Cut, SubSeq(Need.tx, 1, 2), {}, "pnp")
Unassigned == Kind(<<>>, Cut, Full, <<>>, {}, "pnp")
Stubborn   == Kind(<<"1601h">>, Full, Cut, Need.tx, {Field("target_vel", 32)}, "npn")
Odd        == Kind(<<"1601h">>, Full, Cut, <<Field("flag", 4)>>, {}, "pnp")
\* A count of one, and entries of a longer table behind it.
Leftover   == LET acc == Field("prof_acc", 32)
                  kind == Kind(<<"1601h">>, Full, <<Field("modes", 8), acc, acc, acc>>, Need.tx,
                               {Field("control", 16)}, "npn")
              IN [kind EXCEPT !.obj["1601h"].n = 1, !.takes = @ \cup {acc}]
Wide       == Kind(<<"1600h">>, <<Field("control", 32)>>, Full, Need.tx, {}, "npn")
Double     == Kind(<<"1600h", "1601h">>, Cut, Full, Need.tx, {}, "pnp")

MCDrives == {Complete, Short, Unassigned, Stubborn, Odd, Leftover, Wide, Double}
===============================================================================
