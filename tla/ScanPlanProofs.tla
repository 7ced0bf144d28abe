---------------------------- MODULE ScanPlanProofs ----------------------------
(***************************************************************************)
(* Lemmas about the operators of ScanPlan that the state machine is built  *)
(* from: what an order of pending cells is, that the plan of every mode    *)
(* covers its grid, where legs end and how they run, where the follower    *)
(* stops, and what the leg count of the estimate is.                       *)
(***************************************************************************)
EXTENDS ScanPlan, FiniteSetTheorems, SequenceTheorems, WellFoundedInduction, TLAPS

\* The members of S smaller than k, and how many they are.
Below(S, k) == {j \in S : j < k}
Rank(S, k) == Cardinality(Below(S, k))

\* The members of a finite set of numbers are ranked 0, 1, ..., without gaps:
\* the rank is an injection of S into 0 .. Cardinality(S) - 1, hence onto it.
LEMMA RankIsOnto ==
    ASSUME NEW S, S \subseteq Int, IsFiniteSet(S)
    PROVE  /\ Cardinality(S) \in Nat
           /\ \A k \in S : Rank(S, k) \in 0 .. Cardinality(S) - 1
           /\ \A k, m \in S : k < m => Rank(S, k) < Rank(S, m)
           /\ \A i \in 1 .. Cardinality(S) : \E k \in S : Rank(S, k) = i - 1
<1> DEFINE n == Cardinality(S)
           T == 0 .. n - 1
           r == [k \in S |-> Rank(S, k)]
<1>1. n \in Nat
    BY FS_CardinalityType
<1>2. ASSUME NEW k \in S PROVE IsFiniteSet(Below(S, k)) /\ Rank(S, k) \in Nat
    <2>1. Below(S, k) \in SUBSET S
        BY DEF Below
    <2>2. QED
        BY <2>1, FS_Subset, FS_CardinalityType DEF Rank
<1>3. ASSUME NEW k \in S PROVE Rank(S, k) \in T
    <2>1. Below(S, k) \in SUBSET S /\ Below(S, k) # S
        BY DEF Below
    <2>2. Rank(S, k) <= n /\ Rank(S, k) # n
        BY <2>1, FS_Subset DEF Rank
    <2>3. QED
        BY <1>1, <1>2, <2>2
<1>4. ASSUME NEW k \in S, NEW m \in S, k < m PROVE Rank(S, k) < Rank(S, m)
    <2>1. Below(S, k) \in SUBSET Below(S, m) /\ Below(S, k) # Below(S, m)
        <3>1. k \in Int /\ m \in Int
            OBVIOUS
        <3>2. k \in Below(S, m) /\ k \notin Below(S, k)
            BY <1>4, <3>1 DEF Below
        <3>3. ASSUME NEW j \in Below(S, k) PROVE j \in Below(S, m)
            <4>1. j \in S /\ j \in Int /\ j < k
                BY DEF Below
            <4>2. j < m
                BY <1>4, <3>1, <4>1
            <4>3. QED
                BY <4>1, <4>2 DEF Below
        <3>4. QED
            BY <3>2, <3>3
    <2>2. Rank(S, k) <= Rank(S, m) /\ Rank(S, k) # Rank(S, m)
        BY <1>2, <2>1, FS_Subset DEF Rank
    <2>3. QED
        BY <1>2, <2>2
<1>5. r \in Injection(S, T)
    <2>1. r \in [S -> T]
        BY <1>3
    <2>2. ASSUME NEW k \in S, NEW m \in S, r[k] = r[m] PROVE k = m
        <3>1. Rank(S, k) = Rank(S, m)
            BY <2>2
        <3>2. Rank(S, k) \in Int /\ Rank(S, m) \in Int
            BY <1>1, <1>3
        <3>3. ~(k < m) /\ ~(m < k)
            BY <1>4, <3>1, <3>2
        <3>4. QED
            BY <3>3
    <2>3. QED
        BY <2>1, <2>2 DEF Injection, IsInjective
<1>6. IsFiniteSet(T) /\ Cardinality(T) = n
    BY <1>1, FS_Interval
<1>7. r \in Surjection(S, T)
    BY <1>5, <1>6, FS_Injection
<1>8. ASSUME NEW i \in 1 .. n PROVE \E k \in S : Rank(S, k) = i - 1
    <2>1. i - 1 \in T
        BY <1>1
    <2>2. PICK k \in S : r[k] = i - 1
        BY <1>7, <2>1 DEF Surjection
    <2>3. QED
        BY <2>2
<1>9. QED
    BY <1>1, <1>3, <1>4, <1>8

\* Ascending(S) lists the members of S, each once, in increasing order.
LEMMA AscendingProperties ==
    ASSUME NEW S, S \subseteq Int, IsFiniteSet(S)
    PROVE  /\ Ascending(S) \in Seq(S)
           /\ Len(Ascending(S)) = Cardinality(S)
           /\ \A i, j \in 1 .. Cardinality(S) : i < j => Ascending(S)[i] < Ascending(S)[j]
           /\ \A k \in S : \E i \in 1 .. Cardinality(S) : Ascending(S)[i] = k
<1> DEFINE n == Cardinality(S)
           a == Ascending(S)
<1>0. /\ \A k \in S : Rank(S, k) \in 0 .. n - 1
      /\ \A k, m \in S : k < m => Rank(S, k) < Rank(S, m)
    BY RankIsOnto
<1>1. n \in Nat
    BY RankIsOnto
<1>2. ASSUME NEW i \in 1 .. n PROVE a[i] \in S /\ Rank(S, a[i]) = i - 1
    <2>1. a[i] = CHOOSE k \in S : Rank(S, k) = i - 1
        BY DEF Ascending, Rank, Below
    <2>2. \E k \in S : Rank(S, k) = i - 1
        BY RankIsOnto
    <2>3. QED
        BY <2>1, <2>2
<1>3. DOMAIN a = 1 .. n /\ a = [i \in 1 .. n |-> a[i]]
    BY DEF Ascending
<1>4. a \in [1 .. n -> S]
    BY <1>2, <1>3
<1>5. a \in Seq(S) /\ Len(a) = n
    BY <1>1, <1>4, SeqDef, LenProperties
<1>6. ASSUME NEW i \in 1 .. n, NEW j \in 1 .. n, i < j PROVE a[i] < a[j]
    <2>1. Rank(S, a[i]) < Rank(S, a[j])
        BY <1>2, <1>1, <1>6
    <2>2. ~(a[j] < a[i]) /\ a[i] # a[j]
        <3>1. Rank(S, a[i]) \in Int /\ Rank(S, a[j]) \in Int
            BY <1>1, <1>2
        <3>2. a[j] < a[i] => Rank(S, a[j]) < Rank(S, a[i])
            BY <1>2, <1>0
        <3>3. QED
            BY <2>1, <3>1, <3>2
    <2>3. a[i] \in Int /\ a[j] \in Int
        BY <1>2
    <2>4. QED
        BY <2>2, <2>3
<1>7. ASSUME NEW k \in S PROVE \E i \in 1 .. n : a[i] = k
    <2>1. Rank(S, k) + 1 \in 1 .. n
        BY <1>1, <1>0
    <2>2. a[Rank(S, k) + 1] \in S /\ Rank(S, a[Rank(S, k) + 1]) = Rank(S, k)
        BY <1>1, <1>2, <2>1, <1>0
    <2>3. Rank(S, k) \in Int
        BY <1>1, <1>0
    <2>4. ~(k < a[Rank(S, k) + 1]) /\ ~(a[Rank(S, k) + 1] < k)
        <3> DEFINE b == a[Rank(S, k) + 1]
        <3>1. b \in S /\ Rank(S, b) = Rank(S, k)
            BY <2>2
        <3> HIDE DEF b
        <3>2. k < b => Rank(S, k) < Rank(S, b)
            BY <1>0, <3>1
        <3>3. b < k => Rank(S, b) < Rank(S, k)
            BY <1>0, <3>1
        <3>4. ~(k < b) /\ ~(b < k)
            BY <2>3, <3>1, <3>2, <3>3
        <3>5. QED
            BY <3>4 DEF b
    <2>5. a[Rank(S, k) + 1] = k
        <3>1. a[Rank(S, k) + 1] \in Int /\ k \in Int
            BY <2>2
        <3>2. QED
            BY <2>4, <3>1
    <2>6. QED
        BY <2>1, <2>5
<1>8. QED
    BY <1>5, <1>6, <1>7

\* The indices still to be walked are indices of the plan, listed in its order,
\* and exactly those whose cell is not done (stageResumeAfterAbort, loadResume).
LEMMA PendingOrderProperties ==
    ASSUME NEW C, NEW plan \in Seq(C), NEW done
    PROVE  LET S == {k \in DOMAIN plan : plan[k] \notin done}
               order == PendingOrder(plan, done)
           IN  /\ order \in Seq(Nat \ {0})
               /\ \A i \in DOMAIN order : order[i] \in S
               /\ \A i, j \in DOMAIN order : i < j => order[i] < order[j]
               /\ \A k \in S : \E i \in DOMAIN order : order[i] = k
<1> DEFINE S == {k \in DOMAIN plan : plan[k] \notin done}
           order == PendingOrder(plan, done)
<1>1. DOMAIN plan = 1 .. Len(plan) /\ Len(plan) \in Nat
    BY LenProperties
<1>2. S \in SUBSET (1 .. Len(plan))
    BY <1>1
<1> HIDE DEF S
<1>3. IsFiniteSet(S) /\ S \subseteq Int /\ S \subseteq Nat \ {0}
    <2>1. IsFiniteSet(1 .. Len(plan))
        BY <1>1, FS_Interval
    <2>2. IsFiniteSet(S)
        BY <1>2, <2>1, FS_Subset
    <2>3. \A k \in S : k \in Int /\ k \in Nat \ {0}
        BY <1>1, <1>2
    <2>4. QED
        BY <2>2, <2>3
<1>4. order = Ascending(S)
    BY DEF PendingOrder, S
<1> HIDE DEF order
<1>5. order \in Seq(S) /\ Len(order) = Cardinality(S)
    BY <1>3, <1>4, AscendingProperties
<1>6. DOMAIN order = 1 .. Cardinality(S)
    BY <1>5, LenProperties
<1>7. order \in Seq(Nat \ {0})
    BY <1>3, <1>5, SeqMonotonic
<1>8. \A i \in DOMAIN order : order[i] \in S
    BY <1>5, <1>6, ElementOfSeq
<1>9. \A i, j \in DOMAIN order : i < j => order[i] < order[j]
    BY <1>3, <1>4, <1>6, AscendingProperties
<1>10. \A k \in S : \E i \in DOMAIN order : order[i] = k
    BY <1>3, <1>4, <1>6, AscendingProperties
<1>11. QED
    BY <1>7, <1>8, <1>9, <1>10 DEF S, order

\* The end of the leg a position is on is not before it and not past the order:
\* it is the member ranked first among the leg ends from that position on.
LEMMA LegEndBounds ==
    ASSUME NEW n \in Nat, NEW ends \in SUBSET (1 .. n), n \in ends,
           NEW k \in 1 .. n
    PROVE  /\ LegEnd(ends, k) \in ends /\ LegEnd(ends, k) \in k .. n
           /\ \A d \in ends : d >= k => LegEnd(ends, k) <= d
<1> DEFINE T == {e \in ends : e >= k}
<1>1. n \in T /\ T \in SUBSET (1 .. n) /\ T \subseteq Int
    <2>1. n \in T
        OBVIOUS
    <2>2. ASSUME NEW e \in T PROVE e \in 1 .. n /\ e \in Int
        OBVIOUS
    <2>3. QED
        BY <2>1, <2>2
<1>2. IsFiniteSet(T)
    BY <1>1, FS_Interval, FS_Subset
<1>3. Cardinality(T) \in Nat /\ Cardinality(T) # 0
    BY <1>1, <1>2, FS_CardinalityType, FS_EmptySet
<1>4. 1 \in 1 .. Cardinality(T)
    BY <1>3
<1>5. PICK e \in T : Rank(T, e) = 0
    BY <1>1, <1>2, <1>4, RankIsOnto
<1>6. ASSUME NEW d \in T PROVE e <= d
    <2>1. Rank(T, d) \in Nat
        BY <1>1, <1>2, <1>3, RankIsOnto
    <2>2. ~(d < e)
        BY <1>1, <1>2, <1>5, <2>1, RankIsOnto
    <2>3. QED
        BY <1>1, <2>2
<1>7. e \in ends /\ e >= k /\ \A d \in ends : d >= k => e <= d
    BY <1>6
<1>8. /\ LegEnd(ends, k) \in ends /\ LegEnd(ends, k) >= k
      /\ \A d \in ends : d >= k => LegEnd(ends, k) <= d
    BY <1>7 DEF LegEnd
<1>9. LegEnd(ends, k) \in 1 .. n
    BY <1>8
<1>10. QED
    BY <1>8, <1>9

-----------------------------------------------------------------------------
(* Plans.                                                                  *)

\* A set of numbers with 0 in it, and with each number the next, has them all.
LEMMA AllNumbers ==
    ASSUME NEW T, 0 \in T, \A n \in Nat : n \in T => n + 1 \in T
    PROVE  Nat \subseteq T
<1> DEFINE less == {q \in Nat \X Nat : q[1] < q[2]}
           rest == {n \in Nat : n \notin T}
<1>1. SUFFICES ASSUME rest # {} PROVE FALSE
    OBVIOUS
<1>2. IsWellFoundedOn(less, Nat)
    BY NatLessThanWellFounded DEF OpToRel
<1>3. PICK x \in rest : \A y \in rest : ~(<<y, x>> \in less)
    BY <1>1, <1>2, WFMin
<1>4. x \in Nat /\ x # 0 /\ x - 1 \in Nat /\ <<x - 1, x>> \in less
    <2>1. x \in Nat /\ x # 0
        OBVIOUS
    <2>2. x - 1 \in Nat /\ x - 1 < x
        BY <2>1
    <2>3. QED
        BY <2>1, <2>2
<1>5. x - 1 \in T
    BY <1>3, <1>4
<1>6. (x - 1) + 1 = x /\ (x - 1) + 1 \in T
    BY <1>4, <1>5
<1>7. QED
    BY <1>3, <1>6

\* The pieces of a sequence of sequences one after the other.
Wound(p, n) ==
    LET f[r \in 0 .. n] == IF r = 0 THEN <<>> ELSE f[r - 1] \o Ring(p, r - 1)
    IN  f

IsWound(f, p, n) ==
    f = [r \in 0 .. n |-> IF r = 0 THEN <<>> ELSE f[r - 1] \o Ring(p, r - 1)]

\* The recursion over rings has a solution, which is thus what the code builds.
LEMMA WoundIsRings ==
    ASSUME NEW n \in Nat, NEW p
    PROVE  IsWound(Wound(p, n), p, n)
<1> DEFINE T == {m \in Nat : \E f : IsWound(f, p, m)}
<1>1. 0 \in T
    <2> DEFINE f == [r \in 0 .. 0 |-> <<>>]
    <2>1. IsWound(f, p, 0)
        BY DEF IsWound
    <2>2. QED
        BY <2>1
<1>2. ASSUME NEW m \in Nat, m \in T PROVE m + 1 \in T
    <2>1. PICK f : IsWound(f, p, m)
        BY <1>2
    <2> DEFINE g == [r \in 0 .. m + 1 |-> IF r = m + 1 THEN f[m] \o Ring(p, m) ELSE f[r]]
               h == [r \in 0 .. m + 1 |-> IF r = 0 THEN <<>> ELSE g[r - 1] \o Ring(p, r - 1)]
    <2>2. ASSUME NEW r \in 0 .. m + 1 PROVE g[r] = h[r]
        <3>1. CASE r = m + 1
            <4>1. r # 0 /\ r - 1 = m /\ m \in 0 .. m + 1 /\ m # m + 1
                BY <3>1
            <4>2. g[m] = f[m]
                BY <4>1
            <4>3. g[r] = f[m] \o Ring(p, m)
                BY <3>1
            <4>4. h[r] = g[m] \o Ring(p, m)
                BY <3>1, <4>1
            <4>5. QED
                BY <4>2, <4>3, <4>4
        <3>2. CASE r # m + 1
            <4>1. r \in 0 .. m
                BY <3>2
            <4>2. g[r] = f[r]
                BY <3>2
            <4>3. f[r] = IF r = 0 THEN <<>> ELSE f[r - 1] \o Ring(p, r - 1)
                BY <2>1, <4>1 DEF IsWound
            <4>4. r # 0 => r - 1 \in 0 .. m + 1 /\ r - 1 # m + 1
                BY <4>1
            <4>5. r # 0 => g[r - 1] = f[r - 1]
                BY <4>4
            <4>6. h[r] = IF r = 0 THEN <<>> ELSE g[r - 1] \o Ring(p, r - 1)
                OBVIOUS
            <4>7. QED
                BY <4>2, <4>3, <4>5, <4>6
        <3>3. QED
            BY <3>1, <3>2
    <2>3. IsWound(g, p, m + 1)
        <3>1. g = h
            BY <2>2
        <3>2. QED
            BY <3>1 DEF IsWound
    <2>4. QED
        BY <2>3
<1>3. Nat \subseteq T
    <2> HIDE DEF T
    <2> QED
        BY <1>1, <1>2, AllNumbers
<1>4. \E f : IsWound(f, p, n)
    BY <1>3
<1>5. QED
    BY <1>4 DEF Wound, IsWound


Rings(p) == (IF p.nx < p.ny THEN p.nx + 1 ELSE p.ny + 1) \div 2

\* A spiral is its rings one after the other, or the mirror image of that.
LEMMA SpiralIsWound ==
    ASSUME NEW p
    PROVE  SpiralPlan(p) =
              IF p.mode = "SpiralCW" THEN Wound(p, Rings(p))[Rings(p)]
              ELSE [k \in 1 .. Len(Wound(p, Rings(p))[Rings(p)]) |->
                       <<p.nx - 1 - Wound(p, Rings(p))[Rings(p)][k][1],
                         Wound(p, Rings(p))[Rings(p)][k][2]>>]
BY DEF SpiralPlan, Wound, Rings

\* The rings of a grid: a cell is left before the last of them, none after.
LEMMA RingsCount ==
    ASSUME NEW p, IsParams(p), ~ParamsError(p)
    PROVE  /\ Rings(p) \in Nat
           /\ p.nx <= 2 * Rings(p) \/ p.ny <= 2 * Rings(p)
           /\ p.nx > 2 * (Rings(p) - 1) /\ p.ny > 2 * (Rings(p) - 1)
BY DEF Rings, IsParams, ParamsError

Points == Int \X Int

\* What has a point at each of 1 .. n is a sequence of n points.
LEMMA SequenceOfPoints ==
    ASSUME NEW n \in Nat, NEW a \in [1 .. n -> Points]
    PROVE  a \in Seq(Points) /\ Len(a) = n
<1>1. a \in Seq(Points)
    BY SeqDef
<1>2. DOMAIN a = 1 .. n
    OBVIOUS
<1>3. QED
    BY <1>1, <1>2, LenProperties

\* A ring round a block of more than one column and row, side by side: the top
\* row, the right column, the bottom row, and the left column but for the cell
\* the ring began with.
LEMMA FullRing ==
    ASSUME NEW p, IsParams(p), NEW r \in Nat, p.nx - 2 * r > 1, p.ny - 2 * r > 1
    PROVE  LET w == p.nx - 2 * r
               h == p.ny - 2 * r
               a == Ring(p, r)
           IN  /\ a \in Seq(Points)
               /\ Len(a) = 2 * w + 2 * h - 4
               /\ \A k \in 1 .. w : a[k] = <<r + k - 1, r + h - 1>>
               /\ \A k \in w + 1 .. w + h - 1 : a[k] = <<r + w - 1, r + h - 1 - (k - w)>>
               /\ \A k \in w + h .. 2 * w + h - 2 :
                     a[k] = <<r + w - 1 - (k - w - h + 1), r>>
               /\ \A k \in 2 * w + h - 1 .. 2 * w + 2 * h - 4 :
                     a[k] = <<r, r + (k - 2 * w - h + 2)>>
<1> DEFINE w == p.nx - 2 * r
           h == p.ny - 2 * r
           l1 == Line(r, r + h - 1, 1, 0, w)
           l2 == Line(r + w - 1, r + h - 2, 0, -1, h - 1)
           l3 == Line(r + w - 2, r, -1, 0, w - 1)
           l4 == Line(r, r + 1, 0, 1, h - 2)
<1>1. w \in Nat /\ h \in Nat /\ w > 1 /\ h > 1
    BY DEF IsParams
<1>2. Ring(p, r) = l1 \o l2 \o l3 \o l4
    <2>1. /\ p.nx - 1 - r = r + w - 1 /\ p.ny - 1 - r = r + h - 1
          /\ p.ny - 1 - r - 1 = r + h - 2 /\ p.nx - 1 - r - 1 = r + w - 2
        BY DEF IsParams
    <2>2. w # 1 /\ ~(h = 1)
        BY <1>1
    <2>3. QED
        BY <1>1, <2>1, <2>2 DEF Ring
<1> HIDE DEF w, h
<1>3. /\ l1 \in Seq(Points) /\ Len(l1) = w
      /\ \A k \in 1 .. w : l1[k] = <<r + k - 1, r + h - 1>>
    <2>1. l1 \in [1 .. w -> Points] /\ \A k \in 1 .. w : l1[k] = <<r + k - 1, r + h - 1>>
        BY <1>1 DEF Line, Points
    <2>2. w \in Nat
        BY <1>1
    <2> HIDE DEF l1
    <2>3. QED
        BY <2>1, <2>2, SequenceOfPoints
<1>4. /\ l2 \in Seq(Points) /\ Len(l2) = h - 1
      /\ \A k \in 1 .. h - 1 : l2[k] = <<r + w - 1, r + h - 1 - k>>
    <2>1. l2 \in [1 .. h - 1 -> Points] /\ \A k \in 1 .. h - 1 : l2[k] = <<r + w - 1, r + h - 1 - k>>
        BY <1>1 DEF Line, Points
    <2>2. h - 1 \in Nat
        BY <1>1
    <2> HIDE DEF l2
    <2>3. QED
        BY <2>1, <2>2, SequenceOfPoints
<1>5. /\ l3 \in Seq(Points) /\ Len(l3) = w - 1
      /\ \A k \in 1 .. w - 1 : l3[k] = <<r + w - 1 - k, r>>
    <2>1. l3 \in [1 .. w - 1 -> Points] /\ \A k \in 1 .. w - 1 : l3[k] = <<r + w - 1 - k, r>>
        BY <1>1 DEF Line, Points
    <2>2. w - 1 \in Nat
        BY <1>1
    <2> HIDE DEF l3
    <2>3. QED
        BY <2>1, <2>2, SequenceOfPoints
<1>6. /\ l4 \in Seq(Points) /\ Len(l4) = h - 2
      /\ \A k \in 1 .. h - 2 : l4[k] = <<r, r + k>>
    <2>1. l4 \in [1 .. h - 2 -> Points] /\ \A k \in 1 .. h - 2 : l4[k] = <<r, r + k>>
        BY <1>1 DEF Line, Points
    <2>2. h - 2 \in Nat
        BY <1>1
    <2> HIDE DEF l4
    <2>3. QED
        BY <2>1, <2>2, SequenceOfPoints
<1> HIDE DEF l1, l2, l3, l4
<1> DEFINE a2 == l1 \o l2
           a3 == a2 \o l3
           a4 == a3 \o l4
<1>7. /\ a2 \in Seq(Points) /\ Len(a2) = w + (h - 1)
      /\ \A k \in 1 .. w + (h - 1) : a2[k] = IF k <= w THEN l1[k] ELSE l2[k - (w)]
    <2>1. /\ a2 \in Seq(Points) /\ Len(a2) = Len(l1) + Len(l2)
          /\ \A k \in 1 .. Len(l1) + Len(l2) :
                a2[k] = IF k <= Len(l1) THEN l1[k] ELSE l2[k - Len(l1)]
        BY <1>3, <1>4, ConcatProperties
    <2> HIDE DEF a2
    <2>2. QED
        BY <1>3, <1>4, <2>1
<1> HIDE DEF a2
<1>8. /\ a3 \in Seq(Points) /\ Len(a3) = w + (h - 1) + (w - 1)
      /\ \A k \in 1 .. w + (h - 1) + (w - 1) : a3[k] = IF k <= w + (h - 1) THEN a2[k] ELSE l3[k - (w + (h - 1))]
    <2>1. /\ a3 \in Seq(Points) /\ Len(a3) = Len(a2) + Len(l3)
          /\ \A k \in 1 .. Len(a2) + Len(l3) :
                a3[k] = IF k <= Len(a2) THEN a2[k] ELSE l3[k - Len(a2)]
        BY <1>5, <1>7, ConcatProperties
    <2> HIDE DEF a3
    <2>2. QED
        BY <1>5, <1>7, <2>1
<1> HIDE DEF a3
<1>9. /\ a4 \in Seq(Points) /\ Len(a4) = w + (h - 1) + (w - 1) + (h - 2)
      /\ \A k \in 1 .. w + (h - 1) + (w - 1) + (h - 2) : a4[k] = IF k <= w + (h - 1) + (w - 1) THEN a3[k] ELSE l4[k - (w + (h - 1) + (w - 1))]
    <2>1. /\ a4 \in Seq(Points) /\ Len(a4) = Len(a3) + Len(l4)
          /\ \A k \in 1 .. Len(a3) + Len(l4) :
                a4[k] = IF k <= Len(a3) THEN a3[k] ELSE l4[k - Len(a3)]
        BY <1>6, <1>8, ConcatProperties
    <2> HIDE DEF a4
    <2>2. QED
        BY <1>6, <1>8, <2>1
<1>10. Ring(p, r) = a4
    BY <1>2 DEF a2, a3
<1> HIDE DEF a4
<1>11. Len(a4) = 2 * w + 2 * h - 4
    BY <1>1, <1>9
<1>12. ASSUME NEW k \in 1 .. w PROVE a4[k] = <<r + k - 1, r + h - 1>>
    <2>1. /\ k \in 1 .. w + (h - 1) /\ k \in 1 .. w + (h - 1) + (w - 1)
          /\ k \in 1 .. w + (h - 1) + (w - 1) + (h - 2)
          /\ k <= w /\ k <= w + (h - 1) /\ k <= w + (h - 1) + (w - 1)
        BY <1>1
    <2>2. QED
        BY <2>1, <1>3, <1>7, <1>8, <1>9
<1>13. ASSUME NEW k \in w + 1 .. w + h - 1
       PROVE  a4[k] = <<r + w - 1, r + h - 1 - (k - w)>>
    <2>1. /\ k \in 1 .. w + (h - 1) /\ k \in 1 .. w + (h - 1) + (w - 1)
          /\ k \in 1 .. w + (h - 1) + (w - 1) + (h - 2)
          /\ ~(k <= w) /\ k <= w + (h - 1) /\ k <= w + (h - 1) + (w - 1)
          /\ k - w \in 1 .. h - 1
        BY <1>1
    <2>2. a4[k] = l2[k - w]
        BY <2>1, <1>7, <1>8, <1>9
    <2>3. QED
        BY <2>1, <2>2, <1>4
<1>14. ASSUME NEW k \in w + h .. 2 * w + h - 2
       PROVE  a4[k] = <<r + w - 1 - (k - w - h + 1), r>>
    <2>1. /\ k \in 1 .. w + (h - 1) + (w - 1)
          /\ k \in 1 .. w + (h - 1) + (w - 1) + (h - 2)
          /\ ~(k <= w + (h - 1)) /\ k <= w + (h - 1) + (w - 1)
          /\ k - (w + (h - 1)) \in 1 .. w - 1
          /\ k - (w + (h - 1)) = k - w - h + 1
        BY <1>1
    <2>2. a4[k] = l3[k - (w + (h - 1))]
        BY <2>1, <1>8, <1>9
    <2>3. QED
        BY <2>1, <2>2, <1>5
<1>15. ASSUME NEW k \in 2 * w + h - 1 .. 2 * w + 2 * h - 4
       PROVE  a4[k] = <<r, r + (k - 2 * w - h + 2)>>
    <2>1. /\ k \in 1 .. w + (h - 1) + (w - 1) + (h - 2)
          /\ ~(k <= w + (h - 1) + (w - 1))
          /\ k - (w + (h - 1) + (w - 1)) \in 1 .. h - 2
          /\ k - (w + (h - 1) + (w - 1)) = k - 2 * w - h + 2
        BY <1>1
    <2>2. a4[k] = l4[k - (w + (h - 1) + (w - 1))]
        BY <2>1, <1>9
    <2>3. QED
        BY <2>1, <2>2, <1>6
<1>16. QED
    BY <1>9, <1>10, <1>11, <1>12, <1>13, <1>14, <1>15 DEF w, h

\* The columns and the rows that r rings leave in the middle of a grid.
Wide(p, r) == p.nx - 2 * r
High(p, r) == p.ny - 2 * r

\* The block they leave, and the number of cells in it.
Block(p, r) == (r .. p.nx - 1 - r) \X (r .. p.ny - 1 - r)
Size(p, r) == IF Wide(p, r) > 0 /\ High(p, r) > 0 THEN Wide(p, r) * High(p, r) ELSE 0

Near(a, b) == Distance(a[1], b[1]) + Distance(a[2], b[2]) = 1

\* What a ring is for: it takes the rim off a block, moving one step at a time,
\* from the top left corner to the cell below it if there is a block left.
IsRim(p, r, a) ==
    /\ a \in Seq(Cells(p))
    /\ Len(a) = Size(p, r) - Size(p, r + 1)
    /\ Len(a) > 0
    /\ \A c \in Block(p, r) \ Block(p, r + 1) : \E k \in 1 .. Len(a) : a[k] = c
    /\ \A k \in 1 .. Len(a) - 1 : Near(a[k], a[k + 1])
    /\ a[1] = <<r, p.ny - 1 - r>>
    /\ Wide(p, r) > 2 /\ High(p, r) > 2 => a[Len(a)] = <<r, p.ny - 2 - r>>

\* A sequence of points that are all in the grid is one of cells.
LEMMA PointsInGrid ==
    ASSUME NEW p, NEW n \in Nat, NEW a, a \in Seq(Points), Len(a) = n,
           \A k \in 1 .. n : a[k] \in Cells(p)
    PROVE  a \in Seq(Cells(p))
BY IsASeq

\* A ring of a single column.
LEMMA ThinRing ==
    ASSUME NEW p, IsParams(p), NEW r \in Nat, Wide(p, r) = 1, High(p, r) > 0
    PROVE  IsRim(p, r, Ring(p, r))
<1> DEFINE h == High(p, r)
           a == Ring(p, r)
<1>1. h \in Nat /\ h > 0 /\ p.nx = 2 * r + 1 /\ p.ny = h + 2 * r /\ p.nx \in Nat /\ p.ny \in Nat
    BY DEF IsParams, Wide, High
<1>2. a = [k \in 1 .. h |-> <<r + 0 * (k - 1), (p.ny - 1 - r) + (-1) * (k - 1)>>]
    BY DEF Ring, Wide, High, Line
<1> HIDE DEF h, a
<1>3. a \in [1 .. h -> Points] /\ \A k \in 1 .. h : a[k] = <<r, h + r - k>>
    BY <1>1, <1>2 DEF Points
<1>4. a \in Seq(Points) /\ Len(a) = h
    BY <1>1, <1>3, SequenceOfPoints
<1>5. a \in Seq(Cells(p))
    <2>1. \A k \in 1 .. h : r \in 0 .. p.nx - 1 /\ h + r - k \in 0 .. p.ny - 1
        BY <1>1
    <2>2. ASSUME NEW k \in 1 .. h PROVE a[k] \in Cells(p)
        <3>1. <<r, h + r - k>> \in Cells(p)
            BY <2>1, Zenon DEF Cells
        <3>2. QED
            BY <1>3, <3>1, Zenon
    <2>3. QED
        BY <1>1, <1>4, <2>2, PointsInGrid
<1>6. Len(a) = Size(p, r) - Size(p, r + 1)
    <2>1. Size(p, r) = h
        BY <1>1 DEF Size, h
    <2>2. ~(Wide(p, r + 1) > 0)
        BY <1>1 DEF Wide
    <2>3. Size(p, r + 1) = 0
        BY <2>2 DEF Size
    <2>4. QED
        BY <1>1, <1>4, <2>1, <2>3
<1>7. ASSUME NEW c \in Block(p, r) PROVE \E k \in 1 .. Len(a) : a[k] = c
    <2>1. PICK x \in r .. p.nx - 1 - r, y \in r .. p.ny - 1 - r : c = <<x, y>>
        BY DEF Block
    <2>2. x = r /\ h + r - y \in 1 .. h /\ h + r - (h + r - y) = y
        BY <1>1
    <2>3. a[h + r - y] = <<x, y>>
        BY <1>3, <2>2
    <2>4. QED
        BY <1>4, <2>1, <2>2, <2>3
<1>8. ASSUME NEW k \in 1 .. Len(a) - 1 PROVE Near(a[k], a[k + 1])
    <2>1. k \in 1 .. h /\ k + 1 \in 1 .. h
        BY <1>1, <1>4
    <2>2. a[k] = <<r, h + r - k>> /\ a[k + 1] = <<r, h + r - (k + 1)>>
        BY <1>3, <2>1
    <2>3. QED
        BY <1>1, <2>1, <2>2 DEF Near, Distance
<1>9. a[1] = <<r, p.ny - 1 - r>>
    <2>1. 1 \in 1 .. h /\ h + r - 1 = p.ny - 1 - r
        BY <1>1
    <2>2. QED
        BY <1>3, <2>1
<1>10. ~(Wide(p, r) > 2) /\ Len(a) > 0
    BY <1>1, <1>4
<1>11. IsRim(p, r, a)
    BY <1>5, <1>6, <1>7, <1>8, <1>9, <1>10 DEF IsRim
<1>12. QED
    BY <1>11 DEF a

\* A ring of a single row.
LEMMA FlatRing ==
    ASSUME NEW p, IsParams(p), NEW r \in Nat, Wide(p, r) > 1, High(p, r) = 1
    PROVE  IsRim(p, r, Ring(p, r))
<1> DEFINE w == Wide(p, r)
           a == Ring(p, r)
<1>1. w \in Nat /\ w > 1 /\ p.nx = w + 2 * r /\ p.ny = 2 * r + 1 /\ p.nx \in Nat /\ p.ny \in Nat
    BY DEF IsParams, Wide, High
<1>2. a = [k \in 1 .. w |-> <<r + 1 * (k - 1), (p.ny - 1 - r) + 0 * (k - 1)>>]
    BY DEF Ring, Wide, High, Line
<1> HIDE DEF w, a
<1>3. a \in [1 .. w -> Points] /\ \A k \in 1 .. w : a[k] = <<r + k - 1, r>>
    BY <1>1, <1>2 DEF Points
<1>4. a \in Seq(Points) /\ Len(a) = w
    BY <1>1, <1>3, SequenceOfPoints
<1>5. a \in Seq(Cells(p))
    <2>1. \A k \in 1 .. w : r + k - 1 \in 0 .. p.nx - 1 /\ r \in 0 .. p.ny - 1
        BY <1>1
    <2>2. ASSUME NEW k \in 1 .. w PROVE a[k] \in Cells(p)
        <3>1. <<r + k - 1, r>> \in Cells(p)
            BY <2>1, Zenon DEF Cells
        <3>2. QED
            BY <1>3, <3>1, Zenon
    <2>3. QED
        BY <1>1, <1>4, <2>2, PointsInGrid
<1>6. Len(a) = Size(p, r) - Size(p, r + 1)
    <2>1. Size(p, r) = w
        BY <1>1 DEF Size, w
    <2>2. ~(High(p, r + 1) > 0)
        BY <1>1 DEF High
    <2>3. Size(p, r + 1) = 0
        BY <2>2 DEF Size
    <2>4. QED
        BY <1>1, <1>4, <2>1, <2>3
<1>7. ASSUME NEW c \in Block(p, r) PROVE \E k \in 1 .. Len(a) : a[k] = c
    <2>1. PICK x \in r .. p.nx - 1 - r, y \in r .. p.ny - 1 - r : c = <<x, y>>
        BY DEF Block
    <2>2. y = r /\ x - r + 1 \in 1 .. w /\ r + (x - r + 1) - 1 = x
        BY <1>1
    <2>3. a[x - r + 1] = <<x, y>>
        BY <1>3, <2>2
    <2>4. QED
        BY <1>4, <2>1, <2>2, <2>3
<1>8. ASSUME NEW k \in 1 .. Len(a) - 1 PROVE Near(a[k], a[k + 1])
    <2>1. k \in 1 .. w /\ k + 1 \in 1 .. w
        BY <1>1, <1>4
    <2>2. a[k] = <<r + k - 1, r>> /\ a[k + 1] = <<r + (k + 1) - 1, r>>
        BY <1>3, <2>1
    <2>3. QED
        BY <1>1, <2>1, <2>2 DEF Near, Distance
<1>9. a[1] = <<r, p.ny - 1 - r>>
    <2>1. 1 \in 1 .. w /\ r + 1 - 1 = r /\ p.ny - 1 - r = r
        BY <1>1
    <2>2. QED
        BY <1>3, <2>1
<1>10. ~(High(p, r) > 2) /\ Len(a) > 0
    BY <1>1, <1>4
<1>11. IsRim(p, r, a)
    BY <1>5, <1>6, <1>7, <1>8, <1>9, <1>10 DEF IsRim
<1>12. QED
    BY <1>11 DEF a

\* A ring that goes all the way round.
LEMMA RoundRing ==
    ASSUME NEW p, IsParams(p), NEW r \in Nat, Wide(p, r) > 1, High(p, r) > 1
    PROVE  IsRim(p, r, Ring(p, r))
<1> DEFINE w == Wide(p, r)
           h == High(p, r)
           n == 2 * w + 2 * h - 4
           a == Ring(p, r)
<1>1. /\ w \in Nat /\ w > 1 /\ p.nx = w + 2 * r /\ p.nx \in Nat
      /\ h \in Nat /\ h > 1 /\ p.ny = h + 2 * r /\ p.ny \in Nat
    BY DEF IsParams, Wide, High
<1>2. /\ a \in Seq(Points)
      /\ Len(a) = n
      /\ \A k \in 1 .. w : a[k] = <<r + k - 1, r + h - 1>>
      /\ \A k \in w + 1 .. w + h - 1 : a[k] = <<r + w - 1, r + h - 1 - (k - w)>>
      /\ \A k \in w + h .. 2 * w + h - 2 : a[k] = <<r + w - 1 - (k - w - h + 1), r>>
      /\ \A k \in 2 * w + h - 1 .. n : a[k] = <<r, r + (k - 2 * w - h + 2)>>
    BY FullRing DEF Wide, High
<1> HIDE DEF w, h, a
<1>3. a \in Seq(Cells(p))
    <2>1. ASSUME NEW k \in 1 .. n PROVE a[k] \in Cells(p)
        <3>1. CASE k \in 1 .. w
            <4>1. r + k - 1 \in 0 .. p.nx - 1 /\ r + h - 1 \in 0 .. p.ny - 1
                BY <1>1, <3>1
            <4>2. <<r + k - 1, r + h - 1>> \in Cells(p)
                BY <4>1, Zenon DEF Cells
            <4>3. QED
                BY <1>2, <3>1, <4>2, Zenon
        <3>2. CASE k \in w + 1 .. w + h - 1
            <4>1. r + w - 1 \in 0 .. p.nx - 1 /\ r + h - 1 - (k - w) \in 0 .. p.ny - 1
                BY <1>1, <3>2
            <4>2. <<r + w - 1, r + h - 1 - (k - w)>> \in Cells(p)
                BY <4>1, Zenon DEF Cells
            <4>3. QED
                BY <1>2, <3>2, <4>2, Zenon
        <3>3. CASE k \in w + h .. 2 * w + h - 2
            <4>1. r + w - 1 - (k - w - h + 1) \in 0 .. p.nx - 1 /\ r \in 0 .. p.ny - 1
                BY <1>1, <3>3
            <4>2. <<r + w - 1 - (k - w - h + 1), r>> \in Cells(p)
                BY <4>1, Zenon DEF Cells
            <4>3. QED
                BY <1>2, <3>3, <4>2, Zenon
        <3>4. CASE k \in 2 * w + h - 1 .. n
            <4>1. r \in 0 .. p.nx - 1 /\ r + (k - 2 * w - h + 2) \in 0 .. p.ny - 1
                BY <1>1, <3>4
            <4>2. <<r, r + (k - 2 * w - h + 2)>> \in Cells(p)
                BY <4>1, Zenon DEF Cells
            <4>3. QED
                BY <1>2, <3>4, <4>2, Zenon
        <3>5. QED
            BY <1>1, <3>1, <3>2, <3>3, <3>4
    <2>2. n \in Nat
        BY <1>1
    <2> HIDE DEF n
    <2>3. QED
        BY <1>2, <2>1, <2>2, PointsInGrid, Zenon
<1>4. Len(a) = Size(p, r) - Size(p, r + 1) /\ Len(a) > 0
    <2>1. Size(p, r) = w * h
        BY <1>1 DEF Size, w, h
    <2>2. Wide(p, r + 1) = w - 2 /\ High(p, r + 1) = h - 2
        BY <1>1 DEF Wide, High
    <2>3. Size(p, r + 1) = (w - 2) * (h - 2)
        <3>1. CASE w > 2 /\ h > 2
            BY <1>1, <2>2, <3>1 DEF Size
        <3>2. CASE w = 2
            <4>1. Size(p, r + 1) = 0 /\ (w - 2) * (h - 2) = 0
                BY <1>1, <2>2, <3>2 DEF Size
            <4>2. QED
                BY <4>1
        <3>3. CASE h = 2
            <4>1. Size(p, r + 1) = 0 /\ (w - 2) * (h - 2) = 0
                BY <1>1, <2>2, <3>3 DEF Size
            <4>2. QED
                BY <4>1
        <3>4. QED
            BY <1>1, <3>1, <3>2, <3>3
    <2>4. w * h - (w - 2) * (h - 2) = n
        BY <1>1
    <2>5. n > 0
        BY <1>1
    <2>6. QED
        BY <1>2, <2>1, <2>3, <2>4, <2>5
<1>5. ASSUME NEW c \in Block(p, r) \ Block(p, r + 1) PROVE \E k \in 1 .. n : a[k] = c
    <2>1. PICK x \in r .. p.nx - 1 - r, y \in r .. p.ny - 1 - r : c = <<x, y>>
        BY DEF Block
    <2>2. x \in Int /\ y \in Int /\ r <= x /\ x <= r + w - 1 /\ r <= y /\ y <= r + h - 1
        BY <1>1
    <2>3. x = r \/ x = r + w - 1 \/ y = r \/ y = r + h - 1
        <3>1. SUFFICES ASSUME x # r, x # r + w - 1, y # r, y # r + h - 1
                       PROVE  x \in r + 1 .. p.nx - 1 - (r + 1) /\ y \in r + 1 .. p.ny - 1 - (r + 1)
            BY <2>1, Zenon DEF Block
        <3>2. QED
            BY <1>1, <2>2, <3>1
    <2>4. CASE y = r + h - 1
        <3>1. x - r + 1 \in 1 .. w /\ x - r + 1 \in 1 .. n /\ r + (x - r + 1) - 1 = x
            BY <1>1, <2>2
        <3>2. a[x - r + 1] = <<r + (x - r + 1) - 1, r + h - 1>>
            BY <1>2, <3>1
        <3>3. QED
            BY <2>1, <2>4, <3>1, <3>2
    <2>5. CASE x = r + w - 1 /\ y # r + h - 1
        <3> DEFINE k == w + r + h - 1 - y
        <3>1. k \in w + 1 .. w + h - 1 /\ k \in 1 .. n /\ r + h - 1 - (k - w) = y
            BY <1>1, <2>2, <2>5
        <3>2. a[k] = <<r + w - 1, r + h - 1 - (k - w)>>
            BY <1>2, <3>1
        <3>3. QED
            BY <2>1, <2>5, <3>1, <3>2
    <2>6. CASE y = r /\ x # r + w - 1
        <3> DEFINE k == r + w - 1 + w + h - 1 - x
        <3>1. k \in w + h .. 2 * w + h - 2 /\ k \in 1 .. n /\ r + w - 1 - (k - w - h + 1) = x
            BY <1>1, <2>2, <2>6
        <3>2. a[k] = <<r + w - 1 - (k - w - h + 1), r>>
            BY <1>2, <3>1
        <3>3. QED
            BY <2>1, <2>6, <3>1, <3>2
    <2>7. CASE x = r /\ y # r /\ y # r + h - 1
        <3> DEFINE k == y - r + 2 * w + h - 2
        <3>1. k \in 2 * w + h - 1 .. n /\ k \in 1 .. n /\ r + (k - 2 * w - h + 2) = y
            BY <1>1, <2>2, <2>7
        <3>2. a[k] = <<r, r + (k - 2 * w - h + 2)>>
            BY <1>2, <3>1
        <3>3. QED
            BY <2>1, <2>7, <3>1, <3>2
    <2>8. QED
        BY <1>1, <2>2, <2>3, <2>4, <2>5, <2>6, <2>7
<1>6. ASSUME NEW k \in 1 .. n - 1 PROVE Near(a[k], a[k + 1])
    <2>1. k \in Nat
        BY <1>1
    <2>2. CASE k < w
        <3>1. k \in 1 .. w /\ k + 1 \in 1 .. w
            BY <1>1, <2>2
        <3>2. a[k] = <<r + k - 1, r + h - 1>> /\ a[k + 1] = <<r + (k + 1) - 1, r + h - 1>>
            BY <1>2, <3>1
        <3>3. QED
            BY <1>1, <2>1, <3>2 DEF Near, Distance
    <2>3. CASE k = w
        <3>1. k \in 1 .. w /\ k + 1 \in w + 1 .. w + h - 1
            BY <1>1, <2>3
        <3>2. /\ a[k] = <<r + k - 1, r + h - 1>>
              /\ a[k + 1] = <<r + w - 1, r + h - 1 - ((k + 1) - w)>>
            BY <1>2, <3>1
        <3>3. QED
            BY <1>1, <2>1, <2>3, <3>2 DEF Near, Distance
    <2>4. CASE k > w /\ k < w + h - 1
        <3>1. k \in w + 1 .. w + h - 1 /\ k + 1 \in w + 1 .. w + h - 1
            BY <1>1, <2>1, <2>4
        <3>2. /\ a[k] = <<r + w - 1, r + h - 1 - (k - w)>>
              /\ a[k + 1] = <<r + w - 1, r + h - 1 - ((k + 1) - w)>>
            BY <1>2, <3>1
        <3>3. QED
            BY <1>1, <2>1, <3>2 DEF Near, Distance
    <2>5. CASE k = w + h - 1
        <3>1. k \in w + 1 .. w + h - 1 /\ k + 1 \in w + h .. 2 * w + h - 2
            BY <1>1, <2>5
        <3>2. /\ a[k] = <<r + w - 1, r + h - 1 - (k - w)>>
              /\ a[k + 1] = <<r + w - 1 - ((k + 1) - w - h + 1), r>>
            BY <1>2, <3>1
        <3>3. QED
            BY <1>1, <2>1, <2>5, <3>2 DEF Near, Distance
    <2>6. CASE k >= w + h /\ k < 2 * w + h - 2
        <3>1. k \in w + h .. 2 * w + h - 2 /\ k + 1 \in w + h .. 2 * w + h - 2
            BY <1>1, <2>1, <2>6
        <3>2. /\ a[k] = <<r + w - 1 - (k - w - h + 1), r>>
              /\ a[k + 1] = <<r + w - 1 - ((k + 1) - w - h + 1), r>>
            BY <1>2, <3>1
        <3>3. QED
            BY <1>1, <2>1, <3>2 DEF Near, Distance
    <2>7. CASE k = 2 * w + h - 2
        <3>1. k \in w + h .. 2 * w + h - 2 /\ k + 1 \in 2 * w + h - 1 .. n
            BY <1>1, <2>7
        <3>2. /\ a[k] = <<r + w - 1 - (k - w - h + 1), r>>
              /\ a[k + 1] = <<r, r + ((k + 1) - 2 * w - h + 2)>>
            BY <1>2, <3>1
        <3>3. QED
            BY <1>1, <2>1, <2>7, <3>2 DEF Near, Distance
    <2>8. CASE k > 2 * w + h - 2
        <3>1. k \in 2 * w + h - 1 .. n /\ k + 1 \in 2 * w + h - 1 .. n
            BY <1>1, <2>1, <2>8
        <3>2. /\ a[k] = <<r, r + (k - 2 * w - h + 2)>>
              /\ a[k + 1] = <<r, r + ((k + 1) - 2 * w - h + 2)>>
            BY <1>2, <3>1
        <3>3. QED
            BY <1>1, <2>1, <3>2 DEF Near, Distance
    <2>9. QED
        BY <1>1, <2>1, <2>2, <2>3, <2>4, <2>5, <2>6, <2>7, <2>8
<1>7. a[1] = <<r, p.ny - 1 - r>>
    <2>1. 1 \in 1 .. w /\ r + 1 - 1 = r /\ r + h - 1 = p.ny - 1 - r
        BY <1>1
    <2>2. QED
        BY <1>2, <2>1
<1>8. ASSUME w > 2, h > 2 PROVE a[n] = <<r, p.ny - 2 - r>>
    <2>1. n \in 2 * w + h - 1 .. n /\ r + (n - 2 * w - h + 2) = p.ny - 2 - r
        BY <1>1, <1>8
    <2>2. QED
        BY <1>2, <2>1
<1> HIDE DEF n
<1>9. IsRim(p, r, a)
    BY <1>2, <1>3, <1>4, <1>5, <1>6, <1>7, <1>8 DEF IsRim, w, h
<1>10. QED
    BY <1>9 DEF a

\* Every ring of a grid takes its rim off the block the rings before it left.
LEMMA RingIsRim ==
    ASSUME NEW p, IsParams(p), NEW r \in Nat, Wide(p, r) > 0, High(p, r) > 0
    PROVE  IsRim(p, r, Ring(p, r))
<1>1. Wide(p, r) \in Int /\ High(p, r) \in Int
    BY DEF IsParams, Wide, High
<1>2. QED
    BY <1>1, ThinRing, FlatRing, RoundRing

\* What r rings have made: they have taken all but the block they leave, moving
\* one step at a time, and ended next to where the ring after them begins.
IsSpiral(p, r, s) ==
    /\ s \in Seq(Cells(p))
    /\ Len(s) = p.nx * p.ny - Size(p, r)
    /\ \A c \in Cells(p) \ Block(p, r) : \E k \in 1 .. Len(s) : s[k] = c
    /\ \A k \in 1 .. Len(s) - 1 : Near(s[k], s[k + 1])
    /\ r > 0 /\ Wide(p, r) > 0 /\ High(p, r) > 0 => s[Len(s)] = <<r - 1, p.ny - 1 - r>>

\* A ring put behind those around it makes a spiral of one ring more.
LEMMA OneMoreRing ==
    ASSUME NEW p, IsParams(p), NEW r \in Nat, Wide(p, r) > 0, High(p, r) > 0,
           NEW s, IsSpiral(p, r, s)
    PROVE  IsSpiral(p, r + 1, s \o Ring(p, r))
<1> DEFINE a == Ring(p, r)
           t == s \o a
           m == Len(s)
           n == Len(a)
<1>1. IsRim(p, r, a)
    BY RingIsRim
<1> HIDE DEF a
<1>2. /\ a \in Seq(Cells(p)) /\ n \in Nat /\ n > 0
      /\ s \in Seq(Cells(p)) /\ m \in Nat
    BY <1>1, LenProperties DEF IsRim, IsSpiral
<1>3. /\ t \in Seq(Cells(p)) /\ Len(t) = m + n
      /\ \A k \in 1 .. m + n : t[k] = IF k <= m THEN s[k] ELSE a[k - m]
    BY <1>2, ConcatProperties
<1> HIDE DEF t
<1>4. /\ p.nx \in Nat /\ p.ny \in Nat
      /\ Wide(p, r) = p.nx - 2 * r /\ Wide(p, r + 1) = p.nx - 2 * r - 2
      /\ High(p, r) = p.ny - 2 * r /\ High(p, r + 1) = p.ny - 2 * r - 2
    BY DEF IsParams, Wide, High
<1>5. Len(t) = p.nx * p.ny - Size(p, r + 1)
    <2>1. m = p.nx * p.ny - Size(p, r) /\ n = Size(p, r) - Size(p, r + 1)
        BY <1>1 DEF IsRim, IsSpiral
    <2>2. p.nx * p.ny \in Int /\ Size(p, r) \in Int /\ Size(p, r + 1) \in Int
        <3>1. \A i \in Nat : Size(p, i) \in Int
            BY <1>4 DEF Size, Wide, High
        <3>2. QED
            BY <1>4, <3>1
    <2>3. QED
        BY <1>3, <2>1, <2>2
<1>6. ASSUME NEW c \in Cells(p) \ Block(p, r + 1) PROVE \E k \in 1 .. Len(t) : t[k] = c
    <2>1. CASE c \in Block(p, r)
        <3>1. PICK k \in 1 .. n : a[k] = c
            BY <1>1, <1>6, <2>1 DEF IsRim
        <3>2. m + k \in 1 .. m + n /\ ~(m + k <= m) /\ (m + k) - m = k
            BY <1>2
        <3>3. t[m + k] = c
            BY <1>3, <3>1, <3>2
        <3>4. QED
            BY <1>3, <3>2, <3>3
    <2>2. CASE c \notin Block(p, r)
        <3>1. PICK k \in 1 .. m : s[k] = c
            BY <1>6, <2>2 DEF IsSpiral
        <3>2. k \in 1 .. m + n /\ k <= m
            BY <1>2
        <3>3. t[k] = c
            BY <1>3, <3>1, <3>2
        <3>4. QED
            BY <1>3, <3>2, <3>3
    <2>3. QED
        BY <2>1, <2>2
<1>7. ASSUME NEW k \in 1 .. Len(t) - 1 PROVE Near(t[k], t[k + 1])
    <2>1. k \in 1 .. m + n - 1
        BY <1>3
    <2>2. CASE k < m
        <3>1. k \in 1 .. m - 1 /\ k \in 1 .. m + n /\ k + 1 \in 1 .. m + n /\ k <= m /\ k + 1 <= m
            BY <1>2, <2>1, <2>2
        <3>2. t[k] = s[k] /\ t[k + 1] = s[k + 1]
            BY <1>3, <3>1
        <3>3. QED
            BY <3>1, <3>2 DEF IsSpiral
    <2>3. CASE k = m
        <3>1. /\ m > 0 /\ m \in 1 .. m + n /\ m + 1 \in 1 .. m + n
              /\ m <= m /\ ~(m + 1 <= m) /\ (m + 1) - m = 1
            BY <1>2, <2>1, <2>3
        <3>2. t[k] = s[m] /\ t[k + 1] = a[1]
            BY <1>3, <2>3, <3>1
        <3>3. r > 0
            <4>1. SUFFICES ASSUME r = 0 PROVE FALSE
                OBVIOUS
            <4>2. Size(p, 0) = p.nx * p.ny
                BY <1>4, <4>1 DEF Size, Wide, High
            <4>3. m = p.nx * p.ny - p.nx * p.ny
                BY <4>1, <4>2 DEF IsSpiral
            <4>4. p.nx * p.ny \in Int
                BY <1>4
            <4>5. QED
                BY <3>1, <4>3, <4>4
        <3>4. s[m] = <<r - 1, p.ny - 1 - r>>
            BY <3>3 DEF IsSpiral
        <3>5. a[1] = <<r, p.ny - 1 - r>>
            BY <1>1 DEF IsRim
        <3>6. QED
            BY <1>4, <3>2, <3>4, <3>5 DEF Near, Distance
    <2>4. CASE k > m
        <3>1. /\ k - m \in 1 .. n - 1 /\ k \in 1 .. m + n /\ k + 1 \in 1 .. m + n
              /\ ~(k <= m) /\ ~(k + 1 <= m) /\ (k + 1) - m = (k - m) + 1
            BY <1>2, <2>1, <2>4
        <3>2. t[k] = a[k - m] /\ t[k + 1] = a[(k - m) + 1]
            BY <1>3, <3>1
        <3>3. QED
            BY <1>1, <3>1, <3>2 DEF IsRim
    <2>5. QED
        BY <1>2, <2>1, <2>2, <2>3, <2>4
<1>8. ASSUME Wide(p, r + 1) > 0, High(p, r + 1) > 0
      PROVE  t[Len(t)] = <<(r + 1) - 1, p.ny - 1 - (r + 1)>>
    <2>1. Wide(p, r) > 2 /\ High(p, r) > 2
        BY <1>4, <1>8
    <2>2. a[n] = <<r, p.ny - 2 - r>>
        BY <1>1, <2>1 DEF IsRim
    <2>3. m + n \in 1 .. m + n /\ ~(m + n <= m) /\ (m + n) - m = n
        BY <1>2
    <2>4. t[m + n] = a[n]
        BY <1>3, <2>3
    <2>5. (r + 1) - 1 = r /\ p.ny - 1 - (r + 1) = p.ny - 2 - r
        BY <1>4
    <2>6. QED
        BY <1>3, <2>2, <2>4, <2>5
<1>9. IsSpiral(p, r + 1, t)
    BY <1>3, <1>5, <1>6, <1>7, <1>8 DEF IsSpiral
<1>10. QED
    BY <1>9 DEF t, a

\* All the rings of a grid together leave nothing.
LEMMA SpiralOfRings ==
    ASSUME NEW p, IsParams(p), ~ParamsError(p)
    PROVE  /\ \A r \in 0 .. Rings(p) : IsSpiral(p, r, Wound(p, Rings(p))[r])
           /\ IsSpiral(p, Rings(p), Wound(p, Rings(p))[Rings(p)])
           /\ Size(p, Rings(p)) = 0
           /\ Block(p, Rings(p)) = {}
<1> DEFINE n == Rings(p)
           f == Wound(p, n)
           T == {r \in Nat : r <= n => IsSpiral(p, r, f[r])}
<1>1. /\ n \in Nat
      /\ p.nx <= 2 * n \/ p.ny <= 2 * n
      /\ p.nx > 2 * (n - 1) /\ p.ny > 2 * (n - 1)
    BY RingsCount
<1>2. p.nx \in Nat /\ p.ny \in Nat /\ p.nx > 1 /\ p.ny > 1
    BY DEF IsParams, ParamsError
<1> HIDE DEF n
<1>3. IsWound(f, p, n)
    BY <1>1, WoundIsRings
<1> HIDE DEF f
<1>4. 0 \in T
    <2>1. f[0] = <<>>
        <3>1. 0 \in 0 .. n
            BY <1>1
        <3>2. QED
            BY <1>3, <3>1 DEF IsWound
    <2>2. <<>> \in Seq(Cells(p)) /\ Len(<<>>) = 0
        BY EmptySeq
    <2>3. Size(p, 0) = p.nx * p.ny
        BY <1>2 DEF Size, Wide, High
    <2>4. p.nx * p.ny \in Int
        BY <1>2
    <2>5. Block(p, 0) = Cells(p)
        BY <1>2 DEF Block, Cells
    <2>6. IsSpiral(p, 0, <<>>)
        <3>1. Len(<<>>) = p.nx * p.ny - Size(p, 0)
            BY <2>2, <2>3, <2>4
        <3>2. 1 .. Len(<<>>) - 1 = {}
            BY <2>2
        <3>3. Cells(p) \ Block(p, 0) = {}
            BY <2>5
        <3>4. ~(0 > 0)
            OBVIOUS
        <3>5. QED
            BY <2>2, <3>1, <3>2, <3>3, <3>4 DEF IsSpiral
    <2>7. QED
        BY <2>1, <2>6
<1>5. ASSUME NEW r \in Nat, r \in T PROVE r + 1 \in T
    <2>1. SUFFICES ASSUME r + 1 <= n PROVE IsSpiral(p, r + 1, f[r + 1])
        OBVIOUS
    <2>2. IsSpiral(p, r, f[r])
        BY <1>1, <1>5, <2>1
    <2>3. Wide(p, r) > 0 /\ High(p, r) > 0
        BY <1>1, <1>2, <2>1 DEF Wide, High
    <2>4. f[r + 1] = f[r] \o Ring(p, r)
        <3>1. r + 1 \in 0 .. n /\ r + 1 # 0 /\ (r + 1) - 1 = r
            BY <1>1, <2>1
        <3>2. f[r + 1] = f[(r + 1) - 1] \o Ring(p, (r + 1) - 1)
            BY <1>3, <3>1 DEF IsWound
        <3>3. QED
            BY <3>1, <3>2
    <2>5. QED
        BY <2>2, <2>3, <2>4, OneMoreRing
<1>6. /\ \A r \in 0 .. n : IsSpiral(p, r, f[r])
      /\ IsSpiral(p, n, f[n])
    <2>1. Nat \subseteq T
        <3> HIDE DEF T
        <3>1. QED
            BY <1>4, <1>5, AllNumbers
    <2>2. ASSUME NEW r \in 0 .. n PROVE IsSpiral(p, r, f[r])
        BY <1>1, <2>1
    <2>3. n \in 0 .. n
        BY <1>1
    <2>4. QED
        BY <2>2, <2>3
<1>7. Size(p, n) = 0
    <2>1. ~(Wide(p, n) > 0 /\ High(p, n) > 0)
        BY <1>1, <1>2 DEF Wide, High
    <2>2. QED
        BY <2>1 DEF Size
<1>8. Block(p, n) = {}
    <2>1. n .. p.nx - 1 - n = {} \/ n .. p.ny - 1 - n = {}
        BY <1>1, <1>2
    <2>2. QED
        BY <2>1, Zenon DEF Block
<1>9. QED
    BY <1>6, <1>7, <1>8 DEF f, n

\* How many cells a grid has.
LEMMA CellCount ==
    ASSUME NEW p, IsParams(p)
    PROVE  IsFiniteSet(Cells(p)) /\ Cardinality(Cells(p)) = p.nx * p.ny /\ p.nx * p.ny \in Nat
<1>1. p.nx \in Nat /\ p.ny \in Nat
    BY DEF IsParams
<1>2. /\ IsFiniteSet(0 .. p.nx - 1) /\ Cardinality(0 .. p.nx - 1) = p.nx
      /\ IsFiniteSet(0 .. p.ny - 1) /\ Cardinality(0 .. p.ny - 1) = p.ny
    <2>1. 0 \in Int /\ p.nx - 1 \in Int /\ p.ny - 1 \in Int
        BY <1>1
    <2>2. /\ IsFiniteSet(0 .. p.nx - 1)
          /\ Cardinality(0 .. p.nx - 1) = IF 0 > p.nx - 1 THEN 0 ELSE p.nx - 1 - 0 + 1
          /\ IsFiniteSet(0 .. p.ny - 1)
          /\ Cardinality(0 .. p.ny - 1) = IF 0 > p.ny - 1 THEN 0 ELSE p.ny - 1 - 0 + 1
        BY <2>1, FS_Interval
    <2>3. QED
        BY <1>1, <2>2
<1>3. IsFiniteSet(Cells(p)) /\ Cardinality(Cells(p)) = p.nx * p.ny
    BY <1>2, FS_Product DEF Cells
<1>4. QED
    BY <1>1, <1>3

\* A spiral visits every cell once, and moves one step at a time.
LEMMA SpiralProperties ==
    ASSUME NEW p, IsParams(p), ~ParamsError(p)
    PROVE  /\ IsPlanOf(SpiralPlan(p), Cells(p))
           /\ \A k \in 1 .. p.nx * p.ny - 1 : Near(SpiralPlan(p)[k], SpiralPlan(p)[k + 1])
<1> DEFINE s == Wound(p, Rings(p))[Rings(p)]
           n == p.nx * p.ny
           t == [k \in 1 .. Len(s) |-> <<p.nx - 1 - s[k][1], s[k][2]>>]
<1>1. n \in Nat /\ Cardinality(Cells(p)) = n
    BY CellCount
<1>2. IsSpiral(p, Rings(p), s) /\ Size(p, Rings(p)) = 0 /\ Block(p, Rings(p)) = {}
    BY SpiralOfRings
<1>3. SpiralPlan(p) = IF p.mode = "SpiralCW" THEN s ELSE t
    BY SpiralIsWound
<1> HIDE DEF s
<1>4. /\ s \in Seq(Cells(p)) /\ Len(s) = n
      /\ \A c \in Cells(p) : \E k \in 1 .. n : s[k] = c
      /\ \A k \in 1 .. n - 1 : Near(s[k], s[k + 1])
    BY <1>1, <1>2 DEF IsSpiral
<1> HIDE DEF n
<1>5. s \in [1 .. n -> Cells(p)]
    BY <1>4, LenProperties
<1>6. p.nx \in Nat /\ p.ny \in Nat
    BY DEF IsParams
<1>7. ASSUME NEW k \in 1 .. n
      PROVE  /\ s[k] = <<s[k][1], s[k][2]>>
             /\ s[k][1] \in 0 .. p.nx - 1 /\ s[k][2] \in 0 .. p.ny - 1
             /\ s[k][1] \in Int /\ s[k][2] \in Int
    <2>1. s[k] \in (0 .. p.nx - 1) \X (0 .. p.ny - 1)
        BY <1>5 DEF Cells
    <2>2. QED
        BY <2>1
<1>8. t \in [1 .. n -> Cells(p)] /\ \A k \in 1 .. n : t[k] = <<p.nx - 1 - s[k][1], s[k][2]>>
    <2>1. t = [k \in 1 .. n |-> <<p.nx - 1 - s[k][1], s[k][2]>>]
        BY <1>4
    <2>2. ASSUME NEW k \in 1 .. n PROVE <<p.nx - 1 - s[k][1], s[k][2]>> \in Cells(p)
        <3>1. p.nx - 1 - s[k][1] \in 0 .. p.nx - 1
            BY <1>6, <1>7
        <3>2. QED
            BY <1>7, <3>1, Zenon DEF Cells
    <2>3. QED
        BY <2>1, <2>2
<1> HIDE DEF t
<1>9. ASSUME NEW c \in Cells(p) PROVE \E k \in 1 .. n : t[k] = c
    <2>1. PICK x \in 0 .. p.nx - 1, y \in 0 .. p.ny - 1 : c = <<x, y>>
        BY DEF Cells
    <2>2. p.nx - 1 - x \in 0 .. p.nx - 1 /\ p.nx - 1 - (p.nx - 1 - x) = x
        BY <1>6
    <2>3. <<p.nx - 1 - x, y>> \in Cells(p)
        BY <2>2, Zenon DEF Cells
    <2>4. PICK k \in 1 .. n : s[k] = <<p.nx - 1 - x, y>>
        BY <1>4, <2>3
    <2>5. t[k] = <<p.nx - 1 - (p.nx - 1 - x), y>>
        BY <1>8, <2>4
    <2>6. QED
        BY <2>1, <2>2, <2>5
<1>10. ASSUME NEW k \in 1 .. n - 1 PROVE Near(t[k], t[k + 1])
    <2>1. k \in 1 .. n /\ k + 1 \in 1 .. n
        BY <1>1
    <2>2. /\ t[k] = <<p.nx - 1 - s[k][1], s[k][2]>>
          /\ t[k + 1] = <<p.nx - 1 - s[k + 1][1], s[k + 1][2]>>
        BY <1>8, <2>1
    <2>3. /\ s[k][1] \in Int /\ s[k + 1][1] \in Int /\ s[k][2] \in Int /\ s[k + 1][2] \in Int
        BY <1>7, <2>1
    <2>4. Near(s[k], s[k + 1])
        BY <1>4
    <2>5. Distance(p.nx - 1 - s[k][1], p.nx - 1 - s[k + 1][1]) = Distance(s[k][1], s[k + 1][1])
        BY <1>6, <2>3 DEF Distance
    <2>6. QED
        BY <2>2, <2>4, <2>5 DEF Near
<1>11. CASE p.mode = "SpiralCW"
    <2>1. SpiralPlan(p) = s
        BY <1>3, <1>11
    <2>2. QED
        BY <1>1, <1>4, <1>5, <2>1 DEF IsPlanOf, n
<1>12. CASE p.mode # "SpiralCW"
    <2>1. SpiralPlan(p) = t
        BY <1>3, <1>12
    <2>2. QED
        BY <1>1, <1>8, <1>9, <1>10, <2>1 DEF IsPlanOf, n
<1>13. QED
    BY <1>11, <1>12

\* The quotient and the remainder of a division, and a number made of two.
LEMMA DivMod ==
    ASSUME NEW n \in Nat, NEW m \in Nat, n > 0
    PROVE  /\ m \div n \in Nat
           /\ m % n \in 0 .. n - 1
           /\ m = n * (m \div n) + (m % n)
OBVIOUS

\* Quotient and remainder are those a number is made of.
LEMMA DivModUnique ==
    ASSUME NEW n \in Nat, NEW q \in Nat, NEW c \in 0 .. n - 1
    PROVE  (n * q + c) \div n = q /\ (n * q + c) % n = c
OBVIOUS

\* The row of a place in a row plan and the place in the row, from 0; and the
\* column of that place, which depends on the direction the row is walked in.
RowOf(p, k) == (k - 1) \div p.nx
PlaceOf(p, k) == (k - 1) % p.nx
Forward(p, y) == (p.mode = "Serpentine" => y % 2 = 0) = p.start_positive
ColumnOf(p, y, c) == IF Forward(p, y) THEN c ELSE p.nx - 1 - c

\* Which place of a row plan a row and a column make.
LEMMA PlacesOfRows ==
    ASSUME NEW p, IsParams(p), ~ParamsError(p), NEW k \in 1 .. p.nx * p.ny
    PROVE  /\ RowOf(p, k) \in 0 .. p.ny - 1
           /\ PlaceOf(p, k) \in 0 .. p.nx - 1
           /\ k - 1 = p.nx * RowOf(p, k) + PlaceOf(p, k)
<1> DEFINE q == RowOf(p, k)
           c == PlaceOf(p, k)
<1>1. p.nx \in Nat /\ p.nx > 0 /\ p.ny \in Nat /\ p.nx * p.ny \in Nat
    BY CellCount DEF IsParams, ParamsError
<1>2. k - 1 \in Nat /\ k - 1 < p.nx * p.ny
    BY <1>1
<1>3. q \in Nat /\ c \in 0 .. p.nx - 1 /\ k - 1 = p.nx * q + c
    BY <1>1, <1>2, DivMod DEF RowOf, PlaceOf
<1> HIDE DEF q, c
<1>4. q < p.ny
    <2>1. SUFFICES ASSUME q >= p.ny PROVE FALSE
        BY <1>1, <1>3
    <2>2. p.nx * q >= p.nx * p.ny
        BY <1>1, <1>3, <2>1
    <2>3. p.nx * q \in Int
        BY <1>1, <1>3
    <2>4. QED
        BY <1>1, <1>2, <1>3, <2>2, <2>3
<1>5. QED
    BY <1>1, <1>3, <1>4 DEF q, c

\* The k-th cell of a row plan.
LEMMA RowPlanIs ==
    ASSUME NEW p
    PROVE  RowPlan(p) = [k \in 1 .. p.nx * p.ny |->
                            <<ColumnOf(p, RowOf(p, k), PlaceOf(p, k)), RowOf(p, k)>>]
BY DEF RowPlan, ColumnOf, Forward, RowOf, PlaceOf

\* The rows visit every cell once, whichever way each of them is walked.
LEMMA RowPlanCovers ==
    ASSUME NEW p, IsParams(p), ~ParamsError(p)
    PROVE  IsPlanOf(RowPlan(p), Cells(p))
<1> DEFINE n == p.nx * p.ny
           a == RowPlan(p)
<1>1. /\ p.nx \in Nat /\ p.nx > 0 /\ p.ny \in Nat /\ p.ny > 0
      /\ n \in Nat /\ Cardinality(Cells(p)) = n
    BY CellCount DEF IsParams, ParamsError
<1>2. a = [k \in 1 .. n |-> <<ColumnOf(p, RowOf(p, k), PlaceOf(p, k)), RowOf(p, k)>>]
    BY RowPlanIs
<1> HIDE DEF a
<1>3. ASSUME NEW y, NEW c \in 0 .. p.nx - 1
      PROVE  ColumnOf(p, y, c) \in 0 .. p.nx - 1
    BY <1>1 DEF ColumnOf
<1>4. a \in [1 .. n -> Cells(p)]
    <2>1. ASSUME NEW k \in 1 .. n
          PROVE  <<ColumnOf(p, RowOf(p, k), PlaceOf(p, k)), RowOf(p, k)>> \in Cells(p)
        <3>1. RowOf(p, k) \in 0 .. p.ny - 1 /\ PlaceOf(p, k) \in 0 .. p.nx - 1
            BY PlacesOfRows
        <3>2. ColumnOf(p, RowOf(p, k), PlaceOf(p, k)) \in 0 .. p.nx - 1
            BY <1>3, <3>1
        <3>3. QED
            BY <3>1, <3>2, Zenon DEF Cells
    <2>2. QED
        BY <1>2, <2>1
<1>5. ASSUME NEW c \in Cells(p) PROVE \E k \in 1 .. n : a[k] = c
    <2>1. PICK x \in 0 .. p.nx - 1, y \in 0 .. p.ny - 1 : c = <<x, y>>
        BY DEF Cells
    <2> DEFINE d == ColumnOf(p, y, x)
               k == p.nx * y + d + 1
    <2>2. d \in 0 .. p.nx - 1 /\ ColumnOf(p, y, d) = x
        BY <1>1, <2>1 DEF ColumnOf
    <2> HIDE DEF d
    <2>3. p.nx * y \in Nat /\ p.nx * y <= p.nx * (p.ny - 1)
        BY <1>1, <2>1
    <2>4. p.nx * (p.ny - 1) = n - p.nx
        BY <1>1
    <2>5. k \in 1 .. n
        BY <1>1, <2>2, <2>3, <2>4
    <2>6. k - 1 = p.nx * y + d
        BY <1>1, <2>2, <2>3
    <2>7. RowOf(p, k) = y /\ PlaceOf(p, k) = d
        <3>1. y \in Nat
            BY <1>1, <2>1
        <3>2. (p.nx * y + d) \div p.nx = y /\ (p.nx * y + d) % p.nx = d
            BY <1>1, <2>2, <3>1, DivModUnique
        <3>3. QED
            BY <2>6, <3>2 DEF RowOf, PlaceOf
    <2> HIDE DEF k
    <2>8. a[k] = <<ColumnOf(p, y, d), y>>
        BY <1>2, <2>5, <2>7
    <2>9. QED
        BY <2>1, <2>2, <2>5, <2>8
<1> HIDE DEF n
<1>6. QED
    BY <1>1, <1>4, <1>5 DEF IsPlanOf, a

\* Whatever the mode and however big the grid, the plan visits every cell of it
\* exactly once (buildPlan, spiralPlan): the rings of a spiral neither overlap nor
\* leave a core, and the rows of a serpentine stay in the grid both ways.
THEOREM PlanCoversItsGrid ==
    ASSUME NEW p, IsParams(p), ~ParamsError(p)
    PROVE  IsPlanOf(BuildPlan(p), Cells(p))
BY SpiralProperties, RowPlanCovers DEF BuildPlan

-----------------------------------------------------------------------------
(* Legs.                                                                   *)

\* The heading from position j of an order to the next.
HeadingAt(plan, order, j) == Heading(plan[order[j]], plan[order[j + 1]])

\* What legs promise: between two positions of one leg there is a heading, and
\* the next step of the leg has the same.
KeepsHeading(plan, order, ends) ==
    \A j \in 1 .. Len(order) - 1 : j \notin ends =>
        /\ HeadingAt(plan, order, j) # <<0, 0>>
        /\ j + 1 \in 1 .. Len(order) - 1 /\ j + 1 \notin ends =>
               HeadingAt(plan, order, j + 1) = HeadingAt(plan, order, j)

\* Two cells of one row of a row plan lie in the direction the row is walked in.
LEMMA RowsRunOneWay ==
    ASSUME NEW p, IsParams(p), ~ParamsError(p),
           NEW i \in 1 .. p.nx * p.ny, NEW j \in 1 .. p.nx * p.ny, i < j,
           RowPlan(p)[i][2] = RowPlan(p)[j][2]
    PROVE  Heading(RowPlan(p)[i], RowPlan(p)[j]) =
              <<IF Forward(p, RowPlan(p)[i][2]) THEN 1 ELSE -1, 0>>
<1> DEFINE n == p.nx * p.ny
           a == RowPlan(p)[i]
           b == RowPlan(p)[j]
           y == RowOf(p, i)
           c == PlaceOf(p, i)
           d == PlaceOf(p, j)
<1>1. p.nx \in Nat /\ p.ny \in Nat /\ n \in Nat
    BY CellCount DEF IsParams
<1>2. a = <<ColumnOf(p, y, c), y>> /\ b = <<ColumnOf(p, RowOf(p, j), d), RowOf(p, j)>>
    BY RowPlanIs
<1>3. RowOf(p, j) = y
    BY <1>2
<1>4. /\ y \in 0 .. p.ny - 1 /\ c \in 0 .. p.nx - 1 /\ d \in 0 .. p.nx - 1
      /\ i - 1 = p.nx * y + c /\ j - 1 = p.nx * y + d
    BY <1>3, PlacesOfRows
<1> HIDE DEF a, b, y, c, d, n
<1>5. c < d
    <2>1. i \in Int /\ j \in Int /\ p.nx * y \in Int /\ c \in Int /\ d \in Int
        BY <1>1, <1>4
    <2>2. QED
        BY <1>4, <2>1
<1>6. b = <<ColumnOf(p, y, d), y>>
    BY <1>2, <1>3
<1>7. CASE Forward(p, y)
    <2>1. a = <<c, y>> /\ b = <<d, y>>
        BY <1>2, <1>6, <1>7 DEF ColumnOf
    <2>2. Heading(a, b) = <<1, 0>>
        BY <1>4, <1>5, <2>1 DEF Heading
    <2>3. QED
        BY <1>7, <2>1, <2>2 DEF a, b
<1>8. CASE ~Forward(p, y)
    <2>1. a = <<p.nx - 1 - c, y>> /\ b = <<p.nx - 1 - d, y>>
        BY <1>2, <1>6, <1>8 DEF ColumnOf
    <2>2. Heading(a, b) = <<-1, 0>>
        BY <1>1, <1>4, <1>5, <2>1 DEF Heading
    <2>3. QED
        BY <1>8, <2>1, <2>2 DEF a, b
<1>9. QED
    BY <1>7, <1>8

\* The legs of an order of increasing indices of a row plan keep their heading.
LEMMA RowLegsKeepHeading ==
    ASSUME NEW p, IsParams(p), ~ParamsError(p), ~ModeSpiral(p), NEW plan, plan = RowPlan(p),
           NEW order \in Seq(1 .. p.nx * p.ny),
           \A i, j \in 1 .. Len(order) : i < j => order[i] < order[j]
    PROVE  KeepsHeading(plan, order, LegEnds(p, plan, order))
<1> DEFINE n == Len(order)
           ends == LegEnds(p, plan, order)
           dir(y) == <<IF Forward(p, y) THEN 1 ELSE -1, 0>>
<1>1. n \in Nat /\ \A j \in 1 .. n : order[j] \in 1 .. p.nx * p.ny
    BY LenProperties
<1>2. ASSUME NEW j \in 1 .. n - 1, j \notin ends
      PROVE  /\ plan[order[j + 1]][2] = plan[order[j]][2]
             /\ HeadingAt(plan, order, j) = dir(plan[order[j]][2])
    <2>1. j \in 1 .. n /\ j + 1 \in 1 .. n /\ j < j + 1 /\ j + 1 > 1 /\ (j + 1) - 1 = j /\ j # n
        BY <1>1
    <2>2. ~RowLegStarts(plan, order)[j + 1]
        BY <1>2, <2>1 DEF LegEnds
    <2>3. plan[order[j + 1]][2] = plan[order[j]][2]
        BY <2>1, <2>2 DEF RowLegStarts
    <2>4. order[j] < order[j + 1] /\ order[j] \in 1 .. p.nx * p.ny /\ order[j + 1] \in 1 .. p.nx * p.ny
        BY <1>1, <2>1
    <2>5. Heading(plan[order[j]], plan[order[j + 1]]) = dir(plan[order[j]][2])
        BY <2>3, <2>4, RowsRunOneWay
    <2>6. QED
        BY <2>3, <2>5 DEF HeadingAt
<1>3. ASSUME NEW j \in 1 .. n - 1, j \notin ends, j + 1 \in 1 .. n - 1, j + 1 \notin ends
      PROVE  HeadingAt(plan, order, j + 1) = HeadingAt(plan, order, j)
    <2>1. HeadingAt(plan, order, j) = dir(plan[order[j]][2])
        BY <1>2, <1>3
    <2>2. HeadingAt(plan, order, j + 1) = dir(plan[order[j + 1]][2])
        BY <1>2, <1>3
    <2>3. plan[order[j + 1]][2] = plan[order[j]][2]
        BY <1>2, <1>3
    <2>4. QED
        BY <2>1, <2>2, <2>3
<1>4. ASSUME NEW y PROVE dir(y) # <<0, 0>>
    OBVIOUS
<1> HIDE DEF dir, ends
<1>5. QED
    BY <1>2, <1>3, <1>4 DEF KeepsHeading, ends

\* The leg starts of a spiral, as the recursive function SpiralLegStarts defines.
IsLegStarts(f, plan, order, n) ==
    LET head(k) == Heading(plan[order[k - 1]], plan[order[k]])
    IN  f = [k \in 1 .. n |-> \/ k = 1
                              \/ head(k) = <<0, 0>>
                              \/ ~f[k - 1] /\ head(k) # head(k - 1)]

\* The recursion over an order has a solution, which is thus where the code
\* starts legs.
LEMMA LegStartsExist ==
    ASSUME NEW plan, NEW order, Len(order) \in Nat
    PROVE  IsLegStarts(SpiralLegStarts(plan, order), plan, order, Len(order))
<1> DEFINE T == {m \in Nat : \E f : IsLegStarts(f, plan, order, m)}
           head(k) == Heading(plan[order[k - 1]], plan[order[k]])
<1>1. 0 \in T
    <2> DEFINE f == [k \in 1 .. 0 |-> TRUE]
               g == [k \in 1 .. 0 |-> \/ k = 1
                                      \/ head(k) = <<0, 0>>
                                      \/ ~f[k - 1] /\ head(k) # head(k - 1)]
    <2>1. f = g
        OBVIOUS
    <2>2. IsLegStarts(f, plan, order, 0)
        BY <2>1 DEF IsLegStarts
    <2>3. QED
        BY <2>2
<1>2. ASSUME NEW m \in Nat, m \in T PROVE m + 1 \in T
    <2>1. PICK f : IsLegStarts(f, plan, order, m)
        BY <1>2
    <2> DEFINE new(s, k) == \/ k = 1
                            \/ head(k) = <<0, 0>>
                            \/ ~s /\ head(k) # head(k - 1)
               g == [k \in 1 .. m + 1 |-> IF k = m + 1 THEN new(f[m], m + 1) ELSE f[k]]
               h == [k \in 1 .. m + 1 |-> new(g[k - 1], k)]
    <2>2. f = [k \in 1 .. m |-> new(f[k - 1], k)]
        BY <2>1 DEF IsLegStarts
    <2>3. ASSUME NEW k \in 1 .. m + 1 PROVE g[k] = h[k]
        <3>1. h[k] = new(g[k - 1], k)
            OBVIOUS
        <3>2. CASE k = 1
            <4>1. h[k] = TRUE
                BY <3>1, <3>2
            <4>2. new(f[m], 1) = TRUE
                OBVIOUS
            <4>3. CASE m = 0
                BY <3>2, <4>1, <4>3
            <4>4. CASE m # 0
                <5>1. k \in 1 .. m /\ k # m + 1
                    BY <3>2, <4>4
                <5>2. f[k] = new(f[k - 1], k)
                    BY <2>2, <5>1
                <5>3. g[k] = f[k]
                    BY <5>1
                <5>4. new(f[k - 1], k) = TRUE
                    BY <3>2
                <5>5. QED
                    BY <4>1, <5>2, <5>3, <5>4
            <4>5. QED
                BY <4>3, <4>4
        <3>3. CASE k # 1 /\ k = m + 1
            <4>1. k - 1 = m /\ m \in 1 .. m + 1 /\ m # m + 1
                BY <3>3
            <4>2. g[m] = f[m]
                BY <4>1
            <4>3. g[k] = new(f[m], k)
                BY <3>3
            <4>4. h[k] = new(g[m], k)
                BY <3>1, <4>1
            <4> HIDE DEF new, g, h
            <4>5. QED
                BY <4>2, <4>3, <4>4
        <3>4. CASE k # 1 /\ k # m + 1
            <4>1. k \in 1 .. m /\ k - 1 \in 1 .. m + 1 /\ k - 1 # m + 1
                BY <3>4
            <4>2. g[k] = f[k] /\ g[k - 1] = f[k - 1]
                BY <3>4, <4>1
            <4>3. f[k] = new(f[k - 1], k)
                BY <2>2, <4>1
            <4> HIDE DEF new, g, h
            <4>4. QED
                BY <3>1, <4>2, <4>3
        <3>5. QED
            BY <3>2, <3>3, <3>4
    <2>4. g = h
        BY <2>3
    <2>5. IsLegStarts(g, plan, order, m + 1)
        BY <2>4 DEF IsLegStarts
    <2>6. QED
        BY <2>5
<1>3. Nat \subseteq T
    <2> HIDE DEF T
    <2> QED
        BY <1>1, <1>2, AllNumbers
<1>4. \E f : IsLegStarts(f, plan, order, Len(order))
    BY <1>3
<1>5. QED
    BY <1>4 DEF SpiralLegStarts, IsLegStarts

\* The legs of any order of any plan keep their heading when they are cut as a
\* spiral's are.
LEMMA SpiralLegsKeepHeading ==
    ASSUME NEW p, ModeSpiral(p), NEW plan, NEW order, Len(order) \in Nat
    PROVE  KeepsHeading(plan, order, LegEnds(p, plan, order))
<1> DEFINE n == Len(order)
           f == SpiralLegStarts(plan, order)
           ends == LegEnds(p, plan, order)
           head(k) == Heading(plan[order[k - 1]], plan[order[k]])
<1>1. ends = {k \in 1 .. n : k = n \/ f[k + 1]}
    BY DEF LegEnds
<1>2. IsLegStarts(f, plan, order, n)
    BY LegStartsExist
<1> HIDE DEF f, ends
<1>3. f = [k \in 1 .. n |-> k = 1 \/ head(k) = <<0, 0>> \/ (~f[k - 1] /\ head(k) # head(k - 1))]
    BY <1>2 DEF IsLegStarts
<1>4. ASSUME NEW j \in 1 .. n - 1, j \notin ends
      PROVE  /\ ~f[j + 1]
             /\ head(j + 1) # <<0, 0>>
             /\ f[j] \/ head(j + 1) = head((j + 1) - 1)
    <2>1. j \in 1 .. n /\ j # n /\ j + 1 \in 1 .. n /\ j + 1 # 1 /\ (j + 1) - 1 = j
        OBVIOUS
    <2>2. ~f[j + 1]
        BY <1>1, <1>4, <2>1
    <2>3. f[j + 1] = (j + 1 = 1 \/ head(j + 1) = <<0, 0>> \/ (~f[(j + 1) - 1] /\ head(j + 1) # head((j + 1) - 1)))
        BY <1>3, <2>1
    <2>4. ~(j + 1 = 1 \/ head(j + 1) = <<0, 0>> \/ (~f[(j + 1) - 1] /\ head(j + 1) # head((j + 1) - 1)))
        BY <2>2, <2>3
    <2> HIDE DEF head
    <2>5. QED
        BY <2>1, <2>2, <2>4
<1>5. ASSUME NEW j \in 1 .. n - 1 PROVE HeadingAt(plan, order, j) = head(j + 1)
    <2>1. (j + 1) - 1 = j
        OBVIOUS
    <2>2. QED
        BY <2>1 DEF HeadingAt
<1>6. ASSUME NEW j \in 1 .. n - 1, j \notin ends, j + 1 \in 1 .. n - 1, j + 1 \notin ends
      PROVE  HeadingAt(plan, order, j + 1) = HeadingAt(plan, order, j)
    <2>1. ~f[j + 1]
        BY <1>4, <1>6
    <2>2. f[j + 1] \/ head((j + 1) + 1) = head(((j + 1) + 1) - 1)
        BY <1>4, <1>6
    <2>3. ((j + 1) + 1) - 1 = j + 1
        OBVIOUS
    <2>4. head((j + 1) + 1) = head(j + 1)
        BY <2>1, <2>2, <2>3
    <2>5. QED
        BY <1>5, <1>6, <2>4
<1> HIDE DEF head
<1>7. QED
    BY <1>4, <1>5, <1>6 DEF KeepsHeading, ends

\* Along a stretch of an order without an end of a leg all headings are the same.
LEMMA StraightStretch ==
    ASSUME NEW plan, NEW order, NEW ends, Len(order) \in Nat, KeepsHeading(plan, order, ends),
           NEW s \in 1 .. Len(order) - 1, NEW k \in 1 .. Len(order) - 1, s <= k,
           \A j \in s .. k : j \notin ends
    PROVE  /\ HeadingAt(plan, order, k) = HeadingAt(plan, order, s)
           /\ HeadingAt(plan, order, k) # <<0, 0>>
<1> DEFINE hd(j) == HeadingAt(plan, order, j)
           T == {m \in Nat : s + m <= k => hd(s + m) = hd(s)}
<1>1. 0 \in T
    BY s + 0 = s
<1>2. ASSUME NEW m \in Nat, m \in T PROVE m + 1 \in T
    <2>1. SUFFICES ASSUME s + (m + 1) <= k PROVE hd(s + (m + 1)) = hd(s)
        OBVIOUS
    <2>2. /\ s + m \in 1 .. Len(order) - 1 /\ s + m \in s .. k /\ s + m <= k
          /\ (s + m) + 1 \in 1 .. Len(order) - 1 /\ (s + m) + 1 \in s .. k
          /\ s + (m + 1) = (s + m) + 1
        BY <2>1
    <2>3. hd((s + m) + 1) = hd(s + m)
        BY <2>2 DEF KeepsHeading
    <2>4. hd(s + m) = hd(s)
        BY <1>2, <2>2
    <2>5. QED
        BY <2>2, <2>3, <2>4
<1>3. k - s \in T
    <2> HIDE DEF T
    <2>1. k - s \in Nat
        OBVIOUS
    <2>2. QED
        BY <1>1, <1>2, <2>1, AllNumbers
<1>4. s + (k - s) = k /\ s + (k - s) <= k
    OBVIOUS
<1>5. hd(k) = hd(s)
    <2> HIDE DEF hd
    <2>1. s + (k - s) <= k => hd(s + (k - s)) = hd(s)
        BY <1>3
    <2>2. QED
        BY <1>4, <2>1
<1>6. k \in s .. k
    OBVIOUS
<1>7. hd(k) # <<0, 0>>
    BY <1>6 DEF KeepsHeading
<1>8. QED
    BY <1>5, <1>7

-----------------------------------------------------------------------------
(* Following the stage.                                                    *)

\* A function on a stretch of positions that grows with every step grows.
LEMMA Growing ==
    ASSUME NEW a \in Int, NEW b \in Int, NEW f, \A j \in a .. b : f[j] \in Int,
           \A j \in a .. b - 1 : f[j] < f[j + 1],
           NEW i \in a .. b, NEW j \in a .. b, i <= j
    PROVE  f[i] <= f[j]
<1> DEFINE T == {m \in Nat : i + m <= b => f[i] <= f[i + m]}
<1>1. 0 \in T
    BY i + 0 = i
<1>2. ASSUME NEW m \in Nat, m \in T PROVE m + 1 \in T
    <2>1. SUFFICES ASSUME i + (m + 1) <= b PROVE f[i] <= f[i + (m + 1)]
        OBVIOUS
    <2>2. /\ i + m \in a .. b - 1 /\ i + m \in a .. b /\ i + m <= b
          /\ (i + m) + 1 \in a .. b /\ i + (m + 1) = (i + m) + 1
        BY <2>1
    <2>3. f[i + m] < f[(i + m) + 1] /\ f[i] <= f[i + m]
        BY <1>2, <2>2
    <2>4. f[i] \in Int /\ f[i + m] \in Int /\ f[(i + m) + 1] \in Int
        BY <2>2
    <2>5. f[i] <= f[(i + m) + 1]
        BY <2>3, <2>4
    <2>6. QED
        BY <2>2, <2>5
<1>3. j - i \in T
    <2> HIDE DEF T
    <2>1. j - i \in Nat
        OBVIOUS
    <2>2. QED
        BY <1>1, <1>2, <2>1, AllNumbers
<1>4. i + (j - i) = j /\ i + (j - i) <= b
    OBVIOUS
<1>5. i + (j - i) <= b => f[i] <= f[i + (j - i)]
    BY <1>3
<1>6. QED
    BY <1>4, <1>5

\* The first of a set of numbers.
LEMMA FirstOfNumbers ==
    ASSUME NEW S, S \subseteq Nat, S # {}
    PROVE  \E x \in S : \A y \in S : x <= y
<1> DEFINE less == {q \in Nat \X Nat : q[1] < q[2]}
<1>1. IsWellFoundedOn(less, Nat)
    BY NatLessThanWellFounded DEF OpToRel
<1>2. PICK x \in S : \A y \in S : ~(<<y, x>> \in less)
    BY <1>1, WFMin
<1>3. ASSUME NEW y \in S PROVE x <= y
    <2>1. x \in Nat /\ y \in Nat /\ <<y, x>> \in Nat \X Nat
        OBVIOUS
    <2>2. ~(y < x)
        BY <1>2, <2>1
    <2>3. QED
        BY <2>1, <2>2
<1>4. QED
    BY <1>3

\* Where positions grow from step to step, the first step that does not bring the
\* stage nearer ends next to the nearest of them all.
LEMMA FirstTurnIsNearest ==
    ASSUME NEW k \in Nat, NEW e \in Nat, k <= e, NEW pos \in Int,
           NEW x, \A j \in k .. e : x[j] \in Int,
           \A j \in k .. e - 1 : x[j] < x[j + 1],
           NEW r \in k .. e,
           r = e \/ Distance(pos, 2 * x[r + 1]) >= Distance(pos, 2 * x[r]),
           \A j \in k .. e :
              j = e \/ Distance(pos, 2 * x[j + 1]) >= Distance(pos, 2 * x[j]) => r <= j
    PROVE  \A j \in k .. e : Distance(pos, 2 * x[r]) <= Distance(pos, 2 * x[j])
<1> DEFINE far == [j \in k .. e |-> Distance(pos, 2 * x[j])]
<1>1. ASSUME NEW j \in k .. e PROVE far[j] = Distance(pos, 2 * x[j]) /\ far[j] \in Int
    <2>1. x[j] \in Int
        OBVIOUS
    <2>2. QED
        BY <2>1 DEF Distance
<1> HIDE DEF far
<1>2. ASSUME NEW j \in k .. e, j < r PROVE far[r] <= far[j]
    <2> DEFINE near == [i \in k .. r |-> -far[i]]
    <2>1. ASSUME NEW i \in k .. r PROVE near[i] = -far[i] /\ near[i] \in Int /\ i \in k .. e
        BY <1>1
    <2>2. ASSUME NEW i \in k .. r - 1 PROVE near[i] < near[i + 1]
        <3>1. /\ i \in k .. e /\ i + 1 \in k .. e /\ i \in k .. r /\ i + 1 \in k .. r
              /\ i # e /\ ~(r <= i)
            OBVIOUS
        <3>2. ~(Distance(pos, 2 * x[i + 1]) >= Distance(pos, 2 * x[i]))
            BY <3>1
        <3>3. ~(far[i + 1] >= far[i]) /\ far[i] \in Int /\ far[i + 1] \in Int
            BY <1>1, <3>1, <3>2
        <3>4. QED
            BY <2>1, <3>1, <3>3
    <2> HIDE DEF near
    <2>3. j \in k .. r /\ r \in k .. r /\ j <= r /\ k \in Int /\ r \in Int
        BY <1>2
    <2>4. near[j] <= near[r]
        BY <2>1, <2>2, <2>3, Growing
    <2>5. QED
        BY <1>1, <2>1, <2>3, <2>4
<1>3. ASSUME NEW j \in k .. e, j > r PROVE far[r] <= far[j]
    <2>1. r # e /\ r \in k .. e - 1 /\ r + 1 \in k .. e /\ r + 1 <= j /\ k \in Int /\ e \in Int
        BY <1>3
    <2>2. Distance(pos, 2 * x[r + 1]) >= Distance(pos, 2 * x[r])
        BY <2>1
    <2>3. x[r] < x[r + 1] /\ x[r] \in Int /\ x[r + 1] \in Int /\ x[j] \in Int
        BY <2>1
    <2>4. x[r + 1] <= x[j]
        BY <2>1, Growing
    <2>5. Distance(pos, 2 * x[r]) <= Distance(pos, 2 * x[j])
        BY <2>2, <2>3, <2>4 DEF Distance
    <2>6. QED
        BY <1>1, <2>5
<1>4. ASSUME NEW j \in k .. e PROVE far[r] <= far[j]
    <2>1. j < r \/ j = r \/ j > r
        OBVIOUS
    <2>2. QED
        BY <1>1, <1>2, <1>3, <2>1
<1>5. QED
    BY <1>1, <1>4

\* Wherever the stage is seen, syncOnFlyCell goes to the cell nearest to it among
\* those ahead on the leg, if the leg runs one way along the axis looked at.
LEMMA SyncSlotIsNearest ==
    ASSUME NEW plan, NEW order, NEW ax, NEW k \in Nat, NEW e \in Nat, k <= e, NEW pos \in Int,
           \A j \in k .. e : plan[order[j]][ax] \in Int,
           \/ \A j \in k .. e - 1 : plan[order[j]][ax] < plan[order[j + 1]][ax]
           \/ \A j \in k .. e - 1 : plan[order[j]][ax] > plan[order[j + 1]][ax]
    PROVE  LET r == SyncSlot(plan, order, ax, e, pos, k)
           IN  /\ r \in k .. e
               /\ \A j \in k .. e : Distance(pos, 2 * plan[order[r]][ax])
                                       <= Distance(pos, 2 * plan[order[j]][ax])
<1> DEFINE x == [j \in k .. e |-> plan[order[j]][ax]]
           y == [j \in k .. e |-> -x[j]]
           away(j) == Distance(pos, 2 * plan[order[j]][ax])
           stop == {j \in k .. e : j = e \/ away(j + 1) >= away(j)}
           r == SyncSlot(plan, order, ax, e, pos, k)
<1>1. r = CHOOSE j \in stop : \A i \in stop : j <= i
    BY DEF SyncSlot
<1>2. \E j \in stop : \A i \in stop : j <= i
    <2>1. stop \subseteq Nat /\ e \in stop
        OBVIOUS
    <2> HIDE DEF stop
    <2>2. QED
        BY <2>1, FirstOfNumbers
<1>3. r \in stop /\ \A i \in stop : r <= i
    <2> HIDE DEF stop, r
    <2>1. QED
        BY <1>1, <1>2
<1> HIDE DEF r
<1>4. /\ r \in k .. e
      /\ r = e \/ away(r + 1) >= away(r)
      /\ \A j \in k .. e : j = e \/ away(j + 1) >= away(j) => r <= j
    BY <1>3
<1> HIDE DEF stop
<1>5. ASSUME NEW j \in k .. e PROVE x[j] = plan[order[j]][ax] /\ x[j] \in Int
    OBVIOUS
<1>6. ASSUME NEW j \in k .. e PROVE y[j] = -x[j] /\ y[j] \in Int
    BY <1>5
<1> HIDE DEF x, y
<1>7. ASSUME NEW j \in k .. e
      PROVE  away(j) = Distance(pos, 2 * x[j]) /\ away(j) = Distance(-pos, 2 * y[j])
    <2>1. away(j) = Distance(pos, 2 * x[j])
        BY <1>5
    <2>2. Distance(pos, 2 * x[j]) = Distance(-pos, 2 * y[j])
        <3>1. x[j] \in Int /\ y[j] = -x[j]
            BY <1>5, <1>6
        <3>2. QED
            BY <3>1 DEF Distance
    <2>3. QED
        BY <2>1, <2>2
<1> HIDE DEF away
<1>8. ASSUME NEW j \in k .. e, j # e PROVE j + 1 \in k .. e
    BY <1>8
<1>9. CASE \A j \in k .. e - 1 : plan[order[j]][ax] < plan[order[j + 1]][ax]
    <2>1. ASSUME NEW j \in k .. e - 1 PROVE x[j] < x[j + 1]
        <3>1. j \in k .. e /\ j + 1 \in k .. e
            OBVIOUS
        <3>2. QED
            BY <1>5, <1>9, <3>1
    <2>2. r = e \/ Distance(pos, 2 * x[r + 1]) >= Distance(pos, 2 * x[r])
        BY <1>4, <1>7, <1>8
    <2>3. ASSUME NEW j \in k .. e,
                 j = e \/ Distance(pos, 2 * x[j + 1]) >= Distance(pos, 2 * x[j])
          PROVE  r <= j
        BY <1>4, <1>7, <1>8, <2>3
    <2>4. \A j \in k .. e : Distance(pos, 2 * x[r]) <= Distance(pos, 2 * x[j])
        BY <1>4, <1>5, <2>1, <2>2, <2>3, FirstTurnIsNearest
    <2>5. QED
        BY <1>4, <1>7, <2>4 DEF r, away
<1>10. CASE \A j \in k .. e - 1 : plan[order[j]][ax] > plan[order[j + 1]][ax]
    <2>1. ASSUME NEW j \in k .. e - 1 PROVE y[j] < y[j + 1]
        <3>1. j \in k .. e /\ j + 1 \in k .. e
            OBVIOUS
        <3>2. x[j] > x[j + 1] /\ x[j] \in Int /\ x[j + 1] \in Int
            BY <1>5, <1>10, <3>1
        <3>3. QED
            BY <1>6, <3>1, <3>2
    <2>2. r = e \/ Distance(-pos, 2 * y[r + 1]) >= Distance(-pos, 2 * y[r])
        BY <1>4, <1>7, <1>8
    <2>3. ASSUME NEW j \in k .. e,
                 j = e \/ Distance(-pos, 2 * y[j + 1]) >= Distance(-pos, 2 * y[j])
          PROVE  r <= j
        BY <1>4, <1>7, <1>8, <2>3
    <2>4. -pos \in Int
        OBVIOUS
    <2>5. \A j \in k .. e : Distance(-pos, 2 * y[r]) <= Distance(-pos, 2 * y[j])
        BY <1>4, <1>6, <2>1, <2>2, <2>3, <2>4, FirstTurnIsNearest
    <2>6. QED
        BY <1>4, <1>7, <2>5 DEF r, away
<1>11. QED
    BY <1>9, <1>10

-----------------------------------------------------------------------------
(* The edges of a spiral, which spiralStats goes along.                    *)

Right == <<1, 0>>
Down  == <<0, -1>>
Left  == <<-1, 0>>
Up    == <<0, 1>>
Ways  == {Right, Down, Left, Up}
Edges == Int \X Ways

\* The edges of ring r, and how many they are.
RingEdges(nx, ny, r) ==
    LET w == nx - 2 * r  h == ny - 2 * r
    IN  IF w = 1 THEN << <<h - 1, <<0, -1>>>> >>
        ELSE IF h = 1 THEN << <<w - 1, <<1, 0>>>> >>
        ELSE << <<w - 1, <<1, 0>>>>, <<h - 1, <<0, -1>>>>,
                <<w - 1, <<-1, 0>>>>, <<h - 2, <<0, 1>>>> >>

EdgeCount(nx, ny, r) == IF nx - 2 * r = 1 \/ ny - 2 * r = 1 THEN 1 ELSE 4

\* The edges of the first r rings, for all r.
EdgesUpto(nx, ny, n) ==
    LET upto[r \in 1 .. n] ==
            IF r = 1 THEN RingEdges(nx, ny, 0)
            ELSE upto[r - 1] \o << <<1, <<1, 0>>>> >> \o RingEdges(nx, ny, r - 1)
    IN  upto

IsEdgesUpto(f, nx, ny, n) ==
    f = [r \in 1 .. n |->
            IF r = 1 THEN RingEdges(nx, ny, 0)
            ELSE f[r - 1] \o << <<1, <<1, 0>>>> >> \o RingEdges(nx, ny, r - 1)]

\* The recursion over rings has a solution.
LEMMA EdgesUptoExist ==
    ASSUME NEW nx, NEW ny, NEW n \in Nat
    PROVE  IsEdgesUpto(EdgesUpto(nx, ny, n), nx, ny, n)
<1> DEFINE T == {m \in Nat : \E f : IsEdgesUpto(f, nx, ny, m)}
           new(s, r) == IF r = 1 THEN RingEdges(nx, ny, 0)
                        ELSE s \o << <<1, <<1, 0>>>> >> \o RingEdges(nx, ny, r - 1)
<1>1. 0 \in T
    <2> DEFINE f == [r \in 1 .. 0 |-> <<>>]
               g == [r \in 1 .. 0 |-> new(f[r - 1], r)]
    <2>1. f = g
        OBVIOUS
    <2>2. IsEdgesUpto(f, nx, ny, 0)
        BY <2>1 DEF IsEdgesUpto
    <2>3. QED
        BY <2>2
<1>2. ASSUME NEW m \in Nat, m \in T PROVE m + 1 \in T
    <2>1. PICK f : IsEdgesUpto(f, nx, ny, m)
        BY <1>2
    <2> DEFINE g == [r \in 1 .. m + 1 |-> IF r = m + 1 THEN new(f[m], m + 1) ELSE f[r]]
               h == [r \in 1 .. m + 1 |-> new(g[r - 1], r)]
    <2>2. f = [r \in 1 .. m |-> new(f[r - 1], r)]
        BY <2>1 DEF IsEdgesUpto
    <2>3. ASSUME NEW r \in 1 .. m + 1 PROVE g[r] = h[r]
        <3>1. h[r] = new(g[r - 1], r)
            OBVIOUS
        <3>2. \A s, u : new(s, 1) = new(u, 1)
            OBVIOUS
        <3>3. r = m + 1 => g[r] = new(f[m], r)
            OBVIOUS
        <3>4. r # m + 1 => r \in 1 .. m /\ g[r] = f[r]
            OBVIOUS
        <3>5. r # 1 => r - 1 \in 1 .. m + 1 /\ r - 1 # m + 1 /\ g[r - 1] = f[r - 1]
            OBVIOUS
        <3>6. r = m + 1 => r - 1 = m
            OBVIOUS
        <3>7. r \in 1 .. m => f[r] = new(f[r - 1], r)
            BY <2>2
        <3> HIDE DEF new, g, h
        <3>8. QED
            BY <3>1, <3>2, <3>3, <3>4, <3>5, <3>6, <3>7
    <2>4. g = h
        BY <2>3
    <2>5. IsEdgesUpto(g, nx, ny, m + 1)
        BY <2>4 DEF IsEdgesUpto
    <2>6. QED
        BY <2>5
<1>3. Nat \subseteq T
    <2> HIDE DEF T
    <2> QED
        BY <1>1, <1>2, AllNumbers
<1>4. \E f : IsEdgesUpto(f, nx, ny, n)
    BY <1>3
<1>5. QED
    BY <1>4 DEF EdgesUpto, IsEdgesUpto

\* The edges spiralStats goes along are those of all rings.
LEMMA SpiralEdgesAre ==
    ASSUME NEW p
    PROVE  SpiralEdges(p.nx, p.ny) = EdgesUpto(p.nx, p.ny, Rings(p))[Rings(p)]
BY DEF SpiralEdges, EdgesUpto, RingEdges, Rings

\* Where the edges of ring r are among those of a spiral: four of each ring and
\* one step from each to the next.
HasRing(p, E, r) ==
    LET w == Wide(p, r)
        h == High(p, r)
    IN  /\ r > 0 => E[5 * r] = <<1, Right>>
        /\ w = 1 => E[5 * r + 1] = <<h - 1, Down>>
        /\ w > 1 /\ h = 1 => E[5 * r + 1] = <<w - 1, Right>>
        /\ w > 1 /\ h > 1 => /\ E[5 * r + 1] = <<w - 1, Right>>
                             /\ E[5 * r + 2] = <<h - 1, Down>>
                             /\ E[5 * r + 3] = <<w - 1, Left>>
                             /\ E[5 * r + 4] = <<h - 2, Up>>

\* The edges of the rings up to ring r.
HasRings(p, E, r) ==
    /\ E \in Seq(Edges)
    /\ Len(E) = 5 * r + EdgeCount(p.nx, p.ny, r)
    /\ \A t \in 0 .. r : HasRing(p, E, t)

\* The edges of a ring of each shape.
LEMMA RingEdgesAre ==
    ASSUME NEW p, IsParams(p), NEW r \in Nat, Wide(p, r) > 0, High(p, r) > 0
    PROVE  LET a == RingEdges(p.nx, p.ny, r)
               w == Wide(p, r)
               h == High(p, r)
           IN  /\ a \in Seq(Edges)
               /\ Len(a) = EdgeCount(p.nx, p.ny, r)
               /\ w = 1 => a[1] = <<h - 1, Down>>
               /\ w > 1 /\ h = 1 => a[1] = <<w - 1, Right>>
               /\ w > 1 /\ h > 1 => /\ a[1] = <<w - 1, Right>>
                                    /\ a[2] = <<h - 1, Down>>
                                    /\ a[3] = <<w - 1, Left>>
                                    /\ a[4] = <<h - 2, Up>>
<1> DEFINE a == RingEdges(p.nx, p.ny, r)
           w == Wide(p, r)
           h == High(p, r)
<1>1. w \in Int /\ h \in Int /\ w > 0 /\ h > 0
    BY DEF IsParams, Wide, High
<1>2. /\ <<h - 1, Down>> \in Edges /\ <<w - 1, Right>> \in Edges
      /\ <<w - 1, Left>> \in Edges /\ <<h - 2, Up>> \in Edges
    <2>1. h - 1 \in Int /\ w - 1 \in Int /\ h - 2 \in Int
        BY <1>1
    <2>2. Down \in Ways /\ Right \in Ways /\ Left \in Ways /\ Up \in Ways
        BY DEF Ways
    <2>3. QED
        BY <2>1, <2>2, Zenon DEF Edges
<1>3. a = IF w = 1 THEN << <<h - 1, Down>> >>
          ELSE IF h = 1 THEN << <<w - 1, Right>> >>
          ELSE << <<w - 1, Right>>, <<h - 1, Down>>, <<w - 1, Left>>, <<h - 2, Up>> >>
    BY DEF RingEdges, Wide, High, Down, Right, Left, Up
<1>4. EdgeCount(p.nx, p.ny, r) = IF w = 1 \/ h = 1 THEN 1 ELSE 4
    BY DEF EdgeCount, Wide, High
<1> HIDE DEF a, w, h
<1>5. CASE w = 1
    <2>1. a = << <<h - 1, Down>> >>
        BY <1>3, <1>5
    <2>2. a \in Seq(Edges) /\ Len(a) = 1 /\ a[1] = <<h - 1, Down>>
        BY <1>2, <2>1
    <2>3. QED
        BY <1>4, <1>5, <2>2 DEF a, w, h
<1>6. CASE w > 1 /\ h = 1
    <2>1. a = << <<w - 1, Right>> >>
        BY <1>1, <1>3, <1>6
    <2>2. a \in Seq(Edges) /\ Len(a) = 1 /\ a[1] = <<w - 1, Right>>
        BY <1>2, <2>1
    <2>3. QED
        BY <1>1, <1>4, <1>6, <2>2 DEF a, w, h
<1>7. CASE w > 1 /\ h > 1
    <2>1. a = << <<w - 1, Right>>, <<h - 1, Down>>, <<w - 1, Left>>, <<h - 2, Up>> >>
        BY <1>1, <1>3, <1>7
    <2>2. /\ a \in Seq(Edges) /\ Len(a) = 4
          /\ a[1] = <<w - 1, Right>> /\ a[2] = <<h - 1, Down>>
          /\ a[3] = <<w - 1, Left>> /\ a[4] = <<h - 2, Up>>
        BY <1>2, <2>1
    <2>3. QED
        BY <1>1, <1>4, <1>7, <2>2 DEF a, w, h
<1>8. QED
    BY <1>1, <1>5, <1>6, <1>7

\* The edges of one ring more.
LEMMA OneMoreRingOfEdges ==
    ASSUME NEW p, IsParams(p), NEW r \in Nat, Wide(p, r + 1) > 0, High(p, r + 1) > 0,
           NEW E, HasRings(p, E, r)
    PROVE  HasRings(p, E \o << <<1, Right>> >> \o RingEdges(p.nx, p.ny, r + 1), r + 1)
<1> DEFINE c == << <<1, Right>> >>
           a == RingEdges(p.nx, p.ny, r + 1)
           F == E \o c
           G == F \o a
           q == r + 1
           w == Wide(p, q)
           h == High(p, q)
           m == EdgeCount(p.nx, p.ny, q)
<1>1. /\ Wide(p, r) > 2 /\ High(p, r) > 2 /\ q \in Nat
      /\ w \in Int /\ h \in Int /\ w > 0 /\ h > 0
    BY DEF IsParams, Wide, High
<1>2. E \in Seq(Edges) /\ Len(E) = 5 * r + 4
    BY <1>1 DEF HasRings, EdgeCount, Wide, High
<1>3. c \in Seq(Edges) /\ Len(c) = 1 /\ c[1] = <<1, Right>>
    BY DEF Edges, Ways
<1> HIDE DEF c
<1>4. /\ F \in Seq(Edges) /\ Len(F) = 5 * r + 5
      /\ \A i \in 1 .. 5 * r + 4 : F[i] = E[i]
      /\ F[5 * r + 5] = <<1, Right>>
    <2>1. /\ F \in Seq(Edges) /\ Len(F) = Len(E) + Len(c)
          /\ \A i \in 1 .. Len(E) + Len(c) : F[i] = IF i <= Len(E) THEN E[i] ELSE c[i - Len(E)]
        BY <1>2, <1>3, ConcatProperties
    <2> HIDE DEF F
    <2>2. ASSUME NEW i \in 1 .. 5 * r + 4 PROVE F[i] = E[i]
        <3>1. i \in 1 .. Len(E) + Len(c) /\ i <= Len(E)
            BY <1>2, <1>3
        <3>2. QED
            BY <2>1, <3>1
    <2>3. F[5 * r + 5] = c[1]
        <3>1. /\ 5 * r + 5 \in 1 .. Len(E) + Len(c) /\ ~(5 * r + 5 <= Len(E))
              /\ 5 * r + 5 - Len(E) = 1
            BY <1>2, <1>3
        <3>2. QED
            BY <2>1, <3>1
    <2>4. QED
        BY <1>2, <1>3, <2>1, <2>2, <2>3
<1> HIDE DEF F
<1>5. /\ a \in Seq(Edges) /\ Len(a) = m /\ m \in 1 .. 4
      /\ w = 1 => a[1] = <<h - 1, Down>>
      /\ w > 1 /\ h = 1 => a[1] = <<w - 1, Right>>
      /\ w > 1 /\ h > 1 => /\ m = 4
                           /\ a[1] = <<w - 1, Right>> /\ a[2] = <<h - 1, Down>>
                           /\ a[3] = <<w - 1, Left>> /\ a[4] = <<h - 2, Up>>
    <2>1. m \in 1 .. 4 /\ (w > 1 /\ h > 1 => m = 4)
        BY DEF EdgeCount, Wide, High
    <2>2. QED
        BY <1>1, <2>1, RingEdgesAre
<1> HIDE DEF a, w, h, m
<1>6. /\ G \in Seq(Edges) /\ Len(G) = 5 * r + 5 + m
      /\ \A i \in 1 .. 5 * r + 5 : G[i] = F[i]
      /\ \A j \in 1 .. m : G[5 * r + 5 + j] = a[j]
    <2>1. /\ G \in Seq(Edges) /\ Len(G) = Len(F) + Len(a)
          /\ \A i \in 1 .. Len(F) + Len(a) : G[i] = IF i <= Len(F) THEN F[i] ELSE a[i - Len(F)]
        BY <1>4, <1>5, ConcatProperties
    <2> HIDE DEF G
    <2>2. ASSUME NEW i \in 1 .. 5 * r + 5 PROVE G[i] = F[i]
        <3>1. i \in 1 .. Len(F) + Len(a) /\ i <= Len(F)
            BY <1>4, <1>5
        <3>2. QED
            BY <2>1, <3>1
    <2>3. ASSUME NEW j \in 1 .. m PROVE G[5 * r + 5 + j] = a[j]
        <3>1. /\ 5 * r + 5 + j \in 1 .. Len(F) + Len(a) /\ ~(5 * r + 5 + j <= Len(F))
              /\ 5 * r + 5 + j - Len(F) = j
            BY <1>4, <1>5
        <3>2. QED
            BY <2>1, <3>1
    <2>4. QED
        BY <1>4, <1>5, <2>1, <2>2, <2>3
<1> HIDE DEF G
<1>7. HasRing(p, G, q)
    <2>1. 5 * q = 5 * r + 5
        OBVIOUS
    <2>2. 5 * q \in 1 .. 5 * r + 5 /\ G[5 * q] = <<1, Right>>
        BY <1>4, <1>6, <2>1
    <2>3. G[5 * q + 1] = a[1]
        BY <1>5, <1>6, <2>1
    <2>4. m = 4 => G[5 * q + 2] = a[2] /\ G[5 * q + 3] = a[3] /\ G[5 * q + 4] = a[4]
        BY <1>6, <2>1
    <2> HIDE DEF q
    <2>5. QED
        BY <1>5, <2>2, <2>3, <2>4 DEF HasRing, w, h
<1>8. ASSUME NEW t \in 0 .. r PROVE HasRing(p, G, t)
    <2>1. HasRing(p, E, t)
        BY DEF HasRings
    <2>2. /\ t > 0 => 5 * t \in 1 .. 5 * r + 4 /\ 5 * t \in 1 .. 5 * r + 5
          /\ 5 * t + 1 \in 1 .. 5 * r + 4 /\ 5 * t + 1 \in 1 .. 5 * r + 5
          /\ 5 * t + 2 \in 1 .. 5 * r + 4 /\ 5 * t + 2 \in 1 .. 5 * r + 5
          /\ 5 * t + 3 \in 1 .. 5 * r + 4 /\ 5 * t + 3 \in 1 .. 5 * r + 5
          /\ 5 * t + 4 \in 1 .. 5 * r + 4 /\ 5 * t + 4 \in 1 .. 5 * r + 5
        OBVIOUS
    <2>3. /\ t > 0 => G[5 * t] = E[5 * t]
          /\ G[5 * t + 1] = E[5 * t + 1] /\ G[5 * t + 2] = E[5 * t + 2]
          /\ G[5 * t + 3] = E[5 * t + 3] /\ G[5 * t + 4] = E[5 * t + 4]
        BY <1>4, <1>6, <2>2
    <2>4. QED
        BY <2>1, <2>3 DEF HasRing
<1>9. ASSUME NEW t \in 0 .. q PROVE HasRing(p, G, t)
    <2>1. t \in 0 .. r \/ t = q
        OBVIOUS
    <2>2. QED
        BY <1>7, <1>8, <2>1
<1>10. Len(G) = 5 * q + EdgeCount(p.nx, p.ny, q)
    BY <1>5, <1>6 DEF m
<1>11. HasRings(p, G, q)
    BY <1>6, <1>9, <1>10 DEF HasRings
<1>12. QED
    BY <1>11 DEF G, F, c, a

\* The edges spiralStats counts are those of all rings of the spiral.
LEMMA EdgesOfRings ==
    ASSUME NEW p, IsParams(p), ~ParamsError(p)
    PROVE  /\ Rings(p) \in Nat \ {0}
           /\ HasRings(p, SpiralEdges(p.nx, p.ny), Rings(p) - 1)
<1> DEFINE n == Rings(p)
           f == EdgesUpto(p.nx, p.ny, n)
           T == {r \in Nat : r < n => HasRings(p, f[r + 1], r)}
<1>1. n \in Nat /\ p.nx > 2 * (n - 1) /\ p.ny > 2 * (n - 1)
    BY RingsCount
<1>2. p.nx \in Nat /\ p.ny \in Nat /\ n # 0
    BY RingsCount DEF IsParams, ParamsError
<1> HIDE DEF n
<1>3. IsEdgesUpto(f, p.nx, p.ny, n)
    BY <1>1, EdgesUptoExist
<1> HIDE DEF f
<1>4. ASSUME NEW r \in Nat, r < n PROVE Wide(p, r) > 0 /\ High(p, r) > 0
    BY <1>1, <1>2, <1>4 DEF Wide, High
<1>5. 0 \in T
    <2>1. f[0 + 1] = RingEdges(p.nx, p.ny, 0)
        <3>1. 1 \in 1 .. n /\ 0 + 1 = 1
            BY <1>1, <1>2
        <3>2. QED
            BY <1>3, <3>1 DEF IsEdgesUpto
    <2> DEFINE a == RingEdges(p.nx, p.ny, 0)
    <2>2. Wide(p, 0) > 0 /\ High(p, 0) > 0
        BY <1>1, <1>2, <1>4
    <2>3. /\ a \in Seq(Edges) /\ Len(a) = EdgeCount(p.nx, p.ny, 0)
          /\ Wide(p, 0) = 1 => a[1] = <<High(p, 0) - 1, Down>>
          /\ Wide(p, 0) > 1 /\ High(p, 0) = 1 => a[1] = <<Wide(p, 0) - 1, Right>>
          /\ Wide(p, 0) > 1 /\ High(p, 0) > 1 =>
                /\ a[1] = <<Wide(p, 0) - 1, Right>> /\ a[2] = <<High(p, 0) - 1, Down>>
                /\ a[3] = <<Wide(p, 0) - 1, Left>> /\ a[4] = <<High(p, 0) - 2, Up>>
        BY <2>2, RingEdgesAre
    <2> HIDE DEF a
    <2>4. HasRing(p, a, 0)
        <3>1. 5 * 0 + 1 = 1 /\ 5 * 0 + 2 = 2 /\ 5 * 0 + 3 = 3 /\ 5 * 0 + 4 = 4 /\ ~(0 > 0)
            OBVIOUS
        <3>2. QED
            BY <2>3, <3>1 DEF HasRing
    <2>5. EdgeCount(p.nx, p.ny, 0) \in Int
        BY DEF EdgeCount
    <2>6. HasRings(p, a, 0)
        <3>1. \A t \in 0 .. 0 : t = 0
            OBVIOUS
        <3>2. QED
            BY <2>3, <2>4, <2>5, <3>1 DEF HasRings
    <2>7. QED
        BY <2>1, <2>6 DEF a
<1>6. ASSUME NEW r \in Nat, r \in T PROVE r + 1 \in T
    <2>1. SUFFICES ASSUME r + 1 < n PROVE HasRings(p, f[(r + 1) + 1], r + 1)
        OBVIOUS
    <2>2. HasRings(p, f[r + 1], r)
        BY <1>1, <1>6, <2>1
    <2>3. Wide(p, r + 1) > 0 /\ High(p, r + 1) > 0
        BY <1>4, <2>1
    <2>4. f[(r + 1) + 1] = f[r + 1] \o << <<1, Right>> >> \o RingEdges(p.nx, p.ny, r + 1)
        <3>1. (r + 1) + 1 \in 1 .. n /\ (r + 1) + 1 # 1 /\ ((r + 1) + 1) - 1 = r + 1
            BY <1>1, <2>1
        <3>2. f[(r + 1) + 1] = f[((r + 1) + 1) - 1] \o << <<1, <<1, 0>>>> >>
                                  \o RingEdges(p.nx, p.ny, ((r + 1) + 1) - 1)
            BY <1>3, <3>1 DEF IsEdgesUpto
        <3>3. QED
            BY <3>1, <3>2 DEF Right
    <2>5. QED
        BY <2>2, <2>3, <2>4, OneMoreRingOfEdges
<1>7. n - 1 \in T
    <2> HIDE DEF T
    <2>1. n - 1 \in Nat
        BY <1>1, <1>2
    <2>2. QED
        BY <1>5, <1>6, <2>1, AllNumbers
<1>8. n - 1 < n /\ (n - 1) + 1 = n
    BY <1>1
<1>9. HasRings(p, f[n], n - 1)
    BY <1>7, <1>8
<1>10. QED
    BY <1>1, <1>2, <1>9, SpiralEdgesAre DEF f, n

-----------------------------------------------------------------------------
(* The headings along a spiral.                                            *)

\* The steps along a ring go the way of its edges.
LEMMA RingHeadings ==
    ASSUME NEW p, IsParams(p), NEW r \in Nat, Wide(p, r) > 0, High(p, r) > 0
    PROVE  LET w == Wide(p, r)
               h == High(p, r)
               a == Ring(p, r)
           IN  /\ w = 1 => /\ Len(a) = h
                           /\ \A k \in 1 .. h - 1 : Heading(a[k], a[k + 1]) = Down
               /\ w > 1 /\ h = 1 => /\ Len(a) = w
                                    /\ \A k \in 1 .. w - 1 : Heading(a[k], a[k + 1]) = Right
               /\ w > 1 /\ h > 1 =>
                     /\ Len(a) = 2 * w + 2 * h - 4
                     /\ \A k \in 1 .. w - 1 : Heading(a[k], a[k + 1]) = Right
                     /\ \A k \in w .. w + h - 2 : Heading(a[k], a[k + 1]) = Down
                     /\ \A k \in w + h - 1 .. 2 * w + h - 3 : Heading(a[k], a[k + 1]) = Left
                     /\ \A k \in 2 * w + h - 2 .. 2 * w + 2 * h - 5 : Heading(a[k], a[k + 1]) = Up
<1> DEFINE w == Wide(p, r)
           h == High(p, r)
           a == Ring(p, r)
<1>1. w \in Nat /\ h \in Nat /\ w > 0 /\ h > 0 /\ p.nx = w + 2 * r /\ p.ny = h + 2 * r
    BY DEF IsParams, Wide, High
<1>2. ASSUME w = 1
      PROVE  Len(a) = h /\ \A k \in 1 .. h - 1 : Heading(a[k], a[k + 1]) = Down
    <2>1. a = [k \in 1 .. h |-> <<r + 0 * (k - 1), (p.ny - 1 - r) + (-1) * (k - 1)>>]
        BY <1>2 DEF Ring, Wide, High, Line
    <2> HIDE DEF w, h, a
    <2>2. a \in [1 .. h -> Points] /\ \A k \in 1 .. h : a[k] = <<r, h + r - k>>
        BY <1>1, <2>1 DEF Points
    <2>3. Len(a) = h
        BY <1>1, <2>2, SequenceOfPoints
    <2>4. ASSUME NEW k \in 1 .. h - 1 PROVE Heading(a[k], a[k + 1]) = Down
        <3>1. k \in 1 .. h /\ k + 1 \in 1 .. h
            BY <1>1
        <3>2. a[k] = <<r, h + r - k>> /\ a[k + 1] = <<r, h + r - (k + 1)>>
            BY <2>2, <3>1
        <3>3. QED
            BY <1>1, <3>1, <3>2 DEF Heading, Down
    <2>5. QED
        BY <2>3, <2>4
<1>3. ASSUME w > 1, h = 1
      PROVE  Len(a) = w /\ \A k \in 1 .. w - 1 : Heading(a[k], a[k + 1]) = Right
    <2>1. a = [k \in 1 .. w |-> <<r + 1 * (k - 1), (p.ny - 1 - r) + 0 * (k - 1)>>]
        BY <1>3 DEF Ring, Wide, High, Line
    <2> HIDE DEF w, h, a
    <2>2. a \in [1 .. w -> Points] /\ \A k \in 1 .. w : a[k] = <<r + k - 1, r>>
        BY <1>1, <1>3, <2>1 DEF Points
    <2>3. Len(a) = w
        BY <1>1, <2>2, SequenceOfPoints
    <2>4. ASSUME NEW k \in 1 .. w - 1 PROVE Heading(a[k], a[k + 1]) = Right
        <3>1. k \in 1 .. w /\ k + 1 \in 1 .. w
            BY <1>1
        <3>2. a[k] = <<r + k - 1, r>> /\ a[k + 1] = <<r + (k + 1) - 1, r>>
            BY <2>2, <3>1
        <3>3. QED
            BY <1>1, <3>1, <3>2 DEF Heading, Right
    <2>5. QED
        BY <2>3, <2>4
<1>4. ASSUME w > 1, h > 1
      PROVE  /\ Len(a) = 2 * w + 2 * h - 4
             /\ \A k \in 1 .. w - 1 : Heading(a[k], a[k + 1]) = Right
             /\ \A k \in w .. w + h - 2 : Heading(a[k], a[k + 1]) = Down
             /\ \A k \in w + h - 1 .. 2 * w + h - 3 : Heading(a[k], a[k + 1]) = Left
             /\ \A k \in 2 * w + h - 2 .. 2 * w + 2 * h - 5 : Heading(a[k], a[k + 1]) = Up
    <2>1. /\ Len(a) = 2 * w + 2 * h - 4
          /\ \A k \in 1 .. w : a[k] = <<r + k - 1, r + h - 1>>
          /\ \A k \in w + 1 .. w + h - 1 : a[k] = <<r + w - 1, r + h - 1 - (k - w)>>
          /\ \A k \in w + h .. 2 * w + h - 2 : a[k] = <<r + w - 1 - (k - w - h + 1), r>>
          /\ \A k \in 2 * w + h - 1 .. 2 * w + 2 * h - 4 : a[k] = <<r, r + (k - 2 * w - h + 2)>>
        BY <1>4, FullRing DEF Wide, High
    <2> HIDE DEF w, h, a
    <2>2. ASSUME NEW k \in 1 .. w - 1 PROVE Heading(a[k], a[k + 1]) = Right
        <3>1. k \in 1 .. w /\ k + 1 \in 1 .. w
            BY <1>1
        <3>2. a[k] = <<r + k - 1, r + h - 1>> /\ a[k + 1] = <<r + (k + 1) - 1, r + h - 1>>
            BY <2>1, <3>1
        <3>3. QED
            BY <1>1, <3>1, <3>2 DEF Heading, Right
    <2>3. ASSUME NEW k \in w .. w + h - 2 PROVE Heading(a[k], a[k + 1]) = Down
        <3>1. a[k] = <<r + w - 1, r + h - 1 - (k - w)>>
            <4>1. CASE k = w
                BY <1>1, <2>1, <4>1
            <4>2. CASE k # w
                <5>1. k \in w + 1 .. w + h - 1
                    BY <1>1, <4>2
                <5>2. QED
                    BY <2>1, <5>1
            <4>3. QED
                BY <4>1, <4>2
        <3>2. k + 1 \in w + 1 .. w + h - 1
            BY <1>1
        <3>3. a[k + 1] = <<r + w - 1, r + h - 1 - ((k + 1) - w)>>
            BY <2>1, <3>2
        <3>4. QED
            BY <1>1, <3>1, <3>3 DEF Heading, Down
    <2>4. ASSUME NEW k \in w + h - 1 .. 2 * w + h - 3 PROVE Heading(a[k], a[k + 1]) = Left
        <3>1. a[k] = <<r + w - 1 - (k - w - h + 1), r>>
            <4>1. CASE k = w + h - 1
                <5>1. k \in w + 1 .. w + h - 1
                    BY <1>1, <1>4, <4>1
                <5>2. a[k] = <<r + w - 1, r + h - 1 - (k - w)>>
                    BY <2>1, <5>1
                <5>3. QED
                    BY <1>1, <4>1, <5>2
            <4>2. CASE k # w + h - 1
                <5>1. k \in w + h .. 2 * w + h - 2
                    BY <1>1, <4>2
                <5>2. QED
                    BY <2>1, <5>1
            <4>3. QED
                BY <4>1, <4>2
        <3>2. k + 1 \in w + h .. 2 * w + h - 2
            BY <1>1
        <3>3. a[k + 1] = <<r + w - 1 - ((k + 1) - w - h + 1), r>>
            BY <2>1, <3>2
        <3>4. QED
            BY <1>1, <3>1, <3>3 DEF Heading, Left
    <2>5. ASSUME NEW k \in 2 * w + h - 2 .. 2 * w + 2 * h - 5 PROVE Heading(a[k], a[k + 1]) = Up
        <3>1. a[k] = <<r, r + (k - 2 * w - h + 2)>>
            <4>1. CASE k = 2 * w + h - 2
                <5>1. k \in w + h .. 2 * w + h - 2
                    BY <1>1, <1>4, <4>1
                <5>2. a[k] = <<r + w - 1 - (k - w - h + 1), r>>
                    BY <2>1, <5>1
                <5>3. QED
                    BY <1>1, <4>1, <5>2
            <4>2. CASE k # 2 * w + h - 2
                <5>1. k \in 2 * w + h - 1 .. 2 * w + 2 * h - 4
                    BY <1>1, <4>2
                <5>2. QED
                    BY <2>1, <5>1
            <4>3. QED
                BY <4>1, <4>2
        <3>2. k + 1 \in 2 * w + h - 1 .. 2 * w + 2 * h - 4
            BY <1>1
        <3>3. a[k + 1] = <<r, r + ((k + 1) - 2 * w - h + 2)>>
            BY <2>1, <3>2
        <3>4. QED
            BY <1>1, <3>1, <3>3 DEF Heading, Up
    <2>6. QED
        BY <2>1, <2>2, <2>3, <2>4, <2>5
<1>5. QED
    BY <1>2, <1>3, <1>4

\* The cells the first r rings have.
Before(p, r) == p.nx * p.ny - Size(p, r)

\* Ring r of a whole spiral comes after the rings before it.
LEMMA RingInSpiral ==
    ASSUME NEW p, IsParams(p), ~ParamsError(p), NEW r \in 0 .. Rings(p) - 1
    PROVE  /\ Wide(p, r) > 0 /\ High(p, r) > 0
           /\ Before(p, r) \in Nat
           /\ Before(p, r + 1) = Before(p, r) + Len(Ring(p, r))
           /\ \A j \in 1 .. Len(Ring(p, r)) :
                 Wound(p, Rings(p))[Rings(p)][Before(p, r) + j] = Ring(p, r)[j]
<1> DEFINE n == Rings(p)
           f == Wound(p, n)
           a == Ring(p, r)
           o == Before(p, r)
<1>1. n \in Nat /\ p.nx > 2 * (n - 1) /\ p.ny > 2 * (n - 1) /\ p.nx \in Nat /\ p.ny \in Nat
    BY RingsCount DEF IsParams
<1>2. IsWound(f, p, n)
    BY <1>1, WoundIsRings
<1>3. \A t \in 0 .. n : IsSpiral(p, t, f[t])
    BY SpiralOfRings
<1>4. Wide(p, r) > 0 /\ High(p, r) > 0
    BY <1>1 DEF Wide, High
<1>5. a \in Seq(Cells(p)) /\ Len(a) \in Nat /\ Len(a) = Size(p, r) - Size(p, r + 1)
    BY <1>1, <1>4, RingIsRim, LenProperties DEF IsRim
<1> HIDE DEF f, a, n
<1>6. ASSUME NEW t \in 0 .. n
      PROVE  f[t] \in Seq(Cells(p)) /\ Len(f[t]) \in Nat /\ Len(f[t]) = Before(p, t)
    BY <1>3, LenProperties DEF IsSpiral, Before
<1>7. r \in 0 .. n /\ r + 1 \in 0 .. n /\ r \in Nat
    BY <1>1 DEF n
<1>8. ASSUME NEW t \in 0 .. n - 1
      PROVE  /\ t \in 0 .. n /\ t + 1 \in 0 .. n
             /\ f[t + 1] = f[t] \o Ring(p, t)
             /\ Ring(p, t) \in Seq(Cells(p))
    <2>1. t \in 0 .. n /\ t + 1 \in 0 .. n /\ t + 1 # 0 /\ (t + 1) - 1 = t
        BY <1>1
    <2>2. f[t + 1] = f[(t + 1) - 1] \o Ring(p, (t + 1) - 1)
        BY <1>2, <2>1 DEF IsWound
    <2>3. Wide(p, t) > 0 /\ High(p, t) > 0 /\ t \in Nat
        BY <1>1 DEF Wide, High
    <2>4. QED
        BY <2>1, <2>2, <2>3, RingIsRim DEF IsRim
<1> DEFINE T == {m \in Nat : r + 1 + m <= n =>
                                \A j \in 1 .. Len(a) : f[r + 1 + m][o + j] = a[j]}
<1>9. o = Len(f[r]) /\ o \in Nat
    BY <1>6, <1>7
<1> HIDE DEF o
<1>10. 0 \in T
    <2>1. r \in 0 .. n - 1 /\ f[r + 1] = f[r] \o a
        <3>1. r \in 0 .. n - 1
            BY <1>1 DEF n
        <3>2. QED
            BY <1>8, <3>1 DEF a
    <2>2. \A i \in 1 .. Len(f[r]) + Len(a) :
             f[r + 1][i] = IF i <= Len(f[r]) THEN f[r][i] ELSE a[i - Len(f[r])]
        BY <1>5, <1>6, <1>7, <2>1, ConcatProperties
    <2>3. ASSUME NEW j \in 1 .. Len(a) PROVE f[r + 1][o + j] = a[j]
        <3> DEFINE x == o + j
        <3>1. x \in 1 .. Len(f[r]) + Len(a) /\ ~(x <= Len(f[r])) /\ x - Len(f[r]) = j
            BY <1>5, <1>9
        <3> HIDE DEF x
        <3>2. f[r + 1][x] = a[j]
            BY <2>2, <3>1
        <3>3. QED
            BY <3>2 DEF x
    <2>4. r + 1 + 0 = r + 1
        BY <1>7
    <2>5. QED
        BY <2>3, <2>4
<1>11. ASSUME NEW m \in Nat, m \in T PROVE m + 1 \in T
    <2>1. SUFFICES ASSUME r + 1 + (m + 1) <= n, NEW j \in 1 .. Len(a)
                   PROVE  f[r + 1 + (m + 1)][o + j] = a[j]
        OBVIOUS
    <2> DEFINE t == r + 1 + m
    <2>2. t \in 0 .. n - 1 /\ t <= n /\ r + 1 + (m + 1) = t + 1 /\ r + 1 \in 0 .. n
        BY <1>1, <1>7, <2>1
    <2>3. f[t][o + j] = a[j]
        BY <1>11, <2>2
    <2> HIDE DEF t
    <2>4. f[t] \in Seq(Cells(p)) /\ Ring(p, t) \in Seq(Cells(p)) /\ f[t + 1] = f[t] \o Ring(p, t)
        BY <1>6, <1>8, <2>2
    <2>5. \A i \in 1 .. Len(f[t]) + Len(Ring(p, t)) :
             f[t + 1][i] = IF i <= Len(f[t]) THEN f[t][i] ELSE Ring(p, t)[i - Len(f[t])]
        BY <2>4, ConcatProperties
    <2>6. Len(Ring(p, t)) \in Nat /\ Len(f[t]) \in Nat
        BY <2>4, LenProperties
    <2>7. o + j <= Len(f[t])
        <3>1. Len(f[r + 1]) = Len(f[r]) + Len(a)
            <4>1. r \in 0 .. n - 1
                BY <1>1 DEF n
            <4>2. f[r + 1] = f[r] \o a
                BY <1>8, <4>1 DEF a
            <4>3. QED
                BY <1>5, <1>6, <1>7, <4>2, ConcatProperties
        <3>2. Size(p, r + 1) >= Size(p, t)
            <4>1. t \in Nat /\ r + 1 \in Nat /\ r + 1 <= t
                BY <1>7, <2>2 DEF t
            <4>2. /\ Wide(p, t) \in Int /\ High(p, t) \in Int
                  /\ Wide(p, r + 1) \in Int /\ High(p, r + 1) \in Int
                  /\ Wide(p, t) <= Wide(p, r + 1) /\ High(p, t) <= High(p, r + 1)
                BY <1>1, <4>1 DEF Wide, High
            <4>3. \A b, c, d, e \in Int : 0 < b /\ b <= c /\ 0 < d /\ d <= e => b * d <= c * e /\ 0 <= c * e
                OBVIOUS
            <4>4. Size(p, r + 1) >= 0
                BY <4>2 DEF Size
            <4>5. QED
                BY <4>2, <4>3, <4>4 DEF Size
        <3>3. Len(f[r + 1]) = Before(p, r + 1) /\ Len(f[t]) = Before(p, t)
            <4>1. t \in 0 .. n
                BY <1>1, <2>2
            <4>2. QED
                BY <1>6, <1>7, <4>1
        <3>4. p.nx * p.ny \in Int /\ Size(p, t) \in Int /\ Size(p, r + 1) \in Int
            <4>1. \A i \in Nat : Size(p, i) \in Int
                BY <1>1 DEF Size, Wide, High
            <4>2. t \in Nat /\ r + 1 \in Nat
                BY <1>1, <1>7, <2>2
            <4>3. QED
                BY <1>1, <4>1, <4>2
        <3>5. QED
            BY <1>5, <1>9, <3>1, <3>2, <3>3, <3>4 DEF Before
    <2>8. o + j \in 1 .. Len(f[t]) + Len(Ring(p, t))
        BY <1>5, <1>9, <2>6, <2>7
    <2>9. f[t + 1][o + j] = f[t][o + j]
        BY <2>5, <2>7, <2>8
    <2>10. QED
        BY <2>2, <2>3, <2>9
<1>12. n - (r + 1) \in T
    <2> HIDE DEF T
    <2>1. n - (r + 1) \in Nat
        BY <1>1, <1>7
    <2>2. QED
        BY <1>10, <1>11, <2>1, AllNumbers
<1>13. r + 1 + (n - (r + 1)) = n
    BY <1>1, <1>7
<1>14. \A j \in 1 .. Len(a) : f[n][o + j] = a[j]
    BY <1>1, <1>12, <1>13
<1>15. Before(p, r + 1) = o + Len(a)
    <2>1. Before(p, r + 1) = p.nx * p.ny - Size(p, r + 1) /\ o = p.nx * p.ny - Size(p, r)
        BY DEF Before, o
    <2>2. \A i \in Nat : Size(p, i) \in Int
        BY <1>1 DEF Size, Wide, High
    <2>3. p.nx * p.ny \in Int /\ Size(p, r) \in Int /\ Size(p, r + 1) \in Int
        BY <1>1, <1>7, <2>2
    <2>4. QED
        BY <1>5, <2>1, <2>3
<1>16. QED
    BY <1>4, <1>9, <1>14, <1>15 DEF o, f, a, n

-----------------------------------------------------------------------------
(* Counting legs edge by edge.                                             *)

None == <<0, 0>>

\* The count s after an edge of n steps the way d.
Turn(s, n, d) ==
    IF n <= 0 THEN s
    ELSE IF s.dir = None \/ s.dir = d THEN [s EXCEPT !.dir = d]
    ELSE [legs |-> s.legs + 1, dir |-> IF n = 1 THEN None ELSE d]

\* The counts after each edge of E, and the steps.
LegCounts(E) ==
    LET stat[i \in 0 .. Len(E)] ==
            IF i = 0 THEN [legs |-> 1, dir |-> None]
            ELSE Turn(stat[i - 1], E[i][1], E[i][2])
    IN  stat

StepCounts(E) ==
    LET steps[i \in 0 .. Len(E)] ==
            IF i = 0 THEN 0
            ELSE steps[i - 1] + (IF E[i][1] > 0 THEN E[i][1] ELSE 0)
    IN  steps

IsLegCounts(f, E, n) ==
    f = [i \in 0 .. n |->
            IF i = 0 THEN [legs |-> 1, dir |-> None]
            ELSE Turn(f[i - 1], E[i][1], E[i][2])]

IsStepCounts(f, E, n) ==
    f = [i \in 0 .. n |->
            IF i = 0 THEN 0
            ELSE f[i - 1] + (IF E[i][1] > 0 THEN E[i][1] ELSE 0)]

\* The result of spiralStats is the last of the counts.
LEMMA StatsAreCounts ==
    ASSUME NEW p
    PROVE  LET E == SpiralEdges(p.nx, p.ny)
           IN  SpiralStats(p.nx, p.ny) =
                  [legs |-> LegCounts(E)[Len(E)].legs, steps |-> StepCounts(E)[Len(E)]]
BY DEF SpiralStats, LegCounts, StepCounts, Turn, None

\* The recursion over edges has a solution for the legs ...
LEMMA LegCountsExist ==
    ASSUME NEW E, Len(E) \in Nat
    PROVE  IsLegCounts(LegCounts(E), E, Len(E))
<1> DEFINE T == {m \in Nat : \E f : IsLegCounts(f, E, m)}
           new(s, i) == IF i = 0 THEN [legs |-> 1, dir |-> None]
                        ELSE Turn(s, E[i][1], E[i][2])
<1>1. 0 \in T
    <2> DEFINE f == [i \in 0 .. 0 |-> [legs |-> 1, dir |-> None]]
               g == [i \in 0 .. 0 |-> new(f[i - 1], i)]
    <2>1. f = g
        <3>1. ASSUME NEW i \in 0 .. 0 PROVE f[i] = g[i]
            <4>1. i = 0
                OBVIOUS
            <4>2. QED
                BY <4>1
        <3>2. QED
            BY <3>1
    <2>2. IsLegCounts(f, E, 0)
        BY <2>1 DEF IsLegCounts
    <2>3. QED
        BY <2>2
<1>2. ASSUME NEW m \in Nat, m \in T PROVE m + 1 \in T
    <2>1. PICK f : IsLegCounts(f, E, m)
        BY <1>2
    <2> DEFINE g == [i \in 0 .. m + 1 |-> IF i = m + 1 THEN new(f[m], m + 1) ELSE f[i]]
               h == [i \in 0 .. m + 1 |-> new(g[i - 1], i)]
    <2>2. f = [i \in 0 .. m |-> new(f[i - 1], i)]
        BY <2>1 DEF IsLegCounts
    <2>3. ASSUME NEW i \in 0 .. m + 1 PROVE g[i] = h[i]
        <3>1. h[i] = new(g[i - 1], i)
            OBVIOUS
        <3>2. \A s, u : new(s, 0) = new(u, 0)
            OBVIOUS
        <3>3. i = m + 1 => g[i] = new(f[m], i)
            OBVIOUS
        <3>4. i # m + 1 => i \in 0 .. m /\ g[i] = f[i]
            OBVIOUS
        <3>5. i # 0 => i - 1 \in 0 .. m + 1 /\ i - 1 # m + 1 /\ g[i - 1] = f[i - 1]
            OBVIOUS
        <3>6. i = m + 1 => i - 1 = m /\ i # 0
            OBVIOUS
        <3>7. i \in 0 .. m => f[i] = new(f[i - 1], i)
            BY <2>2
        <3> HIDE DEF new, g, h
        <3>8. QED
            BY <3>1, <3>2, <3>3, <3>4, <3>5, <3>6, <3>7
    <2>4. g = h
        BY <2>3
    <2>5. IsLegCounts(g, E, m + 1)
        BY <2>4 DEF IsLegCounts
    <2>6. QED
        BY <2>5
<1>3. Nat \subseteq T
    <2> HIDE DEF T
    <2> QED
        BY <1>1, <1>2, AllNumbers
<1>4. \E f : IsLegCounts(f, E, Len(E))
    BY <1>3
<1>5. QED
    BY <1>4 DEF LegCounts, IsLegCounts

\* ... and for the steps.
LEMMA StepCountsExist ==
    ASSUME NEW E, Len(E) \in Nat
    PROVE  IsStepCounts(StepCounts(E), E, Len(E))
<1> DEFINE T == {m \in Nat : \E f : IsStepCounts(f, E, m)}
           new(s, i) == IF i = 0 THEN 0 ELSE s + (IF E[i][1] > 0 THEN E[i][1] ELSE 0)
<1>1. 0 \in T
    <2> DEFINE f == [i \in 0 .. 0 |-> 0]
               g == [i \in 0 .. 0 |-> new(f[i - 1], i)]
    <2>1. f = g
        <3>1. ASSUME NEW i \in 0 .. 0 PROVE f[i] = g[i]
            <4>1. i = 0
                OBVIOUS
            <4>2. QED
                BY <4>1
        <3>2. QED
            BY <3>1
    <2>2. IsStepCounts(f, E, 0)
        BY <2>1 DEF IsStepCounts
    <2>3. QED
        BY <2>2
<1>2. ASSUME NEW m \in Nat, m \in T PROVE m + 1 \in T
    <2>1. PICK f : IsStepCounts(f, E, m)
        BY <1>2
    <2> DEFINE g == [i \in 0 .. m + 1 |-> IF i = m + 1 THEN new(f[m], m + 1) ELSE f[i]]
               h == [i \in 0 .. m + 1 |-> new(g[i - 1], i)]
    <2>2. f = [i \in 0 .. m |-> new(f[i - 1], i)]
        BY <2>1 DEF IsStepCounts
    <2>3. ASSUME NEW i \in 0 .. m + 1 PROVE g[i] = h[i]
        <3>1. h[i] = new(g[i - 1], i)
            OBVIOUS
        <3>2. \A s, u : new(s, 0) = new(u, 0)
            OBVIOUS
        <3>3. i = m + 1 => g[i] = new(f[m], i)
            OBVIOUS
        <3>4. i # m + 1 => i \in 0 .. m /\ g[i] = f[i]
            OBVIOUS
        <3>5. i # 0 => i - 1 \in 0 .. m + 1 /\ i - 1 # m + 1 /\ g[i - 1] = f[i - 1]
            OBVIOUS
        <3>6. i = m + 1 => i - 1 = m /\ i # 0
            OBVIOUS
        <3>7. i \in 0 .. m => f[i] = new(f[i - 1], i)
            BY <2>2
        <3> HIDE DEF new, g, h
        <3>8. QED
            BY <3>1, <3>2, <3>3, <3>4, <3>5, <3>6, <3>7
    <2>4. g = h
        BY <2>3
    <2>5. IsStepCounts(g, E, m + 1)
        BY <2>4 DEF IsStepCounts
    <2>6. QED
        BY <2>5
<1>3. Nat \subseteq T
    <2> HIDE DEF T
    <2> QED
        BY <1>1, <1>2, AllNumbers
<1>4. \E f : IsStepCounts(f, E, Len(E))
    BY <1>3
<1>5. QED
    BY <1>4 DEF StepCounts, IsStepCounts

\* A walk of n cells: hd is the way of each step, B the positions that open a leg.
IsWalk(B, hd, n) ==
    /\ n \in Nat \ {0}
    /\ 1 \in B
    /\ \A k \in 2 .. n : hd[k] \in Ways
    /\ \A k \in 2 .. n : k \in B <=> k - 1 \notin B /\ hd[k] # hd[k - 1]

\* The legs ended before position m, and the count the code has there.
EndsBefore(B, m) == {k \in 1 .. m - 1 : k + 1 \in B}

CountAt(B, hd, m) ==
    [legs |-> 1 + Cardinality(EndsBefore(B, m)),
     dir  |-> IF m \in B THEN None ELSE hd[m]]

\* One position more ends a leg more if the next one opens one.
LEMMA EndsCount ==
    ASSUME NEW B, NEW m \in Nat \ {0}
    PROVE  /\ IsFiniteSet(EndsBefore(B, m)) /\ Cardinality(EndsBefore(B, m)) \in Nat
           /\ Cardinality(EndsBefore(B, m + 1)) =
                 Cardinality(EndsBefore(B, m)) + (IF m + 1 \in B THEN 1 ELSE 0)
<1> DEFINE S == EndsBefore(B, m)
<1>1. IsFiniteSet(S) /\ Cardinality(S) \in Nat /\ m \notin S
    <2>1. S \in SUBSET (1 .. m - 1) /\ m \notin S
        BY DEF EndsBefore
    <2>2. IsFiniteSet(1 .. m - 1)
        BY FS_Interval
    <2>3. QED
        BY <2>1, <2>2, FS_Subset, FS_CardinalityType
<1>2. EndsBefore(B, m + 1) = IF m + 1 \in B THEN S \union {m} ELSE S
    <2>1. ASSUME NEW k PROVE k \in 1 .. (m + 1) - 1 <=> k \in 1 .. m - 1 \/ k = m
        OBVIOUS
    <2>2. QED
        BY <2>1 DEF EndsBefore
<1>3. Cardinality(S \union {m}) = Cardinality(S) + 1
    BY <1>1, FS_AddElement
<1>4. QED
    BY <1>1, <1>2, <1>3

\* No step of a walk looks like no step at all.
LEMMA WaysAreWays ==
    ASSUME NEW d \in Ways
    PROVE  d # None
BY DEF Ways, None, Right, Down, Left, Up

\* One step.
LEMMA OneStepWalked ==
    ASSUME NEW B, NEW hd, NEW n, IsWalk(B, hd, n), NEW m \in 1 .. n - 1
    PROVE  Turn(CountAt(B, hd, m), 1, hd[m + 1]) = CountAt(B, hd, m + 1)
<1> DEFINE d == hd[m + 1]
           c == Cardinality(EndsBefore(B, m))
           s == CountAt(B, hd, m)
<1>1. n \in Nat /\ m \in Nat \ {0} /\ m + 1 \in 2 .. n /\ (m + 1) - 1 = m
    BY DEF IsWalk
<1>2. d # None
    BY <1>1, WaysAreWays DEF IsWalk
<1>3. m + 1 \in B <=> m \notin B /\ d # hd[m]
    BY <1>1 DEF IsWalk
<1>4. c \in Nat /\ Cardinality(EndsBefore(B, m + 1)) = c + (IF m + 1 \in B THEN 1 ELSE 0)
    BY <1>1, EndsCount
<1>5. s = [legs |-> 1 + c, dir |-> IF m \in B THEN None ELSE hd[m]]
    BY DEF CountAt
<1>6. CountAt(B, hd, m + 1) = [legs |-> 1 + (c + (IF m + 1 \in B THEN 1 ELSE 0)),
                               dir  |-> IF m + 1 \in B THEN None ELSE d]
    BY <1>4 DEF CountAt
<1>7. Turn(s, 1, d) = IF s.dir = None \/ s.dir = d THEN [s EXCEPT !.dir = d]
                      ELSE [legs |-> s.legs + 1, dir |-> None]
    <2> HIDE DEF s, d
    <2>1. QED
        BY DEF Turn
<1> HIDE DEF c, s, d
<1>8. CASE m + 1 \in B
    <2>1. (s.dir # None /\ s.dir # d) \/ hd[m] = None
        BY <1>3, <1>5, <1>8
    <2>2. hd[m] # None
        <3>1. m \in 2 .. n
            <4>1. m # 1
                BY <1>3, <1>8 DEF IsWalk
            <4>2. QED
                BY <1>1, <4>1
        <3>2. QED
            BY <3>1, WaysAreWays DEF IsWalk
    <2>3. Turn(s, 1, d) = [legs |-> s.legs + 1, dir |-> None]
        BY <1>7, <2>1, <2>2
    <2>4. s.legs = 1 + c
        BY <1>5
    <2>5. (1 + c) + 1 = 1 + (c + 1)
        BY <1>4
    <2>6. QED
        BY <1>6, <1>8, <2>3, <2>4, <2>5 DEF s, d
<1>9. CASE m + 1 \notin B
    <2>1. s.dir = None \/ s.dir = d
        BY <1>3, <1>5, <1>9
    <2>2. Turn(s, 1, d) = [s EXCEPT !.dir = d]
        BY <1>7, <2>1
    <2>3. [s EXCEPT !.dir = d] = [legs |-> 1 + c, dir |-> d]
        BY <1>5
    <2>4. 1 + (c + 0) = 1 + c
        BY <1>4
    <2>5. QED
        BY <1>6, <1>9, <2>2, <2>3, <2>4 DEF s, d
<1>10. QED
    BY <1>8, <1>9

\* Two steps the same way, one after the other.
LEMMA TurnOnceMore ==
    ASSUME NEW c \in Int, NEW v, NEW s, s = [legs |-> c, dir |-> v],
           NEW d, d # None, NEW i \in Nat \ {0}
    PROVE  Turn(s, i + 1, d) = Turn(Turn(s, i, d), 1, d)
<1>1. i > 0 /\ i + 1 > 0 /\ i + 1 # 1 /\ ~(i <= 0) /\ ~(i + 1 <= 0) /\ ~(1 <= 0)
    OBVIOUS
<1> DEFINE on == [legs |-> c, dir |-> d]
<1>2. CASE v = None \/ v = d
    <2>1. Turn(s, i + 1, d) = on /\ Turn(s, i, d) = on
        BY <1>1, <1>2 DEF Turn
    <2>2. Turn(on, 1, d) = on
        BY <1>1 DEF Turn
    <2>3. QED
        BY <2>1, <2>2
<1>3. CASE v # None /\ v # d
    <2>1. Turn(s, i + 1, d) = [legs |-> c + 1, dir |-> d]
        BY <1>1, <1>3 DEF Turn
    <2>2. Turn(s, i, d) = [legs |-> c + 1, dir |-> IF i = 1 THEN None ELSE d]
        BY <1>1, <1>3 DEF Turn
    <2>3. Turn([legs |-> c + 1, dir |-> IF i = 1 THEN None ELSE d], 1, d)
              = [legs |-> c + 1, dir |-> d]
        BY <1>1 DEF Turn
    <2>4. QED
        BY <2>1, <2>2, <2>3
<1>4. QED
    BY <1>2, <1>3

\* An edge of any length.
LEMMA EdgeWalked ==
    ASSUME NEW B, NEW hd, NEW n, IsWalk(B, hd, n), NEW m \in 1 .. n, NEW e \in Nat,
           m + e <= n, NEW d, \A k \in m + 1 .. m + e : hd[k] = d
    PROVE  Turn(CountAt(B, hd, m), e, d) = CountAt(B, hd, m + e)
<1> DEFINE s == CountAt(B, hd, m)
           T == {i \in Nat : i <= e => Turn(s, i, d) = CountAt(B, hd, m + i)}
<1>1. n \in Nat /\ m \in Nat \ {0}
    BY DEF IsWalk
<1>2. 0 \in T
    <2>1. Turn(s, 0, d) = s /\ m + 0 = m
        BY DEF Turn
    <2>2. QED
        BY <2>1
<1>3. ASSUME NEW i \in Nat, i \in T PROVE i + 1 \in T
    <2>1. SUFFICES ASSUME i + 1 <= e PROVE Turn(s, i + 1, d) = CountAt(B, hd, m + (i + 1))
        OBVIOUS
    <2>2. m + (i + 1) = (m + i) + 1 /\ m + i \in 1 .. n - 1 /\ (m + i) + 1 \in m + 1 .. m + e
        BY <1>1, <2>1
    <2>3. hd[(m + i) + 1] = d
        BY <2>2
    <2> DEFINE q == m + i
    <2>4. Turn(CountAt(B, hd, q), 1, hd[q + 1]) = CountAt(B, hd, q + 1)
        <3>1. q \in 1 .. n - 1
            BY <2>2
        <3> HIDE DEF q
        <3>2. QED
            BY <3>1, OneStepWalked
    <2>5. Turn(s, i, d) = CountAt(B, hd, m + i)
        BY <1>3, <2>1
    <2>6. CASE i = 0
        <3>1. m + i = m /\ i + 1 = 1
            BY <1>1, <2>6
        <3> HIDE DEF s
        <3>2. QED
            BY <2>2, <2>3, <2>4, <3>1 DEF s
    <2>7. CASE i # 0
        <3>1. s = [legs |-> 1 + Cardinality(EndsBefore(B, m)), dir |-> IF m \in B THEN None ELSE hd[m]]
            BY DEF CountAt
        <3>2. 1 + Cardinality(EndsBefore(B, m)) \in Int
            BY <1>1, EndsCount
        <3>3. d # None
            <4>1. (m + i) + 1 \in 2 .. n
                BY <1>1, <2>2
            <4>2. QED
                BY <2>3, <4>1, WaysAreWays DEF IsWalk
        <3>4. i \in Nat \ {0}
            BY <2>7
        <3> DEFINE c == 1 + Cardinality(EndsBefore(B, m))
                   v == IF m \in B THEN None ELSE hd[m]
        <3>5. c \in Int /\ s = [legs |-> c, dir |-> v]
            BY <3>1, <3>2
        <3> HIDE DEF s, c, v
        <3>6. Turn(s, i + 1, d) = Turn(Turn(s, i, d), 1, d)
            BY <3>3, <3>4, <3>5, TurnOnceMore
        <3>7. QED
            BY <2>2, <2>3, <2>4, <2>5, <3>6
    <2>8. QED
        BY <2>6, <2>7
<1>4. e \in T
    <2> HIDE DEF T
    <2> QED
        BY <1>2, <1>3, AllNumbers
<1>5. QED
    BY <1>4

\* What is counted after i edges when the walk has come to position m.
Reached(B, hd, E, f, g, i, m) ==
    /\ f[i] = CountAt(B, hd, m)
    /\ g[i] = m - 1

\* One edge more.
LEMMA EdgeCounted ==
    ASSUME NEW B, NEW hd, NEW n, IsWalk(B, hd, n),
           NEW E, Len(E) \in Nat, NEW f, NEW g,
           IsLegCounts(f, E, Len(E)), IsStepCounts(g, E, Len(E)),
           NEW i \in 1 .. Len(E), NEW m \in 1 .. n, Reached(B, hd, E, f, g, i - 1, m),
           NEW e \in Nat, NEW d, E[i] = <<e, d>>,
           m + e <= n, \A k \in m + 1 .. m + e : hd[k] = d
    PROVE  Reached(B, hd, E, f, g, i, m + e)
<1>1. i \in 0 .. Len(E) /\ i # 0
    OBVIOUS
<1>2. f[i] = Turn(f[i - 1], E[i][1], E[i][2])
    BY <1>1 DEF IsLegCounts
<1>3. g[i] = g[i - 1] + (IF E[i][1] > 0 THEN E[i][1] ELSE 0)
    BY <1>1 DEF IsStepCounts
<1>4. E[i][1] = e /\ E[i][2] = d
    OBVIOUS
<1>5. f[i] = CountAt(B, hd, m + e)
    BY <1>2, <1>4, EdgeWalked DEF Reached
<1>6. g[i] = (m + e) - 1
    <2>1. n \in Nat
        BY DEF IsWalk
    <2>2. g[i - 1] = m - 1 /\ g[i] = g[i - 1] + (IF e > 0 THEN e ELSE 0)
        BY <1>3, <1>4 DEF Reached
    <2>3. QED
        BY <2>1, <2>2
<1>7. QED
    BY <1>5, <1>6 DEF Reached

\* The clockwise spiral, and the ways of its steps.
Clockwise(p) == Wound(p, Rings(p))[Rings(p)]

WaysOf(p) == [k \in 2 .. p.nx * p.ny |-> Heading(Clockwise(p)[k - 1], Clockwise(p)[k])]

\* Along ring r, its edges one after the other.
LEMMA RingWays ==
    ASSUME NEW p, IsParams(p), ~ParamsError(p), NEW r \in 0 .. Rings(p) - 1
    PROVE  LET w  == Wide(p, r)
               h  == High(p, r)
               m  == Before(p, r) + 1
               hd == WaysOf(p)
           IN  /\ w = 1 => \A k \in m + 1 .. m + (h - 1) : hd[k] = Down
               /\ w > 1 /\ h = 1 => \A k \in m + 1 .. m + (w - 1) : hd[k] = Right
               /\ w > 1 /\ h > 1 =>
                     /\ \A k \in m + 1 .. m + (w - 1) : hd[k] = Right
                     /\ \A k \in m + (w - 1) + 1 .. m + (w - 1) + (h - 1) : hd[k] = Down
                     /\ \A k \in m + (w - 1) + (h - 1) + 1
                                 .. m + (w - 1) + (h - 1) + (w - 1) : hd[k] = Left
                     /\ \A k \in m + (w - 1) + (h - 1) + (w - 1) + 1
                                 .. m + (w - 1) + (h - 1) + (w - 1) + (h - 2) : hd[k] = Up
<1> DEFINE w  == Wide(p, r)
           h  == High(p, r)
           o  == Before(p, r)
           m  == o + 1
           a  == Ring(p, r)
           hd == WaysOf(p)
           N  == p.nx * p.ny
<1>1. /\ w > 0 /\ h > 0 /\ o \in Nat
      /\ Before(p, r + 1) = o + Len(a)
      /\ \A j \in 1 .. Len(a) : Clockwise(p)[o + j] = a[j]
    BY RingInSpiral DEF Clockwise
<1>2. w \in Nat /\ h \in Nat /\ r \in Nat
    BY <1>1, RingsCount DEF Wide, High, IsParams
<1>3. /\ Len(a) \in Nat /\ N \in Nat /\ o + Len(a) <= N
    <2>1. a \in Seq(Cells(p))
        BY <1>1, <1>2, RingIsRim DEF IsRim
    <2>2. Len(a) \in Nat
        BY <2>1, LenProperties
    <2>3. p.nx \in Nat /\ p.ny \in Nat
        BY DEF IsParams
    <2>4. N \in Nat
        BY <2>3
    <2>5. Size(p, r + 1) \in Nat
        <3>1. Wide(p, r + 1) \in Int /\ High(p, r + 1) \in Int
            BY <1>2, <2>3 DEF Wide, High
        <3>2. \A x, y \in Int : x > 0 /\ y > 0 => x * y \in Nat
            OBVIOUS
        <3>3. QED
            BY <3>1, <3>2 DEF Size
    <2>6. o + Len(a) = N - Size(p, r + 1)
        BY <1>1 DEF Before
    <2>7. QED
        BY <1>1, <2>2, <2>4, <2>5, <2>6
<1>4. ASSUME NEW i \in 1 .. Len(a) - 1
      PROVE  hd[m + i] = Heading(a[i], a[i + 1])
    <2> DEFINE k == m + i
    <2>1. k \in 2 .. N /\ k - 1 = o + i /\ k = o + (i + 1)
        BY <1>1, <1>3
    <2>2. i \in 1 .. Len(a) /\ i + 1 \in 1 .. Len(a)
        BY <1>3
    <2>3. Clockwise(p)[k - 1] = a[i] /\ Clockwise(p)[k] = a[i + 1]
        BY <1>1, <2>1, <2>2
    <2> HIDE DEF k
    <2>4. hd[k] = Heading(Clockwise(p)[k - 1], Clockwise(p)[k])
        BY <2>1 DEF WaysOf
    <2>5. QED
        BY <2>3, <2>4 DEF k
<1>5. /\ w = 1 => /\ Len(a) = h
                  /\ \A k \in 1 .. h - 1 : Heading(a[k], a[k + 1]) = Down
      /\ w > 1 /\ h = 1 => /\ Len(a) = w
                           /\ \A k \in 1 .. w - 1 : Heading(a[k], a[k + 1]) = Right
      /\ w > 1 /\ h > 1 =>
            /\ Len(a) = 2 * w + 2 * h - 4
            /\ \A k \in 1 .. w - 1 : Heading(a[k], a[k + 1]) = Right
            /\ \A k \in w .. w + h - 2 : Heading(a[k], a[k + 1]) = Down
            /\ \A k \in w + h - 1 .. 2 * w + h - 3 : Heading(a[k], a[k + 1]) = Left
            /\ \A k \in 2 * w + h - 2 .. 2 * w + 2 * h - 5 : Heading(a[k], a[k + 1]) = Up
    BY <1>1, <1>2, RingHeadings
<1> HIDE DEF w, h, o, a, hd
<1>6. ASSUME w = 1, NEW k \in m + 1 .. m + (h - 1) PROVE hd[k] = Down
    <2> DEFINE i == k - m
    <2>1. i \in 1 .. Len(a) - 1 /\ m + i = k /\ i \in 1 .. h - 1
        BY <1>1, <1>2, <1>5, <1>6
    <2> HIDE DEF i
    <2>2. hd[m + i] = Heading(a[i], a[i + 1])
        BY <1>4, <2>1
    <2>3. QED
        BY <1>5, <1>6, <2>1, <2>2
<1>7. ASSUME w > 1, h = 1, NEW k \in m + 1 .. m + (w - 1) PROVE hd[k] = Right
    <2> DEFINE i == k - m
    <2>1. i \in 1 .. Len(a) - 1 /\ m + i = k /\ i \in 1 .. w - 1
        BY <1>1, <1>2, <1>5, <1>7
    <2> HIDE DEF i
    <2>2. hd[m + i] = Heading(a[i], a[i + 1])
        BY <1>4, <2>1
    <2>3. QED
        BY <1>5, <1>7, <2>1, <2>2
<1>8. ASSUME w > 1, h > 1
      PROVE  /\ \A k \in m + 1 .. m + (w - 1) : hd[k] = Right
             /\ \A k \in m + (w - 1) + 1 .. m + (w - 1) + (h - 1) : hd[k] = Down
             /\ \A k \in m + (w - 1) + (h - 1) + 1
                         .. m + (w - 1) + (h - 1) + (w - 1) : hd[k] = Left
             /\ \A k \in m + (w - 1) + (h - 1) + (w - 1) + 1
                         .. m + (w - 1) + (h - 1) + (w - 1) + (h - 2) : hd[k] = Up
    <2>1. Len(a) = 2 * w + 2 * h - 4
        BY <1>5, <1>8
    <2>2. ASSUME NEW k \in m + 1 .. m + (w - 1) PROVE hd[k] = Right
        <3> DEFINE i == k - m
        <3>1. i \in 1 .. Len(a) - 1 /\ m + i = k /\ i \in 1 .. w - 1
            BY <1>1, <1>2, <1>8, <2>1
        <3> HIDE DEF i
        <3>2. QED
            BY <1>4, <1>5, <1>8, <3>1
    <2>3. ASSUME NEW k \in m + (w - 1) + 1 .. m + (w - 1) + (h - 1) PROVE hd[k] = Down
        <3> DEFINE i == k - m
        <3>1. i \in 1 .. Len(a) - 1 /\ m + i = k /\ i \in w .. w + h - 2
            BY <1>1, <1>2, <1>8, <2>1
        <3> HIDE DEF i
        <3>2. QED
            BY <1>4, <1>5, <1>8, <3>1
    <2>4. ASSUME NEW k \in m + (w - 1) + (h - 1) + 1 .. m + (w - 1) + (h - 1) + (w - 1)
          PROVE  hd[k] = Left
        <3> DEFINE i == k - m
        <3>1. i \in 1 .. Len(a) - 1 /\ m + i = k /\ i \in w + h - 1 .. 2 * w + h - 3
            BY <1>1, <1>2, <1>8, <2>1
        <3> HIDE DEF i
        <3>2. QED
            BY <1>4, <1>5, <1>8, <3>1
    <2>5. ASSUME NEW k \in m + (w - 1) + (h - 1) + (w - 1) + 1
                           .. m + (w - 1) + (h - 1) + (w - 1) + (h - 2)
          PROVE  hd[k] = Up
        <3> DEFINE i == k - m
        <3>1. i \in 1 .. Len(a) - 1 /\ m + i = k /\ i \in 2 * w + h - 2 .. 2 * w + 2 * h - 5
            BY <1>1, <1>2, <1>8, <2>1
        <3> HIDE DEF i
        <3>2. QED
            BY <1>4, <1>5, <1>8, <3>1
    <2>6. QED
        BY <2>2, <2>3, <2>4, <2>5
<1>9. QED
    BY <1>6, <1>7, <1>8 DEF w, h, o, a, hd

\* A step to a neighbour goes one of the four ways.
LEMMA NearIsWay ==
    ASSUME NEW a \in Points, NEW b \in Points, Near(a, b)
    PROVE  Heading(a, b) \in Ways
<1>1. /\ a[1] \in Int /\ a[2] \in Int /\ b[1] \in Int /\ b[2] \in Int
    BY DEF Points
<1> DEFINE x == b[1] - a[1]
           y == b[2] - a[2]
<1>2. \/ (x = 1 /\ y = 0) \/ (x = -1 /\ y = 0)
      \/ (x = 0 /\ y = 1) \/ (x = 0 /\ y = -1)
    <2>1. Distance(a[1], b[1]) = (IF 0 < x THEN x ELSE -x)
        BY <1>1 DEF Distance
    <2>2. Distance(a[2], b[2]) = (IF 0 < y THEN y ELSE -y)
        BY <1>1 DEF Distance
    <2>3. x \in Int /\ y \in Int
        BY <1>1
    <2>4. Distance(a[1], b[1]) + Distance(a[2], b[2]) = 1
        BY DEF Near
    <2> HIDE DEF x, y
    <2>5. QED
        BY <2>1, <2>2, <2>3, <2>4
<1>3. a[1] = b[1] \/ a[2] = b[2]
    BY <1>1, <1>2
<1> DEFINE sign(d) == IF d > 0 THEN 1 ELSE IF d < 0 THEN -1 ELSE 0
<1>4. Heading(a, b) = <<sign(x), sign(y)>>
    BY <1>3 DEF Heading
<1> HIDE DEF x, y
<1>5. Heading(a, b) \in {<<1, 0>>, <<-1, 0>>, <<0, 1>>, <<0, -1>>}
    BY <1>2, <1>4
<1>6. QED
    BY <1>5 DEF Ways, Right, Left, Up, Down

\* The clockwise spiral is a walk over all cells, from neighbour to neighbour.
LEMMA ClockwiseIs ==
    ASSUME NEW p, IsParams(p), ~ParamsError(p)
    PROVE  /\ Clockwise(p) \in Seq(Cells(p)) /\ Len(Clockwise(p)) = p.nx * p.ny
           /\ p.nx * p.ny \in Nat /\ p.nx * p.ny > 1
           /\ \A k \in 1 .. p.nx * p.ny : Clockwise(p)[k] \in Points
           /\ \A k \in 2 .. p.nx * p.ny : Near(Clockwise(p)[k - 1], Clockwise(p)[k])
<1> DEFINE N == p.nx * p.ny
           s == Clockwise(p)
<1>1. IsSpiral(p, Rings(p), s) /\ Size(p, Rings(p)) = 0
    BY SpiralOfRings DEF Clockwise
<1> HIDE DEF s
<1>2. p.nx \in Nat /\ p.ny \in Nat /\ p.nx > 1 /\ p.ny > 1
    BY DEF IsParams, ParamsError
<1>3. N \in Nat /\ N > 1
    <2>1. \A x, y \in Nat : x > 1 /\ y > 1 => x * y \in Nat /\ x * y > 1
        OBVIOUS
    <2>2. QED
        BY <1>2, <2>1
<1>4. s \in Seq(Cells(p)) /\ Len(s) = N
    BY <1>1, <1>3 DEF IsSpiral
<1>5. ASSUME NEW k \in 1 .. N PROVE s[k] \in Points
    <2>1. s[k] \in Cells(p)
        BY <1>4, ElementOfSeq
    <2>2. QED
        BY <1>2, <2>1 DEF Cells, Points
<1>6. ASSUME NEW k \in 2 .. N PROVE Near(s[k - 1], s[k])
    <2> DEFINE j == k - 1
    <2>1. j \in 1 .. Len(s) - 1 /\ j + 1 = k
        BY <1>3, <1>4
    <2> HIDE DEF j
    <2>2. Near(s[j], s[j + 1])
        BY <1>1, <2>1 DEF IsSpiral
    <2>3. QED
        BY <2>1, <2>2 DEF j
<1>7. QED
    BY <1>3, <1>4, <1>5, <1>6 DEF s

\* From ring to ring the step goes right.
LEMMA SeamIsRight ==
    ASSUME NEW p, IsParams(p), ~ParamsError(p), NEW r \in Nat, r + 1 < Rings(p)
    PROVE  /\ Before(p, r + 1) \in 1 .. p.nx * p.ny - 1
           /\ WaysOf(p)[Before(p, r + 1) + 1] = Right
           /\ Wide(p, r) > 2 /\ High(p, r) > 2
<1> DEFINE o == Before(p, r)
           u == Before(p, r + 1)
           a == Ring(p, r)
           b == Ring(p, r + 1)
           N == p.nx * p.ny
<1>1. Rings(p) \in Nat /\ p.nx \in Nat /\ p.ny \in Nat /\ N \in Nat
    BY RingsCount, ClockwiseIs DEF IsParams
<1>2. r \in 0 .. Rings(p) - 1 /\ r + 1 \in 0 .. Rings(p) - 1 /\ r + 1 \in Nat
    BY <1>1
<1>3. /\ Wide(p, r) > 0 /\ High(p, r) > 0 /\ o \in Nat /\ u = o + Len(a)
      /\ \A j \in 1 .. Len(a) : Clockwise(p)[o + j] = a[j]
    BY <1>2, RingInSpiral DEF Clockwise
<1>4. /\ Wide(p, r + 1) > 0 /\ High(p, r + 1) > 0 /\ u \in Nat
      /\ Before(p, (r + 1) + 1) = u + Len(b)
      /\ \A j \in 1 .. Len(b) : Clockwise(p)[u + j] = b[j]
    BY <1>2, RingInSpiral DEF Clockwise
<1>5. Wide(p, r) > 2 /\ High(p, r) > 2
    BY <1>1, <1>4 DEF Wide, High
<1>6. /\ a \in Seq(Cells(p)) /\ Len(a) > 0 /\ a[Len(a)] = <<r, p.ny - 2 - r>>
    BY <1>3, <1>5, RingIsRim DEF IsRim
<1>7. /\ b \in Seq(Cells(p)) /\ Len(b) > 0 /\ b[1] = <<r + 1, p.ny - 1 - (r + 1)>>
    BY <1>2, <1>4, RingIsRim DEF IsRim
<1>8. Len(a) \in Nat /\ Len(b) \in Nat
    BY <1>6, <1>7, LenProperties
<1>9. u + Len(b) <= N
    <2>1. Size(p, (r + 1) + 1) \in Nat
        <3>1. Wide(p, (r + 1) + 1) \in Int /\ High(p, (r + 1) + 1) \in Int
            BY <1>1 DEF Wide, High
        <3>2. \A x, y \in Int : x > 0 /\ y > 0 => x * y \in Nat
            OBVIOUS
        <3>3. QED
            BY <3>1, <3>2 DEF Size
    <2>2. u + Len(b) = N - Size(p, (r + 1) + 1)
        BY <1>4 DEF Before
    <2>3. QED
        BY <1>1, <1>4, <1>8, <2>1, <2>2
<1> HIDE DEF o, u, a, b, N
<1>10. u \in 1 .. N - 1 /\ u + 1 \in 2 .. N /\ (u + 1) - 1 = u
    BY <1>1, <1>3, <1>4, <1>6, <1>7, <1>8, <1>9
<1>11. Clockwise(p)[u] = <<r, p.ny - 2 - r>>
    <2>1. Len(a) \in 1 .. Len(a)
        BY <1>6, <1>8
    <2>2. QED
        BY <1>3, <1>6, <2>1
<1>12. Clockwise(p)[u + 1] = <<r + 1, p.ny - 2 - r>>
    <2>1. 1 \in 1 .. Len(b)
        BY <1>7, <1>8
    <2>2. p.ny - 1 - (r + 1) = p.ny - 2 - r
        BY <1>1
    <2>3. QED
        BY <1>4, <1>7, <2>1, <2>2
<1>13. WaysOf(p)[u + 1] = Heading(Clockwise(p)[u], Clockwise(p)[u + 1])
    BY <1>10 DEF WaysOf, N
<1>14. Heading(Clockwise(p)[u], Clockwise(p)[u + 1]) = Right
    BY <1>1, <1>11, <1>12 DEF Heading, Right
<1>15. QED
    BY <1>5, <1>10, <1>13, <1>14 DEF u, N

\* All the edges of ring r, from its first cell to its last.
LEMMA RingCounted ==
    ASSUME NEW p, IsParams(p), ~ParamsError(p), NEW r \in 0 .. Rings(p) - 1,
           NEW B, IsWalk(B, WaysOf(p), p.nx * p.ny),
           NEW E, E \in Seq(Edges), HasRing(p, E, r),
           5 * r + EdgeCount(p.nx, p.ny, r) <= Len(E),
           NEW f, NEW g, IsLegCounts(f, E, Len(E)), IsStepCounts(g, E, Len(E)),
           Reached(B, WaysOf(p), E, f, g, 5 * r, Before(p, r) + 1)
    PROVE  Reached(B, WaysOf(p), E, f, g, 5 * r + EdgeCount(p.nx, p.ny, r), Before(p, r + 1))
<1> DEFINE w  == Wide(p, r)
           h  == High(p, r)
           m  == Before(p, r) + 1
           i  == 5 * r
           hd == WaysOf(p)
           N  == p.nx * p.ny
           R(k, q) == Reached(B, hd, E, f, g, k, q)
<1>1. /\ w = 1 => \A k \in m + 1 .. m + (h - 1) : hd[k] = Down
      /\ w > 1 /\ h = 1 => \A k \in m + 1 .. m + (w - 1) : hd[k] = Right
      /\ w > 1 /\ h > 1 =>
            /\ \A k \in m + 1 .. m + (w - 1) : hd[k] = Right
            /\ \A k \in m + (w - 1) + 1 .. m + (w - 1) + (h - 1) : hd[k] = Down
            /\ \A k \in m + (w - 1) + (h - 1) + 1
                        .. m + (w - 1) + (h - 1) + (w - 1) : hd[k] = Left
            /\ \A k \in m + (w - 1) + (h - 1) + (w - 1) + 1
                        .. m + (w - 1) + (h - 1) + (w - 1) + (h - 2) : hd[k] = Up
    BY RingWays
<1>2. /\ w > 0 /\ h > 0 /\ m \in Nat \ {0}
      /\ Before(p, r + 1) = Before(p, r) + Len(Ring(p, r))
      /\ Before(p, r) \in Nat
    BY RingInSpiral
<1>3. w \in Nat /\ h \in Nat /\ r \in Nat /\ i \in Nat
    BY <1>2, RingsCount DEF Wide, High, IsParams
<1>4. /\ w = 1 => Len(Ring(p, r)) = h
      /\ w > 1 /\ h = 1 => Len(Ring(p, r)) = w
      /\ w > 1 /\ h > 1 => Len(Ring(p, r)) = 2 * w + 2 * h - 4
    BY <1>2, <1>3, RingHeadings
<1>5. Before(p, r + 1) <= N
    <2>1. Size(p, r + 1) \in Nat
        <3>1. Wide(p, r + 1) \in Int /\ High(p, r + 1) \in Int
            BY <1>3 DEF Wide, High, IsParams
        <3>2. \A x, y \in Int : x > 0 /\ y > 0 => x * y \in Nat
            OBVIOUS
        <3>3. QED
            BY <3>1, <3>2 DEF Size
    <2>2. N \in Nat
        BY ClockwiseIs
    <2>3. QED
        BY <2>1, <2>2 DEF Before
<1>6. N \in Nat
    BY ClockwiseIs
<1>7. /\ EdgeCount(p.nx, p.ny, r) = IF w = 1 \/ h = 1 THEN 1 ELSE 4
    BY DEF EdgeCount, Wide, High
<1>8. /\ w = 1 => E[i + 1] = <<h - 1, Down>>
      /\ w > 1 /\ h = 1 => E[i + 1] = <<w - 1, Right>>
      /\ w > 1 /\ h > 1 => /\ E[i + 1] = <<w - 1, Right>>
                           /\ E[i + 2] = <<h - 1, Down>>
                           /\ E[i + 3] = <<w - 1, Left>>
                           /\ E[i + 4] = <<h - 2, Up>>
    BY DEF HasRing
<1>9. Len(E) \in Nat
    BY LenProperties
<1>10. IsWalk(B, hd, N) /\ R(i, m)
    OBVIOUS
<1> HIDE DEF N, hd, w, h, i, R
<1>11. ASSUME NEW k \in 1 .. Len(E), NEW q \in 1 .. N, NEW e \in Nat, NEW d,
              E[k] = <<e, d>>, q + e <= N, \A j \in q + 1 .. q + e : hd[j] = d,
              R(k - 1, q)
       PROVE  R(k, q + e)
    BY <1>9, <1>10, <1>11, EdgeCounted DEF R
<1> HIDE DEF m
<1>12. CASE w = 1
    <2>1. Before(p, r + 1) = m + (h - 1) /\ EdgeCount(p.nx, p.ny, r) = 1
        BY <1>2, <1>3, <1>4, <1>7, <1>12 DEF m
    <2>2. i + 1 \in 1 .. Len(E) /\ m \in 1 .. N /\ h - 1 \in Nat /\ m + (h - 1) <= N
          /\ (i + 1) - 1 = i
        BY <1>2, <1>3, <1>5, <1>6, <1>9, <2>1 DEF i
    <2>3. R(i + 1, m + (h - 1))
        BY <1>1, <1>8, <1>10, <1>11, <1>12, <2>2
    <2>4. QED
        BY <2>1, <2>3 DEF R, hd, i
<1>13. CASE w > 1 /\ h = 1
    <2>1. Before(p, r + 1) = m + (w - 1) /\ EdgeCount(p.nx, p.ny, r) = 1
        BY <1>2, <1>3, <1>4, <1>7, <1>13 DEF m
    <2>2. i + 1 \in 1 .. Len(E) /\ m \in 1 .. N /\ w - 1 \in Nat /\ m + (w - 1) <= N
          /\ (i + 1) - 1 = i
        BY <1>2, <1>3, <1>5, <1>6, <1>9, <1>13, <2>1 DEF i
    <2>3. R(i + 1, m + (w - 1))
        BY <1>1, <1>8, <1>10, <1>11, <1>13, <2>2
    <2>4. QED
        BY <2>1, <2>3 DEF R, hd, i
<1>14. CASE w > 1 /\ h > 1
    <2> DEFINE m1 == m + (w - 1)
               m2 == m1 + (h - 1)
               m3 == m2 + (w - 1)
               m4 == m3 + (h - 2)
    <2>1. Before(p, r + 1) = m4 /\ EdgeCount(p.nx, p.ny, r) = 4
        <3>1. EdgeCount(p.nx, p.ny, r) = 4
            BY <1>3, <1>7, <1>14
        <3>2. Before(p, r + 1) = Before(p, r) + (2 * w + 2 * h - 4)
            BY <1>2, <1>4, <1>14
        <3>3. m4 = (Before(p, r) + 1) + (w - 1) + (h - 1) + (w - 1) + (h - 2)
            BY DEF m
        <3>4. QED
            BY <1>2, <1>3, <3>1, <3>2, <3>3
    <2>2. /\ i + 1 \in 1 .. Len(E) /\ i + 2 \in 1 .. Len(E)
          /\ i + 3 \in 1 .. Len(E) /\ i + 4 \in 1 .. Len(E)
          /\ (i + 1) - 1 = i /\ (i + 2) - 1 = i + 1 /\ (i + 3) - 1 = i + 2 /\ (i + 4) - 1 = i + 3
        BY <1>3, <1>9, <2>1 DEF i
    <2>3. /\ m \in 1 .. N /\ m1 \in 1 .. N /\ m2 \in 1 .. N /\ m3 \in 1 .. N
          /\ m + (w - 1) <= N /\ m1 + (h - 1) <= N /\ m2 + (w - 1) <= N /\ m3 + (h - 2) <= N
          /\ w - 1 \in Nat /\ h - 1 \in Nat /\ h - 2 \in Nat
        BY <1>2, <1>3, <1>5, <1>6, <1>14, <2>1
    <2>4. /\ \A k \in m + 1 .. m + (w - 1) : hd[k] = Right
          /\ \A k \in m1 + 1 .. m1 + (h - 1) : hd[k] = Down
          /\ \A k \in m2 + 1 .. m2 + (w - 1) : hd[k] = Left
          /\ \A k \in m3 + 1 .. m3 + (h - 2) : hd[k] = Up
        BY <1>1, <1>14
    <2>5. R(i + 1, m1)
        BY <1>8, <1>10, <1>11, <1>14, <2>2, <2>3, <2>4
    <2> HIDE DEF m1
    <2>6. R(i + 2, m2)
        BY <1>8, <1>11, <1>14, <2>2, <2>3, <2>4, <2>5
    <2> HIDE DEF m2
    <2>7. R(i + 3, m3)
        BY <1>8, <1>11, <1>14, <2>2, <2>3, <2>4, <2>6
    <2> HIDE DEF m3
    <2>8. R(i + 4, m4)
        BY <1>8, <1>11, <1>14, <2>2, <2>3, <2>4, <2>7
    <2>9. QED
        BY <2>1, <2>8 DEF R, hd, i
<1>15. QED
    BY <1>2, <1>3, <1>12, <1>13, <1>14

\* The counts of spiralStats are those of the walk along the spiral.
LEMMA SpiralCounted ==
    ASSUME NEW p, IsParams(p), ~ParamsError(p),
           NEW B, IsWalk(B, WaysOf(p), p.nx * p.ny)
    PROVE  SpiralStats(p.nx, p.ny) =
              [legs  |-> 1 + Cardinality(EndsBefore(B, p.nx * p.ny)),
               steps |-> p.nx * p.ny - 1]
<1> DEFINE N  == p.nx * p.ny
           n  == Rings(p)
           hd == WaysOf(p)
           E  == SpiralEdges(p.nx, p.ny)
           f  == LegCounts(E)
           g  == StepCounts(E)
           T  == {r \in Nat : r < n => Reached(B, hd, E, f, g, 5 * r, Before(p, r) + 1)}
<1>1. n \in Nat \ {0} /\ HasRings(p, E, n - 1)
    BY EdgesOfRings
<1>2. N \in Nat /\ N > 1
    BY ClockwiseIs
<1> HIDE DEF n, E
<1>3. /\ E \in Seq(Edges) /\ Len(E) \in Nat
      /\ Len(E) = 5 * (n - 1) + EdgeCount(p.nx, p.ny, n - 1)
      /\ \A t \in 0 .. n - 1 : HasRing(p, E, t)
    BY <1>1, LenProperties DEF HasRings
<1>4. IsLegCounts(f, E, Len(E)) /\ IsStepCounts(g, E, Len(E))
    BY <1>3, LegCountsExist, StepCountsExist
<1>5. ASSUME NEW r \in Nat PROVE EdgeCount(p.nx, p.ny, r) \in 1 .. 4
    BY DEF EdgeCount
<1> HIDE DEF f, g
<1>6. 0 \in T
    <2>1. f[0] = [legs |-> 1, dir |-> None] /\ g[0] = 0
        <3>1. 0 \in 0 .. Len(E)
            BY <1>3
        <3>2. QED
            BY <1>4, <3>1 DEF IsLegCounts, IsStepCounts
    <2>2. Before(p, 0) = 0
        <3>1. Size(p, 0) = N
            BY DEF Size, Wide, High, IsParams, ParamsError
        <3>2. QED
            BY <1>2, <3>1 DEF Before
    <2>3. CountAt(B, hd, 1) = [legs |-> 1, dir |-> None]
        <3>1. EndsBefore(B, 1) = {}
            BY DEF EndsBefore
        <3>2. Cardinality({}) = 0 /\ 1 \in B /\ 1 + 0 = 1
            BY FS_EmptySet DEF IsWalk
        <3>3. QED
            BY <3>1, <3>2 DEF CountAt
    <2>4. 5 * 0 = 0 /\ 0 + 1 = 1 /\ 1 - 1 = 0
        OBVIOUS
    <2>5. Reached(B, hd, E, f, g, 5 * 0, Before(p, 0) + 1)
        BY <2>1, <2>2, <2>3, <2>4 DEF Reached
    <2>6. QED
        BY <2>5
<1>7. ASSUME NEW r \in 0 .. n - 1,
             Reached(B, hd, E, f, g, 5 * r, Before(p, r) + 1)
      PROVE  Reached(B, hd, E, f, g, 5 * r + EdgeCount(p.nx, p.ny, r), Before(p, r + 1))
    <2>1. r \in Nat /\ r \in 0 .. Rings(p) - 1
        BY <1>1 DEF n
    <2>2. 5 * r + EdgeCount(p.nx, p.ny, r) <= Len(E)
        <3>1. CASE r = n - 1
            BY <1>1, <1>3, <1>5, <3>1
        <3>2. CASE r # n - 1
            <4>1. r + 1 <= n - 1 /\ n - 1 \in Nat
                BY <1>1, <3>2
            <4>2. EdgeCount(p.nx, p.ny, r) \in 1 .. 4 /\ EdgeCount(p.nx, p.ny, n - 1) \in 1 .. 4
                BY <1>5, <2>1, <4>1
            <4>3. QED
                BY <1>1, <1>3, <2>1, <4>1, <4>2
        <3>3. QED
            BY <3>1, <3>2
    <2>3. HasRing(p, E, r)
        BY <1>3
    <2>4. QED
        BY <1>3, <1>4, <1>7, <2>1, <2>2, <2>3, RingCounted
<1>8. ASSUME NEW r \in Nat, r \in T PROVE r + 1 \in T
    <2>1. SUFFICES ASSUME r + 1 < n
                   PROVE  Reached(B, hd, E, f, g, 5 * (r + 1), Before(p, r + 1) + 1)
        OBVIOUS
    <2>2. r \in 0 .. n - 1 /\ r + 1 \in 0 .. n - 1 /\ r < n /\ n - 1 \in Nat
        BY <1>1, <2>1
    <2>3. /\ Before(p, r + 1) \in 1 .. N - 1
          /\ hd[Before(p, r + 1) + 1] = Right
          /\ Wide(p, r) > 2 /\ High(p, r) > 2
        BY <2>1, SeamIsRight DEF n
    <2>4. EdgeCount(p.nx, p.ny, r) = 4
        <3>1. p.nx - 2 * r # 1 /\ p.ny - 2 * r # 1
            BY <2>3 DEF Wide, High
        <3>2. QED
            BY <3>1 DEF EdgeCount
    <2>5. Reached(B, hd, E, f, g, 5 * r + 4, Before(p, r + 1))
        BY <1>7, <1>8, <2>2, <2>4
    <2>6. E[5 * (r + 1)] = <<1, Right>>
        <3>1. r + 1 > 0
            OBVIOUS
        <3>2. HasRing(p, E, r + 1)
            BY <1>3, <2>2
        <3>3. QED
            BY <3>1, <3>2 DEF HasRing
    <2> DEFINE i == 5 * (r + 1)
               m == Before(p, r + 1)
    <2>7. i \in 1 .. Len(E) /\ i - 1 = 5 * r + 4
        <3>1. EdgeCount(p.nx, p.ny, n - 1) \in 1 .. 4
            BY <1>5, <2>2
        <3>2. QED
            BY <1>1, <1>3, <2>2, <3>1
    <2>8. m \in 1 .. N /\ m + 1 <= N /\ \A k \in m + 1 .. m + 1 : hd[k] = Right
        <3>1. m \in 1 .. N /\ m + 1 <= N /\ m \in Nat
            BY <1>2, <2>3
        <3>2. ASSUME NEW k \in m + 1 .. m + 1 PROVE k = m + 1
            BY <3>1
        <3>3. QED
            BY <2>3, <3>1, <3>2
    <2> HIDE DEF i, m, hd, N
    <2>9. IsWalk(B, hd, N)
        BY DEF hd, N
    <2>10. Reached(B, hd, E, f, g, i - 1, m)
        BY <2>5, <2>7 DEF m
    <2>11. E[i] = <<1, Right>> /\ 1 \in Nat
        BY <2>6 DEF i
    <2>12. Reached(B, hd, E, f, g, i, m + 1)
        BY <1>3, <1>4, <2>7, <2>8, <2>9, <2>10, <2>11, EdgeCounted
    <2>13. QED
        BY <2>12 DEF i, m, hd
<1>9. n - 1 \in T
    <2> HIDE DEF T
    <2>1. n - 1 \in Nat
        BY <1>1
    <2>2. QED
        BY <1>6, <1>8, <2>1, AllNumbers
<1>10. Reached(B, hd, E, f, g, Len(E), N)
    <2>1. n - 1 \in 0 .. n - 1 /\ n - 1 < n /\ (n - 1) + 1 = n
        BY <1>1
    <2> DEFINE r == n - 1
    <2>2. Reached(B, hd, E, f, g, 5 * r, Before(p, r) + 1)
        BY <1>9, <2>1
    <2>3. r \in 0 .. n - 1
        BY <2>1
    <2> HIDE DEF r, hd
    <2>4. Reached(B, hd, E, f, g, 5 * r + EdgeCount(p.nx, p.ny, r), Before(p, r + 1))
        BY <1>7, <2>2, <2>3
    <2>5. Before(p, n) = N
        <3>1. Size(p, n) = 0
            BY SpiralOfRings DEF n
        <3>2. QED
            BY <1>2, <3>1 DEF Before
    <2>6. r + 1 = n /\ 5 * r + EdgeCount(p.nx, p.ny, r) = Len(E)
        BY <1>3, <2>1 DEF r
    <2>7. QED
        BY <2>4, <2>5, <2>6
<1>11. SpiralStats(p.nx, p.ny) = [legs |-> f[Len(E)].legs, steps |-> g[Len(E)]]
    BY StatsAreCounts DEF f, g, E
<1>12. QED
    BY <1>10, <1>11 DEF Reached, CountAt

\* How a step of the clockwise spiral looks in the plan: the other spiral is its
\* mirror image.
Seen(p, d) == IF p.mode = "SpiralCW" THEN d ELSE <<-d[1], d[2]>>

\* The mirror image of a way is a way, of different ways different ones.
LEMMA SeenTellsApart ==
    ASSUME NEW p, NEW d \in Ways, NEW e \in Ways
    PROVE  Seen(p, d) # <<0, 0>> /\ (Seen(p, d) = Seen(p, e) <=> d = e)
<1>1. d \in {<<1, 0>>, <<0, -1>>, <<-1, 0>>, <<0, 1>>} /\ e \in {<<1, 0>>, <<0, -1>>, <<-1, 0>>, <<0, 1>>}
    BY DEF Ways, Right, Left, Up, Down
<1>2. QED
    BY <1>1 DEF Seen

\* The heading between mirror images is the mirror image of the heading.
LEMMA HeadingSeen ==
    ASSUME NEW p, IsParams(p), NEW a \in Points, NEW b \in Points
    PROVE  Heading(<<p.nx - 1 - a[1], a[2]>>, <<p.nx - 1 - b[1], b[2]>>)
               = <<-Heading(a, b)[1], Heading(a, b)[2]>>
<1>1. /\ a[1] \in Int /\ a[2] \in Int /\ b[1] \in Int /\ b[2] \in Int /\ p.nx \in Int
    BY DEF Points, IsParams
<1> DEFINE sign(d) == IF d > 0 THEN 1 ELSE IF d < 0 THEN -1 ELSE 0
           x == b[1] - a[1]
           y == b[2] - a[2]
           u == (p.nx - 1 - b[1]) - (p.nx - 1 - a[1])
<1>2. x \in Int /\ y \in Int /\ u = -x /\ sign(u) = -sign(x)
    BY <1>1
<1>3. Heading(a, b) = IF a[1] = b[1] \/ a[2] = b[2] THEN <<sign(x), sign(y)>> ELSE <<0, 0>>
    BY DEF Heading
<1>4. Heading(<<p.nx - 1 - a[1], a[2]>>, <<p.nx - 1 - b[1], b[2]>>)
          = IF p.nx - 1 - a[1] = p.nx - 1 - b[1] \/ a[2] = b[2]
            THEN <<sign(u), sign(y)>> ELSE <<0, 0>>
    BY DEF Heading
<1>5. p.nx - 1 - a[1] = p.nx - 1 - b[1] <=> a[1] = b[1]
    BY <1>1
<1> HIDE DEF sign, x, y, u
<1>6. CASE a[1] = b[1] \/ a[2] = b[2]
    <2>1. Heading(a, b) = <<sign(x), sign(y)>>
        BY <1>3, <1>6
    <2>2. Heading(<<p.nx - 1 - a[1], a[2]>>, <<p.nx - 1 - b[1], b[2]>>) = <<-sign(x), sign(y)>>
        BY <1>2, <1>4, <1>5, <1>6
    <2>3. QED
        BY <2>1, <2>2
<1>7. CASE ~(a[1] = b[1] \/ a[2] = b[2])
    <2>1. Heading(a, b) = <<0, 0>>
        BY <1>3, <1>7
    <2>2. Heading(<<p.nx - 1 - a[1], a[2]>>, <<p.nx - 1 - b[1], b[2]>>) = <<0, 0>>
        BY <1>4, <1>5, <1>7
    <2>3. \A z \in Int : -z = 0 - z
        OBVIOUS
    <2>4. Heading(a, b)[1] = 0 /\ Heading(a, b)[2] = 0
        BY <2>1
    <2>5. -Heading(a, b)[1] = 0
        <3>1. Heading(a, b)[1] \in Int /\ 0 - Heading(a, b)[1] = 0
            BY <2>4
        <3> DEFINE z == Heading(a, b)[1]
        <3> HIDE DEF z
        <3>2. -z = 0 - z
            BY <2>3, <3>1 DEF z
        <3>3. QED
            BY <3>1, <3>2 DEF z
    <2>6. QED
        BY <2>2, <2>4, <2>5
<1>8. QED
    BY <1>6, <1>7

\* Where a whole spiral starts its legs is a matter of the ways of its steps.
LEMMA SpiralIsWalk ==
    ASSUME NEW p, IsParams(p), ~ParamsError(p), ModeSpiral(p),
           NEW order, order = [k \in 1 .. p.nx * p.ny |-> k]
    PROVE  IsWalk({k \in 1 .. p.nx * p.ny : SpiralLegStarts(SpiralPlan(p), order)[k]},
                  WaysOf(p), p.nx * p.ny)
<1> DEFINE N    == p.nx * p.ny
           s    == Clockwise(p)
           plan == SpiralPlan(p)
           f    == SpiralLegStarts(plan, order)
           B    == {k \in 1 .. N : f[k]}
           hd   == WaysOf(p)
           head(k) == Heading(plan[order[k - 1]], plan[order[k]])
<1>1. /\ s \in Seq(Cells(p)) /\ Len(s) = N
      /\ N \in Nat /\ N > 1
      /\ \A k \in 1 .. N : s[k] \in Points
      /\ \A k \in 2 .. N : Near(s[k - 1], s[k])
    BY ClockwiseIs
<1>2. plan = IF p.mode = "SpiralCW" THEN s
             ELSE [k \in 1 .. N |-> <<p.nx - 1 - s[k][1], s[k][2]>>]
    BY <1>1, SpiralIsWound DEF Clockwise
<1>3. Len(order) = N
    BY <1>1
<1>4. IsLegStarts(f, plan, order, N)
    <2>1. Len(order) \in Nat
        BY <1>1, <1>3
    <2>2. QED
        BY <1>3, <2>1, LegStartsExist
<1> HIDE DEF plan, f, s, N
<1>5. ASSUME NEW k \in 2 .. N PROVE hd[k] \in Ways /\ head(k) = Seen(p, hd[k])
    <2>1. k \in 1 .. N /\ k - 1 \in 1 .. N
        BY <1>1
    <2>2. hd[k] = Heading(s[k - 1], s[k])
        BY DEF WaysOf, N, s
    <2>3. hd[k] \in Ways
        BY <1>1, <2>1, <2>2, NearIsWay
    <2>4. order[k] = k /\ order[k - 1] = k - 1
        BY <2>1 DEF N
    <2>5. head(k) = Heading(plan[k - 1], plan[k])
        BY <2>4
    <2>6. CASE p.mode = "SpiralCW"
        BY <1>2, <2>2, <2>3, <2>5, <2>6 DEF Seen
    <2>7. CASE p.mode # "SpiralCW"
        <3>1. /\ plan[k] = <<p.nx - 1 - s[k][1], s[k][2]>>
              /\ plan[k - 1] = <<p.nx - 1 - s[k - 1][1], s[k - 1][2]>>
            BY <1>2, <2>1, <2>7
        <3>2. Heading(plan[k - 1], plan[k]) = <<-hd[k][1], hd[k][2]>>
            BY <1>1, <2>1, <2>2, <3>1, HeadingSeen
        <3>3. QED
            BY <2>3, <2>5, <2>7, <3>2 DEF Seen
    <2>8. QED
        BY <2>6, <2>7
<1>6. f = [k \in 1 .. N |-> k = 1 \/ head(k) = <<0, 0>> \/ (~f[k - 1] /\ head(k) # head(k - 1))]
    BY <1>4 DEF IsLegStarts
<1>7. 1 \in B
    <2>1. 1 \in 1 .. N
        BY <1>1
    <2>2. f[1] = (1 = 1 \/ head(1) = <<0, 0>> \/ (~f[1 - 1] /\ head(1) # head(1 - 1)))
        BY <1>6, <2>1
    <2>3. f[1]
        BY <2>2
    <2>4. QED
        BY <2>1, <2>3
<1>8. ASSUME NEW k \in 2 .. N PROVE k \in B <=> k - 1 \notin B /\ hd[k] # hd[k - 1]
    <2>1. k \in 1 .. N /\ k - 1 \in 1 .. N /\ k # 1
        BY <1>1
    <2>2. f[k] = (k = 1 \/ head(k) = <<0, 0>> \/ (~f[k - 1] /\ head(k) # head(k - 1)))
        BY <1>6, <2>1
    <2>3. head(k) # <<0, 0>>
        BY <1>5, SeenTellsApart
    <2> HIDE DEF head
    <2>4. k \in B <=> k - 1 \notin B /\ head(k) # head(k - 1)
        BY <2>1, <2>2, <2>3
    <2>5. CASE k = 2
        BY <1>7, <2>4, <2>5
    <2>6. CASE k # 2
        <3>1. k - 1 \in 2 .. N
            BY <1>1, <2>6
        <3>2. head(k) = Seen(p, hd[k]) /\ head(k - 1) = Seen(p, hd[k - 1])
            BY <1>5, <3>1
        <3>3. hd[k] \in Ways /\ hd[k - 1] \in Ways
            BY <1>5, <3>1
        <3>4. head(k) = head(k - 1) <=> hd[k] = hd[k - 1]
            BY <3>2, <3>3, SeenTellsApart
        <3>5. QED
            BY <2>4, <3>4
    <2>7. QED
        BY <2>5, <2>6
<1> HIDE DEF B, hd
<1>9. IsWalk(B, hd, N)
    <2>1. N \in Nat \ {0}
        BY <1>1
    <2>2. \A k \in 2 .. N : hd[k] \in Ways
        BY <1>5
    <2>3. \A k \in 2 .. N : k \in B <=> k - 1 \notin B /\ hd[k] # hd[k - 1]
        BY <1>8
    <2>4. QED
        BY <1>7, <2>1, <2>2, <2>3, Zenon DEF IsWalk
<1>10. QED
    BY <1>9 DEF B, hd, N, f, plan
=============================================================================
