--------------------------- MODULE ScreensProofs ----------------------------
(***************************************************************************)
(* Theorems about the server's idea of the clients' screens, for any       *)
(* number of sessions and hosts, any machines and any motions: the box     *)
(* around monitors and the main one among them, what the backends of       *)
(* Detection make of the outputs of a machine, whose monitors a session    *)
(* has, and where cursor and pointer are.  What is read from wlr-randr's   *)
(* text is not computed here: that it is a list of monitors is an          *)
(* assumption on the machines.                                             *)
(***************************************************************************)
EXTENDS Screens, TLAPS, FiniteSetTheorems, WellFoundedInduction

-----------------------------------------------------------------------------
(* The least of finitely many integers.                                    *)

\* A set of naturals that is not empty has a least element: "<" is well-founded.
LEMMA LeastNatural ==
  ASSUME NEW S \in SUBSET Nat, S # {}
  PROVE  \E k \in S : \A l \in S : k <= l
<1>1. IsWellFoundedOn({ss \in Nat \X Nat : ss[1] < ss[2]}, Nat)
  BY NatLessThanWellFounded DEF OpToRel
<1>2. PICK k \in S : \A l \in S : <<l, k>> \notin {ss \in Nat \X Nat : ss[1] < ss[2]}
  BY WFMin, <1>1
<1>3. ASSUME NEW l \in S PROVE k <= l
  <2>1. <<l, k>> \in Nat \X Nat
    OBVIOUS
  <2>2. ~ (<<l, k>>[1] < <<l, k>>[2])
    BY <1>2, <2>1
  <2>3. l \in Nat /\ k \in Nat
    OBVIOUS
  <2>4. QED
    BY <2>2, <2>3
<1>4. QED
  BY <1>3

\* Every prefix of a list of integers has a least element.
LEMMA PrefixMin ==
  ASSUME NEW n \in Nat, NEW f \in [1..n -> Int], NEW k \in 1..n
  PROVE  \E i \in 1..k : \A j \in 1..k : f[i] <= f[j]
<1>. DEFINE HasMin(m) == \E i \in 1..m : \A j \in 1..m : f[i] <= f[j]
            Bad == {m \in 1..n : ~ HasMin(m)}
<1>1. SUFFICES ASSUME Bad # {} PROVE FALSE
  OBVIOUS
<1>2. Bad \in SUBSET Nat
  OBVIOUS
<1>. HIDE DEF Bad
<1>3. PICK b \in Bad : \A l \in Bad : b <= l
  BY <1>1, <1>2, LeastNatural
<1>. USE DEF Bad
<1>4. b \in 1..n /\ ~ HasMin(b)
  BY <1>3
<1>5. HasMin(1)
  <2>1. 1 \in 1..1 /\ \A j \in 1..1 : f[1] <= f[j]
    BY <1>4
  <2>2. QED
    BY <2>1
<1>6. b - 1 \in 1..n /\ b - 1 \notin Bad
  <2>1. b # 1
    BY <1>4, <1>5
  <2>2. b - 1 \in 1..n
    BY <1>4, <2>1
  <2>3. ~ (b <= b - 1)
    BY <1>4
  <2>4. QED
    <3>. HIDE DEF Bad
    <3>1. QED
      BY <1>3, <2>2, <2>3
<1>7. PICK i \in 1..(b - 1) : \A j \in 1..(b - 1) : f[i] <= f[j]
  BY <1>6
<1>8. CASE f[i] <= f[b]
  <2>1. i \in 1..b /\ \A j \in 1..b : f[i] <= f[j]
    BY <1>4, <1>7, <1>8
  <2>2. QED
    BY <1>4, <2>1
<1>9. CASE ~ (f[i] <= f[b])
  <2>1. b \in 1..b /\ \A j \in 1..b : f[b] <= f[j]
    BY <1>4, <1>7, <1>9
  <2>2. QED
    BY <1>4, <2>1
<1>10. QED
  BY <1>8, <1>9

-----------------------------------------------------------------------------
(* Monitors and their box.                                                 *)

\* What Min yields of the members of a list of integers, and Max.
LEMMA ListMin ==
  ASSUME NEW n \in Nat, n # 0, NEW f \in [1..n -> Int]
  PROVE  LET S == {f[k] : k \in 1..n} IN Min(S) \in Int /\ \A k \in 1..n : Min(S) <= f[k]
<1>. DEFINE S == {f[k] : k \in 1..n}
<1>1. PICK i \in 1..n : \A j \in 1..n : f[i] <= f[j]
  <2>1. n \in 1..n
    OBVIOUS
  <2>2. QED
    BY <2>1, PrefixMin
<1>2. f[i] \in S /\ \A y \in S : f[i] <= y
  BY <1>1
<1>3. Min(S) \in S /\ \A y \in S : Min(S) <= y
  BY <1>2 DEF Min
<1>4. QED
  BY <1>3

LEMMA ListMax ==
  ASSUME NEW n \in Nat, n # 0, NEW f \in [1..n -> Int]
  PROVE  LET S == {f[k] : k \in 1..n} IN Max(S) \in Int /\ \A k \in 1..n : f[k] <= Max(S)
<1>. DEFINE S == {f[k] : k \in 1..n}
            g == [k \in 1..n |-> -f[k]]
<1>1. PICK i \in 1..n : \A j \in 1..n : g[i] <= g[j]
  <2>1. n \in 1..n /\ g \in [1..n -> Int]
    OBVIOUS
  <2>. HIDE DEF g
  <2>2. QED
    BY <2>1, PrefixMin
<1>2. f[i] \in S /\ \A y \in S : y <= f[i]
  BY <1>1
<1>3. Max(S) \in S /\ \A y \in S : y <= Max(S)
  BY <1>2 DEF Max
<1>4. QED
  BY <1>3

\* calculateTotalDisplayBounds: the box holds every monitor, corner to corner.
LEMMA BoxHoldsMonitors ==
  ASSUME NEW list \in Seq(Monitor), list # <<>>, NEW i \in Axes
  PROVE  LET box == CalculateTotalDisplayBounds(list)
         IN /\ box.min[i] \in Int /\ box.max[i] \in Int
            /\ \A k \in DOMAIN list :
                 box.min[i] <= list[k].at[i] /\ FarCorner(list[k])[i] <= box.max[i]
<1>. DEFINE n == Len(list)
            near == [k \in 1..n |-> list[k].at[i]]
            far == [k \in 1..n |-> FarCorner(list[k])[i]]
<1>1. n \in Nat /\ n # 0 /\ DOMAIN list = 1..n
  OBVIOUS
<1>2. \A k \in 1..n : list[k] \in Monitor
  OBVIOUS
<1>3. near \in [1..n -> Int] /\ far \in [1..n -> Int]
  BY <1>2 DEF Monitor, Point, Size, FarCorner
<1>. HIDE DEF n
<1>4. /\ Min({near[k] : k \in 1..n}) \in Int
      /\ \A j \in 1..n : Min({near[k] : k \in 1..n}) <= near[j]
  <2>. HIDE DEF near
  <2>1. QED
    BY <1>1, <1>3, ListMin
<1>5. /\ Max({far[k] : k \in 1..n}) \in Int
      /\ \A j \in 1..n : far[j] <= Max({far[k] : k \in 1..n})
  <2>. HIDE DEF far
  <2>1. QED
    BY <1>1, <1>3, ListMax
<1>6. {near[k] : k \in 1..n} = {list[k].at[i] : k \in DOMAIN list}
  BY <1>1
<1>7. {far[k] : k \in 1..n} = {FarCorner(list[k])[i] : k \in DOMAIN list}
  BY <1>1
<1>8. /\ CalculateTotalDisplayBounds(list).min[i] = Min({near[k] : k \in 1..n})
      /\ CalculateTotalDisplayBounds(list).max[i] = Max({far[k] : k \in 1..n})
  <2>1. /\ CalculateTotalDisplayBounds(list).min[i] = Min({list[k].at[i] : k \in DOMAIN list})
        /\ CalculateTotalDisplayBounds(list).max[i]
             = Max({FarCorner(list[k])[i] : k \in DOMAIN list})
    <3>1. /\ CalculateTotalDisplayBounds(list).min
               = [ax \in Axes |-> Min({list[k].at[ax] : k \in DOMAIN list})]
          /\ CalculateTotalDisplayBounds(list).max
               = [ax \in Axes |-> Max({FarCorner(list[k])[ax] : k \in DOMAIN list})]
      BY DEF CalculateTotalDisplayBounds
    <3>2. QED
      BY <3>1
  <2>. HIDE DEF near, far
  <2>2. QED
    BY <1>6, <1>7, <2>1, Zenon
<1>9. QED
  BY <1>1, <1>4, <1>5, <1>8

LEMMA BoxType ==
  ASSUME NEW list \in Seq(Monitor), list # <<>>
  PROVE  CalculateTotalDisplayBounds(list) \in Bounds
<1>1. \A i \in Axes : /\ CalculateTotalDisplayBounds(list).min[i] \in Int
                      /\ CalculateTotalDisplayBounds(list).max[i] \in Int
  BY BoxHoldsMonitors
<1>2. QED
  BY <1>1 DEF CalculateTotalDisplayBounds, Bounds, Point

LEMMA BoxOrdered ==
  ASSUME NEW list \in Seq(Monitor), list # <<>>, NEW i \in Axes
  PROVE  CalculateTotalDisplayBounds(list).min[i] <= CalculateTotalDisplayBounds(list).max[i]
<1>1. 1 \in DOMAIN list /\ list[1] \in Monitor
  OBVIOUS
<1>2. list[1].at[i] \in Int /\ list[1].size[i] \in Nat
  BY <1>1 DEF Monitor, Point, Size
<1>3. FarCorner(list[1])[i] = list[1].at[i] + list[1].size[i]
  BY DEF FarCorner
<1>4. QED
  BY <1>1, <1>2, <1>3, BoxHoldsMonitors

\* The box of one monitor is the monitor.
LEMMA BoxOfOne ==
  ASSUME NEW m \in Monitor
  PROVE  CalculateTotalDisplayBounds(<<m>>) = [min |-> m.at, max |-> FarCorner(m)]
<1>. DEFINE list == <<m>>
            box == CalculateTotalDisplayBounds(list)
<1>1. list \in Seq(Monitor) /\ list # <<>> /\ DOMAIN list = {1} /\ list[1] = m
  OBVIOUS
<1>2. m.at \in Point /\ FarCorner(m) \in Point
  BY DEF Monitor, Point, Size, FarCorner
<1>3. box \in Bounds
  BY <1>1, BoxType
<1>4. /\ box.min = [ax \in Axes |-> Min({list[k].at[ax] : k \in DOMAIN list})]
      /\ box.max = [ax \in Axes |-> Max({FarCorner(list[k])[ax] : k \in DOMAIN list})]
  BY DEF CalculateTotalDisplayBounds
<1>5. ASSUME NEW x \in Int PROVE Min({x}) = x /\ Max({x}) = x
  BY DEF Min, Max
<1>. HIDE DEF list
<1>6. ASSUME NEW i \in Axes PROVE box.min[i] = m.at[i] /\ box.max[i] = FarCorner(m)[i]
  <2>1. /\ {list[k].at[i] : k \in DOMAIN list} = {m.at[i]}
        /\ {FarCorner(list[k])[i] : k \in DOMAIN list} = {FarCorner(m)[i]}
    BY <1>1
  <2>2. Min({m.at[i]}) = m.at[i] /\ Max({FarCorner(m)[i]}) = FarCorner(m)[i]
    BY <1>2, <1>5 DEF Point
  <2>3. /\ box.min[i] = Min({list[k].at[i] : k \in DOMAIN list})
        /\ box.max[i] = Max({FarCorner(list[k])[i] : k \in DOMAIN list})
    BY <1>4
  <2>4. QED
    BY <2>1, <2>2, <2>3, Zenon
<1>. HIDE DEF box
<1>7. box.min = m.at /\ box.max = FarCorner(m)
  BY <1>2, <1>3, <1>6 DEF Bounds, Point
<1>8. box = [min |-> m.at, max |-> FarCorner(m)]
  BY <1>3, <1>7 DEF Bounds
<1>9. QED
  BY <1>8 DEF box, list

\* Monitors that all have one place and one size fill the box of one.
LEMMA BoxOfSame ==
  ASSUME NEW list \in Seq(Monitor), list # <<>>, NEW at \in Point, NEW size \in Size,
         \A k \in DOMAIN list : list[k].at = at /\ list[k].size = size
  PROVE  CalculateTotalDisplayBounds(list)
           = [min |-> at, max |-> [i \in Axes |-> at[i] + size[i]]]
<1>. DEFINE box == CalculateTotalDisplayBounds(list)
            far == [i \in Axes |-> at[i] + size[i]]
<1>1. 1 \in DOMAIN list
  OBVIOUS
<1>2. at \in Point /\ far \in Point
  BY DEF Point, Size
<1>3. box \in Bounds
  BY BoxType
<1>4. /\ box.min = [ax \in Axes |-> Min({list[k].at[ax] : k \in DOMAIN list})]
      /\ box.max = [ax \in Axes |-> Max({FarCorner(list[k])[ax] : k \in DOMAIN list})]
  BY DEF CalculateTotalDisplayBounds
<1>5. ASSUME NEW x \in Int PROVE Min({x}) = x /\ Max({x}) = x
  BY DEF Min, Max
<1>6. \A k \in DOMAIN list : list[k].at = at /\ FarCorner(list[k]) = far
  BY DEF FarCorner
<1>. HIDE DEF far
<1>7. ASSUME NEW i \in Axes PROVE box.min[i] = at[i] /\ box.max[i] = far[i]
  <2>1. /\ {list[k].at[i] : k \in DOMAIN list} = {at[i]}
        /\ {FarCorner(list[k])[i] : k \in DOMAIN list} = {far[i]}
    BY <1>1, <1>6
  <2>2. Min({at[i]}) = at[i] /\ Max({far[i]}) = far[i]
    BY <1>2, <1>5 DEF Point
  <2>3. /\ box.min[i] = Min({list[k].at[i] : k \in DOMAIN list})
        /\ box.max[i] = Max({FarCorner(list[k])[i] : k \in DOMAIN list})
    BY <1>4
  <2>4. QED
    BY <2>1, <2>2, <2>3, Zenon
<1>. HIDE DEF box
<1>8. box.min = at /\ box.max = far
  BY <1>2, <1>3, <1>7 DEF Bounds, Point
<1>9. box = [min |-> at, max |-> far]
  BY <1>3, <1>8 DEF Bounds
<1>10. QED
  BY <1>9 DEF box, far

\* findMainMonitor: one of the monitors.
LEMMA MainIsOne ==
  ASSUME NEW list \in Seq(Monitor), list # <<>>
  PROVE  \E k \in DOMAIN list : FindMainMonitor(list) = list[k]
<1>1. DOMAIN list \subseteq Nat /\ 1 \in DOMAIN list
  OBVIOUS
<1>2. ASSUME NEW I \in SUBSET DOMAIN list, I # {} PROVE Min(I) \in DOMAIN list
  <2>1. \E k \in I : \A l \in I : k <= l
    BY <1>1, <1>2, LeastNatural
  <2>2. QED
    BY <2>1 DEF Min
<1>3. MarkedPrimary(list) \subseteq DOMAIN list /\ AtOrigin(list) \subseteq DOMAIN list
  BY DEF MarkedPrimary, AtOrigin
<1>4. FirstOf(MarkedPrimary(list), AtOrigin(list)) \in DOMAIN list
  <2>1. CASE MarkedPrimary(list) # {}
    <3>1. Min(MarkedPrimary(list)) \in DOMAIN list
      BY <1>2, <1>3, <2>1
    <3>2. QED
      BY <2>1, <3>1 DEF FirstOf
  <2>2. CASE MarkedPrimary(list) = {} /\ AtOrigin(list) # {}
    <3>1. Min(AtOrigin(list)) \in DOMAIN list
      BY <1>2, <1>3, <2>2
    <3>2. QED
      BY <2>2, <3>1 DEF FirstOf
  <2>3. CASE MarkedPrimary(list) = {} /\ AtOrigin(list) = {}
    BY <1>1, <2>3 DEF FirstOf
  <2>4. QED
    BY <2>1, <2>2, <2>3
<1>5. QED
  BY <1>4 DEF FindMainMonitor

\* positionCursorOnMainMonitor: the centre is in the box.
LEMMA CentreInBox ==
  ASSUME NEW list \in Seq(Monitor), list # <<>>
  PROVE  LET centre == Centre(FindMainMonitor(list))
         IN centre \in Point /\ Within(centre, CalculateTotalDisplayBounds(list))
<1>. DEFINE box == CalculateTotalDisplayBounds(list)
<1>1. PICK k \in DOMAIN list : FindMainMonitor(list) = list[k]
  BY MainIsOne
<1>2. list[k] \in Monitor
  OBVIOUS
<1>3. ASSUME NEW i \in Axes
      PROVE  /\ Centre(list[k])[i] \in Int
             /\ box.min[i] <= Centre(list[k])[i] /\ Centre(list[k])[i] <= box.max[i]
  <2>1. list[k].at[i] \in Int /\ list[k].size[i] \in Nat
    BY <1>2 DEF Monitor, Point, Size
  <2>2. Centre(list[k])[i] = list[k].at[i] + list[k].size[i] \div 2
    BY DEF Centre
  <2>3. FarCorner(list[k])[i] = list[k].at[i] + list[k].size[i]
    BY DEF FarCorner
  <2>4. box.min[i] \in Int /\ box.max[i] \in Int /\ box.min[i] <= list[k].at[i]
        /\ FarCorner(list[k])[i] <= box.max[i]
    BY BoxHoldsMonitors
  <2>. HIDE DEF box
  <2>5. PICK n \in Nat, a \in Int, low \in Int, high \in Int :
          /\ n = list[k].size[i] /\ a = list[k].at[i]
          /\ low = box.min[i] /\ high = box.max[i]
    BY <2>1, <2>4
  <2>6. n \div 2 \in Int /\ 0 <= n \div 2 /\ n \div 2 <= n
    OBVIOUS
  <2>7. low <= a /\ a + n <= high
    BY <2>3, <2>4, <2>5
  <2>8. Centre(list[k])[i] = a + n \div 2
    BY <2>2, <2>5
  <2>9. a + n \div 2 \in Int /\ low <= a + n \div 2 /\ a + n \div 2 <= high
    BY <2>6, <2>7
  <2>10. QED
    BY <2>5, <2>8, <2>9
<1>4. Centre(list[k]) = [i \in Axes |-> Centre(list[k])[i]]
  BY DEF Centre
<1>5. QED
  BY <1>1, <1>3, <1>4 DEF Within, Point

\* constrainCursorPosition: the result is in every box that is one.
LEMMA ConstrainedWithin ==
  ASSUME NEW p \in Point, NEW box \in Bounds, \A i \in Axes : box.min[i] <= box.max[i]
  PROVE  ConstrainCursorPosition(p, box) \in Point /\ Within(ConstrainCursorPosition(p, box), box)
<1>1. box.min \in Point /\ box.max \in Point
  BY DEF Bounds
<1>2. \A i \in Axes : p[i] \in Int /\ box.min[i] \in Int /\ box.max[i] \in Int
  BY <1>1 DEF Point
<1>3. QED
  BY <1>2 DEF ConstrainCursorPosition, Within, Point

-----------------------------------------------------------------------------
(* The members of a list that are picked.                                  *)

Rank(I, i) == Cardinality({j \in I : j < i})

LEMMA Part ==
  ASSUME NEW n \in Nat, NEW I \in SUBSET (1..n)
  PROVE  IsFiniteSet(I) /\ Cardinality(I) \in Nat
<1>1. 1 \in Int /\ n \in Int
  OBVIOUS
<1>2. IsFiniteSet(1..n)
  BY <1>1, FS_Interval
<1>3. IsFiniteSet(I)
  BY <1>2, FS_Subset
<1>4. QED
  BY <1>3, FS_CardinalityType

\* A position has fewer before it than there are, and a later one has more.
LEMMA RankGrows ==
  ASSUME NEW n \in Nat, NEW I \in SUBSET (1..n), NEW i \in I
  PROVE  /\ Rank(I, i) \in 0..(Cardinality(I) - 1)
         /\ \A j \in I : j < i => Rank(I, j) < Rank(I, i)
<1>1. ASSUME NEW T \in SUBSET I, NEW U \in SUBSET T, NEW x \in T, x \notin U
      PROVE  Cardinality(U) \in Nat /\ Cardinality(T) \in Nat /\ Cardinality(U) < Cardinality(T)
  <2>1. IsFiniteSet(T) /\ IsFiniteSet(U) /\ Cardinality(U) \in Nat /\ Cardinality(T) \in Nat
    BY Part, FS_Subset, FS_CardinalityType
  <2>2. Cardinality(U) <= Cardinality(T) /\ Cardinality(T) # Cardinality(U)
    BY <1>1, <2>1, FS_Subset
  <2>3. QED
    BY <2>1, <2>2
<1>2. i \in Nat /\ ~ (i < i)
  OBVIOUS
<1>3. i \notin {j \in I : j < i}
  BY <1>2
<1>4. Rank(I, i) \in Nat /\ Cardinality(I) \in Nat /\ Rank(I, i) < Cardinality(I)
  BY <1>1, <1>3 DEF Rank
<1>5. ASSUME NEW j \in I, j < i PROVE Rank(I, j) < Rank(I, i)
  <2>1. {l \in I : l < j} \subseteq {l \in I : l < i}
    <3>1. \A l \in I : l \in Int
      OBVIOUS
    <3>2. ASSUME NEW l \in I, l < j PROVE l < i
      <4>1. l \in Int /\ j \in Int /\ i \in Int
        BY <3>1
      <4>2. QED
        BY <4>1, <3>2, <1>5
    <3>3. QED
      BY <3>2
  <2>2. j \in {l \in I : l < i} /\ j \notin {l \in I : l < j}
    BY <1>5
  <2>3. QED
    BY <1>1, <2>1, <2>2 DEF Rank
<1>6. QED
  BY <1>4, <1>5

LEMMA RankIsUnique ==
  ASSUME NEW n \in Nat, NEW I \in SUBSET (1..n), NEW i \in I, NEW j \in I, Rank(I, i) = Rank(I, j)
  PROVE  i = j
<1>1. i \in Int /\ j \in Int
  OBVIOUS
<1>2. Cardinality(I) \in Nat /\ Rank(I, i) \in 0..(Cardinality(I) - 1)
  BY Part, RankGrows
<1>3. ~ (Rank(I, i) < Rank(I, i))
  BY <1>2
<1>4. ~ (i < j) /\ ~ (j < i)
  BY <1>3, RankGrows
<1>5. QED
  BY <1>1, <1>4

\* Every rank is some position's: there are as many ranks as positions.
LEMMA RankIsTaken ==
  ASSUME NEW n \in Nat, NEW I \in SUBSET (1..n), NEW k \in 1..Cardinality(I)
  PROVE  \E i \in I : Rank(I, i) = k - 1
<1>. DEFINE c == Cardinality(I)
            rank == [i \in I |-> Rank(I, i)]
<1>1. IsFiniteSet(I) /\ c \in Nat
  BY Part
<1>2. rank \in Injection(I, 0..(c - 1))
  <2>1. rank \in [I -> 0..(c - 1)]
    BY RankGrows
  <2>2. \A i, j \in I : rank[i] = rank[j] => i = j
    BY RankIsUnique
  <2>3. QED
    BY <2>1, <2>2 DEF Injection, IsInjective
<1>3. IsFiniteSet(0..(c - 1)) /\ Cardinality(0..(c - 1)) = c
  <2>1. 0 \in Int /\ c - 1 \in Int
    BY <1>1
  <2>2. /\ IsFiniteSet(0..(c - 1))
        /\ Cardinality(0..(c - 1)) = IF 0 > c - 1 THEN 0 ELSE (c - 1) - 0 + 1
    BY <2>1, FS_Interval
  <2>3. QED
    BY <1>1, <2>2
<1>4. rank \in Surjection(I, 0..(c - 1))
  BY <1>1, <1>2, <1>3, FS_Injection
<1>5. k - 1 \in 0..(c - 1)
  BY <1>1
<1>6. PICK i \in I : rank[i] = k - 1
  BY <1>4, <1>5 DEF Surjection
<1>7. QED
  BY <1>6

\* What is picked is the members at the positions, all of them and no other.
LEMMA Picked ==
  ASSUME NEW list, NEW n \in Nat, NEW I \in SUBSET (1..n)
  PROVE  /\ Cardinality(I) \in Nat /\ DOMAIN Pick(list, I) = 1..Cardinality(I)
         /\ \A k \in DOMAIN Pick(list, I) : \E i \in I : Pick(list, I)[k] = list[i]
         /\ \A i \in I : \E k \in DOMAIN Pick(list, I) : Pick(list, I)[k] = list[i]
<1>. DEFINE nth(k) == CHOOSE i \in I : Rank(I, i) = k - 1
<1>1. Cardinality(I) \in Nat
  BY Part
<1>2. Pick(list, I) = [k \in 1..Cardinality(I) |-> list[nth(k)]]
  BY DEF Pick, Rank
<1>3. \A k \in 1..Cardinality(I) : nth(k) \in I /\ Rank(I, nth(k)) = k - 1
  BY RankIsTaken
<1>. HIDE DEF nth
<1>4. ASSUME NEW i \in I PROVE \E k \in 1..Cardinality(I) : Pick(list, I)[k] = list[i]
  <2>1. Rank(I, i) + 1 \in 1..Cardinality(I) /\ Rank(I, i) \in Nat
    <3>1. Rank(I, i) \in 0..(Cardinality(I) - 1)
      BY RankGrows
    <3>2. QED
      BY <1>1, <3>1
  <2>2. nth(Rank(I, i) + 1) \in I /\ Rank(I, nth(Rank(I, i) + 1)) = Rank(I, i)
    BY <1>3, <2>1
  <2>3. nth(Rank(I, i) + 1) = i
    BY <2>2, RankIsUnique
  <2>4. QED
    BY <1>2, <2>1, <2>3
<1>5. QED
  BY <1>1, <1>2, <1>3, <1>4

-----------------------------------------------------------------------------
(* What the backends of Detection make of the outputs of a machine.        *)

LEMMA FunctionIsList ==
  ASSUME NEW T, NEW n \in Nat, NEW f \in [1..n -> T]
  PROVE  f \in Seq(T)
OBVIOUS

LEMMA PickOfList ==
  ASSUME NEW T, NEW list \in Seq(T), NEW I, I \subseteq DOMAIN list
  PROVE  /\ Pick(list, I) \in Seq(T)
         /\ \A k \in DOMAIN Pick(list, I) : \E i \in I : Pick(list, I)[k] = list[i]
         /\ \A i \in I : \E k \in DOMAIN Pick(list, I) : Pick(list, I)[k] = list[i]
<1>1. I \in SUBSET (1..Len(list)) /\ Len(list) \in Nat
  OBVIOUS
<1>2. /\ Cardinality(I) \in Nat /\ DOMAIN Pick(list, I) = 1..Cardinality(I)
      /\ \A k \in DOMAIN Pick(list, I) : \E i \in I : Pick(list, I)[k] = list[i]
      /\ \A i \in I : \E k \in DOMAIN Pick(list, I) : Pick(list, I)[k] = list[i]
  BY <1>1, Picked
<1>3. \A k \in 1..Cardinality(I) : Pick(list, I)[k] \in T
  BY <1>1, <1>2
<1>4. Pick(list, I) \in [1..Cardinality(I) -> T]
  BY <1>2, <1>3 DEF Pick
<1>5. Pick(list, I) \in Seq(T)
  BY <1>2, <1>4, FunctionIsList
<1>6. QED
  BY <1>2, <1>5

\* A monitor shows an enabled output, and the enabled outputs that a list shows.
ShowsOne(mon, outputs, o) ==
  outputs[o].enabled /\ mon.at = outputs[o].at /\ mon.size = outputs[o].size
ShowsOutputs(list, outputs) ==
  \A k \in DOMAIN list : \E o \in DOMAIN outputs : ShowsOne(list[k], outputs, o)
ShowsAll(list, outputs) ==
  \A o \in DOMAIN outputs : outputs[o].enabled =>
    \E k \in DOMAIN list : ShowsOne(list[k], outputs, o)

Outputs(outputs) ==
  /\ outputs \in Seq(Output)
  /\ \A k \in DOMAIN outputs : outputs[k].enabled <=> \A i \in Axes : outputs[k].size[i] > 0

\* Without scale and transform, an output is shown as its mode is.
LEMMA PlainAsShown ==
  ASSUME NEW outputs \in Seq(Output),
         \A k \in DOMAIN outputs : outputs[k].shown = outputs[k].size
  PROVE  AsShown(outputs) = outputs
<1>1. ASSUME NEW k \in DOMAIN outputs
      PROVE  [outputs[k] EXCEPT !.size = outputs[k].shown] = outputs[k]
  <2>1. outputs[k] \in Output /\ outputs[k].shown = outputs[k].size
    OBVIOUS
  <2>2. QED
    BY <2>1 DEF Output
<1>2. outputs = [k \in DOMAIN outputs |-> outputs[k]]
  OBVIOUS
<1>3. QED
  BY <1>1, <1>2 DEF AsShown

\* Monitors that are made of outputs, in their order, have the places and sizes of these.
Places(mons, outputs) ==
  /\ mons \in Seq(Monitor) /\ DOMAIN mons = DOMAIN outputs
  /\ \A k \in DOMAIN outputs : mons[k].at = outputs[k].at /\ mons[k].size = outputs[k].size

LEMMA MonitorsType ==
  ASSUME NEW outputs \in Seq(Output)
  PROVE  Places(AsMonitors(outputs), outputs)
<1>1. DOMAIN outputs = 1..Len(outputs) /\ Len(outputs) \in Nat
  OBVIOUS
<1>2. ASSUME NEW k \in DOMAIN outputs PROVE AsMonitor(outputs[k]) \in Monitor
  <2>1. outputs[k] \in Output
    BY <1>1
  <2>2. QED
    BY <2>1 DEF Output, Monitor, AsMonitor
<1>3. AsMonitors(outputs) = [k \in 1..Len(outputs) |-> AsMonitor(outputs[k])]
  BY <1>1 DEF AsMonitors
<1>4. AsMonitors(outputs) \in Seq(Monitor)
  BY <1>1, <1>2, <1>3
<1>5. QED
  BY <1>1, <1>3, <1>4 DEF AsMonitor, Places

\* The enabled outputs alone.
LEMMA EnabledOutputs ==
  ASSUME NEW outputs, Outputs(outputs)
  PROVE  /\ Outputs(EnabledOnly(outputs))
         /\ \A k \in DOMAIN EnabledOnly(outputs) :
              \E o \in DOMAIN outputs : outputs[o].enabled /\ EnabledOnly(outputs)[k] = outputs[o]
         /\ \A o \in DOMAIN outputs : outputs[o].enabled =>
              \E k \in DOMAIN EnabledOnly(outputs) : EnabledOnly(outputs)[k] = outputs[o]
<1>. DEFINE I == {i \in DOMAIN outputs : outputs[i].enabled}
<1>1. EnabledOnly(outputs) = Pick(outputs, I)
  BY DEF EnabledOnly, Only, IsOn
<1>2. outputs \in Seq(Output) /\ DOMAIN outputs = 1..Len(outputs) /\ Len(outputs) \in Nat
  BY DEF Outputs
<1>4. I \subseteq DOMAIN outputs
  OBVIOUS
<1>. HIDE DEF I
<1>3. /\ Pick(outputs, I) \in Seq(Output)
      /\ \A k \in DOMAIN Pick(outputs, I) : \E i \in I : Pick(outputs, I)[k] = outputs[i]
      /\ \A i \in I : \E k \in DOMAIN Pick(outputs, I) : Pick(outputs, I)[k] = outputs[i]
  BY <1>2, <1>4, PickOfList
<1>5. Outputs(Pick(outputs, I))
  BY <1>3, <1>4 DEF Outputs
<1>6. QED
  BY <1>1, <1>3, <1>5 DEF I

\* Those that have a size show the enabled outputs, and all of them.
LEMMA SizedOutputs ==
  ASSUME NEW outputs, Outputs(outputs), NEW mons, Places(mons, outputs)
  PROVE  LET list == Only(mons, HasSize)
         IN /\ list \in Seq(Monitor)
            /\ ShowsOutputs(list, outputs) /\ ShowsAll(list, outputs)
<1>. DEFINE I == {i \in DOMAIN mons : HasSize(mons[i])}
<1>1. Only(mons, HasSize) = Pick(mons, I)
  BY DEF Only
<1>3. /\ mons \in Seq(Monitor) /\ DOMAIN mons = DOMAIN outputs
      /\ \A k \in DOMAIN outputs : mons[k].at = outputs[k].at /\ mons[k].size = outputs[k].size
  BY DEF Places
<1>4. \A k \in DOMAIN outputs : outputs[k].enabled <=> k \in I
  BY <1>3 DEF Outputs, HasSize
<1>5. I \subseteq DOMAIN mons
  OBVIOUS
<1>. HIDE DEF I
<1>6. /\ Pick(mons, I) \in Seq(Monitor)
      /\ \A k \in DOMAIN Pick(mons, I) : \E i \in I : Pick(mons, I)[k] = mons[i]
      /\ \A i \in I : \E k \in DOMAIN Pick(mons, I) : Pick(mons, I)[k] = mons[i]
  BY <1>3, <1>5, PickOfList
<1>8. ShowsOutputs(Pick(mons, I), outputs)
  <2>1. ASSUME NEW k \in DOMAIN Pick(mons, I)
        PROVE  \E o \in DOMAIN outputs : ShowsOne(Pick(mons, I)[k], outputs, o)
    <3>1. PICK i \in I : Pick(mons, I)[k] = mons[i]
      BY <1>6
    <3>2. i \in DOMAIN outputs
      BY <1>3, <1>5
    <3>3. QED
      BY <1>3, <1>4, <3>1, <3>2 DEF ShowsOne
  <2>2. QED
    BY <2>1 DEF ShowsOutputs
<1>9. ShowsAll(Pick(mons, I), outputs)
  <2>1. ASSUME NEW o \in DOMAIN outputs, outputs[o].enabled
        PROVE  \E k \in DOMAIN Pick(mons, I) : ShowsOne(Pick(mons, I)[k], outputs, o)
    <3>1. o \in I
      BY <1>4, <2>1
    <3>2. PICK k \in DOMAIN Pick(mons, I) : Pick(mons, I)[k] = mons[o]
      BY <1>6, <3>1
    <3>3. QED
      BY <1>3, <2>1, <3>2 DEF ShowsOne
  <2>2. QED
    BY <2>1 DEF ShowsAll
<1>10. QED
  BY <1>1, <1>6, <1>8, <1>9

\* Marks change no place and no size.
LEMMA MarkedPlaces ==
  ASSUME NEW mons, NEW outputs, Places(mons, outputs), NEW i
  PROVE  Places(Marked(mons, i), outputs)
<1>1. /\ DOMAIN mons = 1..Len(mons) /\ Len(mons) \in Nat
      /\ \A k \in DOMAIN mons : mons[k] \in Monitor
  BY DEF Places
<1>2. DOMAIN Marked(mons, i) = DOMAIN mons
  BY DEF Marked
<1>3. ASSUME NEW k \in DOMAIN mons
      PROVE  /\ Marked(mons, i)[k] \in Monitor
             /\ Marked(mons, i)[k].at = mons[k].at /\ Marked(mons, i)[k].size = mons[k].size
  <2>1. mons[k] \in Monitor
    BY <1>1
  <2>2. Marked(mons, i)[k] = mons[k] \/ Marked(mons, i)[k] = [mons[k] EXCEPT !.primary = TRUE]
    BY DEF Marked
  <2>3. QED
    BY <2>1, <2>2 DEF Monitor
<1>4. Marked(mons, i) \in [1..Len(mons) -> Monitor]
  BY <1>1, <1>2, <1>3 DEF Marked
<1>5. Marked(mons, i) \in Seq(Monitor)
  BY <1>1, <1>4, FunctionIsList
<1>6. QED
  BY <1>2, <1>3, <1>5 DEF Places

LEMMA JsonPlaces ==
  ASSUME NEW mons, NEW outputs, Places(mons, outputs)
  PROVE  Places(MarkForJson(mons), outputs)
<1>1. CASE MarkedPrimary(mons) # {}
  BY <1>1 DEF MarkForJson
<1>2. CASE MarkedPrimary(mons) = {} /\ AtOrigin(mons) # {}
  <2>1. MarkForJson(mons) = Marked(Marked(mons, Min(AtOrigin(mons))), 1)
    BY <1>2 DEF MarkForJson
  <2>2. QED
    BY <2>1, MarkedPlaces
<1>3. CASE MarkedPrimary(mons) = {} /\ AtOrigin(mons) = {}
  <2>1. MarkForJson(mons) = Marked(mons, 1)
    BY <1>3 DEF MarkForJson
  <2>2. QED
    BY <2>1, MarkedPlaces
<1>4. QED
  BY <1>1, <1>2, <1>3

LEMMA DeterminedPlaces ==
  ASSUME NEW mons, NEW outputs, Places(mons, outputs)
  PROVE  Places(DeterminePrimaryMonitor(mons), outputs)
<1>. DEFINE list == DeterminePrimaryMonitor(mons)
<1>1. /\ DOMAIN mons = 1..Len(mons) /\ Len(mons) \in Nat
      /\ \A k \in DOMAIN mons : mons[k] \in Monitor
  BY DEF Places
<1>2. DOMAIN list = DOMAIN mons
  BY DEF DeterminePrimaryMonitor
<1>3. ASSUME NEW k \in DOMAIN mons
      PROVE  list[k] \in Monitor /\ list[k].at = mons[k].at /\ list[k].size = mons[k].size
  <2>1. mons[k] \in Monitor
    BY <1>1
  <2>2. PICK p \in BOOLEAN : list[k] = [mons[k] EXCEPT !.primary = p]
    BY DEF DeterminePrimaryMonitor
  <2>3. QED
    BY <2>1, <2>2 DEF Monitor
<1>4. list \in [1..Len(mons) -> Monitor]
  BY <1>1, <1>2, <1>3 DEF DeterminePrimaryMonitor
<1>5. list \in Seq(Monitor)
  BY <1>1, <1>4, FunctionIsList
<1>. HIDE DEF list
<1>6. Places(list, outputs)
  BY <1>2, <1>3, <1>5 DEF Places
<1>7. QED
  BY <1>6 DEF list

\* What shows some of the enabled outputs alone shows some of the outputs.
LEMMA ShowsEnabled ==
  ASSUME NEW outputs, Outputs(outputs), NEW list
  PROVE  /\ ShowsOutputs(list, EnabledOnly(outputs)) => ShowsOutputs(list, outputs)
         /\ ShowsAll(list, EnabledOnly(outputs)) => ShowsAll(list, outputs)
<1>. DEFINE few == EnabledOnly(outputs)
<1>1. /\ \A k \in DOMAIN few : \E o \in DOMAIN outputs : outputs[o].enabled /\ few[k] = outputs[o]
      /\ \A o \in DOMAIN outputs : outputs[o].enabled => \E k \in DOMAIN few : few[k] = outputs[o]
  BY EnabledOutputs
<1>. HIDE DEF few
<1>2. ASSUME ShowsOutputs(list, few) PROVE ShowsOutputs(list, outputs)
  BY <1>1, <1>2 DEF ShowsOutputs, ShowsOne
<1>3. ASSUME ShowsAll(list, few) PROVE ShowsAll(list, outputs)
  BY <1>1, <1>3 DEF ShowsAll, ShowsOne
<1>4. QED
  BY <1>2, <1>3 DEF few

\* A list with the places of the enabled outputs alone shows them, and all of them.
LEMMA EnabledShown ==
  ASSUME NEW outputs, Outputs(outputs), NEW list, Places(list, EnabledOnly(outputs))
  PROVE  ShowsOutputs(list, outputs) /\ ShowsAll(list, outputs)
<1>. DEFINE few == EnabledOnly(outputs)
<1>1. \A k \in DOMAIN few : few[k].enabled
  BY EnabledOutputs
<1>2. DOMAIN list = DOMAIN few
      /\ \A k \in DOMAIN few : list[k].at = few[k].at /\ list[k].size = few[k].size
  BY DEF Places
<1>. HIDE DEF few
<1>3. ShowsOutputs(list, few) /\ ShowsAll(list, few)
  BY <1>1, <1>2 DEF ShowsOutputs, ShowsAll, ShowsOne
<1>4. QED
  BY <1>3, ShowsEnabled DEF few

\* The compositor's answer has room for MaxOutputs outputs.
LEMMA SomeHeads ==
  ASSUME NEW outputs, Outputs(outputs)
  PROVE  /\ Outputs(Heads(outputs))
         /\ \A list : ShowsOutputs(list, Heads(outputs)) => ShowsOutputs(list, outputs)
         /\ Len(outputs) <= MaxOutputs => Heads(outputs) = outputs
<1>1. outputs \in Seq(Output) /\ Len(outputs) \in Nat /\ DOMAIN outputs = 1..Len(outputs)
  BY DEF Outputs
<1>2. CASE ~ (Len(outputs) > MaxOutputs)
  BY <1>2 DEF Heads
<1>3. CASE Len(outputs) > MaxOutputs
  <2>1. Heads(outputs) = SubSeq(outputs, 1, MaxOutputs)
    BY <1>3 DEF Heads
  <2>2. MaxOutputs \in Nat /\ MaxOutputs < Len(outputs)
    BY <1>1, <1>3, MaxOutputsAssumption
  <2>3. /\ Heads(outputs) \in Seq(Output) /\ DOMAIN Heads(outputs) = 1..MaxOutputs
        /\ \A k \in 1..MaxOutputs : Heads(outputs)[k] = outputs[k]
    BY <1>1, <2>1, <2>2
  <2>4. 1..MaxOutputs \subseteq DOMAIN outputs
    BY <1>1, <2>2
  <2>5. Outputs(Heads(outputs))
    BY <2>3, <2>4 DEF Outputs
  <2>6. ASSUME NEW list, ShowsOutputs(list, Heads(outputs)) PROVE ShowsOutputs(list, outputs)
    BY <2>3, <2>4, <2>6 DEF ShowsOutputs, ShowsOne
  <2>7. ~ (Len(outputs) <= MaxOutputs)
    BY <1>1, <2>2
  <2>8. QED
    BY <2>5, <2>6, <2>7
<1>4. QED
  BY <1>2, <1>3

\* "randr" is never chosen: it can be made only if "portal" can, which is tried before.
LEMMA RandrIsNeverChosen ==
  ASSUME NEW m
  PROVE  /\ Chosen(m) \in {"none", "sudo", "wlrOutputManagement", "wlrCgo", "wlrRandr", "portal"}
<1>. DEFINE able == {i \in DOMAIN Preference : CanBeMade(Preference[i], m)}
<1>1. DOMAIN Preference = 1..6
  BY DEF Preference
<1>2. CASE able = {}
  BY <1>2 DEF Chosen
<1>3. CASE able # {}
  <2>1. Chosen(m) = Preference[Min(able)]
    BY <1>3 DEF Chosen
  <2>2. able \subseteq 1..6 /\ able \subseteq Nat
    BY <1>1
  <2>3. 6 \in able => 5 \in able
    BY <1>1 DEF Preference, CanBeMade
  <2>. HIDE DEF able
  <2>4. \E k \in able : \A l \in able : k <= l
    BY <1>3, <2>2, LeastNatural
  <2>5. Min(able) \in able /\ \A l \in able : Min(able) <= l
    BY <2>4 DEF Min
  <2>6. Min(able) \in 1..5
    <3>1. Min(able) # 6
      BY <2>3, <2>5
    <3>2. Min(able) \in 1..6
      BY <2>2, <2>5
    <3>3. QED
      BY <3>1, <3>2
  <2>7. Preference[Min(able)] \in {"sudo", "wlrOutputManagement", "wlrCgo", "wlrRandr", "portal"}
    BY <2>6 DEF Preference
  <2>8. QED
    BY <2>1, <2>7
<1>4. QED
  BY <1>2, <1>3

\* The backends that ask for more than xrandr's list or wlr-randr's text find enabled
\* outputs only, and, up to MaxOutputs, all of them.
LEMMA DetectedAreOutputs ==
  ASSUME NEW m, OutputsOK(m), NEW list \in Detect(m), Chosen(m) # "portal",
         m.json \/ Chosen(m) # "wlrRandr"
  PROVE  /\ list \in Seq(Monitor)
         /\ ShowsOutputs(list, m.outputs)
         /\ Len(m.outputs) <= MaxOutputs => ShowsAll(list, m.outputs)
<1>. DEFINE outputs == m.outputs
<1>1. Outputs(outputs)
  BY DEF OutputsOK, Outputs
<1>2. Chosen(m) # "none" /\ list \in GetMonitors(Chosen(m), m)
  BY DEF Detect, Error
<1>. HIDE DEF outputs
<1>3. CASE Chosen(m) = "sudo"
  <2>1. list \in Sudo(m)
    BY <1>2, <1>3 DEF GetMonitors
  <2>2. list = Only(AsMonitors(outputs), HasSize)
    BY <2>1 DEF Sudo, NonEmpty, Error, outputs
  <2>3. Places(AsMonitors(outputs), outputs)
    BY <1>1, MonitorsType DEF Outputs
  <2>4. QED
    BY <1>1, <2>2, <2>3, SizedOutputs DEF outputs
<1>4. CASE Chosen(m) = "wlrOutputManagement"
  <2>1. list \in WlrOutputManagement(m)
    BY <1>2, <1>4 DEF GetMonitors
  <2>2. list = DeterminePrimaryMonitor(AsMonitors(EnabledOnly(Heads(outputs))))
    BY <2>1 DEF WlrOutputManagement, Error, outputs
  <2>3. Outputs(Heads(outputs))
    BY <1>1, SomeHeads
  <2>4. EnabledOnly(Heads(outputs)) \in Seq(Output)
    BY <2>3, EnabledOutputs DEF Outputs
  <2>5. Places(list, EnabledOnly(Heads(outputs)))
    BY <2>2, <2>4, MonitorsType, DeterminedPlaces
  <2>6. ShowsOutputs(list, Heads(outputs)) /\ ShowsAll(list, Heads(outputs))
    BY <2>3, <2>5, EnabledShown
  <2>7. QED
    BY <1>1, <2>5, <2>6, SomeHeads DEF outputs, Places
<1>5. CASE Chosen(m) = "wlrCgo"
  <2>. DEFINE heads == Heads(outputs)
              found == [i \in DOMAIN heads |->
                         [AsMonitor(heads[i]) EXCEPT !.primary = i = 1 \/ heads[i].at = Origin]]
  <2>1. list \in WlrCgo(m)
    BY <1>2, <1>5 DEF GetMonitors
  <2>2. list = Only(found, HasSize)
    BY <2>1 DEF WlrCgo, NonEmpty, Error, outputs
  <2>3. Outputs(heads)
    BY <1>1, SomeHeads
  <2>. HIDE DEF heads
  <2>4. /\ DOMAIN heads = 1..Len(heads) /\ Len(heads) \in Nat
        /\ \A k \in DOMAIN heads : heads[k] \in Output
    BY <2>3 DEF Outputs
  <2>5. ASSUME NEW k \in DOMAIN heads
        PROVE  found[k] \in Monitor /\ found[k].at = heads[k].at /\ found[k].size = heads[k].size
    <3>1. heads[k] \in Output
      BY <2>4
    <3>2. PICK p \in BOOLEAN : found[k] = [AsMonitor(heads[k]) EXCEPT !.primary = p]
      OBVIOUS
    <3>3. QED
      BY <3>1, <3>2 DEF AsMonitor, Output, Monitor
  <2>6. found \in [1..Len(heads) -> Monitor]
    BY <2>4, <2>5
  <2>7. found \in Seq(Monitor)
    BY <2>4, <2>6, FunctionIsList
  <2>8. DOMAIN found = DOMAIN heads
    OBVIOUS
  <2>. HIDE DEF found
  <2>9. Places(found, heads)
    BY <2>5, <2>7, <2>8 DEF Places
  <2>10. list \in Seq(Monitor) /\ ShowsOutputs(list, heads) /\ ShowsAll(list, heads)
    BY <2>2, <2>3, <2>9, SizedOutputs
  <2>11. QED
    BY <1>1, <2>10, SomeHeads DEF outputs, heads
<1>6. CASE Chosen(m) = "wlrRandr"
  <2>. DEFINE few == EnabledOnly(outputs)
              sized == Only(AsMonitors(few), HasSize)
  <2>1. list \in WlrRandrJson(m)
    BY <1>2, <1>6 DEF GetMonitors, WlrRandr, Error
  <2>2. list = MarkForJson(sized)
    BY <2>1 DEF WlrRandrJson, NonEmpty, Error, outputs
  <2>3. Outputs(few)
    BY <1>1, EnabledOutputs
  <2>4. Places(AsMonitors(few), few)
    BY <2>3, MonitorsType DEF Outputs
  <2>5. sized \in Seq(Monitor) /\ ShowsOutputs(sized, few) /\ ShowsAll(sized, few)
    BY <2>3, <2>4, SizedOutputs
  <2>. HIDE DEF sized
  <2>6. Places(sized, sized)
    BY <2>5 DEF Places
  <2>7. Places(list, sized)
    BY <2>2, <2>6, JsonPlaces
  <2>8. ShowsOutputs(list, few) /\ ShowsAll(list, few)
    BY <2>5, <2>7 DEF Places, ShowsOutputs, ShowsAll, ShowsOne
  <2>9. QED
    BY <1>1, <2>7, <2>8, ShowsEnabled DEF outputs, Places
<1>7. QED
  BY <1>2, <1>3, <1>4, <1>5, <1>6, RandrIsNeverChosen

\* Every backend but the one that reads wlr-randr's text finds monitors.
LEMMA DetectedAreMonitors ==
  ASSUME NEW m, OutputsOK(m), m.json \/ Chosen(m) # "wlrRandr"
  PROVE  Detect(m) \subseteq Seq(Monitor)
<1>1. SUFFICES ASSUME NEW list \in Detect(m) PROVE list \in Seq(Monitor)
  OBVIOUS
<1>2. CASE Chosen(m) = "portal"
  <2>1. list \in XRandr(m)
    BY <1>2 DEF Detect, GetMonitors
  <2>2. list = AsMonitors(m.outputs)
    BY <2>1 DEF XRandr, NonEmpty, Error
  <2>3. QED
    BY <2>2, MonitorsType DEF OutputsOK, Places
<1>3. CASE Chosen(m) # "portal"
  BY <1>3, DetectedAreOutputs
<1>4. QED
  BY <1>2, <1>3

\* What the compositor shows are the enabled outputs, all of them.
LEMMA LayoutShows ==
  ASSUME NEW m, OutputsOK(m)
  PROVE  LET layout == Only(AsMonitors(EnabledOnly(m.outputs)), HasSize)
         IN /\ layout \in Seq(Monitor)
            /\ ShowsOutputs(layout, m.outputs) /\ ShowsAll(layout, m.outputs)
<1>. DEFINE few == EnabledOnly(m.outputs)
<1>1. Outputs(m.outputs)
  BY DEF OutputsOK, Outputs
<1>2. Outputs(few)
  BY <1>1, EnabledOutputs
<1>3. Places(AsMonitors(few), few)
  BY <1>2, MonitorsType DEF Outputs
<1>4. LET layout == Only(AsMonitors(few), HasSize)
      IN layout \in Seq(Monitor) /\ ShowsOutputs(layout, few) /\ ShowsAll(layout, few)
  BY <1>2, <1>3, SizedOutputs
<1>5. QED
  BY <1>1, <1>4, ShowsEnabled

\* Where the only screen is detected, there is no other: not for what wlr-randr's text is
\* made into, nor beyond the outputs that the compositor's answer has room for.
LEMMA SoleIsAll ==
  ASSUME NEW m \in Known, OutputsOK(m), Len(m.outputs) <= MaxOutputs,
         m.json \/ Chosen(m) # "wlrRandr"
  PROVE  SoleScreenIsAll(m)
<1>. DEFINE layout == Only(AsMonitors(EnabledOnly(m.outputs)), HasSize)
<1>0. Plain(m) => AsShown(m.outputs) = m.outputs
  BY PlainAsShown DEF Plain, OutputsOK
<1>1. SUFFICES ASSUME SoleScreen \in Detect(m)
               PROVE  /\ layout # <<>>
                      /\ CalculateTotalDisplayBounds(layout) = [min |-> Origin, max |-> Extent]
  BY <1>0 DEF SoleScreenIsAll, Detected, LayoutOf
<1>2. /\ DOMAIN SoleScreen = {1}
      /\ SoleScreen[1].at = Origin /\ SoleScreen[1].size = Extent
      /\ \A i \in Axes : Extent[i] \in Nat /\ Extent[i] > 0
  BY ExtentAssumption DEF SoleScreen
<1>3. Outputs(m.outputs)
  BY DEF OutputsOK, Outputs
<1>4. ShowsOutputs(SoleScreen, m.outputs) /\ ShowsAll(SoleScreen, m.outputs)
  <2>1. CASE Chosen(m) = "portal"
    <3>1. SoleScreen \in XRandr(m)
      BY <1>1, <2>1 DEF Detect, GetMonitors
    <3>2. SoleScreen = AsMonitors(m.outputs)
      BY <3>1 DEF XRandr, NonEmpty, Error
    <3>3. Places(SoleScreen, m.outputs)
      BY <1>3, <3>2, MonitorsType DEF Outputs
    <3>4. DOMAIN m.outputs = {1} /\ m.outputs[1].at = Origin /\ m.outputs[1].size = Extent
      BY <1>2, <3>3 DEF Places
    <3>5. m.outputs[1].enabled
      BY <1>2, <1>3, <3>4 DEF Outputs
    <3>6. QED
      BY <1>2, <3>4, <3>5 DEF ShowsOutputs, ShowsAll, ShowsOne
  <2>2. CASE Chosen(m) = "wlrRandr"
    BY <1>1, <2>2, DetectedAreOutputs
  <2>3. CASE Chosen(m) # "portal" /\ Chosen(m) # "wlrRandr"
    BY <1>1, <2>3, DetectedAreOutputs
  <2>4. QED
    BY <2>1, <2>2, <2>3
<1>5. layout \in Seq(Monitor) /\ ShowsOutputs(layout, m.outputs) /\ ShowsAll(layout, m.outputs)
  BY LayoutShows
<1>. HIDE DEF layout
<1>6. PICK o \in DOMAIN m.outputs : ShowsOne(SoleScreen[1], m.outputs, o)
  BY <1>2, <1>4 DEF ShowsOutputs
<1>7. layout # <<>>
  BY <1>5, <1>6 DEF ShowsAll, ShowsOne
<1>8. \A k \in DOMAIN layout : layout[k].at = Origin /\ layout[k].size = Extent
  BY <1>2, <1>4, <1>5, SMTT(30) DEF ShowsOutputs, ShowsAll, ShowsOne
<1>9. Origin \in Point /\ Extent \in Size
  BY ExtentAssumption DEF Origin, Point, Size
<1>10. [i \in Axes |-> Origin[i] + Extent[i]] = Extent
  <2>1. Extent = [i \in Axes |-> Extent[i]] /\ \A i \in Axes : Origin[i] + Extent[i] = Extent[i]
    BY <1>2, ExtentAssumption DEF Origin
  <2>2. QED
    BY <2>1
<1>11. QED
  BY <1>5, <1>7, <1>8, <1>9, <1>10, BoxOfSame

-----------------------------------------------------------------------------
(* Types, and whose monitors and cursors they are.                         *)

Cursor == [at : Point, bounds : Bounds]

ScreensTypeOK ==
  /\ host \in [Addresses -> Hosts \cup {None}]
  /\ name \in [Addresses -> Addresses \cup Hosts]
  /\ monitors \in [Addresses -> Seq(Monitor)]
  /\ config \in [Addresses -> SUBSET Seq(Monitor)]
  /\ cursor \in [Addresses -> SUBSET Cursor]
  /\ owner \in Addresses \cup {None}
  /\ machine \in [Hosts -> Known]
  /\ \A h \in Hosts : machine[h] \in Machines[h]

\* A name is that of the session's own host, and what is on the way is what the host detected.
KnownAs(a) == name[a] \in Hosts => name[a] = host[a]
OwnConfig(a) ==
  IF host[a] = None THEN config[a] = {}
  ELSE \A l \in config[a] : \E m \in Machines[host[a]] : l \in Detected[m]
OwnMonitors(a) ==
  host[a] # None /\ monitors[a] # <<>> => \E m \in Machines[host[a]] : monitors[a] \in Detected[m]
OwnInv == \A a \in Addresses : KnownAs(a) /\ OwnConfig(a) /\ OwnMonitors(a)

Tracked(a, c) ==
  /\ Within(c.at, c.bounds)
  /\ owner = a /\ monitors[a] # <<>> => c.bounds = CalculateTotalDisplayBounds(monitors[a])
CursorInv == \A a \in Addresses : \A c \in cursor[a] : Tracked(a, c)

IInv == ScreensTypeOK /\ OwnInv /\ CursorInv

USE NamesAssumption, MovesAssumption

LEMMA MachinesDetect ==
  ASSUME NEW h \in Hosts, NEW m \in Machines[h]
  PROVE  m \in Known /\ Detected[m] \subseteq Seq(Monitor)
<1>1. m \in Known /\ OutputsOK(m)
  BY OutputsAssumption DEF Known
<1>2. Detect(m) \subseteq Seq(Monitor)
  BY <1>1, TextAssumption, DetectedAreMonitors
<1>3. QED
  BY <1>1, <1>2 DEF Detected

LEMMA IInvInit == Init => IInv
<1>. SUFFICES ASSUME Init PROVE IInv
  OBVIOUS
<1>1. \A h \in Hosts : machine[h] \in Machines[h]
  BY DEF Init
<1>2. ScreensTypeOK
  BY <1>1 DEF Init, ScreensTypeOK
<1>3. QED
  BY <1>2 DEF Init, IInv, OwnInv, KnownAs, OwnConfig, OwnMonitors, CursorInv

\* Injects and the motion of a pointer touch nothing the invariant is about.
LEMMA IInvFrame ==
  ASSUME IInv, UNCHANGED <<machine, clientVars, cursor, owner>>
  PROVE  IInv'
BY DEF IInv, ScreensTypeOK, OwnInv, KnownAs, OwnConfig, OwnMonitors, CursorInv, Tracked, clientVars

LEMMA ConnectKeeps ==
  ASSUME IInv, NEW a \in Addresses, NEW h \in Hosts, Connect(a, h)
  PROVE  IInv'
<1>1. machine[h] \in Machines[h] /\ Detected[machine[h]] \subseteq Seq(Monitor)
  BY MachinesDetect DEF IInv, ScreensTypeOK
<1>2. a \notin Hosts /\ h # None /\ <<>> \in Seq(Monitor)
  OBVIOUS
<1>3. ScreensTypeOK'
  BY <1>1, <1>2 DEF IInv, ScreensTypeOK, Connect
<1>4. OwnInv'
  <2>1. ASSUME NEW b \in Addresses PROVE KnownAs(b)'
    BY <1>2 DEF IInv, ScreensTypeOK, Connect, OwnInv, KnownAs
  <2>2. ASSUME NEW b \in Addresses PROVE OwnConfig(b)'
    BY <1>1, <1>2 DEF IInv, ScreensTypeOK, Connect, OwnInv, OwnConfig
  <2>3. ASSUME NEW b \in Addresses PROVE OwnMonitors(b)'
    BY <1>2 DEF IInv, ScreensTypeOK, Connect, OwnInv, OwnMonitors
  <2>4. QED
    BY <2>1, <2>2, <2>3 DEF OwnInv
<1>5. CursorInv'
  BY <1>2 DEF IInv, ScreensTypeOK, Connect, CursorInv, Tracked
<1>6. QED
  BY <1>3, <1>4, <1>5 DEF IInv

LEMMA ReplugKeeps ==
  ASSUME IInv, NEW h \in Hosts, Replug(h)
  PROVE  IInv'
<1>1. PICK m \in Machines[h] : machine' = [machine EXCEPT ![h] = m]
  BY Zenon DEF Replug
<1>2. UNCHANGED <<clientVars, cursor, owner>>
  BY DEF Replug
<1>3. ScreensTypeOK'
  <2>1. machine' \in [Hosts -> Known]
    BY <1>1 DEF IInv, ScreensTypeOK, Known
  <2>2. \A g \in Hosts : machine'[g] \in Machines[g]
    BY <1>1 DEF IInv, ScreensTypeOK
  <2>3. QED
    BY <1>2, <2>1, <2>2 DEF IInv, ScreensTypeOK, clientVars
<1>4. OwnInv' /\ CursorInv'
  BY <1>2 DEF IInv, OwnInv, KnownAs, OwnConfig, OwnMonitors, CursorInv, Tracked, clientVars
<1>5. QED
  BY <1>3, <1>4 DEF IInv

LEMMA UnregisterKeeps ==
  ASSUME IInv, NEW a \in Addresses, UnregisterClient(a)
  PROVE  IInv'
<1>1. a \notin Hosts /\ <<>> \in Seq(Monitor)
  OBVIOUS
<1>2. ScreensTypeOK'
  BY <1>1 DEF IInv, ScreensTypeOK, UnregisterClient, ReturnsToLocal, hostVars
<1>3. OwnInv'
  <2>1. ASSUME NEW b \in Addresses PROVE KnownAs(b)'
    BY <1>1 DEF IInv, ScreensTypeOK, UnregisterClient, hostVars, OwnInv, KnownAs
  <2>2. ASSUME NEW b \in Addresses PROVE OwnConfig(b)'
    BY <1>1 DEF IInv, ScreensTypeOK, UnregisterClient, hostVars, OwnInv, OwnConfig
  <2>3. ASSUME NEW b \in Addresses PROVE OwnMonitors(b)'
    BY <1>1 DEF IInv, ScreensTypeOK, UnregisterClient, hostVars, OwnInv, OwnMonitors
  <2>4. QED
    BY <2>1, <2>2, <2>3 DEF OwnInv
<1>4. CursorInv'
  BY <1>1 DEF IInv, ScreensTypeOK, UnregisterClient, ReturnsToLocal, CursorInv, Tracked
<1>5. QED
  BY <1>2, <1>3, <1>4 DEF IInv

\* updateClientConfiguration, matching: the session a configuration is given to is one of
\* the host that sent it, by its name or because there is no other.
LEMMA MatchIsOwn ==
  ASSUME IInv, NEW a \in Addresses, config[a] # {}, NEW b \in Matching(host[a])
  PROVE  b \in Addresses /\ host[a] # None /\ host[b] = host[a]
<1>1. host[a] \in Hosts /\ a \in Registered
  BY DEF IInv, OwnInv, OwnConfig, ScreensTypeOK, Registered
<1>2. CASE b \in Registered /\ name[b] = host[a]
  BY <1>1, <1>2 DEF IInv, OwnInv, KnownAs, Registered
<1>3. CASE b \in OnlyClient(host[a])
  <2>1. b \in Registered /\ Cardinality(Registered) = 1
    BY <1>3 DEF OnlyClient
  <2>2. IsFiniteSet(Registered)
    BY AddressesAssumption, FS_Subset DEF Registered
  <2>3. PICK x : Registered = {x}
    BY <2>1, <2>2, FS_Singleton
  <2>4. QED
    BY <1>1, <2>1, <2>3 DEF Registered
<1>4. QED
  BY <1>2, <1>3 DEF Matching

LEMMA UpdateKeeps ==
  ASSUME IInv, NEW a \in Addresses, UpdateClientConfiguration(a)
  PROVE  IInv'
<1>1. PICK list \in config[a] :
         \/ \E b \in Matching(host[a]) :
              /\ monitors' = [monitors EXCEPT ![b] = list]
              /\ name' = [name EXCEPT ![b] = host[a]]
              /\ Rebound(b, list)
         \/ UNCHANGED <<monitors, name, cursor>>
  BY DEF UpdateClientConfiguration
<1>2. config' = [config EXCEPT ![a] = {}] /\ UNCHANGED <<machine, host, owner>>
  BY DEF UpdateClientConfiguration, hostVars
<1>3. list \in Seq(Monitor) /\ host[a] \in Hosts /\ \E m \in Machines[host[a]] : list \in Detected[m]
  BY DEF IInv, ScreensTypeOK, OwnInv, OwnConfig
<1>4. CASE UNCHANGED <<monitors, name, cursor>>
  BY <1>2, <1>4 DEF IInv, ScreensTypeOK, OwnInv, KnownAs, OwnConfig, OwnMonitors, CursorInv, Tracked
<1>5. ASSUME NEW b \in Matching(host[a]),
             monitors' = [monitors EXCEPT ![b] = list],
             name' = [name EXCEPT ![b] = host[a]],
             Rebound(b, list)
      PROVE  IInv'
  <2>1. b \in Addresses /\ host[b] = host[a]
    BY MatchIsOwn
  <2>2. \A c \in cursor[b] : list # <<>> =>
          LET box == CalculateTotalDisplayBounds(list)
          IN /\ box \in Bounds
             /\ Constrained(c.at, box) \in Point
             /\ Within(Constrained(c.at, box), box)
    <3>1. \A c \in cursor[b] : c.at \in Point
      BY <2>1 DEF IInv, ScreensTypeOK, Cursor
    <3>2. QED
      BY <1>3, <3>1, BoxType, BoxOrdered, ConstrainedWithin DEF Constrained
  <2>3. ScreensTypeOK'
    <3>1. cursor' \in [Addresses -> SUBSET Cursor]
      BY <2>1, <2>2, <1>5 DEF Rebound, IInv, ScreensTypeOK, Cursor
    <3>2. /\ monitors' \in [Addresses -> Seq(Monitor)]
          /\ config' \in [Addresses -> SUBSET Seq(Monitor)]
      BY <1>2, <1>3, <1>5 DEF IInv, ScreensTypeOK
    <3>3. name' \in [Addresses -> Addresses \cup Hosts]
      BY <1>3, <1>5 DEF IInv, ScreensTypeOK
    <3>4. QED
      BY <1>2, <3>1, <3>2, <3>3 DEF IInv, ScreensTypeOK
  <2>4. OwnInv'
    <3>1. ASSUME NEW d \in Addresses PROVE KnownAs(d)'
      BY <1>2, <1>3, <1>5, <2>1 DEF IInv, ScreensTypeOK, OwnInv, KnownAs
    <3>2. ASSUME NEW d \in Addresses PROVE OwnConfig(d)'
      BY <1>2 DEF IInv, ScreensTypeOK, OwnInv, OwnConfig
    <3>3. ASSUME NEW d \in Addresses PROVE OwnMonitors(d)'
      BY <1>2, <1>3, <1>5, <2>1 DEF IInv, ScreensTypeOK, OwnInv, OwnMonitors
    <3>4. QED
      BY <3>1, <3>2, <3>3 DEF OwnInv
  <2>5. CursorInv'
    <3>1. ASSUME NEW d \in Addresses \ {b}, NEW c \in cursor'[d] PROVE Tracked(d, c)'
      <4>1. cursor'[d] = cursor[d] /\ monitors'[d] = monitors[d]
        BY <1>5, <2>1 DEF Rebound, IInv, ScreensTypeOK
      <4>2. QED
        BY <1>2, <3>1, <4>1 DEF IInv, CursorInv, Tracked
    <3>2. ASSUME NEW c \in cursor'[b] PROVE Tracked(b, c)'
      <4>1. monitors'[b] = list
        BY <1>5, <2>1 DEF IInv, ScreensTypeOK
      <4>2. CASE owner # b \/ list = <<>>
        <5>1. cursor'[b] = cursor[b]
          BY <1>5, <2>1, <4>2 DEF Rebound, IInv, ScreensTypeOK
        <5>2. QED
          BY <1>2, <2>1, <3>2, <4>1, <4>2, <5>1 DEF IInv, CursorInv, Tracked
      <4>3. CASE owner = b /\ list # <<>>
        <5>1. PICK e \in cursor[b] :
                c = [at |-> Constrained(e.at, CalculateTotalDisplayBounds(list)),
                     bounds |-> CalculateTotalDisplayBounds(list)]
          BY <1>5, <2>1, <3>2, <4>3 DEF Rebound, IInv, ScreensTypeOK
        <5>2. QED
          BY <2>2, <4>1, <4>3, <5>1 DEF Tracked
      <4>4. QED
        BY <4>2, <4>3
    <3>3. QED
      BY <3>1, <3>2 DEF CursorInv
  <2>6. QED
    BY <2>3, <2>4, <2>5 DEF IInv
<1>6. QED
  BY <1>1, <1>4, <1>5

\* SwitchToClient: the cursor starts at the centre of the main monitor.
LEMMA SwitchKeeps ==
  ASSUME IInv, NEW a \in Addresses, SwitchToClient(a)
  PROVE  IInv'
<1>1. owner' = a /\ UNCHANGED <<machine, clientVars>>
  BY DEF SwitchToClient
<1>2. ScreensTypeOK' /\ CursorInv'
  <2>1. CASE monitors[a] = <<>>
    <3>1. cursor' = cursor
      BY <2>1 DEF SwitchToClient, PlaceCursor, LeavesCursor
    <3>2. QED
      BY <1>1, <2>1, <3>1 DEF IInv, ScreensTypeOK, CursorInv, Tracked, clientVars
  <2>2. CASE monitors[a] # <<>>
    <3>. DEFINE centre == Centre(FindMainMonitor(monitors[a]))
                box == CalculateTotalDisplayBounds(monitors[a])
    <3>1. cursor' = [cursor EXCEPT ![a] = {[at |-> centre, bounds |-> box]}]
      BY <2>2 DEF SwitchToClient, PlaceCursor
    <3>2. monitors[a] \in Seq(Monitor)
      BY DEF IInv, ScreensTypeOK
    <3>3. centre \in Point /\ Within(centre, box) /\ box \in Bounds
      BY <2>2, <3>2, CentreInBox, BoxType
    <3>4. monitors' = monitors
      BY <1>1 DEF clientVars
    <3>5. \A d \in Addresses \ {a} : cursor'[d] = cursor[d]
      BY <3>1 DEF IInv, ScreensTypeOK
    <3>6. cursor'[a] = {[at |-> centre, bounds |-> box]}
      BY <3>1 DEF IInv, ScreensTypeOK
    <3>. HIDE DEF centre
    <3>7. ScreensTypeOK'
      <4>. HIDE DEF box
      <4>1. QED
        BY <1>1, <3>1, <3>3 DEF IInv, ScreensTypeOK, Cursor, clientVars
    <3>8. \A c \in cursor'[a] : Tracked(a, c)'
      BY <3>3, <3>4, <3>6 DEF Tracked
    <3>9. \A d \in Addresses \ {a} : \A c \in cursor'[d] : Tracked(d, c)'
      BY <1>1, <3>4, <3>5 DEF IInv, CursorInv, Tracked
    <3>10. QED
      BY <3>7, <3>8, <3>9 DEF CursorInv
  <2>3. QED
    BY <2>1, <2>2
<1>3. OwnInv'
  BY <1>1 DEF IInv, OwnInv, KnownAs, OwnConfig, OwnMonitors, clientVars
<1>4. QED
  BY <1>2, <1>3 DEF IInv

\* HandleInputEvent: the tracked position stops at the box.
LEMMA MoveKeeps ==
  ASSUME IInv, NEW d \in Moves, Move(d)
  PROVE  IInv'
<1>1. UNCHANGED <<machine, clientVars, owner>> /\ owner \in Addresses
  BY DEF Move, Registered
<1>2. CASE UNCHANGED cursor
  BY <1>1, <1>2, IInvFrame
<1>3. ASSUME NEW c \in cursor[owner], MoveTracked(owner, d, c)
      PROVE  IInv'
  <2>. DEFINE to == Stopped([i \in Axes |-> c.at[i] + d[i]], c.bounds)
  <2>1. c \in Cursor /\ Tracked(owner, c)
    BY <1>1, <1>3 DEF IInv, ScreensTypeOK, CursorInv
  <2>2. c.at \in Point /\ c.bounds \in Bounds /\ c = [at |-> c.at, bounds |-> c.bounds]
    BY <2>1 DEF Cursor
  <2>3. \A i \in Axes : c.bounds.min[i] <= c.bounds.max[i]
    <3>1. \A i \in Axes : /\ c.bounds.min[i] <= c.at[i] /\ c.at[i] <= c.bounds.max[i]
                          /\ c.at[i] \in Int /\ c.bounds.min[i] \in Int /\ c.bounds.max[i] \in Int
      BY <2>1, <2>2 DEF Tracked, Within, Bounds, Point
    <3>2. QED
      BY <3>1
  <2>4. [i \in Axes |-> c.at[i] + d[i]] \in Point
    BY <2>2 DEF Point
  <2>5. to \in Point /\ Within(to, c.bounds)
    BY <2>2, <2>3, <2>4, ConstrainedWithin DEF Stopped
  <2>6. cursor' = [cursor EXCEPT ![owner] = {[c EXCEPT !.at = to]}]
    BY <1>3 DEF MoveTracked
  <2>. HIDE DEF to
  <2>7. [c EXCEPT !.at = to] = [at |-> to, bounds |-> c.bounds]
    BY <2>2
  <2>8. cursor' = [cursor EXCEPT ![owner] = {[at |-> to, bounds |-> c.bounds]}]
    BY <2>6, <2>7
  <2>9. ScreensTypeOK'
    BY <1>1, <2>2, <2>5, <2>8 DEF IInv, ScreensTypeOK, Cursor, clientVars
  <2>10. OwnInv'
    BY <1>1 DEF IInv, OwnInv, KnownAs, OwnConfig, OwnMonitors, clientVars
  <2>11. CursorInv'
    <3>1. /\ cursor'[owner] = {[at |-> to, bounds |-> c.bounds]}
          /\ \A a \in Addresses \ {owner} : cursor'[a] = cursor[a]
      BY <1>1, <2>8 DEF IInv, ScreensTypeOK
    <3>2. \A b \in cursor'[owner] : Tracked(owner, b)'
      BY <1>1, <2>1, <2>5, <3>1 DEF Tracked, clientVars
    <3>3. \A a \in Addresses \ {owner} : \A b \in cursor'[a] : Tracked(a, b)'
      BY <1>1, <3>1 DEF IInv, CursorInv, Tracked, clientVars
    <3>4. QED
      BY <1>1, <3>2, <3>3 DEF CursorInv
  <2>12. QED
    BY <2>9, <2>10, <2>11 DEF IInv
<1>4. QED
  BY <1>2, <1>3 DEF Move

LEMMA IInvNext == IInv /\ [Next]_vars => IInv'
<1>. SUFFICES ASSUME IInv, [Next]_vars PROVE IInv'
  OBVIOUS
<1>1. CASE \E a \in Addresses, h \in Hosts : Connect(a, h)
  BY <1>1, ConnectKeeps
<1>2. CASE \E h \in Hosts : Vanish(h)
  BY <1>2, IInvFrame DEF Vanish
<1>3. CASE \E h \in Hosts : Replug(h)
  BY <1>3, ReplugKeeps
<1>4. CASE \E a \in Addresses : UnregisterClient(a)
  BY <1>4, UnregisterKeeps
<1>5. CASE \E a \in Addresses : UpdateClientConfiguration(a)
  BY <1>5, UpdateKeeps
<1>6. CASE \E a \in Addresses : SwitchToClient(a)
  BY <1>6, SwitchKeeps
<1>7. CASE SwitchToLocal
  BY <1>7 DEF SwitchToLocal, hostVars, clientVars, IInv, ScreensTypeOK, OwnInv, KnownAs, OwnConfig,
              OwnMonitors, CursorInv, Tracked
<1>8. CASE \E d \in Moves : Move(d)
  BY <1>8, MoveKeeps
<1>9. CASE UNCHANGED vars
  BY <1>9, IInvFrame DEF vars, hostVars
<1>10. CASE \E h \in Hosts : UserReleases(h)
  BY <1>10, IInvFrame DEF UserReleases
<1>11. CASE \E h \in Hosts, d \in OwnMoves : OwnMouse(h, d)
  BY <1>11, IInvFrame DEF OwnMouse
<1>12. QED
  BY <1>1, <1>2, <1>3, <1>4, <1>5, <1>6, <1>7, <1>8, <1>9, <1>10, <1>11 DEF Next

\* The inductive invariant: types, monitors and names of each session's own host, and
\* cursors in their boxes.
THEOREM ScreensInvariant == Spec => []IInv
<1>1. QED
  BY IInvInit, IInvNext, PTL DEF Spec

\* updateClientConfiguration: no session is ever given the monitors of another host,
\* however many sessions and hosts come, go and overlap.
THEOREM ClientsOwnTheirMonitors == Spec => []MonitorsAreOwn
<1>1. IInv => MonitorsAreOwn
  BY DEF IInv, OwnInv, OwnMonitors, MonitorsAreOwn, Registered
<1>2. QED
  BY <1>1, ScreensInvariant, PTL

\* SwitchToClient, HandleInputEvent and updateClientConfiguration: the tracked cursor stays
\* in its bounds, and these are the current ones of the client in control.
THEOREM TrackedCursorStaysInBounds == Spec => []CursorInBounds
<1>1. IInv => CursorInBounds
  BY DEF IInv, CursorInv, Tracked, CursorInBounds
<1>2. QED
  BY <1>1, ScreensInvariant, PTL

\* positionCursorOnMainMonitor: the centre of the main monitor is on it, and so on the
\* enabled output that the monitor shows.
LEMMA StartIsOnScreen ==
  ASSUME IInv, NEW a \in Addresses, SwitchToClient(a), monitors[a] # <<>>,
         monitors[a] \in Detected[machine[host[a]]], Plain(machine[host[a]]),
         Chosen(machine[host[a]]) # "portal", machine[host[a]].json, NEW c \in cursor'[a]
  PROVE  \E i \in DOMAIN Layout(host[a]) : ContainsPoint(Layout(host[a])[i], c.at)
<1>. DEFINE m == machine[host[a]]
            main == FindMainMonitor(monitors[a])
            layout == Only(AsMonitors(EnabledOnly(m.outputs)), HasSize)
<1>1. host[a] \in Hosts /\ m \in Machines[host[a]]
  BY DEF SwitchToClient, Registered, IInv, ScreensTypeOK
<1>2. m \in Known /\ OutputsOK(m) /\ monitors[a] \in Detect(m) /\ Layout(host[a]) = layout
  <2>1. m \in Known /\ OutputsOK(m) /\ monitors[a] \in Detect(m)
    BY <1>1, OutputsAssumption DEF Known, Detected
  <2>2. AsShown(m.outputs) = m.outputs
    BY <2>1, PlainAsShown DEF Plain, OutputsOK
  <2>3. QED
    BY <2>1, <2>2 DEF Layout, LayoutOf
<1>3. c.at = Centre(main)
  <2>1. PlaceCursor(a)
    BY DEF SwitchToClient
  <2>2. cursor' = [cursor EXCEPT ![a] =
                    {[at |-> Centre(main), bounds |-> CalculateTotalDisplayBounds(monitors[a])]}]
    BY <2>1 DEF PlaceCursor
  <2>3. cursor'[a] = {[at |-> Centre(main), bounds |-> CalculateTotalDisplayBounds(monitors[a])]}
    BY <2>2 DEF IInv, ScreensTypeOK
  <2>4. QED
    BY <2>3
<1>4. monitors[a] \in Seq(Monitor)
  BY DEF IInv, ScreensTypeOK
<1>5. PICK k \in DOMAIN monitors[a] : main = monitors[a][k]
  BY <1>4, MainIsOne
<1>6. Outputs(m.outputs) /\ ShowsOutputs(monitors[a], m.outputs)
  BY <1>2, DetectedAreOutputs DEF OutputsOK, Outputs
<1>7. /\ layout \in Seq(Monitor) /\ ShowsAll(layout, m.outputs)
  BY <1>2, LayoutShows
<1>. HIDE DEF m, layout, main
<1>8. PICK o \in DOMAIN m.outputs : ShowsOne(main, m.outputs, o)
  BY <1>5, <1>6 DEF ShowsOutputs
<1>9. PICK i \in DOMAIN layout : ShowsOne(layout[i], m.outputs, o)
  BY <1>7, <1>8 DEF ShowsAll, ShowsOne
<1>10. /\ layout[i].at = main.at /\ layout[i].size = main.size
       /\ \A ax \in Axes : main.size[ax] > 0
  BY <1>6, <1>8, <1>9 DEF ShowsOne, Outputs
<1>11. \A ax \in Axes : main.at[ax] \in Int /\ main.size[ax] \in Nat
  <2>1. main \in Monitor
    BY <1>4, <1>5
  <2>2. QED
    BY <2>1 DEF Monitor, Point, Size
<1>12. ContainsPoint(layout[i], Centre(main))
  <2>1. ASSUME NEW ax \in Axes
        PROVE  /\ main.at[ax] <= main.at[ax] + main.size[ax] \div 2
               /\ main.at[ax] + main.size[ax] \div 2 < main.at[ax] + main.size[ax]
    <3>1. ASSUME NEW p \in Int, NEW n \in Nat, n > 0
          PROVE  p <= p + n \div 2 /\ p + n \div 2 < p + n
      BY <3>1
    <3>2. QED
      BY <1>10, <1>11, <3>1
  <2>2. QED
    BY <1>10, <2>1 DEF ContainsPoint, Centre, FarCorner
<1>13. QED
  BY <1>2, <1>3, <1>12

\* SwitchToClient, and display.New of the client before it: control begins with the cursor
\* on an enabled output, for any outputs of any machines that are neither scaled nor turned,
\* with every backend but those that read xrandr's list or wlr-randr's text.
THEOREM ControlStartsOnScreen == Spec => StartsOnScreen
<1>. DEFINE Starts ==
       \A a \in Addresses :
         /\ SwitchToClient(a) /\ monitors[a] # <<>> /\ host[a] \notin changed
         /\ monitors[a] \in Detected[machine[host[a]]] /\ Plain(machine[host[a]])
         /\ Chosen(machine[host[a]]) # "portal" /\ machine[host[a]].json
         => \A c \in cursor'[a] :
              \E i \in DOMAIN Layout(host[a]) : ContainsPoint(Layout(host[a])[i], c.at)
<1>1. IInv => [Starts]_vars
  BY StartIsOnScreen
<1>2. QED
  BY <1>1, ScreensInvariant, PTL DEF StartsOnScreen

-----------------------------------------------------------------------------
(* The tracked cursor and the pointer.  What is known of a session holds   *)
(* while its client still reads it, and of its screens until they change.  *)

Live(a) == host[a] # None /\ live[host[a]] = {a}

LinkTypes ==
  /\ pointer = [h \in Hosts |-> pointer[h]]
  /\ live \in [Hosts -> SUBSET Addresses]

\* No cursor is left behind by a session that ended.
Cleared(a) == host[a] = None => cursor[a] = {}

\* Other sessions of its host are older, so that it was never the only one: nothing
\* that they have still to say is taken for its own.
NotNamed(a) ==
  Live(a) => \A b \in Addresses \ {a} : host[b] = host[a] => name[a] # host[a]

\* One configuration comes, and before it there is no cursor.
ConfiguredOnce(a) ==
  Live(a) => /\ config[a] # {} => monitors[a] = <<>>
             /\ monitors[a] = <<>> => cursor[a] = {}

\* What comes and what came is what the host has.
UpToDate(a) ==
  Live(a) /\ host[a] \notin changed =>
    /\ config[a] \subseteq Detected[machine[host[a]]]
    /\ monitors[a] # <<>> => monitors[a] \in Detected[machine[host[a]]]

Close(p, q) == \A i \in Axes : q[i] \in Int /\ p[i] - q[i] \in 0..1

\* Nothing but the server moves the pointer.
Undisturbed(a) ==
  /\ Live(a) /\ host[a] \in controlled /\ host[a] \notin changed \cup touched
  /\ Plain(machine[host[a]])

Follows(a) ==
  Undisturbed(a) /\ owner = a /\ monitors[a] = SoleScreen =>
    \A c \in cursor[a] : Close(c.at, pointer[host[a]])

SessionInv(a) == Cleared(a) /\ NotNamed(a) /\ ConfiguredOnce(a) /\ UpToDate(a)

LinkInv == LinkTypes /\ \A a \in Addresses : SessionInv(a)
FollowInv == \A a \in Addresses : Follows(a)

USE DEF SessionInv

LEMMA LinkInvInit == Init => LinkInv /\ FollowInv
<1>. SUFFICES ASSUME Init PROVE LinkInv /\ FollowInv
  OBVIOUS
<1>1. LinkTypes
  BY DEF Init, LinkTypes
<1>2. ASSUME NEW a \in Addresses PROVE SessionInv(a) /\ Follows(a)
  BY DEF Init, Undisturbed, Live, Cleared, NotNamed, ConfiguredOnce, UpToDate, Follows
<1>3. QED
  BY <1>1, <1>2 DEF LinkInv, FollowInv

\* A connection that is lost takes its session out of what is claimed.
LEMMA VanishLink ==
  ASSUME IInv, LinkInv, NEW h \in Hosts, Vanish(h)
  PROVE  LinkInv'
<1>1. LinkTypes'
  BY DEF LinkInv, LinkTypes, Vanish
<1>2. ASSUME NEW a \in Addresses PROVE SessionInv(a)'
  <2>1. SessionInv(a) /\ (Live(a)' => Live(a))
    BY DEF LinkInv, LinkTypes, Live, Vanish, clientVars, IInv, ScreensTypeOK
  <2>2. UNCHANGED <<machine, changed, host, name, monitors, config, cursor>>
    BY DEF Vanish, clientVars
  <2>3. QED
    BY <2>1, <2>2 DEF Cleared, NotNamed, ConfiguredOnce, UpToDate
<1>3. QED
  BY <1>1, <1>2 DEF LinkInv

\* What the user of a host does with the mouse or with control.
LEMMA OwnLink ==
  ASSUME LinkInv,
         \/ \E h \in Hosts : UserReleases(h)
         \/ \E h \in Hosts, d \in OwnMoves : OwnMouse(h, d)
  PROVE  LinkInv'
<1>1. /\ UNCHANGED <<machine, live, changed, host, name, monitors, config, cursor>>
      /\ \/ pointer' = pointer
         \/ \E h, p : pointer' = [pointer EXCEPT ![h] = p]
  BY Zenon DEF UserReleases, OwnMouse, clientVars
<1>2. LinkTypes'
  BY <1>1 DEF LinkInv, LinkTypes
<1>3. QED
  BY <1>1, <1>2 DEF LinkInv, Live, Cleared, NotNamed, ConfiguredOnce, UpToDate

LEMMA ReplugLink ==
  ASSUME IInv, LinkInv, NEW h \in Hosts, Replug(h)
  PROVE  LinkInv'
<1>1. /\ UNCHANGED <<live, host, name, monitors, config, cursor>>
      /\ changed' = changed \cup {h}
      /\ \E m \in Machines[h] : machine' = [machine EXCEPT ![h] = m]
      /\ \E p : pointer' = [pointer EXCEPT ![h] = p]
  BY Zenon DEF Replug, clientVars
<1>2. LinkTypes'
  BY <1>1 DEF LinkInv, LinkTypes
<1>3. ASSUME NEW a \in Addresses PROVE SessionInv(a)'
  <2>1. SessionInv(a)
    BY DEF LinkInv
  <2>2. host[a] # h => machine'[host[a]] = machine[host[a]]
    BY <1>1 DEF IInv, ScreensTypeOK
  <2>3. QED
    BY <1>1, <2>1, <2>2 DEF Live, Cleared, NotNamed, ConfiguredOnce, UpToDate
<1>4. QED
  BY <1>2, <1>3 DEF LinkInv

LEMMA ConnectLink ==
  ASSUME IInv, LinkInv, NEW a \in Addresses, NEW h \in Hosts, Connect(a, h)
  PROVE  LinkInv'
<1>1. host[a] = None /\ live[h] = {} /\ h # None /\ a \notin Hosts
  BY DEF Connect, Registered
<1>2. LinkTypes'
  BY DEF LinkInv, LinkTypes, Connect
<1>3. SessionInv(a)'
  BY <1>1 DEF IInv, ScreensTypeOK, LinkInv, Connect,
              Live, Cleared, NotNamed, ConfiguredOnce, UpToDate
<1>4. ASSUME NEW b \in Addresses \ {a} PROVE SessionInv(b)'
  <2>1. SessionInv(b)
    BY DEF LinkInv
  <2>2. /\ host'[b] = host[b] /\ name'[b] = name[b] /\ monitors'[b] = monitors[b]
        /\ config'[b] = config[b] /\ cursor'[b] = cursor[b] /\ machine' = machine
    BY DEF IInv, ScreensTypeOK, Connect
  <2>3. Live(b)' => Live(b) /\ host[b] # h
    BY <2>2 DEF LinkInv, LinkTypes, Live, Connect, IInv, ScreensTypeOK
  <2>4. \A c \in Addresses : host'[c] = host[c] \/ (c = a /\ host'[c] = h)
    BY DEF IInv, ScreensTypeOK, Connect
  <2>5. changed' = changed \ {h}
    BY DEF Connect
  <2>6. NotNamed(b)'
    BY <2>1, <2>2, <2>3, <2>4 DEF NotNamed
  <2>7. QED
    BY <2>1, <2>2, <2>3, <2>5, <2>6 DEF Cleared, ConfiguredOnce, UpToDate
<1>5. QED
  BY <1>2, <1>3, <1>4 DEF LinkInv

LEMMA UnregisterLink ==
  ASSUME IInv, LinkInv, NEW a \in Addresses, UnregisterClient(a)
  PROVE  LinkInv'
<1>1. LinkTypes'
  BY DEF LinkInv, LinkTypes, UnregisterClient, hostVars
<1>2. SessionInv(a)'
  BY DEF IInv, ScreensTypeOK, UnregisterClient, Live, Cleared, NotNamed, ConfiguredOnce, UpToDate
<1>3. ASSUME NEW b \in Addresses \ {a} PROVE SessionInv(b)'
  <2>1. SessionInv(b)
    BY DEF LinkInv
  <2>2. /\ host'[b] = host[b] /\ name'[b] = name[b] /\ monitors'[b] = monitors[b]
        /\ config'[b] = config[b] /\ cursor'[b] = cursor[b]
        /\ UNCHANGED <<machine, live, changed>>
    BY DEF IInv, ScreensTypeOK, UnregisterClient, hostVars
  <2>3. \A c \in Addresses : host'[c] = host[c] \/ host'[c] = None
    BY DEF IInv, ScreensTypeOK, UnregisterClient
  <2>4. NotNamed(b)'
    BY <2>1, <2>2, <2>3 DEF NotNamed, Live
  <2>5. QED
    BY <2>1, <2>2, <2>4 DEF Live, Cleared, ConfiguredOnce, UpToDate
<1>4. QED
  BY <1>1, <1>2, <1>3 DEF LinkInv

\* Who is given a configuration has the name that it brings, or is alone: a session that
\* is read has no other of its host beside it then, and what it takes is its own.
LEMMA LiveTakesItsOwn ==
  ASSUME IInv, LinkInv, NEW a \in Addresses, config[a] # {},
         NEW b \in Matching(host[a]), Live(b)
  PROVE  b = a /\ \A d \in Addresses \ {b} : host[d] # host[b]
<1>1. b \in Addresses /\ host[a] # None /\ host[b] = host[a] /\ b \in Registered
  BY MatchIsOwn DEF Registered
<1>2. SUFFICES ASSUME NEW d \in Addresses \ {b}, host[d] = host[b] PROVE FALSE
  BY <1>1
<1>3. name[b] # host[a] /\ d \in Registered
  BY <1>1, <1>2 DEF LinkInv, NotNamed, Registered
<1>4. b \in OnlyClient(host[a])
  BY <1>3 DEF Matching
<1>5. Cardinality(Registered) = 1
  BY <1>4 DEF OnlyClient
<1>6. IsFiniteSet(Registered)
  BY AddressesAssumption, FS_Subset DEF Registered
<1>7. PICK x : Registered = {x}
  BY <1>5, <1>6, FS_Singleton
<1>8. QED
  BY <1>1, <1>3, <1>7

LEMMA UpdateLink ==
  ASSUME IInv, LinkInv, NEW a \in Addresses, UpdateClientConfiguration(a)
  PROVE  LinkInv'
<1>1. PICK list \in config[a] :
         \/ \E b \in Matching(host[a]) :
              /\ monitors' = [monitors EXCEPT ![b] = list]
              /\ name' = [name EXCEPT ![b] = host[a]]
              /\ Rebound(b, list)
         \/ UNCHANGED <<monitors, name, cursor>>
  BY DEF UpdateClientConfiguration
<1>2. config' = [config EXCEPT ![a] = {}] /\ UNCHANGED <<machine, live, changed, pointer, host>>
  BY DEF UpdateClientConfiguration, hostVars
<1>3. LinkTypes'
  BY <1>2 DEF LinkInv, LinkTypes
<1>4. CASE UNCHANGED <<monitors, name, cursor>>
  <2>1. ASSUME NEW d \in Addresses PROVE SessionInv(d)'
    <3>1. SessionInv(d) /\ config'[d] \subseteq config[d]
      BY <1>2 DEF LinkInv, IInv, ScreensTypeOK
    <3>2. QED
      BY <1>2, <1>4, <3>1 DEF Live, Cleared, NotNamed, ConfiguredOnce, UpToDate
  <2>2. QED
    BY <1>3, <2>1 DEF LinkInv
<1>5. ASSUME NEW b \in Matching(host[a]),
             monitors' = [monitors EXCEPT ![b] = list],
             name' = [name EXCEPT ![b] = host[a]],
             Rebound(b, list)
      PROVE  LinkInv'
  <2>1. b \in Addresses /\ host[a] # None /\ host[b] = host[a]
    BY MatchIsOwn
  <2>2. ASSUME NEW d \in Addresses \ {b} PROVE SessionInv(d)'
    <3>1. SessionInv(d)
      BY DEF LinkInv
    <3>2. /\ monitors'[d] = monitors[d] /\ name'[d] = name[d] /\ cursor'[d] = cursor[d]
          /\ config'[d] \subseteq config[d]
      BY <1>2, <1>5, <2>1 DEF Rebound, IInv, ScreensTypeOK
    <3>3. QED
      BY <1>2, <3>1, <3>2 DEF Live, Cleared, NotNamed, ConfiguredOnce, UpToDate
  <2>3. SessionInv(b)'
    <3>1. SessionInv(b)
      BY <2>1 DEF LinkInv
    <3>2. CASE ~ Live(b)
      BY <1>2, <2>1, <3>2 DEF Live, Cleared, NotNamed, ConfiguredOnce, UpToDate
    <3>3. CASE Live(b)
      <4>1. b = a
        BY <3>3, LiveTakesItsOwn
      <4>2. monitors[b] = <<>> /\ cursor[b] = {}
        BY <3>1, <3>3, <4>1 DEF ConfiguredOnce
      <4>3. cursor'[b] = {}
        BY <1>5, <2>1, <4>2 DEF Rebound, IInv, ScreensTypeOK
      <4>4. config'[b] = {} /\ monitors'[b] = list /\ list \in config[b]
        BY <1>2, <1>5, <4>1 DEF IInv, ScreensTypeOK
      <4>5. NotNamed(b)'
        BY <1>2, <3>3, LiveTakesItsOwn DEF NotNamed
      <4>6. QED
        BY <1>2, <3>1, <3>3, <4>3, <4>4, <4>5 DEF Live, Cleared, ConfiguredOnce, UpToDate
    <3>4. QED
      BY <3>2, <3>3
  <2>4. QED
    BY <1>3, <2>2, <2>3 DEF LinkInv
<1>6. QED
  BY <1>1, <1>4, <1>5

\* SwitchToClient: the cursor appears where the monitors are known.
LEMMA SwitchLink ==
  ASSUME IInv, LinkInv, NEW a \in Addresses, SwitchToClient(a)
  PROVE  LinkInv'
<1>1. UNCHANGED <<machine, live, changed, host, name, monitors, config>> /\ host[a] # None
  BY DEF SwitchToClient, clientVars, Registered
<1>2. /\ \/ cursor' = cursor
         \/ monitors[a] # <<>> /\ \E k : cursor' = [cursor EXCEPT ![a] = k]
      /\ \/ pointer' = pointer
         \/ \E p : pointer' = [pointer EXCEPT ![host[a]] = p]
  BY DEF SwitchToClient, PlaceCursor, LeavesCursor, Injects
<1>3. LinkTypes'
  BY <1>1, <1>2 DEF LinkInv, LinkTypes
<1>4. ASSUME NEW b \in Addresses PROVE SessionInv(b)'
  <2>1. SessionInv(b)
    BY DEF LinkInv
  <2>2. cursor'[b] = cursor[b] \/ (b = a /\ monitors[b] # <<>>)
    BY <1>2 DEF IInv, ScreensTypeOK
  <2>3. QED
    BY <1>1, <2>1, <2>2 DEF Live, Cleared, NotNamed, ConfiguredOnce, UpToDate
<1>5. QED
  BY <1>3, <1>4 DEF LinkInv

\* HandleInputEvent: a cursor is replaced by a cursor.
LEMMA MoveLink ==
  ASSUME IInv, LinkInv, NEW d \in Moves, Move(d)
  PROVE  LinkInv'
<1>1. /\ UNCHANGED <<machine, live, changed, host, name, monitors, config>>
      /\ owner \in Addresses /\ host[owner] # None
  BY DEF Move, clientVars, Registered
<1>2. /\ \/ cursor' = cursor
         \/ cursor[owner] # {} /\ \E k : cursor' = [cursor EXCEPT ![owner] = k]
      /\ \/ pointer' = pointer
         \/ \E p : pointer' = [pointer EXCEPT ![host[owner]] = p]
  BY DEF Move, MoveTracked, Injects
<1>3. LinkTypes'
  BY <1>1, <1>2 DEF LinkInv, LinkTypes
<1>4. ASSUME NEW b \in Addresses PROVE SessionInv(b)'
  <2>1. SessionInv(b)
    BY DEF LinkInv
  <2>2. cursor'[b] = cursor[b] \/ (b = owner /\ cursor[b] # {})
    BY <1>1, <1>2 DEF IInv, ScreensTypeOK
  <2>3. QED
    BY <1>1, <2>1, <2>2 DEF Live, Cleared, NotNamed, ConfiguredOnce, UpToDate
<1>5. QED
  BY <1>3, <1>4 DEF LinkInv

LEMMA LinkInvNext == IInv /\ LinkInv /\ [Next]_vars => LinkInv'
<1>. SUFFICES ASSUME IInv, LinkInv, [Next]_vars PROVE LinkInv'
  OBVIOUS
<1>1. CASE \E a \in Addresses, h \in Hosts : Connect(a, h)
  BY <1>1, ConnectLink
<1>2. CASE \E h \in Hosts : Vanish(h)
  BY <1>2, VanishLink
<1>3. CASE \E h \in Hosts : Replug(h)
  BY <1>3, ReplugLink
<1>4. CASE \E a \in Addresses : UnregisterClient(a)
  BY <1>4, UnregisterLink
<1>5. CASE \E a \in Addresses : UpdateClientConfiguration(a)
  BY <1>5, UpdateLink
<1>6. CASE \E a \in Addresses : SwitchToClient(a)
  BY <1>6, SwitchLink
<1>7. CASE SwitchToLocal \/ UNCHANGED vars
  BY <1>7 DEF SwitchToLocal, vars, hostVars, clientVars, LinkInv, LinkTypes,
              Live, Cleared, NotNamed, ConfiguredOnce, UpToDate
<1>8. CASE \E d \in Moves : Move(d)
  BY <1>8, MoveLink
<1>9. CASE \/ \E h \in Hosts : UserReleases(h)
           \/ \E h \in Hosts, d \in OwnMoves : OwnMouse(h, d)
  BY <1>9, OwnLink
<1>10. QED
  BY <1>1, <1>2, <1>3, <1>4, <1>5, <1>6, <1>7, <1>8, <1>9 DEF Next

\* What is known of a session that is read: one configuration, its own, and the screens
\* that the host has.
THEOREM SessionsAreFresh == Spec => [](IInv /\ LinkInv)
<1>1. QED
  BY IInvInit, IInvNext, LinkInvInit, LinkInvNext, PTL DEF Spec

-----------------------------------------------------------------------------
(* The arithmetic of one axis.                                             *)

LEMMA SizeIsPositive == \A i \in Axes : Extent[i] \in Nat /\ Extent[i] > 0
BY ExtentAssumption

\* The fraction n of e, of a box of size e.
LEMMA ScaledBack ==
  ASSUME NEW n \in Nat, NEW e \in Nat, e > 0
  PROVE  (n * e) \div e = n
OBVIOUS

\* The box of the only screen.
LEMMA SoleBox == CalculateTotalDisplayBounds(SoleScreen) = [min |-> Origin, max |-> Extent]
<1>. DEFINE m == [at |-> Origin, size |-> Extent, primary |-> TRUE]
<1>1. m \in Monitor /\ SoleScreen = <<m>> /\ m.at = Origin
  BY ExtentAssumption DEF SoleScreen, Monitor, Point, Size, Origin
<1>2. FarCorner(m) = Extent
  <2>1. FarCorner(m) = [i \in Axes |-> 0 + Extent[i]]
    BY DEF FarCorner, Origin
  <2>2. QED
    BY <2>1, ExtentAssumption
<1>. HIDE DEF m
<1>3. QED
  BY <1>1, <1>2, BoxOfOne

\* On a machine with the only screen, the pointer stops at its last pixel.
LEMMA RestOnSole ==
  ASSUME NEW layout, layout # <<>>,
         CalculateTotalDisplayBounds(layout) = [min |-> Origin, max |-> Extent],
         NEW p \in Point, NEW q
  PROVE  \A i \in Axes : Rest(layout, p, q)[i] = IF p[i] < 0 THEN 0
                                                ELSE IF p[i] > Extent[i] - 1 THEN Extent[i] - 1
                                                ELSE p[i]
<1>1. Rest(layout, p, q)
        = ConstrainCursorPosition(p, [min |-> Origin, max |-> [i \in Axes |-> Extent[i] - 1]])
  BY DEF Rest
<1>2. QED
  BY <1>1 DEF ConstrainCursorPosition, Origin

\* positionCursorOnMainMonitor, of the only screen.
LEMMA SoleCentre ==
  /\ Centre(FindMainMonitor(SoleScreen)) \in Point
  /\ \A i \in Axes : Centre(FindMainMonitor(SoleScreen))[i] = Extent[i] \div 2
<1>1. SoleScreen \in Seq(Monitor) /\ SoleScreen # <<>> /\ DOMAIN SoleScreen = {1}
  BY ExtentAssumption DEF SoleScreen, Monitor, Point, Size, Origin
<1>2. FindMainMonitor(SoleScreen) = SoleScreen[1]
  BY <1>1, MainIsOne
<1>3. QED
  <2>1. Centre(FindMainMonitor(SoleScreen)) \in Point
    BY <1>1, CentreInBox
  <2>2. /\ SoleScreen[1].at = Origin /\ SoleScreen[1].size = Extent
    BY DEF SoleScreen
  <2>3. ASSUME NEW i \in Axes
        PROVE  Centre(FindMainMonitor(SoleScreen))[i] = Extent[i] \div 2
    <3>1. Centre(FindMainMonitor(SoleScreen))[i] = 0 + Extent[i] \div 2
      BY <1>2, <2>2 DEF Centre, Origin
    <3>2. Extent[i] \div 2 \in Int
      BY SizeIsPositive
    <3>3. QED
      BY <3>1, <3>2
  <2>4. QED
    BY <2>1, <2>3

\* Both stop: the cursor at the far edge, the pointer a pixel before it.
LEMMA StopTogether ==
  ASSUME NEW e \in Int, e > 0, NEW c \in Int, NEW p \in Int, NEW d \in Int, c - p \in 0..1,
         NEW to \in Int, to = IF c + d < 0 THEN 0 ELSE IF c + d > e THEN e ELSE c + d,
         NEW q \in Int, q = p + (to - c)
  PROVE  LET r == IF q < 0 THEN 0 ELSE IF q > e - 1 THEN e - 1 ELSE q
         IN r \in Int /\ to - r \in 0..1
OBVIOUS

-----------------------------------------------------------------------------

\* What is assumed of the machines for which SoleIsAll does not say it: where the only
\* screen is detected, there is no other.
SoleElsewhere ==
  \A h \in Hosts : \A m \in Machines[h] :
    (Chosen(m) = "wlrRandr" /\ ~ m.json) \/ Len(m.outputs) > MaxOutputs => SoleScreenIsAll(m)

LEMMA SoleEverywhere ==
  ASSUME SoleElsewhere, NEW h \in Hosts, NEW m \in Machines[h]
  PROVE  SoleScreenIsAll(m)
<1>1. m \in Known /\ OutputsOK(m)
  BY OutputsAssumption DEF Known
<1>2. Len(m.outputs) \in Nat
  BY <1>1 DEF OutputsOK
<1>3. CASE Chosen(m) = "wlrRandr" /\ ~ m.json
  BY <1>3 DEF SoleElsewhere
<1>4. CASE Len(m.outputs) > MaxOutputs
  BY <1>4 DEF SoleElsewhere
<1>5. CASE Len(m.outputs) <= MaxOutputs /\ (m.json \/ Chosen(m) # "wlrRandr")
  BY <1>1, <1>5, SoleIsAll
<1>6. Len(m.outputs) <= MaxOutputs \/ Len(m.outputs) > MaxOutputs
  BY <1>2, MaxOutputsAssumption
<1>7. QED
  BY <1>3, <1>4, <1>5, <1>6

LEMMA SoleLayout ==
  ASSUME SoleElsewhere, IInv, LinkInv, NEW a \in Addresses,
         Live(a), host[a] \notin changed, Plain(machine[host[a]]), monitors[a] = SoleScreen
  PROVE  /\ Layout(host[a]) # <<>>
         /\ CalculateTotalDisplayBounds(Layout(host[a])) = [min |-> Origin, max |-> Extent]
<1>1. host[a] \in Hosts /\ machine[host[a]] \in Machines[host[a]]
  BY DEF Live, IInv, ScreensTypeOK
<1>2. monitors[a] # <<>>
  BY DEF SoleScreen
<1>3. SoleScreen \in Detected[machine[host[a]]]
  BY <1>2 DEF LinkInv, UpToDate
<1>4. SoleScreenIsAll(machine[host[a]])
  BY <1>1, SoleEverywhere
<1>5. QED
  BY <1>3, <1>4 DEF SoleScreenIsAll, Layout

LEMMA SwitchFollows ==
  ASSUME SoleElsewhere, IInv, LinkInv, NEW a \in Addresses, SwitchToClient(a)
  PROVE  FollowInv'
<1>1. UNCHANGED <<machine, live, changed, host, name, monitors, config>>
      /\ owner' = a /\ host[a] \in Hosts
  BY DEF SwitchToClient, clientVars, Registered, IInv, ScreensTypeOK
<1>2. SUFFICES ASSUME Live(a), host[a] \in controlled', host[a] \notin changed,
                      Plain(machine[host[a]]), monitors[a] = SoleScreen,
                      NEW c \in cursor'[a]
               PROVE  Close(c.at, pointer'[host[a]])
  BY <1>1 DEF FollowInv, Follows, Undisturbed, Live
<1>. DEFINE h == host[a]
            centre == Centre(FindMainMonitor(monitors[a]))
            box == CalculateTotalDisplayBounds(Layout(h))
            scaled == [i \in Axes |->
              box.min[i] + ((centre[i] % Word) * (box.max[i] - box.min[i])) \div Extent[i]]
<1>3. PlaceCursor(a) /\ monitors[a] # <<>>
  BY <1>2 DEF SwitchToClient, SoleScreen
<1>4. centre \in Point /\ \A i \in Axes : centre[i] = Extent[i] \div 2
  BY <1>2, SoleCentre
<1>5. Layout(h) # <<>> /\ box = [min |-> Origin, max |-> Extent]
  BY <1>2, SoleLayout
<1>6. /\ cursor' = [cursor EXCEPT ![a] =
                      {[at |-> centre, bounds |-> CalculateTotalDisplayBounds(monitors[a])]}]
      /\ Injects(a, MovedTo(h, centre))
  BY <1>3 DEF PlaceCursor
<1>7. c.at = centre
  BY <1>6 DEF IInv, ScreensTypeOK
<1>8. pointer'[h] = MovedTo(h, centre)
  BY <1>1, <1>2, <1>6 DEF Injects, Reaches, Live, LinkInv, LinkTypes
<1>9. MovedTo(h, centre) = Rest(Layout(h), scaled, pointer[h])
  BY DEF MovedTo
<1>10. scaled = centre
  <2>1. ASSUME NEW i \in Axes PROVE scaled[i] = centre[i]
    <3>1. centre[i] \in Nat /\ centre[i] < Word /\ Word \in Nat
      BY <1>4, SizeIsPositive, WordAssumption
    <3>2. centre[i] % Word = centre[i]
      BY <3>1
    <3>3. box.min[i] = 0 /\ box.max[i] - box.min[i] = Extent[i] /\ Extent[i] \in Nat
      BY <1>5, SizeIsPositive DEF Origin
    <3>4. scaled[i] = 0 + (centre[i] * Extent[i]) \div Extent[i]
      <4>. HIDE DEF centre, box
      <4>1. QED
        BY <3>2, <3>3
    <3>5. (centre[i] * Extent[i]) \div Extent[i] = centre[i]
      <4>. HIDE DEF centre
      <4>1. QED
        BY <3>1, ScaledBack, SizeIsPositive
    <3>. HIDE DEF scaled, centre, box
    <3>6. QED
      BY <3>1, <3>4, <3>5
  <2>2. DOMAIN centre = Axes
    BY <1>4 DEF Point
  <2>. HIDE DEF centre, box
  <2>3. QED
    BY <1>4, <2>1 DEF Point
<1>11. \A i \in Axes : pointer'[h][i] = centre[i]
  <2>. HIDE DEF centre, scaled, box, h
  <2>1. \A i \in Axes : pointer'[h][i] = IF centre[i] < 0 THEN 0
                                        ELSE IF centre[i] > Extent[i] - 1 THEN Extent[i] - 1
                                        ELSE centre[i]
    BY <1>4, <1>5, <1>8, <1>9, <1>10, RestOnSole DEF box
  <2>2. QED
    BY <1>4, <2>1, SizeIsPositive
<1>. HIDE DEF centre, h
<1>12. \A i \in Axes : centre[i] \in Int
  BY <1>4 DEF Point
<1>13. QED
  BY <1>7, <1>11, <1>12 DEF Close, h

\* HandleInputEvent: what is sent is what the tracked cursor makes of the motion.
LEMMA MoveFollows ==
  ASSUME SoleElsewhere, IInv, LinkInv, FollowInv, NEW d \in Moves, Move(d)
  PROVE  FollowInv'
<1>1. /\ UNCHANGED <<machine, live, changed, controlled, touched, host, name, monitors, config, owner>>
      /\ owner \in Addresses /\ host[owner] \in Hosts
  BY DEF Move, clientVars, Registered, IInv, ScreensTypeOK
<1>2. SUFFICES ASSUME Undisturbed(owner), monitors[owner] = SoleScreen,
                      NEW k \in cursor'[owner]
               PROVE  Close(k.at, pointer'[host[owner]])
  BY <1>1 DEF FollowInv, Follows, Undisturbed, Live
<1>20. Live(owner) /\ host[owner] \in controlled /\ host[owner] \notin changed
       /\ Plain(machine[host[owner]])
  BY <1>2 DEF Undisturbed
<1>. DEFINE h == host[owner]
<1>3. monitors[owner] # <<>>
  BY <1>2 DEF SoleScreen
<1>4. CASE UNCHANGED cursor /\ cursor[owner] = {}
  BY <1>2, <1>4
<1>5. ASSUME NEW c \in cursor[owner], MoveTracked(owner, d, c)
      PROVE  Close(k.at, pointer'[h])
  <2>. DEFINE sum == [i \in Axes |-> c.at[i] + d[i]]
              to == Stopped(sum, c.bounds)
              delta == [i \in Axes |-> to[i] - c.at[i]]
              q == [i \in Axes |-> pointer[h][i] + delta[i]]
  <2>1. c \in Cursor /\ Tracked(owner, c)
    BY <1>1 DEF IInv, ScreensTypeOK, CursorInv
  <2>2. c.at \in Point /\ c = [at |-> c.at, bounds |-> c.bounds]
    BY <2>1 DEF Cursor
  <2>3. c.bounds = [min |-> Origin, max |-> Extent]
    BY <1>2, <1>3, <2>1, SoleBox DEF Tracked
  <2>4. Close(c.at, pointer[h])
    BY <1>1, <1>2 DEF FollowInv, Follows
  <2>5. Layout(h) # <<>> /\ CalculateTotalDisplayBounds(Layout(h)) = [min |-> Origin, max |-> Extent]
    BY <1>1, <1>2, <1>20, SoleLayout
  <2>6. /\ cursor' = [cursor EXCEPT ![owner] = {[c EXCEPT !.at = to]}]
        /\ Injects(owner, MovedBy(h, delta))
    BY <1>5 DEF MoveTracked
  <2>7. k.at = to
    <3>. HIDE DEF to
    <3>1. k = [c EXCEPT !.at = to]
      BY <1>1, <1>2, <2>6 DEF IInv, ScreensTypeOK
    <3>2. QED
      BY <2>2, <3>1
  <2>8. pointer'[h] = Rest(Layout(h), q, pointer[h])
    <3>1. pointer'[h] = MovedBy(h, delta)
      BY <1>1, <1>20, <2>6 DEF Injects, Reaches, Live, LinkInv, LinkTypes
    <3>2. QED
      BY <3>1 DEF MovedBy
  <2>9. ASSUME NEW i \in Axes
        PROVE  /\ c.at[i] \in Int /\ d[i] \in Int /\ pointer[h][i] \in Int
               /\ c.at[i] - pointer[h][i] \in 0..1
               /\ to[i] \in Int
               /\ to[i] = IF c.at[i] + d[i] < 0 THEN 0
                          ELSE IF c.at[i] + d[i] > Extent[i] THEN Extent[i] ELSE c.at[i] + d[i]
               /\ q[i] \in Int /\ q[i] = pointer[h][i] + (to[i] - c.at[i])
    <3>1. c.at[i] \in Int /\ d[i] \in Int /\ pointer[h][i] \in Int /\ c.at[i] - pointer[h][i] \in 0..1
      BY <2>2, <2>4 DEF Close, Point
    <3>2. to[i] = IF sum[i] < c.bounds.min[i] THEN c.bounds.min[i]
                  ELSE IF sum[i] > c.bounds.max[i] THEN c.bounds.max[i] ELSE sum[i]
      BY DEF Stopped, ConstrainCursorPosition
    <3>3. sum[i] = c.at[i] + d[i] /\ c.bounds.min[i] = 0 /\ c.bounds.max[i] = Extent[i]
      BY <2>3 DEF Origin
    <3>4. q[i] = pointer[h][i] + (to[i] - c.at[i])
      OBVIOUS
    <3>. HIDE DEF sum, to, q
    <3>5. QED
      BY <3>1, <3>2, <3>3, <3>4, SizeIsPositive
  <2>10. q \in Point
    BY <2>9 DEF Point
  <2>. HIDE DEF sum, to, delta, q, h
  <2>11. ASSUME NEW i \in Axes PROVE pointer'[h][i] \in Int /\ to[i] - pointer'[h][i] \in 0..1
    <3>1. pointer'[h][i] = IF q[i] < 0 THEN 0 ELSE IF q[i] > Extent[i] - 1 THEN Extent[i] - 1 ELSE q[i]
      BY <2>5, <2>8, <2>10, RestOnSole
    <3>2. Extent[i] \in Int /\ Extent[i] > 0
      BY SizeIsPositive
    <3>3. QED
      BY <2>9, <3>1, <3>2, StopTogether
  <2>12. QED
    BY <2>7, <2>11 DEF Close
<1>6. QED
  BY <1>1, <1>3, <1>4, <1>5 DEF Move

\* Steps that move neither a cursor in control nor its pointer.
LEMMA FollowFrame ==
  ASSUME FollowInv,
         \A a \in Addresses :
           Undisturbed(a)' /\ owner' = a /\ monitors'[a] = SoleScreen =>
             \/ cursor'[a] = {}
             \/ /\ Undisturbed(a) /\ owner = a /\ monitors[a] = SoleScreen
                /\ cursor'[a] = cursor[a] /\ pointer'[host'[a]] = pointer[host[a]]
  PROVE  FollowInv'
<1>1. SUFFICES ASSUME NEW a \in Addresses PROVE Follows(a)'
  BY DEF FollowInv
<1>2. Follows(a)
  BY DEF FollowInv
<1>3. QED
  BY <1>2 DEF Follows

LEMMA FollowInvNext ==
  ASSUME SoleElsewhere, IInv, LinkInv, FollowInv, [Next]_vars
  PROVE  FollowInv'
<1>1. CASE \E a \in Addresses, h \in Hosts : Connect(a, h)
  <2>1. PICK a \in Addresses, h \in Hosts : Connect(a, h)
    BY <1>1
  <2>2. cursor'[a] = {}
    BY <2>1 DEF Connect, Registered, LinkInv, Cleared
  <2>3. ASSUME NEW b \in Addresses \ {a}, Undisturbed(b)'
        PROVE  Undisturbed(b) /\ host'[b] = host[b] /\ monitors'[b] = monitors[b]
    BY <2>1, <2>3 DEF Connect, Undisturbed, Live, LinkInv, LinkTypes, IInv, ScreensTypeOK
  <2>4. UNCHANGED <<owner, cursor, pointer>>
    BY <2>1 DEF Connect
  <2>5. QED
    BY <2>2, <2>3, <2>4, FollowFrame
<1>2. CASE \E h \in Hosts : Vanish(h)
  <2>1. PICK h \in Hosts : Vanish(h)
    BY <1>2
  <2>2. /\ UNCHANGED <<machine, changed, pointer, touched, host, monitors, cursor, owner>>
        /\ controlled' \subseteq controlled
    BY <2>1 DEF Vanish, clientVars
  <2>3. \A a \in Addresses : Live(a)' => Live(a)
    BY <2>1, <2>2 DEF Vanish, Live, LinkInv, LinkTypes, IInv, ScreensTypeOK
  <2>5. \A a \in Addresses : Undisturbed(a)' => Undisturbed(a)
    BY <2>2, <2>3 DEF Undisturbed
  <2>4. QED
    BY <2>2, <2>5, FollowFrame
<1>3. CASE \E h \in Hosts : Replug(h)
  <2>1. PICK h \in Hosts : Replug(h)
    BY <1>3
  <2>2. /\ UNCHANGED <<live, controlled, touched, host, monitors, cursor, owner>>
        /\ changed' = changed \cup {h}
        /\ \E p : pointer' = [pointer EXCEPT ![h] = p]
        /\ \E m \in Machines[h] : machine' = [machine EXCEPT ![h] = m]
    BY <2>1, Zenon DEF Replug, clientVars
  <2>3. ASSUME NEW a \in Addresses, Undisturbed(a)'
        PROVE  Undisturbed(a) /\ pointer'[host'[a]] = pointer[host[a]]
    BY <2>2, <2>3 DEF Undisturbed, Live, LinkInv, LinkTypes, IInv, ScreensTypeOK
  <2>4. QED
    BY <2>2, <2>3, FollowFrame
<1>4. CASE \E a \in Addresses : UnregisterClient(a)
  <2>1. PICK a \in Addresses : UnregisterClient(a)
    BY <1>4
  <2>2. UNCHANGED <<machine, live, changed, pointer, controlled, touched>> /\ ~ Live(a)'
    BY <2>1 DEF UnregisterClient, hostVars, Live, IInv, ScreensTypeOK
  <2>3. \A b \in Addresses : owner' = b => owner = b
    BY <2>1 DEF UnregisterClient, ReturnsToLocal
  <2>4. \A b \in Addresses \ {a} : host'[b] = host[b] /\ monitors'[b] = monitors[b]
                                  /\ cursor'[b] = cursor[b]
    BY <2>1 DEF UnregisterClient, IInv, ScreensTypeOK
  <2>5. \A b \in Addresses : Undisturbed(b)' => Undisturbed(b) /\ b # a
    BY <2>2, <2>4 DEF Undisturbed, Live
  <2>6. QED
    BY <2>2, <2>3, <2>4, <2>5, FollowFrame
<1>5. CASE \E a \in Addresses : UpdateClientConfiguration(a)
  <2>1. PICK a \in Addresses : UpdateClientConfiguration(a)
    BY <1>5
  <2>2. UNCHANGED <<machine, live, changed, pointer, controlled, touched, host, owner>>
    BY <2>1 DEF UpdateClientConfiguration, hostVars
  <2>3. \A d \in Addresses : /\ Live(d)' <=> Live(d)
                             /\ Undisturbed(d)' <=> Undisturbed(d)
    BY <2>2 DEF Undisturbed, Live
  <2>4. PICK list \in config[a] :
          \/ \E b \in Matching(host[a]) : /\ monitors' = [monitors EXCEPT ![b] = list]
                                        /\ Rebound(b, list)
          \/ UNCHANGED <<monitors, name, cursor>>
    BY <2>1 DEF UpdateClientConfiguration
  <2>5. CASE UNCHANGED <<monitors, name, cursor>>
    BY <2>2, <2>3, <2>5, FollowFrame
  <2>6. ASSUME NEW b \in Matching(host[a]), monitors' = [monitors EXCEPT ![b] = list],
               Rebound(b, list)
        PROVE  FollowInv'
    <3>1. b \in Addresses
      BY MatchIsOwn
    <3>2. \A d \in Addresses \ {b} : monitors'[d] = monitors[d] /\ cursor'[d] = cursor[d]
      BY <2>6, <3>1 DEF Rebound, IInv, ScreensTypeOK
    <3>3. Live(b) => cursor'[b] = {}
      <4>1. SUFFICES ASSUME Live(b) PROVE cursor'[b] = {}
        OBVIOUS
      <4>2. b = a
        BY <4>1, LiveTakesItsOwn
      <4>3. cursor[b] = {}
        BY <4>1, <4>2 DEF LinkInv, ConfiguredOnce
      <4>4. QED
        BY <2>6, <3>1, <4>3 DEF Rebound, IInv, ScreensTypeOK
    <3>4. Undisturbed(b) => Live(b)
      BY DEF Undisturbed
    <3>5. QED
      BY <2>2, <2>3, <3>2, <3>3, <3>4, FollowFrame
  <2>7. QED
    BY <2>4, <2>5, <2>6
<1>6. CASE \E a \in Addresses : SwitchToClient(a)
  BY <1>6, SwitchFollows
<1>7. CASE SwitchToLocal
  <2>1. \A a \in Addresses : owner' # a
    BY <1>7 DEF SwitchToLocal
  <2>2. QED
    BY <2>1 DEF FollowInv, Follows
<1>8. CASE \E d \in Moves : Move(d)
  BY <1>8, MoveFollows
<1>9. CASE UNCHANGED vars
  BY <1>9 DEF vars, hostVars, clientVars, FollowInv, Follows, Undisturbed, Live
<1>10. CASE \E h \in Hosts : UserReleases(h)
  <2>1. /\ UNCHANGED <<machine, live, changed, pointer, touched, host, monitors, cursor, owner>>
        /\ controlled' \subseteq controlled
    BY <1>10 DEF UserReleases, clientVars
  <2>2. \A a \in Addresses : Undisturbed(a)' => Undisturbed(a)
    BY <2>1 DEF Undisturbed, Live
  <2>3. QED
    BY <2>1, <2>2, FollowFrame
<1>11. CASE \E h \in Hosts, d \in OwnMoves : OwnMouse(h, d)
  <2>1. PICK h \in Hosts, d \in OwnMoves : OwnMouse(h, d)
    BY <1>11
  <2>2. /\ UNCHANGED <<machine, live, changed, controlled, host, monitors, cursor, owner>>
        /\ touched' = touched \cup {h}
        /\ \E p : pointer' = [pointer EXCEPT ![h] = p]
    BY <2>1, Zenon DEF OwnMouse, clientVars
  <2>3. ASSUME NEW a \in Addresses, Undisturbed(a)'
        PROVE  Undisturbed(a) /\ pointer'[host'[a]] = pointer[host[a]]
    BY <2>2, <2>3 DEF Undisturbed, Live, LinkInv, LinkTypes, IInv, ScreensTypeOK
  <2>4. QED
    BY <2>2, <2>3, FollowFrame
<1>12. QED
  BY <1>1, <1>2, <1>3, <1>4, <1>5, <1>6, <1>7, <1>8, <1>9, <1>10, <1>11 DEF Next

\* SwitchToClient, HandleInputEvent and the client's virtual pointer: with the one screen
\* that InjectMousePosition assumes, neither scaled nor turned, the pointer is where the
\* server believes it to be, or a pixel before it, for any size of that screen and any
\* sessions and motions, until the client's user moves the mouse or takes control back.
THEOREM PointerStaysWithCursor ==
  ASSUME SoleElsewhere
  PROVE  Spec => []PointerFollows
<1>1. Init => FollowInv
  BY LinkInvInit
<1>2. IInv /\ LinkInv /\ FollowInv /\ [Next]_vars => FollowInv'
  BY FollowInvNext
<1>3. IInv /\ LinkInv /\ FollowInv => PointerFollows
  BY DEF FollowInv, Follows, Undisturbed, Live, Reaches, Close, PointerFollows, Registered
<1>4. QED
  BY <1>1, <1>2, <1>3, SessionsAreFresh, PTL DEF Spec
=============================================================================
