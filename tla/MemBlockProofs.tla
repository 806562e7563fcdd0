--------------------------- MODULE MemBlockProofs ---------------------------
(***************************************************************************)
(* The memory block driver keeps its lists for every area size, every set  *)
(* of tasks and every bound: the theorems at the end state it of the       *)
(* specification of MemBlock.                                              *)
(***************************************************************************)
EXTENDS MemBlock, ListLemmas, FiniteSetTheorems

Block == [phys : Phys, pages : 1 .. Pages, count : Nat, creator : Nat,
          mbu_list : Seq(MbUser)]

(* What holds of every block on its own.                                   *)
BlockOK(b) ==
  /\ b \in Block
  /\ b.count = Len(b.mbu_list)
  /\ b.creator <= Len(b.mbu_list)
  /\ \A j \in 1 .. Len(b.mbu_list) :
       /\ b.mbu_list[j].addr = NULL <=> j = b.creator
       /\ j = b.creator => b.mbu_list[j].size = b.pages

(* The positions of the blocks in the area.                                *)
Layout(l) ==
  /\ \A i \in 1 .. Len(l) : PhysStart <= l[i].phys /\ End(l[i]) <= PfnEnd
  /\ \A i, j \in 1 .. Len(l) : i < j => End(l[i]) <= l[j].phys

ListOK(l) ==
  /\ l \in Seq(Block)
  /\ \A i \in 1 .. Len(l) : BlockOK(l[i])
  /\ Layout(l)

(* Two blocks that cover the same pages.                                   *)
SamePlace(b, c) == b.phys = c.phys /\ b.pages = c.pages

-----------------------------------------------------------------------------
(* What the updates of several fields of a block at once give.             *)
LEMMA UpdateTwo ==
  ASSUME NEW b \in Block, NEW x, NEW y
  PROVE  [b EXCEPT !.mbu_list = x, !.count = y] =
           [phys |-> b.phys, pages |-> b.pages, count |-> y,
            creator |-> b.creator, mbu_list |-> x]
<1> DEFINE c == [b EXCEPT !.mbu_list = x]
           d == [c EXCEPT !.count = y]
<1>1. c = [phys |-> b.phys, pages |-> b.pages, count |-> b.count,
           creator |-> b.creator, mbu_list |-> x]
  BY DEF Block
<1>2. c \in [phys : Phys, pages : 1 .. Pages, count : Nat, creator : Nat,
             mbu_list : {x}]
  BY <1>1 DEF Block
<1>3. d = [phys |-> b.phys, pages |-> b.pages, count |-> y,
           creator |-> b.creator, mbu_list |-> x]
  <2> HIDE DEF c
  <2> QED BY <1>1, <1>2
<1>4. [b EXCEPT !.mbu_list = x, !.count = y] = d
  BY DEF Block
<1> QED BY <1>3, <1>4

LEMMA UpdateThree ==
  ASSUME NEW b \in Block, NEW x, NEW y, NEW z
  PROVE  [b EXCEPT !.mbu_list = x, !.count = y, !.creator = z] =
           [phys |-> b.phys, pages |-> b.pages, count |-> y,
            creator |-> z, mbu_list |-> x]
<1> DEFINE d == [b EXCEPT !.mbu_list = x, !.count = y]
<1>1. d = [phys |-> b.phys, pages |-> b.pages, count |-> y,
           creator |-> b.creator, mbu_list |-> x]
  BY UpdateTwo
<1>2. d \in [phys : Phys, pages : 1 .. Pages, count : {y}, creator : Nat,
             mbu_list : {x}]
  BY <1>1 DEF Block
<1>3. [d EXCEPT !.creator = z] =
        [phys |-> b.phys, pages |-> b.pages, count |-> y,
         creator |-> z, mbu_list |-> x]
  <2> HIDE DEF d
  <2> QED BY <1>1, <1>2
<1>4. [b EXCEPT !.mbu_list = x, !.count = y, !.creator = z]
        = [d EXCEPT !.creator = z]
  BY DEF Block
<1> QED BY <1>3, <1>4

(* Linking an mb_user with an address keeps a block sound.                 *)
LEMMA AddUserOK ==
  ASSUME NEW b, BlockOK(b), NEW u \in MbUser, u.addr # NULL
  PROVE  BlockOK(AddUser(b, u)) /\ SamePlace(AddUser(b, u), b)
<1> DEFINE c == AddUser(b, u)
           m == b.mbu_list
           a == Append(m, u)
<1>0. b \in Block /\ m \in Seq(MbUser) /\ Len(m) \in Nat /\ b.creator \in Nat
  BY DEF BlockOK, Block
<1>1. /\ a \in Seq(MbUser) /\ Len(a) = Len(m) + 1
      /\ \A j \in 1 .. Len(m) : a[j] = m[j]
      /\ a[Len(m) + 1] = u
  BY <1>0, AppendProperties
<1> HIDE DEF a
<1>2. c = [phys |-> b.phys, pages |-> b.pages, count |-> b.count + 1,
           creator |-> b.creator, mbu_list |-> a]
  BY <1>0, UpdateTwo DEF AddUser, a
<1>6. /\ c \in Block /\ c.mbu_list = a /\ c.count = b.count + 1
      /\ c.creator = b.creator /\ c.phys = b.phys /\ c.pages = b.pages
  BY <1>0, <1>1, <1>2 DEF Block
<1> HIDE DEF c, m
<1>3. ASSUME NEW j \in 1 .. Len(a)
      PROVE  /\ a[j].addr = NULL <=> j = b.creator
             /\ j = b.creator => a[j].size = b.pages
  <2>1. CASE j \in 1 .. Len(m)
    BY <2>1, <1>1 DEF BlockOK, m
  <2>2. CASE j = Len(m) + 1
    BY <2>2, <1>0, <1>1 DEF BlockOK, m
  <2> QED BY <1>0, <1>1, <2>1, <2>2
<1>4. c.count = Len(a) /\ c.creator <= Len(a)
  BY <1>0, <1>1, <1>6 DEF BlockOK, m
<1>5. BlockOK(c)
  BY <1>6, <1>3, <1>4 DEF BlockOK
<1> QED BY <1>6, <1>5 DEF SamePlace, c

(* Unlinking an mb_user, the creator or another one, keeps the positions   *)
(* of the others and moves the creator's with them.                        *)
LEMMA UnlinkFacts ==
  ASSUME NEW b, BlockOK(b), NEW j \in 1 .. Len(b.mbu_list), NEW cr \in Nat,
         NEW c,
         c = [phys |-> b.phys, pages |-> b.pages, count |-> b.count - 1,
              creator |-> cr, mbu_list |-> RemoveAt(b.mbu_list, j)],
         \/ j = b.creator /\ cr = NULL
         \/ j # b.creator /\ cr = IF b.creator > j THEN b.creator - 1
                                  ELSE b.creator
  PROVE  BlockOK(c) /\ SamePlace(c, b)
<1> DEFINE m == b.mbu_list
           r == RemoveAt(m, j)
<1>0. /\ b \in Block /\ m \in Seq(MbUser) /\ Len(m) \in Nat /\ b.creator \in Nat
      /\ b.count = Len(m) /\ b.creator <= Len(m) /\ j \in 1 .. Len(m)
  BY DEF BlockOK, Block
<1>1. /\ r \in Seq(MbUser) /\ Len(r) = Len(m) - 1
      /\ \A h \in 1 .. Len(m) - 1 : r[h] = IF h < j THEN m[h] ELSE m[h + 1]
  BY <1>0, RemoveAtFacts, Zenon
<1>2. \A h \in 1 .. Len(m) : /\ m[h].addr = NULL <=> h = b.creator
                             /\ h = b.creator => m[h].size = b.pages
  BY DEF BlockOK
<1>3. c.mbu_list = r /\ c.count = Len(m) - 1 /\ c.creator = cr
      /\ c.phys = b.phys /\ c.pages = b.pages
  BY <1>0
<1>4. c \in Block
  BY <1>0, <1>1 DEF Block
<1> HIDE DEF r, m
<1>5. cr <= Len(r)
  BY <1>0, <1>1 DEF NULL
<1>6. ASSUME NEW h \in 1 .. Len(r)
      PROVE  /\ r[h].addr = NULL <=> h = cr
             /\ h = cr => r[h].size = b.pages
  <2>1. CASE h < j
    <3>1. h \in 1 .. Len(m) /\ r[h] = m[h]
      BY <2>1, <1>0, <1>1
    <3>2. h = cr <=> h = b.creator
      BY <2>1, <1>0, <1>1 DEF NULL
    <3> QED BY <3>1, <3>2, <1>2
  <2>2. CASE ~(h < j)
    <3>1. h + 1 \in 1 .. Len(m) /\ r[h] = m[h + 1]
      BY <2>2, <1>0, <1>1
    <3>2. h = cr <=> h + 1 = b.creator
      BY <2>2, <1>0, <1>1 DEF NULL
    <3> QED BY <3>1, <3>2, <1>2
  <2> QED BY <2>1, <2>2
<1>7. BlockOK(c)
  BY <1>1, <1>3, <1>4, <1>5, <1>6, <1>0 DEF BlockOK
<1> QED BY <1>3, <1>7 DEF SamePlace

LEMMA DelUserOK ==
  ASSUME NEW b, BlockOK(b), NEW j \in 1 .. Len(b.mbu_list), j # b.creator
  PROVE  BlockOK(DelUser(b, j)) /\ SamePlace(DelUser(b, j), b)
<1> DEFINE cr == IF b.creator > j THEN b.creator - 1 ELSE b.creator
<1>1. b \in Block /\ b.creator \in Nat /\ Len(b.mbu_list) \in Nat
  BY DEF BlockOK, Block
<1>2. cr \in Nat
  BY <1>1
<1>3. DelUser(b, j) =
        [phys |-> b.phys, pages |-> b.pages, count |-> b.count - 1,
         creator |-> cr, mbu_list |-> RemoveAt(b.mbu_list, j)]
  BY <1>1, UpdateThree DEF DelUser
<1> HIDE DEF cr
<1> QED BY <1>2, <1>3, UnlinkFacts DEF cr

LEMMA DelCreatorOK ==
  ASSUME NEW b, BlockOK(b), b.creator # NULL
  PROVE  BlockOK(DelCreator(b)) /\ SamePlace(DelCreator(b), b)
<1>1. b \in Block /\ b.creator \in 1 .. Len(b.mbu_list)
  BY DEF BlockOK, Block, NULL
<1>2. DelCreator(b) =
        [phys |-> b.phys, pages |-> b.pages, count |-> b.count - 1,
         creator |-> NULL, mbu_list |-> RemoveAt(b.mbu_list, b.creator)]
  <2> DEFINE d == DelUser(b, b.creator)
  <2>1. d = [phys |-> b.phys, pages |-> b.pages, count |-> b.count - 1,
             creator |-> FREED, mbu_list |-> RemoveAt(b.mbu_list, b.creator)]
    BY <1>1, UpdateThree DEF DelUser
  <2> HIDE DEF d
  <2> QED BY <2>1 DEF DelCreator, d
<1>3. NULL \in Nat
  BY DEF NULL
<1> QED BY <1>1, <1>2, <1>3, UnlinkFacts

-----------------------------------------------------------------------------
(* The entries of a sound list have numbers for addresses.                 *)
LEMMA EntryFacts ==
  ASSUME NEW l, ListOK(l)
  PROVE  /\ Len(l) \in Nat
         /\ \A i \in 1 .. Len(l) :
              /\ BlockOK(l[i]) /\ l[i] \in Block
              /\ l[i].phys \in Int /\ l[i].pages \in Int /\ l[i].pages >= 1
              /\ End(l[i]) = l[i].phys + l[i].pages /\ End(l[i]) \in Int
              /\ PhysStart <= l[i].phys /\ End(l[i]) <= PfnEnd
         /\ \A i, j \in 1 .. Len(l) : i < j => End(l[i]) <= l[j].phys
<1>1. l \in Seq(Block) /\ Len(l) \in Nat
  BY LenProperties DEF ListOK
<1>2. ASSUME NEW b \in Block
      PROVE  b.phys \in Int /\ b.pages \in Int /\ b.pages >= 1
             /\ End(b) = b.phys + b.pages /\ End(b) \in Int
  BY MBAssumption DEF Block, Phys, PfnEnd, End
<1> QED BY <1>1, <1>2 DEF ListOK, Layout, BlockOK

(* Addresses grow along the list.                                          *)
LEMMA OrderFacts ==
  ASSUME NEW l, ListOK(l), NEW i \in 1 .. Len(l), NEW j \in 1 .. Len(l), i < j
  PROVE  /\ l[i].phys < End(l[i]) /\ End(l[i]) <= l[j].phys
         /\ l[i].phys <= l[j].phys /\ End(l[i]) <= End(l[j])
<1>1. /\ l[i].phys \in Int /\ l[i].pages \in Int /\ l[i].pages >= 1
      /\ End(l[i]) = l[i].phys + l[i].pages
      /\ l[j].phys \in Int /\ l[j].pages \in Int /\ l[j].pages >= 1
      /\ End(l[j]) = l[j].phys + l[j].pages
  BY EntryFacts
<1>2. End(l[i]) <= l[j].phys
  BY EntryFacts
<1> QED BY <1>1, <1>2

(* No zone wraps, and none is larger than the area.                        *)
LEMMA ZoneFacts ==
  ASSUME NEW l, ListOK(l), NEW k \in Zones(l)
  PROVE  /\ k \in 1 .. Len(l) + 1
         /\ ZoneStart(l, k) \in Int /\ ZoneEnd(l, k) \in Int
         /\ PhysStart <= ZoneStart(l, k) /\ ZoneStart(l, k) <= ZoneEnd(l, k)
         /\ ZoneEnd(l, k) <= PfnEnd
         /\ Zone(l, k) = ZoneEnd(l, k) - ZoneStart(l, k)
         /\ Zone(l, k) \in 0 .. Pages
<1>0. PhysStart \in Int /\ PfnEnd = PhysStart + Pages /\ Pages \in Nat
  BY MBAssumption DEF PfnEnd
<1>1. k \in 1 .. Len(l) + 1 /\ Len(l) \in Nat
  BY EntryFacts DEF Zones
<1>2. /\ ZoneStart(l, k) \in Int /\ PhysStart <= ZoneStart(l, k)
      /\ ZoneStart(l, k) <= PfnEnd
  BY <1>0, <1>1, EntryFacts DEF ZoneStart
<1>3. ZoneEnd(l, k) \in Int /\ ZoneEnd(l, k) <= PfnEnd
  <2>1. CASE k = Len(l) + 1
    BY <2>1, <1>0 DEF ZoneEnd
  <2>2. CASE k \in 1 .. Len(l)
    <3>1. l[k].phys \in Int /\ l[k].phys <= PfnEnd
      BY <2>2, <1>0, EntryFacts
    <3> QED BY <3>1, <2>2, <1>1 DEF ZoneEnd
  <2> QED BY <2>1, <2>2, <1>1
<1>4. ZoneStart(l, k) <= ZoneEnd(l, k)
  <2>1. CASE k = Len(l) + 1
    BY <2>1, <1>2 DEF ZoneEnd
  <2>2. CASE k = 1 /\ k <= Len(l)
    BY <2>2, <1>1, EntryFacts DEF ZoneEnd, ZoneStart
  <2>3. CASE k \in 2 .. Len(l)
    <3>1. k - 1 \in 1 .. Len(l) /\ k \in 1 .. Len(l) /\ k - 1 < k
      BY <2>3, <1>1
    <3>2. End(l[k - 1]) <= l[k].phys
      BY <3>1, EntryFacts
    <3> QED BY <3>2, <2>3, <1>1 DEF ZoneEnd, ZoneStart
  <2> QED BY <2>1, <2>2, <2>3, <1>1
<1>5. Zone(l, k) = ZoneEnd(l, k) - ZoneStart(l, k)
  BY <1>2, <1>3, <1>4 DEF Zone, ULongSub
<1> QED BY <1>0, <1>1, <1>2, <1>3, <1>4, <1>5

(* The running max() over the zones is attained and bounds every zone.     *)
LEMMA LargestZoneFacts ==
  ASSUME NEW l, ListOK(l)
  PROVE  /\ LargestZone(l) \in 0 .. Pages
         /\ \E k \in Zones(l) : Zone(l, k) = LargestZone(l)
         /\ \A k \in Zones(l) : Zone(l, k) <= LargestZone(l)
<1> DEFINE T == {Zone(l, k) : k \in Zones(l)}
<1>1. T \subseteq 0 .. Pages
  BY ZoneFacts
<1>2. T # {}
  <2>1. 1 \in Zones(l)
    BY EntryFacts DEF Zones
  <2> QED BY <2>1
<1>3. Pages \in Nat
  BY MBAssumption
<1> HIDE DEF T
<1>4. Max(T) \in T /\ \A y \in T : y <= Max(T)
  BY <1>1, <1>2, <1>3, MaxFacts
<1> QED BY <1>1, <1>4 DEF T, LargestZone

(* LargestZone is determined by what the two facts above say of it.        *)
LEMMA LargestZoneUnique ==
  ASSUME NEW l, ListOK(l), NEW x \in 0 .. Pages,
         \E k \in Zones(l) : Zone(l, k) = x,
         \A k \in Zones(l) : Zone(l, k) <= x
  PROVE  LargestZone(l) = x
<1>1. LargestZone(l) <= x /\ x <= LargestZone(l)
  BY LargestZoneFacts
<1> QED BY <1>1, LargestZoneFacts, MBAssumption

-----------------------------------------------------------------------------
(* The pages that no block covers, and the gap that each zone is.          *)
FreeSet(l) ==
  {p \in Phys : \A i \in 1 .. Len(l) : ~(l[i].phys <= p /\ p < End(l[i]))}
Free(l) == Cardinality(FreeSet(l))
Gap(l, k) == ZoneStart(l, k) .. ZoneEnd(l, k) - 1
Gaps(l, K) == UNION {Gap(l, k) : k \in K}

(* A zone ends where its successor in the list begins at the latest.       *)
LEMMA ZoneOrder ==
  ASSUME NEW l, ListOK(l), NEW j \in Zones(l), NEW k \in Zones(l), j < k
  PROVE  /\ j \in 1 .. Len(l) /\ ZoneEnd(l, j) = l[j].phys
         /\ End(l[j]) <= ZoneStart(l, k) /\ ZoneEnd(l, j) < ZoneStart(l, k)
<1>0. Len(l) \in Nat /\ j \in 1 .. Len(l) /\ k - 1 \in 1 .. Len(l) /\ k # 1
  BY EntryFacts DEF Zones
<1>1. ZoneEnd(l, j) = l[j].phys /\ ZoneStart(l, k) = End(l[k - 1])
  BY <1>0 DEF ZoneEnd, ZoneStart
<1>2. /\ l[j].phys \in Int /\ l[j].pages \in Int /\ l[j].pages >= 1
      /\ End(l[j]) = l[j].phys + l[j].pages
  BY <1>0, EntryFacts
<1>3. End(l[j]) <= End(l[k - 1]) /\ End(l[k - 1]) \in Int
  <2>1. CASE j = k - 1
    BY <2>1, <1>0, EntryFacts
  <2>2. CASE j < k - 1
    BY <2>2, <1>0, EntryFacts, OrderFacts
  <2> QED BY <2>1, <2>2, <1>0
<1> QED BY <1>0, <1>1, <1>2, <1>3

LEMMA GapFacts ==
  ASSUME NEW l, ListOK(l), NEW k \in Zones(l)
  PROVE  /\ Gap(l, k) \subseteq Phys
         /\ IsFiniteSet(Gap(l, k)) /\ Cardinality(Gap(l, k)) = Zone(l, k)
<1>1. /\ ZoneStart(l, k) \in Int /\ ZoneEnd(l, k) \in Int
      /\ PhysStart <= ZoneStart(l, k) /\ ZoneStart(l, k) <= ZoneEnd(l, k)
      /\ ZoneEnd(l, k) <= PfnEnd
      /\ Zone(l, k) = ZoneEnd(l, k) - ZoneStart(l, k)
  BY ZoneFacts
<1>2. PhysStart \in Int /\ PfnEnd \in Int
  BY MBAssumption DEF PfnEnd
<1>3. Gap(l, k) \subseteq Phys
  BY <1>1, <1>2 DEF Gap, Phys
<1>4. ZoneEnd(l, k) - 1 \in Int
  BY <1>1
<1>5. /\ IsFiniteSet(Gap(l, k))
      /\ Cardinality(Gap(l, k)) = IF ZoneStart(l, k) > ZoneEnd(l, k) - 1 THEN 0
                                  ELSE ZoneEnd(l, k) - 1 - ZoneStart(l, k) + 1
  BY <1>1, <1>4, FS_Interval DEF Gap
<1> QED BY <1>1, <1>3, <1>5

LEMMA GapsDisjoint ==
  ASSUME NEW l, ListOK(l), NEW j \in Zones(l), NEW k \in Zones(l), j # k
  PROVE  Gap(l, j) \cap Gap(l, k) = {}
<1>1. ASSUME NEW a \in Zones(l), NEW b \in Zones(l), a < b
      PROVE  Gap(l, a) \cap Gap(l, b) = {}
  <2>1. ZoneEnd(l, a) < ZoneStart(l, b)
    BY <1>1, ZoneOrder
  <2>2. ZoneEnd(l, a) \in Int /\ ZoneStart(l, b) \in Int
    BY ZoneFacts
  <2> QED BY <2>1, <2>2 DEF Gap
<1>2. j < k \/ k < j
  <2>1. j \in Int /\ k \in Int
    BY EntryFacts DEF Zones
  <2> QED BY <2>1
<1> QED BY <1>1, <1>2

(* The free pages are the gaps between the blocks.                         *)
LEMMA GapsAreFree ==
  ASSUME NEW l, ListOK(l)
  PROVE  Gaps(l, Zones(l)) = FreeSet(l)
<1>0. Len(l) \in Nat /\ PhysStart \in Int /\ PfnEnd \in Int
  BY EntryFacts, MBAssumption DEF PfnEnd
<1>1. ASSUME NEW k \in Zones(l), NEW p \in Gap(l, k) PROVE p \in FreeSet(l)
  <2>1. p \in Phys /\ p \in Int
    BY GapFacts, <1>0 DEF Phys
  <2>2. /\ ZoneStart(l, k) <= p /\ p < ZoneEnd(l, k)
        /\ ZoneStart(l, k) \in Int /\ ZoneEnd(l, k) \in Int
    BY ZoneFacts DEF Gap
  <2>3. ASSUME NEW i \in 1 .. Len(l), l[i].phys <= p, p < End(l[i])
        PROVE  FALSE
    <3>0. /\ l[i].phys \in Int /\ End(l[i]) \in Int
          /\ k \in Int /\ i \in Int /\ i \in Zones(l)
      BY <1>0, EntryFacts DEF Zones
    <3>1. CASE i < k
      <4>1. End(l[i]) <= ZoneStart(l, k)
        BY <3>0, <3>1, ZoneOrder
      <4> QED BY <4>1, <3>0, <2>1, <2>2, <2>3
    <3>2. CASE i = k
      <4>1. ZoneEnd(l, k) = l[i].phys
        BY <3>2, <1>0 DEF ZoneEnd
      <4> QED BY <4>1, <3>0, <2>1, <2>2, <2>3
    <3>3. CASE k < i
      <4>1. k \in 1 .. Len(l)
        BY <3>0, <3>3, <1>0 DEF Zones
      <4>2. l[k].phys <= l[i].phys /\ ZoneEnd(l, k) = l[k].phys
        BY <4>1, <3>3, <1>0, OrderFacts DEF ZoneEnd
      <4> QED BY <4>2, <3>0, <2>1, <2>2, <2>3
    <3> QED BY <3>0, <3>1, <3>2, <3>3
  <2> QED BY <2>1, <2>3 DEF FreeSet
<1>2. ASSUME NEW p \in FreeSet(l) PROVE \E k \in Zones(l) : p \in Gap(l, k)
  <2> DEFINE T == {k \in Zones(l) : p < ZoneEnd(l, k)}
  <2>1. p \in Int /\ PhysStart <= p /\ p < PfnEnd
    BY <1>0 DEF FreeSet, Phys
  <2>2. Len(l) + 1 \in T
    BY <2>1, <1>0 DEF Zones, ZoneEnd
  <2>3. T \subseteq Nat
    BY <1>0 DEF Zones
  <2>4. PICK k \in T : \A h \in T : k <= h
    BY <2>2, <2>3, LeastNat
  <2>5. /\ k \in Zones(l) /\ p < ZoneEnd(l, k) /\ k \in 1 .. Len(l) + 1
        /\ ZoneEnd(l, k) \in Int /\ ZoneStart(l, k) \in Int
    BY ZoneFacts DEF Zones
  <2>6. ZoneStart(l, k) <= p
    <3>1. CASE k = 1
      BY <3>1, <2>1 DEF ZoneStart
    <3>2. CASE k # 1
      <4>1. k - 1 \in Zones(l) /\ k - 1 \in 1 .. Len(l) /\ ~(k <= k - 1)
        BY <3>2, <2>5, <1>0 DEF Zones
      <4>2. ~(p < ZoneEnd(l, k - 1))
        <5>1. k - 1 \notin T
          BY <4>1, <2>4
        <5> QED BY <5>1, <4>1
      <4>3. ZoneEnd(l, k - 1) = l[k - 1].phys /\ ZoneStart(l, k) = End(l[k - 1])
        BY <4>1, <3>2, <1>0 DEF ZoneEnd, ZoneStart
      <4>4. ~(l[k - 1].phys <= p /\ p < End(l[k - 1]))
        BY <4>1 DEF FreeSet
      <4>5. l[k - 1].phys \in Int /\ End(l[k - 1]) \in Int
        BY <4>1, EntryFacts
      <4> QED BY <4>2, <4>3, <4>4, <4>5, <2>1
    <3> QED BY <3>1, <3>2
  <2> QED BY <2>1, <2>5, <2>6 DEF Gap
<1> QED BY <1>1, <1>2 DEF Gaps

(* Setting one zone aside sets its pages aside.                            *)
LEMMA GapsStep ==
  ASSUME NEW l, ListOK(l), NEW K \in SUBSET Zones(l), NEW k \in K
  PROVE  Cardinality(Gaps(l, K)) = Zone(l, k) + Cardinality(Gaps(l, K \ {k}))
<1>0. IsFiniteSet(Phys)
  BY MBAssumption, FS_Interval DEF Phys, PfnEnd
<1>1. \A h \in K : Gap(l, h) \subseteq Phys
  BY GapFacts
<1>2. Gaps(l, K \ {k}) \subseteq Phys
  BY <1>1 DEF Gaps
<1>3. Gaps(l, K) = Gap(l, k) \cup Gaps(l, K \ {k})
  BY DEF Gaps
<1>4. Gap(l, k) \cap Gaps(l, K \ {k}) = {}
  <2>1. \A h \in K \ {k} : Gap(l, k) \cap Gap(l, h) = {}
    BY GapsDisjoint
  <2> QED BY <2>1 DEF Gaps
<1>5. IsFiniteSet(Gaps(l, K \ {k})) /\ IsFiniteSet(Gap(l, k))
  BY <1>0, <1>2, GapFacts, FS_Subset
<1>6. Cardinality(Gap(l, k)) = Zone(l, k) /\ Zone(l, k) \in Int
  BY GapFacts, ZoneFacts
<1>7. Cardinality(Gaps(l, K \ {k})) \in Nat
  BY <1>5, FS_CardinalityType
<1>8. Cardinality(Gaps(l, K)) =
        Cardinality(Gap(l, k)) + Cardinality(Gaps(l, K \ {k})) - Cardinality({})
  BY <1>3, <1>4, <1>5, FS_Union
<1> QED BY <1>6, <1>7, <1>8, FS_EmptySet

(* One turn of the sum over the zones, as a function of the sums of the    *)
(* smaller sets of zones.                                                  *)
SumTurn(l, f) ==
  [K \in SUBSET Zones(l) |->
     IF K = {} THEN 0
     ELSE Zone(l, CHOOSE k \in K : TRUE) + f[K \ {CHOOSE k \in K : TRUE}]]

(* The sum that mb_free_mb and mb_update_mbah compute zone by zone is the  *)
(* number of free pages: counting the pages of a set of zones solves the   *)
(* equation of the sum, and it is the only solution, since a smallest set  *)
(* of zones where two solutions differ would have a smaller one.           *)
LEMMA SumIsFree ==
  ASSUME NEW l, ListOK(l)
  PROVE  FreePages(l) = Free(l)
<1> DEFINE pick(K) == CHOOSE k \in K : TRUE
           g == [K \in SUBSET Zones(l) |-> Cardinality(Gaps(l, K))]
           f == CHOOSE h : h = SumTurn(l, h)
<1>1. FreePages(l) = f[Zones(l)]
  BY Zenon DEF FreePages, MapThenSumSet, MapThenFoldSet, SumTurn
<1>2. Cardinality(Gaps(l, {})) = 0
  BY FS_EmptySet DEF Gaps
<1>3. \A K \in SUBSET Zones(l) : K # {} => pick(K) \in K
  OBVIOUS
<1> HIDE DEF pick
<1>4. \A K \in SUBSET Zones(l) : K # {} =>
        Cardinality(Gaps(l, K)) =
          Zone(l, pick(K)) + Cardinality(Gaps(l, K \ {pick(K)}))
  BY <1>3, GapsStep
<1>5. \A h : SumTurn(l, h) = [K \in SUBSET Zones(l) |->
                 IF K = {} THEN 0 ELSE Zone(l, pick(K)) + h[K \ {pick(K)}]]
  BY Zenon DEF SumTurn, pick
<1>6. g = SumTurn(l, g)
  <2>1. ASSUME NEW K \in SUBSET Zones(l)
        PROVE  g[K] = IF K = {} THEN 0
                      ELSE Zone(l, pick(K)) + g[K \ {pick(K)}]
    <3>1. K \ {pick(K)} \in SUBSET Zones(l)
      OBVIOUS
    <3> QED BY <3>1, <1>2, <1>4
  <2>2. SumTurn(l, g) = [K \in SUBSET Zones(l) |->
                 IF K = {} THEN 0 ELSE Zone(l, pick(K)) + g[K \ {pick(K)}]]
    BY <1>5
  <2> HIDE DEF g
  <2>3. g = [K \in SUBSET Zones(l) |-> g[K]]
    BY DEF g
  <2> QED BY <2>1, <2>2, <2>3
<1>7. f = SumTurn(l, f)
  <2> HIDE DEF g
  <2> QED BY <1>6, Zenon
<1>8. ASSUME NEW K \in SUBSET Zones(l)
      PROVE  /\ f[K] = IF K = {} THEN 0
                       ELSE Zone(l, pick(K)) + f[K \ {pick(K)}]
             /\ g[K] = IF K = {} THEN 0
                       ELSE Zone(l, pick(K)) + g[K \ {pick(K)}]
  <2> HIDE DEF f, g
  <2>1. f = [L \in SUBSET Zones(l) |->
                 IF L = {} THEN 0 ELSE Zone(l, pick(L)) + f[L \ {pick(L)}]]
    BY <1>5, <1>7, Zenon
  <2>2. g = [L \in SUBSET Zones(l) |->
                 IF L = {} THEN 0 ELSE Zone(l, pick(L)) + g[L \ {pick(L)}]]
    BY <1>5, <1>6, Zenon
  <2> QED BY <2>1, <2>2
<1> HIDE DEF f
<1>9. \A K \in SUBSET Zones(l) : f[K] = g[K]
  <2> DEFINE Bad == {K \in SUBSET Zones(l) : f[K] # g[K]}
  <2> HIDE DEF g
  <2>1. SUFFICES ASSUME Bad # {} PROVE FALSE
    OBVIOUS
  <2>2. IsFiniteSet(Zones(l))
    BY EntryFacts, FS_Interval DEF Zones
  <2>3. IsWellFoundedOn(StrictSubsetOrdering(Zones(l)), SUBSET Zones(l))
    BY <2>2, FS_FiniteSubsetsOfFinite, FS_StrictSubsetOrderingWellFounded
  <2>4. Bad \subseteq SUBSET Zones(l)
    OBVIOUS
  <2> HIDE DEF Bad
  <2>5. PICK K \in Bad :
          \A L \in Bad : ~(<<L, K>> \in StrictSubsetOrdering(Zones(l)))
    BY <2>1, <2>3, <2>4, WFMin, Zenon
  <2>6. K \in SUBSET Zones(l) /\ f[K] # g[K]
    BY DEF Bad
  <2>7. K # {}
    BY <2>6, <1>8
  <2> DEFINE L == K \ {pick(K)}
  <2>8. /\ L \in SUBSET Zones(l) /\ L \subseteq K /\ L # K
        /\ f[K] = Zone(l, pick(K)) + f[L] /\ g[K] = Zone(l, pick(K)) + g[L]
    BY <2>6, <2>7, <1>3, <1>8
  <2> HIDE DEF L
  <2>9. <<L, K>> \in StrictSubsetOrdering(Zones(l))
    BY <2>6, <2>8 DEF StrictSubsetOrdering
  <2>10. f[L] = g[L]
    BY <2>5, <2>8, <2>9 DEF Bad
  <2> QED BY <2>6, <2>8, <2>10
<1>10. f[Zones(l)] = Cardinality(Gaps(l, Zones(l)))
  BY <1>9
<1> QED BY <1>1, <1>10, GapsAreFree DEF Free

LEMMA FreeNat == ASSUME NEW l PROVE Free(l) \in Nat
<1>1. IsFiniteSet(Phys) /\ FreeSet(l) \subseteq Phys
  BY MBAssumption, FS_Interval DEF Phys, PfnEnd, FreeSet
<1> QED BY <1>1, FS_Subset, FS_CardinalityType DEF Free

-----------------------------------------------------------------------------
(* Replacing a block by one at the same place keeps list and zones.        *)
LEMMA ReplaceOK ==
  ASSUME NEW l, ListOK(l), NEW i \in 1 .. Len(l),
         NEW b, BlockOK(b), SamePlace(b, l[i])
  PROVE  /\ ListOK([l EXCEPT ![i] = b])
         /\ Len([l EXCEPT ![i] = b]) = Len(l)
         /\ [l EXCEPT ![i] = b][i] = b
         /\ LargestZone([l EXCEPT ![i] = b]) = LargestZone(l)
         /\ Free([l EXCEPT ![i] = b]) = Free(l)
<1> DEFINE r == [l EXCEPT ![i] = b]
<1>0. l \in Seq(Block) /\ b \in Block /\ Len(l) \in Nat
  BY EntryFacts DEF ListOK, BlockOK
<1>1. /\ r \in Seq(Block) /\ Len(r) = Len(l)
      /\ \A j \in 1 .. Len(l) : r[j] = IF j = i THEN b ELSE l[j]
  BY <1>0, ExceptSeq
<1> HIDE DEF r
<1>2. \A j \in 1 .. Len(l) : SamePlace(r[j], l[j]) /\ BlockOK(r[j])
  BY <1>1, EntryFacts DEF SamePlace
<1>3. \A j \in 1 .. Len(l) : r[j].phys = l[j].phys /\ End(r[j]) = End(l[j])
  BY <1>2 DEF SamePlace, End
<1>4. ListOK(r)
  BY <1>1, <1>2, <1>3 DEF ListOK, Layout
<1>5. Zones(r) = Zones(l)
  BY <1>1 DEF Zones
<1>6. ASSUME NEW k \in Zones(l) PROVE Zone(r, k) = Zone(l, k)
  <2>1. k \in 1 .. Len(l) + 1
    BY DEF Zones
  <2>2. ZoneStart(r, k) = ZoneStart(l, k)
    <3>1. k # 1 => k - 1 \in 1 .. Len(l)
      BY <2>1, <1>0
    <3>2. k # 1 => End(r[k - 1]) = End(l[k - 1])
      BY <3>1, <1>3
    <3> QED BY <3>2 DEF ZoneStart
  <2>3. ZoneEnd(r, k) = ZoneEnd(l, k)
    <3>1. k # Len(l) + 1 => k \in 1 .. Len(l)
      BY <2>1, <1>0
    <3>2. k # Len(l) + 1 => r[k].phys = l[k].phys
      BY <3>1, <1>3
    <3> QED BY <3>2, <1>1 DEF ZoneEnd
  <2> QED BY <2>2, <2>3 DEF Zone
<1>7. {Zone(r, k) : k \in Zones(r)} = {Zone(l, k) : k \in Zones(l)}
  BY <1>5, <1>6
<1>8. FreeSet(r) = FreeSet(l)
  BY <1>1, <1>3 DEF FreeSet
<1> QED BY <1>1, <1>4, <1>7, <1>8 DEF LargestZone, Free, r

(* Unlinking a block keeps the list sound.                                 *)
LEMMA RemoveOK ==
  ASSUME NEW l, ListOK(l), NEW i \in 1 .. Len(l)
  PROVE  /\ ListOK(RemoveAt(l, i))
         /\ Len(RemoveAt(l, i)) = Len(l) - 1
<1> DEFINE r == RemoveAt(l, i)
           Old(j) == IF j < i THEN j ELSE j + 1
<1>0. l \in Seq(Block) /\ Len(l) \in Nat
  BY EntryFacts DEF ListOK
<1>1. /\ r \in Seq(Block) /\ Len(r) = Len(l) - 1
      /\ \A j \in 1 .. Len(l) - 1 : r[j] = IF j < i THEN l[j] ELSE l[j + 1]
  BY <1>0, RemoveAtFacts, Zenon
<1> HIDE DEF r
<1>2. ASSUME NEW j \in 1 .. Len(r)
      PROVE  Old(j) \in 1 .. Len(l) /\ r[j] = l[Old(j)]
  BY <1>0, <1>1
<1>3. \A j, h \in 1 .. Len(r) : j < h => Old(j) < Old(h)
  BY <1>0, <1>1
<1> HIDE DEF Old
<1>4. \A j \in 1 .. Len(r) : /\ BlockOK(r[j]) /\ PhysStart <= r[j].phys
                             /\ End(r[j]) <= PfnEnd
  BY <1>2, EntryFacts
<1>5. ASSUME NEW j \in 1 .. Len(r), NEW h \in 1 .. Len(r), j < h
      PROVE  End(r[j]) <= r[h].phys
  <2>1. End(l[Old(j)]) <= l[Old(h)].phys
    BY <1>2, <1>3, <1>5, EntryFacts
  <2> QED BY <2>1, <1>2
<1>6. ListOK(r)
  BY <1>1, <1>4, <1>5 DEF ListOK, Layout
<1> QED BY <1>1, <1>6 DEF r

(* mb_free_mb may keep the host's old maximum with max(): unlinking a      *)
(* block never makes the largest zone smaller.                             *)
LEMMA RemoveGrows ==
  ASSUME NEW l, ListOK(l), NEW i \in 1 .. Len(l)
  PROVE  LargestZone(l) <= LargestZone(RemoveAt(l, i))
<1> DEFINE r == RemoveAt(l, i)
<1>0. l \in Seq(Block) /\ Len(l) \in Nat /\ PhysStart \in Int /\ PfnEnd \in Int
  BY EntryFacts, MBAssumption DEF ListOK, PfnEnd
<1>1. /\ r \in Seq(Block) /\ Len(r) = Len(l) - 1
      /\ \A j \in 1 .. Len(l) - 1 : r[j] = IF j < i THEN l[j] ELSE l[j + 1]
  BY <1>0, RemoveAtFacts, Zenon
<1>2. ListOK(r)
  BY RemoveOK
<1> HIDE DEF r
<1>3. PICK k \in Zones(l) : Zone(l, k) = LargestZone(l)
  BY LargestZoneFacts
<1>4. k \in 1 .. Len(l) + 1
  BY DEF Zones
<1>5. SUFFICES \E h \in Zones(r) : Zone(l, k) <= Zone(r, h)
  <2>1. PICK h \in Zones(r) : Zone(l, k) <= Zone(r, h)
    BY <1>5
  <2>2. Zone(r, h) <= LargestZone(r)
    BY <1>2, LargestZoneFacts
  <2>3. Zone(l, k) \in Int /\ Zone(r, h) \in Int /\ LargestZone(r) \in Int
    <3>1. Zone(l, k) \in 0 .. Pages /\ Zone(r, h) \in 0 .. Pages
      BY <1>2, ZoneFacts
    <3>2. LargestZone(r) \in 0 .. Pages
      BY <1>2, LargestZoneFacts
    <3> QED BY <3>1, <3>2
  <2> QED BY <2>1, <2>2, <2>3, <1>3 DEF r
<1>6. SUFFICES \E h \in Zones(r) : /\ ZoneStart(r, h) <= ZoneStart(l, k)
                                  /\ ZoneEnd(l, k) <= ZoneEnd(r, h)
  <2>1. PICK h \in Zones(r) : /\ ZoneStart(r, h) <= ZoneStart(l, k)
                              /\ ZoneEnd(l, k) <= ZoneEnd(r, h)
    BY <1>6
  <2>2. /\ ZoneStart(l, k) \in Int /\ ZoneEnd(l, k) \in Int
        /\ Zone(l, k) = ZoneEnd(l, k) - ZoneStart(l, k)
    BY ZoneFacts
  <2>3. /\ ZoneStart(r, h) \in Int /\ ZoneEnd(r, h) \in Int
        /\ Zone(r, h) = ZoneEnd(r, h) - ZoneStart(r, h)
    BY <1>2, ZoneFacts
  <2> QED BY <2>1, <2>2, <2>3
<1>7. CASE k < i
  <2>1. k \in Zones(r) /\ k \in 1 .. Len(r)
    BY <1>7, <1>0, <1>1, <1>4 DEF Zones
  <2>2. r[k] = l[k] /\ (k # 1 => r[k - 1] = l[k - 1])
    BY <1>7, <1>0, <1>1, <1>4
  <2>3. ZoneStart(r, k) = ZoneStart(l, k) /\ ZoneEnd(r, k) = ZoneEnd(l, k)
    BY <2>1, <2>2, <1>7, <1>0, <1>1 DEF ZoneStart, ZoneEnd
  <2> QED BY <2>1, <2>3, <1>2, ZoneFacts
<1>8. CASE k = i
  <2>1. i \in Zones(r)
    BY <1>0, <1>1 DEF Zones
  <2>2. i # 1 => r[i - 1] = l[i - 1]
    BY <1>0, <1>1
  <2>3. ZoneStart(r, i) = ZoneStart(l, i)
    BY <2>2 DEF ZoneStart
  <2>4. ZoneEnd(l, i) = l[i].phys
    BY <1>0 DEF ZoneEnd
  <2>5. CASE i = Len(l)
    <3>1. ZoneEnd(r, i) = PfnEnd
      BY <2>5, <1>0, <1>1 DEF ZoneEnd
    <3> QED BY <3>1, <2>1, <2>3, <1>2, <1>8, ZoneFacts
  <2>6. CASE i < Len(l)
    <3>1. i \in 1 .. Len(l) - 1 /\ i + 1 \in 1 .. Len(l) /\ r[i] = l[i + 1]
      BY <2>6, <1>0, <1>1
    <3>2. ZoneEnd(r, i) = l[i + 1].phys
      BY <3>1, <1>0, <1>1 DEF ZoneEnd
    <3>3. l[i].phys <= l[i + 1].phys
      BY <3>1, i < i + 1, OrderFacts
    <3> QED BY <3>2, <3>3, <2>1, <2>3, <2>4, <1>2, <1>8, ZoneFacts
  <2> QED BY <2>5, <2>6, <1>0
<1>9. CASE k > i
  <2>1. k - 1 \in Zones(r) /\ k - 1 \in 1 .. Len(l)
    BY <1>9, <1>0, <1>1, <1>4 DEF Zones
  <2>2. ZoneEnd(r, k - 1) = ZoneEnd(l, k)
    <3>1. CASE k = Len(l) + 1
      BY <3>1, <1>0, <1>1 DEF ZoneEnd
    <3>2. CASE k <= Len(l)
      <4>1. r[k - 1] = l[k] /\ k - 1 # Len(r) + 1
        BY <3>2, <1>9, <1>0, <1>1, <1>4
      <4> QED BY <4>1, <3>2, <1>0, <1>4 DEF ZoneEnd
    <3> QED BY <3>1, <3>2, <1>0, <1>4
  <2>3. ZoneStart(r, k - 1) <= ZoneStart(l, k)
    <3>1. ZoneStart(l, k) = End(l[k - 1]) /\ k # 1
      BY <1>9, <1>0, <1>4 DEF ZoneStart
    <3>2. CASE k - 1 = 1
      BY <3>1, <3>2, <2>1, ZoneFacts DEF ZoneStart
    <3>3. CASE k - 1 > 1 /\ k - 2 >= i
      <4>1. r[k - 2] = l[k - 1]
        BY <3>3, <1>0, <1>1, <1>4
      <4>2. ZoneStart(r, k - 1) = End(r[k - 2])
        BY <3>3, <1>0, <1>4 DEF ZoneStart
      <4> QED BY <4>1, <4>2, <3>1, <2>1, EntryFacts
    <3>4. CASE k - 1 > 1 /\ k - 2 < i
      <4>1. r[k - 2] = l[k - 2] /\ k - 2 \in 1 .. Len(l) /\ k - 2 < k - 1
        BY <3>4, <1>0, <1>1, <1>4, <1>9
      <4>2. ZoneStart(r, k - 1) = End(r[k - 2])
        BY <3>4, <1>0, <1>4 DEF ZoneStart
      <4>3. End(l[k - 2]) <= End(l[k - 1])
        BY <4>1, <2>1, OrderFacts
      <4> QED BY <4>1, <4>2, <4>3, <3>1
    <3> QED BY <3>2, <3>3, <3>4, <1>0, <1>4, <1>9
  <2> QED BY <2>1, <2>2, <2>3, ZoneFacts
<1> QED BY <1>7, <1>8, <1>9, <1>0, <1>4

(* The zone the walk stops at inside the list is not empty, so the zs >= ze *)
(* test sends a block to the tail exactly when the walk ran to the end.     *)
LEMMA StopsAtFacts ==
  ASSUME NEW l, ListOK(l), NEW n \in 1 .. Pages, NEW k \in Zones(l),
         StopsAt(l, n, k)
  PROVE  /\ Before(l, k) = k
         /\ Room(l, k) = Zone(l, k)
         /\ k <= Len(l) => Zone(l, k) >= n
<1>0. Len(l) \in Nat /\ k \in 1 .. Len(l) + 1 /\ n \in Int /\ n >= 1
  BY EntryFacts, MBAssumption DEF Zones
<1>1. /\ ZoneStart(l, k) \in Int /\ ZoneEnd(l, k) \in Int
      /\ Zone(l, k) = ZoneEnd(l, k) - ZoneStart(l, k)
  BY ZoneFacts
<1>2. k <= Len(l) => Zone(l, k) >= n
  BY DEF StopsAt
<1>3. Before(l, k) = k
  <2>1. CASE k <= Len(l)
    <3>1. ZoneEnd(l, k) = l[k].phys
      BY <2>1, <1>0 DEF ZoneEnd
    <3>2. ZoneStart(l, k) < l[k].phys
      BY <3>1, <2>1, <1>0, <1>1, <1>2
    <3> QED BY <3>2, <2>1 DEF Before
  <2>2. CASE k = Len(l) + 1
    BY <2>2, <1>0 DEF Before
  <2> QED BY <2>1, <2>2, <1>0
<1>4. Room(l, k) = Zone(l, k)
  BY <1>3 DEF Room, Zone
<1> QED BY <1>2, <1>3, <1>4

(* The branch marked "impossible, something wrong" is impossible.          *)
LEMMA RequestFits ==
  ASSUME NEW l, ListOK(l), NEW n \in 1 .. Pages, n <= LargestZone(l),
         NEW k \in Zones(l), StopsAt(l, n, k)
  PROVE  Room(l, k) >= n
<1>0. Len(l) \in Nat /\ k \in 1 .. Len(l) + 1 /\ n \in Int
  BY EntryFacts DEF Zones
<1>1. CASE k <= Len(l)
  BY <1>1, StopsAtFacts
<1>2. CASE k = Len(l) + 1
  <2>1. PICK h \in Zones(l) : Zone(l, h) = LargestZone(l)
    BY LargestZoneFacts
  <2>2. h \in 1 .. Len(l) + 1 /\ Zone(l, h) \in Int
    BY ZoneFacts
  <2>3. ~(h \in 1 .. Len(l) /\ h < k)
    <3>1. SUFFICES ASSUME h \in 1 .. Len(l), h < k PROVE FALSE
      OBVIOUS
    <3>2. Zone(l, h) < n
      BY <3>1 DEF StopsAt
    <3> QED BY <3>2, <2>1, <2>2, <1>0
  <2>4. h = k
    BY <2>2, <2>3, <1>2, <1>0
  <2> QED BY <2>1, <2>4, StopsAtFacts
<1> QED BY <1>0, <1>1, <1>2

(* The block mb_alloc_mb makes fits between its neighbours.                *)
LEMMA InsertOK ==
  ASSUME NEW l, ListOK(l), NEW n \in 1 .. Pages, NEW k \in Zones(l),
         StopsAt(l, n, k), Room(l, k) >= n,
         NEW b, BlockOK(b), b.phys = ZoneStart(l, k), b.pages = n
  PROVE  /\ ListOK(InsertAt(l, Before(l, k), b))
         /\ Len(InsertAt(l, Before(l, k), b)) = Len(l) + 1
         /\ Free(InsertAt(l, Before(l, k), b)) = Free(l) - n
<1> DEFINE r == InsertAt(l, k, b)
<1>0. l \in Seq(Block) /\ Len(l) \in Nat /\ k \in 1 .. Len(l) + 1 /\ b \in Block
  BY EntryFacts DEF ListOK, BlockOK, Zones
<1>1. /\ r \in Seq(Block) /\ Len(r) = Len(l) + 1
      /\ \A j \in 1 .. k - 1 : r[j] = l[j]
      /\ r[k] = b
      /\ \A j \in k + 1 .. Len(l) + 1 : r[j] = l[j - 1]
  <2>1. l \in Seq(Block)
    BY <1>0
  <2>2. k \in 1 .. Len(l) + 1
    BY <1>0
  <2>3. b \in Block
    BY <1>0
  <2>4. r \in Seq(Block) /\ Len(r) = Len(l) + 1 /\ r[k] = b
    BY <2>1, <2>2, <2>3, InsertAtFacts
  <2>5. \A j \in 1 .. k - 1 : r[j] = l[j]
    BY <2>1, <2>2, <2>3, InsertAtFacts
  <2>6. \A j \in k + 1 .. Len(l) + 1 : r[j] = l[j - 1]
    BY <2>1, <2>2, <2>3, InsertAtFacts
  <2> QED BY <2>4, <2>5, <2>6
<1> HIDE DEF r
<1>2. /\ b.phys \in Int /\ n \in Int /\ End(b) = ZoneStart(l, k) + n
      /\ PhysStart <= b.phys /\ End(b) <= ZoneEnd(l, k)
      /\ ZoneEnd(l, k) \in Int /\ ZoneEnd(l, k) <= PfnEnd
  <2>1. Room(l, k) = ZoneEnd(l, k) - ZoneStart(l, k)
    BY StopsAtFacts, ZoneFacts
  <2>2. End(b) = ZoneStart(l, k) + n
    BY DEF End
  <2> QED BY <2>1, <2>2, ZoneFacts
<1>3. PhysStart \in Int /\ PfnEnd \in Int
  BY MBAssumption DEF PfnEnd
<1>4. ASSUME NEW j \in 1 .. Len(l), j < k PROVE End(l[j]) <= b.phys
  <2>1. k - 1 \in 1 .. Len(l) /\ k # 1
    BY <1>0, <1>4
  <2>2. ZoneStart(l, k) = End(l[k - 1])
    BY <2>1 DEF ZoneStart
  <2>3. CASE j = k - 1
    BY <2>2, <2>3, <1>2
  <2>4. CASE j < k - 1
    <3>1. End(l[j]) <= End(l[k - 1])
      BY <2>1, <2>4, OrderFacts
    <3> QED BY <3>1, <2>2
  <2> QED BY <2>3, <2>4, <1>0, <1>4
<1>5. ASSUME NEW j \in 1 .. Len(l), k <= j PROVE End(b) <= l[j].phys
  <2>1. k \in 1 .. Len(l)
    BY <1>0, <1>5
  <2>2. ZoneEnd(l, k) = l[k].phys
    BY <2>1, <1>0 DEF ZoneEnd
  <2>3. CASE j = k
    BY <2>2, <2>3, <1>2
  <2>4. CASE k < j
    <3>1. l[k].phys <= l[j].phys /\ l[j].phys \in Int
      BY <2>1, <2>4, OrderFacts, EntryFacts
    <3> QED BY <3>1, <2>2, <1>2
  <2> QED BY <2>3, <2>4, <1>0, <1>5
<1>6. ASSUME NEW j \in 1 .. Len(r)
      PROVE  BlockOK(r[j]) /\ PhysStart <= r[j].phys /\ End(r[j]) <= PfnEnd
  <2>1. CASE j < k
    <3>1. j \in 1 .. Len(l) /\ r[j] = l[j]
      BY <2>1, <1>0, <1>1
    <3> QED BY <3>1, EntryFacts
  <2>2. CASE j = k
    <3>1. r[j] = b
      BY <2>2, <1>0, <1>1
    <3>2. End(b) <= PfnEnd
      BY <1>2, <1>3
    <3> QED BY <3>1, <3>2, <1>2
  <2>3. CASE j > k
    <3>1. j - 1 \in 1 .. Len(l) /\ r[j] = l[j - 1]
      BY <2>3, <1>0, <1>1
    <3> QED BY <3>1, EntryFacts
  <2> QED BY <2>1, <2>2, <2>3, <1>0, <1>1
<1>7. ASSUME NEW j \in 1 .. Len(r), NEW h \in 1 .. Len(r), j < h
      PROVE  End(r[j]) <= r[h].phys
  <2>1. CASE h < k
    <3>1. /\ j \in 1 .. Len(l) /\ h \in 1 .. Len(l)
          /\ r[j] = l[j] /\ r[h] = l[h]
      BY <2>1, <1>0, <1>1, <1>7
    <3> QED BY <3>1, <1>7, OrderFacts
  <2>2. CASE h = k
    <3>1. j \in 1 .. Len(l) /\ j < k /\ r[j] = l[j] /\ r[h] = b
      BY <2>2, <1>0, <1>1, <1>7
    <3> QED BY <3>1, <1>4
  <2>3. CASE h > k /\ j < k
    <3>1. /\ j \in 1 .. Len(l) /\ h - 1 \in 1 .. Len(l) /\ j < h - 1
          /\ j \in 1 .. k - 1 /\ h \in k + 1 .. Len(l) + 1
      BY <2>3, <1>0, <1>1, <1>7
    <3>2. r[j] = l[j] /\ r[h] = l[h - 1]
      BY <3>1, <1>1
    <3> QED BY <3>1, <3>2, OrderFacts
  <2>4. CASE h > k /\ j = k
    <3>1. h - 1 \in 1 .. Len(l) /\ k <= h - 1 /\ r[j] = b /\ r[h] = l[h - 1]
      BY <2>4, <1>0, <1>1, <1>7
    <3> QED BY <3>1, <1>5
  <2>5. CASE h > k /\ j > k
    <3>1. /\ j - 1 \in 1 .. Len(l) /\ h - 1 \in 1 .. Len(l) /\ j - 1 < h - 1
          /\ j \in k + 1 .. Len(l) + 1 /\ h \in k + 1 .. Len(l) + 1
      BY <2>5, <1>0, <1>1, <1>7
    <3>2. r[j] = l[j - 1] /\ r[h] = l[h - 1]
      BY <3>1, <1>1
    <3> QED BY <3>1, <3>2, OrderFacts
  <2> QED BY <2>1, <2>2, <2>3, <2>4, <2>5, <1>0, <1>1
<1>8. ListOK(r)
  BY <1>1, <1>6, <1>7 DEF ListOK, Layout
<1>9. Free(r) = Free(l) - n
  <2> DEFINE new == b.phys .. End(b) - 1
  <2>1. ASSUME NEW p \in new PROVE p \in FreeSet(l)
    <3>1. p \in Gap(l, k)
      BY <1>2, ZoneFacts DEF Gap
    <3> QED BY <3>1, GapsAreFree DEF Gaps
  <2>2. ASSUME NEW p \in FreeSet(l), p \notin new PROVE p \in FreeSet(r)
    <3>1. p \in Phys /\ p \in Int
      BY <1>3 DEF FreeSet, Phys
    <3>2. ~(b.phys <= p /\ p < End(b))
      BY <2>2, <3>1, <1>2, ZoneFacts
    <3>3. ASSUME NEW j \in 1 .. Len(r)
          PROVE  r[j] = b \/ \E h \in 1 .. Len(l) : r[j] = l[h]
      <4>1. CASE j < k
        <5>1. j \in 1 .. k - 1 /\ j \in 1 .. Len(l)
          BY <4>1, <1>0, <1>1
        <5> QED BY <5>1, <1>1
      <4>2. CASE j > k
        <5>1. j \in k + 1 .. Len(l) + 1 /\ j - 1 \in 1 .. Len(l)
          BY <4>2, <1>0, <1>1
        <5> QED BY <5>1, <1>1
      <4>3. CASE j = k
        BY <4>3, <1>1
      <4> QED BY <4>1, <4>2, <4>3, <1>0
    <3>4. \A h \in 1 .. Len(l) : ~(l[h].phys <= p /\ p < End(l[h]))
      BY DEF FreeSet
    <3> QED BY <3>1, <3>2, <3>3, <3>4 DEF FreeSet
  <2>3. ASSUME NEW p \in FreeSet(r) PROVE p \in FreeSet(l) /\ p \notin new
    <3>1. \A h \in 1 .. Len(l) : \E j \in 1 .. Len(r) : r[j] = l[h]
      <4>1. SUFFICES ASSUME NEW h \in 1 .. Len(l)
                     PROVE  \E j \in 1 .. Len(r) : r[j] = l[h]
        OBVIOUS
      <4>2. CASE h < k
        <5>1. h \in 1 .. k - 1 /\ h \in 1 .. Len(r)
          BY <4>2, <1>0, <1>1
        <5> QED BY <5>1, <1>1
      <4>3. CASE ~(h < k)
        <5>1. /\ h + 1 \in k + 1 .. Len(l) + 1 /\ h + 1 \in 1 .. Len(r)
              /\ h + 1 - 1 = h
          BY <4>3, <1>0, <1>1
        <5>2. r[h + 1] = l[h]
          BY <5>1, <1>1
        <5> QED BY <5>1, <5>2
      <4> QED BY <4>2, <4>3
    <3>2. k \in 1 .. Len(r) /\ r[k] = b
      BY <1>0, <1>1
    <3>3. p \in Phys /\ \A j \in 1 .. Len(r) :
                         ~(r[j].phys <= p /\ p < End(r[j]))
      BY DEF FreeSet
    <3>4. ~(b.phys <= p /\ p < End(b))
      BY <3>2, <3>3
    <3>5. p \notin new
      BY <3>4, <1>2, ZoneFacts
    <3> QED BY <3>1, <3>3, <3>5 DEF FreeSet
  <2>4. FreeSet(r) = FreeSet(l) \ new /\ new \subseteq FreeSet(l)
    BY <2>1, <2>2, <2>3
  <2>5. IsFiniteSet(FreeSet(l))
    <3>1. IsFiniteSet(Phys) /\ FreeSet(l) \subseteq Phys
      BY <1>3, FS_Interval DEF Phys, FreeSet
    <3> QED BY <3>1, FS_Subset
  <2>6. Cardinality(new) = n
    <3>1. End(b) - 1 \in Int /\ b.phys \in Int /\ End(b) = b.phys + n /\ n >= 1
      BY <1>2, ZoneFacts
    <3> QED BY <3>1, FS_Interval
  <2> HIDE DEF new
  <2>7. Cardinality(FreeSet(l) \ new) =
          Cardinality(FreeSet(l)) - Cardinality(FreeSet(l) \cap new)
    BY <2>5, FS_Difference
  <2>8. FreeSet(l) \cap new = new
    BY <2>4
  <2> QED BY <2>4, <2>6, <2>7, <2>8 DEF Free
<1> QED BY <1>1, <1>8, <1>9, StopsAtFacts DEF r

-----------------------------------------------------------------------------
(* The inductive invariant.  The list is sound and the counters that admit *)
(* an allocation agree with it; neither part is inductive without the      *)
(* other, since a block goes where the counters promise a zone.            *)
ListInv ==
  /\ ListOK(mb_list)
  /\ nr_mb = Len(mb_list)
  /\ mba_max = LargestZone(mb_list)
  /\ mbah_max = LargestZone(mb_list)
  /\ mba_free = Free(mb_list)
  /\ mbah_free = Free(mb_list)

TaskInv ==
  /\ mbti \in [Tasks -> 0 .. MaxOpen]
  /\ closing \in Tgids
  /\ oops \in BOOLEAN

IInv == ListInv /\ TaskInv

(* Before a put, free or release decides, the list differs from mb_list    *)
(* at most in the users of its blocks.                                     *)
SameZones(l) ==
  /\ ListOK(l)
  /\ Len(l) = Len(mb_list)
  /\ LargestZone(l) = LargestZone(mb_list)
  /\ Free(l) = Free(mb_list)

LEMMA FreeMbInv ==
  ASSUME ListInv, NEW l, SameZones(l), NEW i \in 1 .. Len(l), FreeMb(l, i)
  PROVE  ListInv'
<1> DEFINE r == RemoveAt(l, i)
<1>1. ListOK(r) /\ Len(r) = Len(l) - 1
  BY RemoveOK DEF SameZones
<1>2. LargestZone(l) <= LargestZone(r)
  BY RemoveGrows DEF SameZones
<1>3. LargestZone(l) \in Int /\ LargestZone(r) \in Int
  BY <1>1, LargestZoneFacts DEF SameZones
<1> HIDE DEF r
<1>4. /\ mb_list' = r /\ nr_mb' = nr_mb - 1 /\ mba_max' = LargestZone(r)
      /\ mbah_max' = IF mbah_max >= LargestZone(r)
                     THEN mbah_max ELSE LargestZone(r)
  BY DEF FreeMb, r
<1>5. mbah_max = LargestZone(l) /\ nr_mb = Len(l)
  BY DEF ListInv, SameZones
<1>6. mbah_max' = LargestZone(r)
  BY <1>2, <1>3, <1>4, <1>5
<1>7. nr_mb' = Len(r)
  BY <1>1, <1>4, <1>5
<1>8. mba_free' = Free(r) /\ mbah_free' = Free(r)
  <2>1. /\ mba_free' = FreePages(r)
        /\ mbah_free' = mbah_free - mba_free + FreePages(r)
    BY DEF FreeMb, r
  <2>2. FreePages(r) = Free(r) /\ Free(r) \in Nat
    BY <1>1, SumIsFree, FreeNat
  <2>3. mbah_free = mba_free /\ mba_free \in Nat
    BY FreeNat DEF ListInv
  <2> QED BY <2>1, <2>2, <2>3
<1> QED BY <1>1, <1>4, <1>6, <1>7, <1>8 DEF ListInv

LEMMA KeepOrFreeInv ==
  ASSUME ListInv, NEW l, SameZones(l), NEW i \in 1 .. Len(l),
         NEW b, BlockOK(b), SamePlace(b, l[i]), KeepOrFree(l, i, b)
  PROVE  ListInv'
<1>1. CASE b.count = 0
  BY <1>1, FreeMbInv DEF KeepOrFree
<1>2. CASE b.count # 0
  <2>1. mb_list' = [l EXCEPT ![i] = b] /\ UNCHANGED counters
    BY <1>2 DEF KeepOrFree
  <2>2. /\ ListOK([l EXCEPT ![i] = b]) /\ Len([l EXCEPT ![i] = b]) = Len(l)
        /\ LargestZone([l EXCEPT ![i] = b]) = LargestZone(l)
        /\ Free([l EXCEPT ![i] = b]) = Free(l)
    BY ReplaceOK DEF SameZones
  <2> QED BY <2>1, <2>2 DEF ListInv, SameZones, counters
<1> QED BY <1>1, <1>2

(* A change of one block's users alone.                                    *)
LEMMA ReplaceInv ==
  ASSUME ListInv, NEW i \in 1 .. Len(mb_list), NEW b, BlockOK(b),
         SamePlace(b, mb_list[i]), mb_list' = [mb_list EXCEPT ![i] = b],
         UNCHANGED counters
  PROVE  ListInv'
<1>1. /\ ListOK([mb_list EXCEPT ![i] = b])
      /\ Len([mb_list EXCEPT ![i] = b]) = Len(mb_list)
      /\ LargestZone([mb_list EXCEPT ![i] = b]) = LargestZone(mb_list)
      /\ Free([mb_list EXCEPT ![i] = b]) = Free(mb_list)
  BY ReplaceOK DEF ListInv
<1> QED BY <1>1 DEF ListInv, counters

(* What mb_do_alloc puts into the list, and where.                         *)
LEMMA AllocFacts ==
  ASSUME ListInv, NEW n \in 1 .. Pages, NEW g \in Tgids, mb_do_alloc(n, g)
  PROVE  \E k \in Zones(mb_list), b \in Block :
           /\ StopsAt(mb_list, n, k) /\ Room(mb_list, k) >= n
           /\ BlockOK(b) /\ b.count = 1 /\ b.creator = 1
           /\ b.mbu_list[1].tgid = g
           /\ b.phys = ZoneStart(mb_list, k) /\ b.pages = n
           /\ LET r == InsertAt(mb_list, Before(mb_list, k), b)
              IN  /\ mb_list' = r /\ nr_mb' = nr_mb + 1
                  /\ mba_max' = LargestZone(r) /\ mbah_max' = LargestZone(r)
                  /\ mba_free' = mba_free - n /\ mbah_free' = mbah_free - n
<1>1. PICK k \in Zones(mb_list) :
        /\ StopsAt(mb_list, n, k)
        /\ Room(mb_list, k) >= n
        /\ LET mb == [phys |-> ZoneStart(mb_list, k), pages |-> n,
                      count |-> 1, creator |-> 1,
                      mbu_list |-> <<[tgid |-> g, addr |-> NULL, size |-> n]>>]
               list == InsertAt(mb_list, Before(mb_list, k), mb)
           IN  /\ mb_list' = list
               /\ nr_mb' = nr_mb + 1
               /\ mba_free' = mba_free - n
               /\ mbah_free' = mbah_free - n
               /\ mba_max' = LargestZone(list)
               /\ mbah_max' = LargestZone(list)
  BY DEF mb_do_alloc
<1> DEFINE u == [tgid |-> g, addr |-> NULL, size |-> n]
           m == <<u>>
           b == [phys |-> ZoneStart(mb_list, k), pages |-> n, count |-> 1,
                 creator |-> 1, mbu_list |-> m]
           r == InsertAt(mb_list, Before(mb_list, k), b)
<1>2. u \in MbUser /\ u.addr = NULL /\ u.size = n /\ u.tgid = g
  BY MBAssumption DEF MbUser
<1> HIDE DEF u
<1>3. m \in Seq(MbUser) /\ Len(m) = 1 /\ m[1] = u
  BY <1>2
<1> HIDE DEF m
<1>4. ZoneStart(mb_list, k) \in Phys
  <2>1. /\ PhysStart <= ZoneStart(mb_list, k) /\ ZoneStart(mb_list, k) \in Int
        /\ ZoneEnd(mb_list, k) \in Int /\ ZoneEnd(mb_list, k) <= PfnEnd
        /\ Zone(mb_list, k) = ZoneEnd(mb_list, k) - ZoneStart(mb_list, k)
    BY ZoneFacts DEF ListInv
  <2>2. Zone(mb_list, k) >= 1
    BY <1>1, <2>1, StopsAtFacts DEF ListInv
  <2> QED BY <2>1, <2>2, MBAssumption DEF Phys, PfnEnd
<1>5. /\ b \in Block /\ b.count = 1 /\ b.creator = 1 /\ b.mbu_list = m
      /\ b.phys = ZoneStart(mb_list, k) /\ b.pages = n
  BY <1>3, <1>4 DEF Block
<1> HIDE DEF b
<1>6. BlockOK(b)
  <2>0. Len(b.mbu_list) = 1 /\ b.mbu_list[1] = u
    BY <1>3, <1>5, Zenon
  <2>1. ASSUME NEW j \in 1 .. Len(b.mbu_list)
        PROVE  /\ b.mbu_list[j].addr = NULL <=> j = b.creator
               /\ j = b.creator => b.mbu_list[j].size = b.pages
    <3>1. j = 1
      BY <2>0
    <3>2. b.mbu_list[j].addr = NULL /\ b.mbu_list[j].size = n
      BY <3>1, <2>0, <1>2
    <3> QED BY <3>1, <3>2, <1>5
  <2>2. b.count = Len(b.mbu_list) /\ b.creator <= Len(b.mbu_list)
    BY <2>0, <1>5
  <2> QED BY <2>1, <2>2, <1>5 DEF BlockOK
<1>7. /\ mb_list' = r /\ nr_mb' = nr_mb + 1
      /\ mba_max' = LargestZone(r) /\ mbah_max' = LargestZone(r)
      /\ mba_free' = mba_free - n /\ mbah_free' = mbah_free - n
  BY <1>1 DEF b, m, u
<1>8. b.mbu_list[1].tgid = g
  BY <1>2, <1>3, <1>5
<1> QED BY <1>1, <1>5, <1>6, <1>7, <1>8

LEMMA AllocInv ==
  ASSUME ListInv, NEW n \in 1 .. Pages, NEW g \in Tgids, mb_do_alloc(n, g)
  PROVE  ListInv'
<1>1. PICK k \in Zones(mb_list), b \in Block :
        /\ StopsAt(mb_list, n, k) /\ Room(mb_list, k) >= n
        /\ BlockOK(b) /\ b.phys = ZoneStart(mb_list, k) /\ b.pages = n
        /\ LET r == InsertAt(mb_list, Before(mb_list, k), b)
           IN  /\ mb_list' = r /\ nr_mb' = nr_mb + 1
               /\ mba_max' = LargestZone(r) /\ mbah_max' = LargestZone(r)
               /\ mba_free' = mba_free - n /\ mbah_free' = mbah_free - n
  BY AllocFacts
<1> DEFINE r == InsertAt(mb_list, Before(mb_list, k), b)
<1>2. ListOK(r) /\ Len(r) = Len(mb_list) + 1 /\ Free(r) = Free(mb_list) - n
  BY <1>1, InsertOK DEF ListInv
<1>3. /\ mb_list' = r /\ nr_mb' = nr_mb + 1
      /\ mba_max' = LargestZone(r) /\ mbah_max' = LargestZone(r)
      /\ mba_free' = mba_free - n /\ mbah_free' = mbah_free - n
  BY <1>1
<1> HIDE DEF r
<1> QED BY <1>2, <1>3 DEF ListInv

LEMMA EntryOf ==
  ASSUME NEW l, NEW p \in Entries(l)
  PROVE  p[1] \in 1 .. Len(l) /\ p[2] \in 1 .. Len(l[p[1]].mbu_list)
BY DEF Entries

LEMMA SelfZones == ListInv => SameZones(mb_list)
BY DEF ListInv, SameZones

LEMMA FreeInv ==
  ASSUME ListInv, NEW l, SameZones(l), NEW a, NEW g, mb_do_free(l, a, g)
  PROVE  ListInv'
<1> DEFINE hits == ByPhys(l, a, g)
<1>1. CASE \E p \in hits : /\ l[p[1]].creator # NULL
                           /\ KeepOrFree(l, p[1], DelCreator(l[p[1]]))
  <2>1. PICK p \in hits : /\ l[p[1]].creator # NULL
                          /\ KeepOrFree(l, p[1], DelCreator(l[p[1]]))
    BY <1>1
  <2>2. p[1] \in 1 .. Len(l)
    BY EntryOf DEF ByPhys
  <2>3. BlockOK(l[p[1]])
    BY <2>2, EntryFacts DEF SameZones
  <2>4. BlockOK(DelCreator(l[p[1]])) /\ SamePlace(DelCreator(l[p[1]]), l[p[1]])
    BY <2>1, <2>3, DelCreatorOK
  <2> QED BY <2>1, <2>2, <2>4, KeepOrFreeInv
<1>2. CASE mb_list' = l /\ UNCHANGED counters
  BY <1>2 DEF ListInv, SameZones, counters
<1> QED BY <1>1, <1>2 DEF mb_do_free

(* A get/put reference has an address, so it is not the creator.           *)
LEMMA PutInv ==
  ASSUME ListInv, NEW H, PutRef(H),
         \A p \in H : /\ p \in Entries(mb_list)
                      /\ mb_list[p[1]].mbu_list[p[2]].addr # NULL
  PROVE  ListInv'
<1>1. PICK p \in H : KeepOrFree(mb_list, p[1], DelUser(mb_list[p[1]], p[2]))
  BY DEF PutRef
<1> DEFINE b == mb_list[p[1]]
<1>2. p[1] \in 1 .. Len(mb_list) /\ p[2] \in 1 .. Len(b.mbu_list)
  BY EntryOf
<1>3. BlockOK(b) /\ b.mbu_list[p[2]].addr # NULL
  BY <1>2, EntryFacts DEF ListInv
<1>4. p[2] # b.creator
  BY <1>2, <1>3 DEF BlockOK
<1>5. BlockOK(DelUser(b, p[2])) /\ SamePlace(DelUser(b, p[2]), b)
  BY <1>2, <1>3, <1>4, DelUserOK
<1> QED BY <1>1, <1>2, <1>5, KeepOrFreeInv, SelfZones

(* A mapping has a user address, so it is not the creator either.          *)
LEMMA UnmapFacts ==
  ASSUME ListInv, NEW v \in Addrs, NEW g,
         NEW p \in Mmaps(mb_list, ByUser(mb_list, v, g))
  PROVE  /\ p[1] \in 1 .. Len(mb_list)
         /\ BlockOK(DelUser(mb_list[p[1]], p[2]))
         /\ SamePlace(DelUser(mb_list[p[1]], p[2]), mb_list[p[1]])
<1> DEFINE b == mb_list[p[1]]
<1>1. p \in Entries(mb_list) /\ b.mbu_list[p[2]].addr = v
  BY DEF Mmaps, ByUser
<1>2. v # NULL
  BY MBAssumption DEF Addrs, Phys, PfnEnd, NULL
<1>3. p[1] \in 1 .. Len(mb_list) /\ p[2] \in 1 .. Len(b.mbu_list)
  BY <1>1, EntryOf
<1>4. BlockOK(b)
  BY <1>3, EntryFacts DEF ListInv
<1>5. p[2] # b.creator
  BY <1>1, <1>2, <1>3, <1>4 DEF BlockOK
<1> QED BY <1>3, <1>4, <1>5, DelUserOK

(* A get adds a reference to an address; an mmap adds a mapping.           *)
LEMMA LinkInv ==
  ASSUME ListInv, NEW i \in 1 .. Len(mb_list), NEW u \in MbUser, u.addr # NULL,
         mb_list' = [mb_list EXCEPT ![i] = AddUser(@, u)], UNCHANGED counters
  PROVE  ListInv'
<1>1. BlockOK(mb_list[i])
  BY EntryFacts DEF ListInv
<1>2. /\ BlockOK(AddUser(mb_list[i], u))
      /\ SamePlace(AddUser(mb_list[i], u), mb_list[i])
  BY <1>1, AddUserOK
<1>3. mb_list' = [mb_list EXCEPT ![i] = AddUser(mb_list[i], u)]
  OBVIOUS
<1> QED BY <1>2, <1>3, ReplaceInv

LEMMA GetInv ==
  ASSUME ListInv, NEW i \in 1 .. Len(mb_list), NEW g \in Tgids,
         NEW a \in Addrs, GetRef(i, g, a)
  PROVE  ListInv'
<1> DEFINE u == [tgid |-> g, addr |-> a, size |-> 0]
<1>1. a # NULL
  BY MBAssumption DEF Addrs, Phys, PfnEnd, NULL
<1>2. u \in MbUser /\ u.addr # NULL
  BY <1>1, MBAssumption DEF MbUser
<1>3. mb_list' = [mb_list EXCEPT ![i] = AddUser(@, u)] /\ UNCHANGED counters
  BY DEF GetRef
<1> HIDE DEF u
<1> QED BY <1>2, <1>3, LinkInv

-----------------------------------------------------------------------------
(* The empty list, as mb_probe and MBIO_FORCE_RESET leave it.              *)
LEMMA EmptyOK ==
  ListOK(<<>>) /\ LargestZone(<<>>) = Pages /\ Free(<<>>) = Pages
<1>1. <<>> \in Seq(Block) /\ Len(<<>>) = 0
  BY EmptySeq
<1>2. ListOK(<<>>)
  BY <1>1 DEF ListOK, Layout
<1>3. Zones(<<>>) = {1}
  BY <1>1 DEF Zones
<1>4. ZoneStart(<<>>, 1) = PhysStart /\ ZoneEnd(<<>>, 1) = PfnEnd
  BY <1>1 DEF ZoneStart, ZoneEnd
<1>5. Zone(<<>>, 1) = Pages
  BY <1>4, MBAssumption DEF Zone, ULongSub, PfnEnd
<1>6. Pages \in 0 .. Pages
  BY MBAssumption
<1>7. LargestZone(<<>>) = Pages
  BY <1>2, <1>3, <1>5, <1>6, LargestZoneUnique
<1>8. FreeSet(<<>>) = PhysStart .. PfnEnd - 1
  BY <1>1 DEF FreeSet, Phys
<1>9. Free(<<>>) = Pages
  BY <1>8, MBAssumption, FS_Interval DEF Free, PfnEnd
<1> QED BY <1>2, <1>7, <1>9

LEMMA InitIInv == Init => IInv
<1> SUFFICES ASSUME Init PROVE IInv
  OBVIOUS
<1>1. ListInv
  <2>1. Len(<<>>) = 0
    BY EmptySeq
  <2> QED BY <2>1, EmptyOK DEF Init, ListInv
<1>2. mbti \in [Tasks -> 0 .. MaxOpen]
  <2>1. 0 \in 0 .. MaxOpen
    BY MBAssumption
  <2> QED BY <2>1 DEF Init
<1>3. closing \in Tgids /\ oops \in BOOLEAN
  BY DEF Init, None, Tgids
<1> QED BY <1>1, <1>2, <1>3 DEF IInv, TaskInv

LEMMA KernelStepInv == IInv /\ KernelStep => IInv'
<1> SUFFICES ASSUME IInv, KernelStep PROVE IInv'
  OBVIOUS
<1>0. ListInv /\ TaskInv /\ MB_DEF_TGID \in Tgids /\ SameZones(mb_list)
  BY SelfZones DEF IInv, Tgids
<1>1. ASSUME NEW n \in 1 .. Pages, mb_alloc(n) PROVE IInv'
  <2>1. ListInv'
    BY <1>0, <1>1, AllocInv DEF mb_alloc
  <2> QED BY <2>1, <1>0, <1>1 DEF IInv, TaskInv, mb_alloc
<1>2. ASSUME NEW a \in Phys, mb_free(a) PROVE IInv'
  <2>1. ListInv'
    BY <1>0, <1>2, FreeInv DEF mb_free
  <2> QED BY <2>1, <1>0, <1>2 DEF IInv, TaskInv, mb_free
<1>3. ASSUME NEW a \in Phys, mb_get(a) PROVE IInv'
  <2>1. ListInv'
    BY <1>0, <1>3, GetInv DEF mb_get, Addrs
  <2> QED BY <2>1, <1>0, <1>3 DEF IInv, TaskInv, mb_get
<1>4. ASSUME NEW a \in Phys, mb_put(a) PROVE IInv'
  <2>1. \A p \in GetPuts(mb_list, ByPhys(mb_list, a, MB_DEF_TGID)) :
          /\ p \in Entries(mb_list)
          /\ mb_list[p[1]].mbu_list[p[2]].addr # NULL
    BY DEF GetPuts, ByPhys, IsGetPut
  <2>2. ListInv'
    BY <2>1, <1>0, <1>4, PutInv DEF mb_put
  <2> QED BY <2>2, <1>0, <1>4 DEF IInv, TaskInv, mb_put
<1> QED BY <1>1, <1>2, <1>3, <1>4 DEF KernelStep

(* The character device: open and the turns of the last release.           *)
LEMMA FileStepInv ==
  ASSUME IInv, NEW t \in Tasks,
         mb_open(t) \/ mb_release(t) \/ ReleaseScan(t) \/ ReleaseDone(t)
  PROVE  IInv'
<1>0. ListInv /\ TaskInv /\ SameZones(mb_list)
  BY SelfZones DEF IInv
<1>1. CASE mb_open(t)
  <2>1. ListInv'
    BY <1>0, <1>1 DEF mb_open, ListInv, counters
  <2>2. mbti[t] + 1 \in 0 .. MaxOpen
    BY <1>0, <1>1, MBAssumption DEF mb_open, TaskInv
  <2>3. TaskInv'
    BY <2>2, <1>0, <1>1 DEF mb_open, TaskInv
  <2> QED BY <2>1, <2>3 DEF IInv
<1>2. CASE mb_release(t)
  <2>1. ListInv'
    BY <1>0, <1>2 DEF mb_release, ListInv, counters
  <2>2. mbti[t] - 1 \in 0 .. MaxOpen
    BY <1>0, <1>2, MBAssumption DEF mb_release, Opened, TaskInv
  <2>3. TaskInv'
    BY <2>2, <1>0, <1>2 DEF mb_release, TaskInv, Tgids, None
  <2> QED BY <2>1, <2>3 DEF IInv
<1>3. CASE ReleaseScan(t)
  <2>1. PICK p \in UsersOf(mb_list, t) :
          KeepOrFree(mb_list, p[1],
            IF mb_list[p[1]].creator = p[2]
            THEN DelCreator(mb_list[p[1]])
            ELSE DelUser(mb_list[p[1]], p[2]))
    BY <1>3 DEF ReleaseScan
  <2> DEFINE b == mb_list[p[1]]
  <2>2. p[1] \in 1 .. Len(mb_list) /\ p[2] \in 1 .. Len(b.mbu_list)
    BY EntryOf DEF UsersOf
  <2>3. BlockOK(b)
    BY <2>2, <1>0, EntryFacts DEF ListInv
  <2>4. CASE b.creator = p[2]
    <3>1. b.creator # NULL
      BY <2>2, <2>4 DEF NULL
    <3>2. BlockOK(DelCreator(b)) /\ SamePlace(DelCreator(b), b)
      BY <2>3, <3>1, DelCreatorOK
    <3>3. KeepOrFree(mb_list, p[1], DelCreator(b))
      BY <2>1, <2>4
    <3> QED BY <3>2, <3>3, <2>2, <1>0, <1>3, KeepOrFreeInv
            DEF ReleaseScan, IInv, TaskInv
  <2>5. CASE b.creator # p[2]
    <3>1. BlockOK(DelUser(b, p[2])) /\ SamePlace(DelUser(b, p[2]), b)
      BY <2>2, <2>3, <2>5, DelUserOK
    <3>2. KeepOrFree(mb_list, p[1], DelUser(b, p[2]))
      BY <2>1, <2>5
    <3> QED BY <3>1, <3>2, <2>2, <1>0, <1>3, KeepOrFreeInv
            DEF ReleaseScan, IInv, TaskInv
  <2> QED BY <2>4, <2>5
<1>4. CASE ReleaseDone(t)
  BY <1>0, <1>4, SumIsFree DEF ReleaseDone, IInv, ListInv, TaskInv, None, Tgids
<1> QED BY <1>1, <1>2, <1>3, <1>4

(* The ioctls and mmap.                                                    *)
LEMMA IoctlStepInv ==
  ASSUME IInv, NEW t \in Tasks, TaskStep(t),
         ~(mb_open(t) \/ mb_release(t) \/ ReleaseScan(t) \/ ReleaseDone(t))
  PROVE  IInv'
<1>0. ListInv /\ TaskInv /\ SameZones(mb_list) /\ t \in Tgids
  BY SelfZones DEF IInv, Tgids
<1>1. ASSUME NEW n \in 1 .. Pages, MBIO_MALLOC(t, n) PROVE IInv'
  <2>1. ListInv'
    BY <1>0, <1>1, AllocInv DEF MBIO_MALLOC
  <2> QED BY <2>1, <1>0, <1>1 DEF IInv, TaskInv, MBIO_MALLOC
<1>2. ASSUME NEW off \in Phys, NEW len \in 1 .. Pages, NEW va \in UserVA,
             mb_mmap(t, off, len, va)
      PROVE  IInv'
  <2> DEFINE u == [tgid |-> t, addr |-> va, size |-> len]
  <2>1. u \in MbUser /\ u.addr # NULL
    BY <1>0, MBAssumption DEF MbUser, Addrs, NULL
  <2>2. PICK i \in 1 .. Len(mb_list) :
          mb_list' = [mb_list EXCEPT ![i] = AddUser(@, u)]
    BY <1>2 DEF mb_mmap
  <2> HIDE DEF u
  <2>3. ListInv'
    BY <2>1, <2>2, <1>0, <1>2, LinkInv DEF mb_mmap
  <2> QED BY <2>3, <1>0, <1>2 DEF IInv, TaskInv, mb_mmap
<1>3. ASSUME NEW v \in Addrs, MBIO_FREE(t, v) PROVE IInv'
  <2> DEFINE maps == Mmaps(mb_list, ByUser(mb_list, v, t))
  <2>1. ASSUME NEW p \in maps,
               mb_do_free([mb_list EXCEPT ![p[1]] = DelUser(@, p[2])],
                          mb_list[p[1]].phys, t)
        PROVE  ListInv'
    <3> DEFINE b == DelUser(mb_list[p[1]], p[2])
               l == [mb_list EXCEPT ![p[1]] = b]
    <3>1. /\ p[1] \in 1 .. Len(mb_list)
          /\ BlockOK(b) /\ SamePlace(b, mb_list[p[1]])
      BY <1>0, UnmapFacts
    <3>2. SameZones(l)
      BY <3>1, <1>0, ReplaceOK DEF SameZones, ListInv
    <3>3. mb_do_free(l, mb_list[p[1]].phys, t)
      BY <2>1
    <3> HIDE DEF l
    <3> QED BY <3>2, <3>3, <1>0, FreeInv
  <2>2. ASSUME mb_do_free(mb_list, v, t) PROVE ListInv'
    BY <2>2, <1>0, FreeInv
  <2>3. ListInv'
    BY <2>1, <2>2, <1>3 DEF MBIO_FREE
  <2> QED BY <2>3, <1>0, <1>3 DEF IInv, TaskInv, MBIO_FREE
<1>4. ASSUME NEW v \in UserVA, MBIO_UNMAP(t, v) PROVE IInv'
  <2>1. PICK p \in Mmaps(mb_list, ByUser(mb_list, v, t)) :
          mb_list' = [mb_list EXCEPT ![p[1]] = DelUser(@, p[2])]
    BY <1>4 DEF MBIO_UNMAP
  <2> DEFINE b == DelUser(mb_list[p[1]], p[2])
  <2>2. p[1] \in 1 .. Len(mb_list) /\ BlockOK(b) /\ SamePlace(b, mb_list[p[1]])
    BY <1>0, UnmapFacts DEF Addrs
  <2>3. mb_list' = [mb_list EXCEPT ![p[1]] = b]
    BY <2>1
  <2> HIDE DEF b
  <2>4. ListInv'
    BY <2>2, <2>3, <1>0, <1>4, ReplaceInv DEF MBIO_UNMAP
  <2> QED BY <2>4, <1>0, <1>4 DEF IInv, TaskInv, MBIO_UNMAP
<1>5. ASSUME NEW v \in UserVA, MBIO_GET(t, v) PROVE IInv'
  <2>1. PICK p \in Mmaps(mb_list, ByUser(mb_list, v, t)) : GetRef(p[1], t, v)
    BY <1>5 DEF MBIO_GET
  <2>2. p[1] \in 1 .. Len(mb_list) /\ v \in Addrs
    BY <1>0, UnmapFacts DEF Addrs
  <2>3. ListInv'
    BY <2>1, <2>2, <1>0, GetInv
  <2> QED BY <2>3, <1>0, <1>5 DEF IInv, TaskInv, MBIO_GET
<1>6. ASSUME NEW v \in Addrs, MBIO_PUT(t, v) PROVE IInv'
  <2>1. \A p \in GetPuts(mb_list, ByUser(mb_list, v, t)) :
          /\ p \in Entries(mb_list)
          /\ mb_list[p[1]].mbu_list[p[2]].addr # NULL
    BY DEF GetPuts, ByUser, IsGetPut
  <2>2. ListInv'
    BY <2>1, <1>0, <1>6, PutInv DEF MBIO_PUT
  <2> QED BY <2>2, <1>0, <1>6 DEF IInv, TaskInv, MBIO_PUT
<1>7. ASSUME NEW a \in Phys, MBIO_GET_BY_PHYS(t, a) PROVE IInv'
  <2>1. ListInv'
    BY <1>0, <1>7, GetInv DEF MBIO_GET_BY_PHYS, Addrs
  <2> QED BY <2>1, <1>0, <1>7 DEF IInv, TaskInv, MBIO_GET_BY_PHYS
<1>8. ASSUME NEW a \in Phys, MBIO_PUT_BY_PHYS(t, a) PROVE IInv'
  <2>1. \A p \in GetPuts(mb_list, ByPhys(mb_list, a, t)) :
          /\ p \in Entries(mb_list)
          /\ mb_list[p[1]].mbu_list[p[2]].addr # NULL
    BY DEF GetPuts, ByPhys, IsGetPut
  <2>2. ListInv'
    BY <2>1, <1>0, <1>8, PutInv DEF MBIO_PUT_BY_PHYS
  <2> QED BY <2>2, <1>0, <1>8 DEF IInv, TaskInv, MBIO_PUT_BY_PHYS
<1>9. ASSUME MBIO_FORCE_RESET(t) PROVE IInv'
  <2>1. CASE oops' = TRUE /\ UNCHANGED <<mb_list, counters>>
    BY <2>1, <1>0, <1>9
       DEF MBIO_FORCE_RESET, IInv, ListInv, TaskInv, counters
  <2>2. CASE /\ mb_list' = <<>>
             /\ nr_mb' = nr_mb - Len(mb_list)
             /\ mba_max' = IF mb_list = <<>> THEN mba_max ELSE LargestZone(<<>>)
             /\ mbah_max' = LargestZone(<<>>)
             /\ mba_free' = IF mb_list = <<>> THEN mba_free ELSE FreePages(<<>>)
             /\ mbah_free' = FreePages(<<>>)
             /\ oops' = FALSE
    <3>1. nr_mb' = 0 /\ Len(<<>>) = 0
      BY <2>2, <1>0, EntryFacts, EmptySeq DEF ListInv
    <3>2. mba_max' = LargestZone(<<>>)
      BY <2>2, <1>0 DEF ListInv
    <3>3. mba_free' = Free(<<>>) /\ mbah_free' = Free(<<>>)
      BY <2>2, <1>0, EmptyOK, SumIsFree DEF ListInv
    <3>4. ListInv'
      BY <3>1, <3>2, <3>3, <2>2, EmptyOK DEF ListInv
    <3> QED BY <3>4, <2>2, <1>0, <1>9 DEF MBIO_FORCE_RESET, IInv, TaskInv
  <2> QED BY <2>1, <2>2, <1>9 DEF MBIO_FORCE_RESET
<1> QED BY <1>1, <1>2, <1>3, <1>4, <1>5, <1>6, <1>7, <1>8, <1>9 DEF TaskStep

LEMMA NextIInv == IInv /\ [Next]_vars => IInv'
<1> SUFFICES ASSUME IInv, [Next]_vars PROVE IInv'
  OBVIOUS
<1>1. CASE KernelStep
  BY <1>1, KernelStepInv
<1>2. ASSUME NEW t \in Tasks, TaskStep(t) PROVE IInv'
  BY <1>2, FileStepInv, IoctlStepInv
<1>3. CASE UNCHANGED vars
  BY <1>3 DEF vars, counters, IInv, ListInv, TaskInv
<1>4. CASE Dead
  BY <1>3, <1>4 DEF Dead
<1> QED BY <1>1, <1>2, <1>3, <1>4 DEF Next

(* The invariant says what the runs check.                                 *)
LEMMA IInvTypeOK == IInv => TypeOK
<1> SUFFICES ASSUME IInv PROVE TypeOK
  OBVIOUS
<1>1. mb_list \in Seq(Block) /\ Len(mb_list) \in Nat
  BY EntryFacts DEF IInv, ListInv, ListOK
<1>2. nr_mb \in Nat
  BY <1>1 DEF IInv, ListInv
<1>3. mba_max \in 0 .. Pages /\ mbah_max \in 0 .. Pages
  BY LargestZoneFacts DEF IInv, ListInv
<1> QED BY <1>1, <1>2, <1>3 DEF TypeOK, IInv, TaskInv, Block

LEMMA IInvLists == IInv => BlocksDisjoint /\ CountIsUsers /\ CreatorInList
<1> SUFFICES ASSUME IInv PROVE BlocksDisjoint /\ CountIsUsers /\ CreatorInList
  OBVIOUS
<1>1. BlocksDisjoint
  BY DEF IInv, ListInv, ListOK, Layout, BlocksDisjoint
<1>2. \A i \in 1 .. Len(mb_list) : BlockOK(mb_list[i])
  BY DEF IInv, ListInv, ListOK
<1>3. CountIsUsers
  BY <1>2 DEF BlockOK, CountIsUsers
<1>4. CreatorInList
  <2>1. ASSUME NEW b, BlockOK(b) PROVE b.creator \in 0 .. Len(b.mbu_list)
    BY <2>1 DEF BlockOK, Block
  <2> QED BY <1>2, <2>1 DEF BlockOK, CreatorInList
<1> QED BY <1>1, <1>3, <1>4

LEMMA IInvFits == IInv => ZoneFitsRequest
<1> SUFFICES ASSUME IInv, NEW n \in 1 .. Pages, n <= mbah_max,
                    NEW k \in Zones(mb_list), StopsAt(mb_list, n, k)
             PROVE  Room(mb_list, k) >= n
  BY DEF ZoneFitsRequest
<1> QED BY RequestFits DEF IInv, ListInv

LEMMA IInvCounters == IInv => CountersExact
BY DEF IInv, ListInv, CountersExact, Free, FreeSet

-----------------------------------------------------------------------------
(* Every variable keeps its type; mb->creator is never a freed mb_user.    *)
THEOREM TypeCorrect == Spec => []TypeOK
<1>1. Spec => []IInv
  BY InitIInv, NextIInv, PTL DEF Spec
<1> QED BY <1>1, IInvTypeOK, PTL

(* mb_alloc_mb never gives out a page twice, on an area of any size and    *)
(* with any fragmentation.                                                 *)
THEOREM NoPageTwice == Spec => []BlocksDisjoint
<1>1. Spec => []IInv
  BY InitIInv, NextIInv, PTL DEF Spec
<1> QED BY <1>1, IInvLists, PTL

(* mb->count counts the users on mbu_list, along every path.               *)
THEOREM CountCorrect == Spec => []CountIsUsers
<1>1. Spec => []IInv
  BY InitIInv, NextIInv, PTL DEF Spec
<1> QED BY <1>1, IInvLists, PTL

(* mb->creator points to the block's own creator, or is NULL.              *)
THEOREM CreatorCorrect == Spec => []CreatorInList
<1>1. Spec => []IInv
  BY InitIInv, NextIInv, PTL DEF Spec
<1> QED BY <1>1, IInvLists, PTL

(* mb_alloc_mb never takes its branch "impossible, something wrong".       *)
THEOREM AdmittedFits == Spec => []ZoneFitsRequest
<1>1. Spec => []IInv
  BY InitIInv, NextIInv, PTL DEF Spec
<1> QED BY <1>1, IInvFits, PTL

(* The cached counters of the area and of the host are exact, however the  *)
(* area is fragmented: the number of blocks, the largest zone that admits  *)
(* an allocation, and the free pages that alloc subtracts from, that free  *)
(* sums up zone by zone and that release recomputes.                       *)
THEOREM CountersCorrect == Spec => []CountersExact
<1>1. Spec => []IInv
  BY InitIInv, NextIInv, PTL DEF Spec
<1> QED BY <1>1, IInvCounters, PTL
=============================================================================
