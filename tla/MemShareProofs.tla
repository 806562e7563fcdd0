--------------------------- MODULE MemShareProofs ---------------------------
(***************************************************************************)
(* What the memory block driver promises those who share it, for every     *)
(* area, set of tasks and bound: a task that is gone holds nothing, no     *)
(* task takes another's reference, and the driver implements MemShare.     *)
(* Every step of the driver is one of a few moves on the list of blocks;   *)
(* the three results go by move.                                           *)
(***************************************************************************)
EXTENDS MemBlockProofs, FiniteSetTheorems

(* Entry j of block b goes: list_del and atomic_dec, mb->creator cleared   *)
(* when it pointed there.                                                  *)
Cut(b, j) == IF j = b.creator THEN DelCreator(b) ELSE DelUser(b, j)

(* A caller with tgid g reaches the entries that its searches match, and   *)
(* the creator of a block it uses.                                         *)
Reaches(b, j, g) ==
  /\ j \in 1 .. Len(b.mbu_list)
  /\ j = b.creator \/ TgidMatch(b.mbu_list[j], g)

Cuts(l, r, i, g) ==
  /\ i \in 1 .. Len(l)
  /\ \E j \in 1 .. Len(l[i].mbu_list) :
       Reaches(l[i], j, g) /\ r = [l EXCEPT ![i] = Cut(l[i], j)]

(* A block without users leaves the list, or is kept.                      *)
Sweeps(l, r, i) ==
  \/ r = l
  \/ i \in 1 .. Len(l) /\ l[i].count = 0 /\ r = RemoveAt(l, i)

Links(l, r, g) ==
  \E i \in 1 .. Len(l), u \in MbUser :
    u.tgid = g /\ u.addr # NULL /\ r = [l EXCEPT ![i] = AddUser(l[i], u)]

(* A new block whose only user is its creator.                             *)
Fresh(b, g) ==
  BlockOK(b) /\ b.count = 1 /\ b.creator = 1 /\ b.mbu_list[1].tgid = g

Places(l, r, g) ==
  \E k \in 1 .. Len(l) + 1, b \in Block :
    Fresh(b, g) /\ r = InsertAt(l, k, b) /\ ListOK(r)

Clears(l, r) ==
  r = <<>> /\ \A i \in 1 .. Len(l) : l[i].mbu_list = <<>>

CutsOnce(l, r, g) ==
  \E i \in 1 .. Len(l) : \E x : Cuts(l, x, i, g) /\ Sweeps(x, r, i)
CutsTwice(l, r, g) ==
  \E i \in 1 .. Len(l) : \E x, y :
    Cuts(l, x, i, g) /\ Cuts(x, y, i, g) /\ Sweeps(y, r, i)

Moves(l, r, g) ==
  \/ r = l \/ Links(l, r, g) \/ Places(l, r, g)
  \/ CutsOnce(l, r, g) \/ CutsTwice(l, r, g) \/ Clears(l, r)

-----------------------------------------------------------------------------
(* What a cut leaves of a block and of the list.                           *)
LEMMA CutFacts ==
  ASSUME NEW b, BlockOK(b), NEW j \in 1 .. Len(b.mbu_list)
  PROVE  /\ BlockOK(Cut(b, j)) /\ SamePlace(Cut(b, j), b)
         /\ Cut(b, j).count = b.count - 1
         /\ Cut(b, j).mbu_list = RemoveAt(b.mbu_list, j)
<1>0. b \in Block /\ b.creator \in Nat
  BY DEF BlockOK, Block
<1>1. CASE j = b.creator
  <2>1. b.creator # NULL
    BY <1>1 DEF NULL
  <2> DEFINE d == DelUser(b, b.creator)
  <2>2. d = [phys |-> b.phys, pages |-> b.pages, count |-> b.count - 1,
             creator |-> FREED, mbu_list |-> RemoveAt(b.mbu_list, b.creator)]
    BY <1>0, UpdateThree DEF DelUser
  <2>3. Cut(b, j) = [d EXCEPT !.creator = NULL]
    BY <1>1 DEF Cut, DelCreator
  <2> HIDE DEF d
  <2>4. /\ Cut(b, j).count = b.count - 1
        /\ Cut(b, j).mbu_list = RemoveAt(b.mbu_list, j)
    BY <1>1, <2>2, <2>3
  <2> QED BY <1>1, <2>1, <2>4, DelCreatorOK DEF Cut
<1>2. CASE j # b.creator
  <2> DEFINE cr == IF b.creator = j THEN FREED
                   ELSE IF b.creator > j THEN b.creator - 1 ELSE b.creator
  <2>1. Cut(b, j) =
          [phys |-> b.phys, pages |-> b.pages, count |-> b.count - 1,
           creator |-> cr, mbu_list |-> RemoveAt(b.mbu_list, j)]
    BY <1>0, <1>2, UpdateThree DEF DelUser, Cut
  <2> HIDE DEF cr
  <2>2. /\ Cut(b, j).count = b.count - 1
        /\ Cut(b, j).mbu_list = RemoveAt(b.mbu_list, j)
    BY <2>1
  <2> QED BY <1>2, <2>2, DelUserOK DEF Cut
<1> QED BY <1>1, <1>2

(* A replaced block, position by position.                                 *)
LEMMA ReplaceFacts ==
  ASSUME NEW l, ListOK(l), NEW i \in 1 .. Len(l), NEW b, BlockOK(b),
         SamePlace(b, l[i])
  PROVE  LET r == [l EXCEPT ![i] = b]
         IN  /\ ListOK(r) /\ Len(r) = Len(l) /\ r[i] = b
             /\ \A j \in 1 .. Len(l) : j # i => r[j] = l[j]
<1> DEFINE r == [l EXCEPT ![i] = b]
<1>1. l \in Seq(Block) /\ b \in Block
  BY DEF ListOK, BlockOK
<1>2. \A j \in 1 .. Len(l) : j # i => r[j] = l[j]
  BY <1>1, ExceptSeq
<1>3. ListOK(r) /\ Len(r) = Len(l) /\ r[i] = b
  BY ReplaceOK
<1> QED BY <1>2, <1>3

LEMMA CutsFacts ==
  ASSUME NEW l, ListOK(l), NEW r, NEW i, NEW g, Cuts(l, r, i, g)
  PROVE  /\ ListOK(r) /\ Len(r) = Len(l) /\ i \in 1 .. Len(l)
         /\ \A j \in 1 .. Len(l) : j # i => r[j] = l[j]
         /\ SamePlace(r[i], l[i]) /\ r[i].count = l[i].count - 1
         /\ l[i].count >= 1
         /\ \E j \in 1 .. Len(l[i].mbu_list) :
              /\ Reaches(l[i], j, g)
              /\ r[i].mbu_list = RemoveAt(l[i].mbu_list, j)
<1>1. PICK j \in 1 .. Len(l[i].mbu_list) :
        Reaches(l[i], j, g) /\ r = [l EXCEPT ![i] = Cut(l[i], j)]
  BY DEF Cuts
<1>2. i \in 1 .. Len(l) /\ BlockOK(l[i])
  BY EntryFacts DEF Cuts
<1>3. /\ BlockOK(Cut(l[i], j)) /\ SamePlace(Cut(l[i], j), l[i])
      /\ Cut(l[i], j).count = l[i].count - 1
      /\ Cut(l[i], j).mbu_list = RemoveAt(l[i].mbu_list, j)
  BY <1>2, CutFacts
<1> DEFINE b == Cut(l[i], j)
<1>4. r = [l EXCEPT ![i] = b]
  BY <1>1
<1>5. l[i].count >= 1
  <2>1. l[i].count = Len(l[i].mbu_list) /\ Len(l[i].mbu_list) \in Nat
    BY <1>2 DEF BlockOK, Block
  <2> QED BY <2>1
<1>6. BlockOK(b) /\ SamePlace(b, l[i])
  BY <1>3
<1> HIDE DEF b
<1>7. /\ ListOK(r) /\ Len(r) = Len(l) /\ r[i] = b
      /\ \A h \in 1 .. Len(l) : h # i => r[h] = l[h]
  <2> DEFINE x == [l EXCEPT ![i] = b]
  <2>1. /\ ListOK(x) /\ Len(x) = Len(l) /\ x[i] = b
        /\ \A h \in 1 .. Len(l) : h # i => x[h] = l[h]
    BY <1>2, <1>6, ReplaceFacts
  <2> HIDE DEF x
  <2> QED BY <1>4, <2>1 DEF x
<1>8. b.count = l[i].count - 1 /\ b.mbu_list = RemoveAt(l[i].mbu_list, j)
  BY <1>3 DEF b
<1> QED BY <1>1, <1>2, <1>5, <1>6, <1>7, <1>8

(* mb_free_mb unlinks the block whose last user has just gone.             *)
LEMMA KeepOrFreeSweeps ==
  ASSUME NEW l, ListOK(l), NEW i \in 1 .. Len(l), NEW b, BlockOK(b),
         SamePlace(b, l[i]), KeepOrFree(l, i, b)
  PROVE  Sweeps([l EXCEPT ![i] = b], mb_list', i)
<1> DEFINE r == [l EXCEPT ![i] = b]
<1>1. /\ ListOK(r) /\ Len(r) = Len(l) /\ r[i] = b
      /\ \A j \in 1 .. Len(l) : j # i => r[j] = l[j]
  BY ReplaceFacts
<1> HIDE DEF r
<1>2. CASE b.count # 0
  <2>1. mb_list' = r
    BY <1>2 DEF KeepOrFree, r
  <2> QED BY <2>1 DEF Sweeps, r
<1>3. CASE b.count = 0
  <2>1. mb_list' = RemoveAt(l, i)
    BY <1>3 DEF KeepOrFree, FreeMb
  <2>2. l \in Seq(Block) /\ r \in Seq(Block) /\ Len(l) \in Nat
    BY <1>1, EntryFacts DEF ListOK
  <2> DEFINE x == RemoveAt(l, i)
             y == RemoveAt(r, i)
  <2>3. /\ x \in Seq(Block) /\ Len(x) = Len(l) - 1
        /\ \A j \in 1 .. Len(l) - 1 : x[j] = IF j < i THEN l[j] ELSE l[j + 1]
    BY <2>2, RemoveAtFacts, Zenon
  <2>4. i \in 1 .. Len(r)
    BY <1>1
  <2>5. /\ y \in Seq(Block) /\ Len(y) = Len(r) - 1
        /\ \A j \in 1 .. Len(r) - 1 : y[j] = IF j < i THEN r[j] ELSE r[j + 1]
    BY <2>2, <2>4, RemoveAtFacts, Zenon
  <2> HIDE DEF x, y
  <2>6. ASSUME NEW j \in 1 .. Len(x) PROVE x[j] = y[j]
    <3>1. j \in 1 .. Len(l) - 1 /\ j \in 1 .. Len(r) - 1
      BY <2>3, <1>1
    <3>2. CASE j < i
      <4>1. j \in 1 .. Len(l) /\ j # i
        BY <3>1, <3>2, <2>2
      <4> QED BY <3>1, <3>2, <4>1, <2>3, <2>5, <1>1
    <3>3. CASE ~(j < i)
      <4>1. j + 1 \in 1 .. Len(l) /\ j + 1 # i
        BY <3>1, <3>3, <2>2
      <4> QED BY <3>1, <3>3, <4>1, <2>3, <2>5, <1>1
    <3> QED BY <3>2, <3>3
  <2>7. x = y
    BY <2>3, <2>5, <2>6, <1>1, SeqEqual
  <2>8. i \in 1 .. Len(r) /\ r[i].count = 0 /\ mb_list' = RemoveAt(r, i)
    BY <2>1, <2>4, <2>7, <1>1, <1>3 DEF x, y
  <2> QED BY <2>8 DEF Sweeps, r
<1> QED BY <1>2, <1>3

-----------------------------------------------------------------------------
(* Every handler makes a move.                                             *)

LEMMA Distinct ==
  ASSUME NEW l, ListOK(l), NEW i \in 1 .. Len(l), NEW j \in 1 .. Len(l),
         l[i].phys = l[j].phys
  PROVE  i = j
<1>1. i < j => l[i].phys < l[j].phys
  BY OrderFacts, EntryFacts
<1>2. j < i => l[j].phys < l[i].phys
  BY OrderFacts, EntryFacts
<1> QED BY <1>1, <1>2, EntryFacts

LEMMA CutThenKeepOrFree ==
  ASSUME NEW l, ListOK(l), NEW i \in 1 .. Len(l), NEW g,
         NEW j \in 1 .. Len(l[i].mbu_list), Reaches(l[i], j, g),
         KeepOrFree(l, i, Cut(l[i], j))
  PROVE  \E x : Cuts(l, x, i, g) /\ Sweeps(x, mb_list', i)
<1> DEFINE x == [l EXCEPT ![i] = Cut(l[i], j)]
<1>1. BlockOK(Cut(l[i], j)) /\ SamePlace(Cut(l[i], j), l[i])
  BY EntryFacts, CutFacts
<1>2. Sweeps(x, mb_list', i)
  BY <1>1, KeepOrFreeSweeps
<1>3. Cuts(l, x, i, g)
  BY DEF Cuts
<1> QED BY <1>2, <1>3

LEMMA FreeMoves ==
  ASSUME NEW l, ListOK(l), NEW a, NEW g, mb_do_free(l, a, g)
  PROVE  \/ mb_list' = l
         \/ \E i \in 1 .. Len(l) :
              l[i].phys = a /\ \E x : Cuts(l, x, i, g) /\ Sweeps(x, mb_list', i)
<1>1. ASSUME NEW p \in ByPhys(l, a, g), l[p[1]].creator # NULL,
             KeepOrFree(l, p[1], DelCreator(l[p[1]]))
      PROVE  /\ p[1] \in 1 .. Len(l) /\ l[p[1]].phys = a
             /\ \E x : Cuts(l, x, p[1], g) /\ Sweeps(x, mb_list', p[1])
  <2>1. p[1] \in 1 .. Len(l) /\ l[p[1]].phys = a
    BY EntryOf DEF ByPhys
  <2> DEFINE b == l[p[1]]
             j == b.creator
  <2>2. BlockOK(b)
    BY <2>1, EntryFacts
  <2>3. j \in 1 .. Len(b.mbu_list)
    BY <1>1, <2>2 DEF BlockOK, Block, NULL
  <2>4. Reaches(b, j, g) /\ Cut(b, j) = DelCreator(b)
    BY <2>3 DEF Reaches, Cut
  <2>5. KeepOrFree(l, p[1], Cut(b, j))
    BY <1>1, <2>4
  <2> HIDE DEF j
  <2> QED BY <2>1, <2>3, <2>4, <2>5, CutThenKeepOrFree
<1> QED BY <1>1 DEF mb_do_free

(* The user that a put, an unmap or a release finds is not the creator,    *)
(* or is cut with it.                                                      *)
LEMMA PutMoves ==
  ASSUME ListInv, NEW H, NEW g, PutRef(H),
         \A p \in H : /\ p \in Entries(mb_list)
                      /\ mb_list[p[1]].mbu_list[p[2]].addr # NULL
                      /\ TgidMatch(mb_list[p[1]].mbu_list[p[2]], g)
  PROVE  CutsOnce(mb_list, mb_list', g)
<1>1. PICK p \in H : KeepOrFree(mb_list, p[1], DelUser(mb_list[p[1]], p[2]))
  BY DEF PutRef
<1> DEFINE b == mb_list[p[1]]
<1>2. p[1] \in 1 .. Len(mb_list) /\ p[2] \in 1 .. Len(b.mbu_list)
  BY EntryOf
<1>3. BlockOK(b) /\ b.mbu_list[p[2]].addr # NULL
  BY <1>2, EntryFacts DEF ListInv
<1>4. p[2] # b.creator
  BY <1>2, <1>3 DEF BlockOK
<1>5. Reaches(b, p[2], g) /\ Cut(b, p[2]) = DelUser(b, p[2])
  BY <1>2, <1>4 DEF Reaches, Cut
<1>6. KeepOrFree(mb_list, p[1], Cut(b, p[2])) /\ ListOK(mb_list)
  BY <1>1, <1>5 DEF ListInv
<1> QED BY <1>2, <1>5, <1>6, CutThenKeepOrFree DEF CutsOnce

LEMMA UnmapMoves ==
  ASSUME ListInv, NEW v \in Addrs, NEW g,
         NEW p \in Mmaps(mb_list, ByUser(mb_list, v, g))
  PROVE  /\ p[1] \in 1 .. Len(mb_list)
         /\ Cuts(mb_list,
                 [mb_list EXCEPT ![p[1]] = DelUser(mb_list[p[1]], p[2])],
                 p[1], g)
<1> DEFINE b == mb_list[p[1]]
<1>1. /\ p \in Entries(mb_list) /\ b.mbu_list[p[2]].addr = v
      /\ TgidMatch(b.mbu_list[p[2]], g)
  BY DEF Mmaps, ByUser
<1>2. v # NULL
  BY MBAssumption DEF Addrs, Phys, PfnEnd, NULL
<1>3. p[1] \in 1 .. Len(mb_list) /\ p[2] \in 1 .. Len(b.mbu_list)
  BY <1>1, EntryOf
<1>4. BlockOK(b)
  BY <1>3, EntryFacts DEF ListInv
<1>5. p[2] # b.creator
  BY <1>1, <1>2, <1>3, <1>4 DEF BlockOK
<1>6. Reaches(b, p[2], g) /\ Cut(b, p[2]) = DelUser(b, p[2])
  BY <1>1, <1>3, <1>5 DEF Reaches, Cut
<1> QED BY <1>3, <1>6 DEF Cuts

LEMMA GetMoves ==
  ASSUME NEW i \in 1 .. Len(mb_list), NEW g \in Tgids, NEW a \in Addrs,
         GetRef(i, g, a)
  PROVE  Links(mb_list, mb_list', g)
<1> DEFINE u == [tgid |-> g, addr |-> a, size |-> 0]
<1>1. a # NULL
  BY MBAssumption DEF Addrs, Phys, PfnEnd, NULL
<1>2. u \in MbUser /\ u.addr # NULL /\ u.tgid = g
  BY <1>1, MBAssumption DEF MbUser
<1>3. mb_list' = [mb_list EXCEPT ![i] = AddUser(mb_list[i], u)]
  BY DEF GetRef
<1> HIDE DEF u
<1> QED BY <1>2, <1>3 DEF Links

LEMMA AllocMoves ==
  ASSUME ListInv, NEW n \in 1 .. Pages, NEW g \in Tgids, mb_do_alloc(n, g)
  PROVE  Places(mb_list, mb_list', g)
<1>1. PICK k \in Zones(mb_list), b \in Block :
        /\ BlockOK(b) /\ b.count = 1 /\ b.creator = 1
        /\ b.mbu_list[1].tgid = g
        /\ mb_list' = InsertAt(mb_list, Before(mb_list, k), b)
  BY AllocFacts
<1>2. Before(mb_list, k) \in 1 .. Len(mb_list) + 1
  <2>1. Len(mb_list) \in Nat /\ k \in 1 .. Len(mb_list) + 1
    BY EntryFacts DEF ListInv, Zones
  <2> QED BY <2>1 DEF Before
<1>3. ListOK(mb_list')
  BY AllocInv DEF ListInv
<1> QED BY <1>1, <1>2, <1>3 DEF Places, Fresh

LEMMA KernelMoves ==
  ASSUME IInv, KernelStep PROVE Moves(mb_list, mb_list', MB_DEF_TGID)
<1> DEFINE g == MB_DEF_TGID
<1>0. ListInv /\ g \in Tgids /\ ListOK(mb_list)
  BY DEF IInv, ListInv, Tgids
<1>1. ASSUME NEW n \in 1 .. Pages, mb_alloc(n)
      PROVE  Places(mb_list, mb_list', g)
  BY <1>0, <1>1, AllocMoves DEF mb_alloc
<1>2. ASSUME NEW a \in Phys, mb_free(a)
      PROVE  mb_list' = mb_list \/ CutsOnce(mb_list, mb_list', g)
  BY <1>0, <1>2, FreeMoves DEF mb_free, CutsOnce
<1>3. ASSUME NEW a \in Phys, mb_get(a) PROVE Links(mb_list, mb_list', g)
  BY <1>0, <1>3, GetMoves DEF mb_get, Addrs
<1>4. ASSUME NEW a \in Phys, mb_put(a) PROVE CutsOnce(mb_list, mb_list', g)
  <2>1. \A p \in GetPuts(mb_list, ByPhys(mb_list, a, g)) :
          /\ p \in Entries(mb_list)
          /\ mb_list[p[1]].mbu_list[p[2]].addr # NULL
          /\ TgidMatch(mb_list[p[1]].mbu_list[p[2]], g)
    BY DEF GetPuts, ByPhys, IsGetPut
  <2> QED BY <2>1, <1>0, <1>4, PutMoves DEF mb_put
<1> QED BY <1>1, <1>2, <1>3, <1>4 DEF KernelStep, Moves

(* A turn of the RESCAN loops.                                             *)
LEMMA ScanMoves ==
  ASSUME IInv, NEW t \in Tasks, ReleaseScan(t)
  PROVE  CutsOnce(mb_list, mb_list', t)
<1>1. PICK p \in UsersOf(mb_list, t) :
        KeepOrFree(mb_list, p[1],
          IF mb_list[p[1]].creator = p[2]
          THEN DelCreator(mb_list[p[1]])
          ELSE DelUser(mb_list[p[1]], p[2]))
  BY DEF ReleaseScan
<1> DEFINE b == mb_list[p[1]]
<1>2. /\ p[1] \in 1 .. Len(mb_list) /\ p[2] \in 1 .. Len(b.mbu_list)
      /\ b.mbu_list[p[2]].tgid = t
  BY EntryOf DEF UsersOf
<1>3. KeepOrFree(mb_list, p[1], Cut(b, p[2])) /\ ListOK(mb_list)
  BY <1>1 DEF Cut, IInv, ListInv
<1>4. Reaches(b, p[2], t)
  BY <1>2 DEF Reaches, TgidMatch
<1> QED BY <1>2, <1>3, <1>4, CutThenKeepOrFree DEF CutsOnce

(* "if not unmap, unmap first": the mapping and the creator are on the     *)
(* same block.                                                             *)
LEMMA FreeCallMoves ==
  ASSUME IInv, NEW t \in Tasks, NEW v \in Addrs, MBIO_FREE(t, v)
  PROVE  Moves(mb_list, mb_list', t)
<1>0. ListInv /\ ListOK(mb_list)
  BY DEF IInv, ListInv
<1> DEFINE maps == Mmaps(mb_list, ByUser(mb_list, v, t))
<1>1. ASSUME NEW p \in maps,
             mb_do_free([mb_list EXCEPT ![p[1]] = DelUser(@, p[2])],
                        mb_list[p[1]].phys, t)
      PROVE  Moves(mb_list, mb_list', t)
  <2> DEFINE i == p[1]
             l == [mb_list EXCEPT ![i] = DelUser(mb_list[i], p[2])]
  <2>1. i \in 1 .. Len(mb_list) /\ Cuts(mb_list, l, i, t)
    BY <1>0, UnmapMoves
  <2>2. mb_do_free(l, mb_list[i].phys, t)
    BY <1>1
  <2> HIDE DEF l, i
  <2>3. ListOK(l) /\ Len(l) = Len(mb_list) /\ SamePlace(l[i], mb_list[i])
    BY <1>0, <2>1, CutsFacts
  <2>4. CASE mb_list' = l
    <3>1. Sweeps(l, mb_list', i)
      BY <2>4 DEF Sweeps
    <3> QED BY <3>1, <2>1 DEF Moves, CutsOnce
  <2>5. ASSUME NEW j \in 1 .. Len(l), l[j].phys = mb_list[i].phys, NEW x,
               Cuts(l, x, j, t), Sweeps(x, mb_list', j)
        PROVE  Moves(mb_list, mb_list', t)
    <3>1. j = i
      BY <2>1, <2>3, <2>5, Distinct DEF SamePlace
    <3> QED BY <3>1, <2>1, <2>5 DEF Moves, CutsTwice
  <2> QED BY <2>2, <2>3, <2>4, <2>5, FreeMoves
<1>2. ASSUME mb_do_free(mb_list, v, t)
      PROVE  mb_list' = mb_list \/ CutsOnce(mb_list, mb_list', t)
  BY <1>0, <1>2, FreeMoves DEF CutsOnce
<1> QED BY <1>1, <1>2 DEF MBIO_FREE, Moves

LEMMA TaskMoves ==
  ASSUME IInv, NEW t \in Tasks, TaskStep(t)
  PROVE  Moves(mb_list, mb_list', t)
<1>0. ListInv /\ ListOK(mb_list) /\ t \in Tgids
  BY DEF IInv, ListInv, Tgids
<1>1. CASE mb_open(t) \/ mb_release(t) \/ ReleaseDone(t)
  BY <1>1 DEF mb_open, mb_release, ReleaseDone, Moves
<1>2. CASE ReleaseScan(t)
  BY <1>2, ScanMoves DEF Moves
<1>3. ASSUME NEW n \in 1 .. Pages, MBIO_MALLOC(t, n)
      PROVE  Places(mb_list, mb_list', t)
  BY <1>0, <1>3, AllocMoves DEF MBIO_MALLOC
<1>4. ASSUME NEW off \in Phys, NEW len \in 1 .. Pages, NEW va \in UserVA,
             mb_mmap(t, off, len, va)
      PROVE  Links(mb_list, mb_list', t)
  <2> DEFINE u == [tgid |-> t, addr |-> va, size |-> len]
  <2>1. u \in MbUser /\ u.addr # NULL /\ u.tgid = t
    BY <1>0, MBAssumption DEF MbUser, Addrs, NULL
  <2>2. PICK i \in 1 .. Len(mb_list) :
          mb_list' = [mb_list EXCEPT ![i] = AddUser(mb_list[i], u)]
    BY <1>4 DEF mb_mmap
  <2> HIDE DEF u
  <2> QED BY <2>1, <2>2 DEF Links
<1>5. ASSUME NEW v \in Addrs, MBIO_FREE(t, v) PROVE Moves(mb_list, mb_list', t)
  BY <1>5, FreeCallMoves
<1>6. ASSUME NEW v \in UserVA, MBIO_UNMAP(t, v)
      PROVE  CutsOnce(mb_list, mb_list', t)
  <2>1. PICK p \in Mmaps(mb_list, ByUser(mb_list, v, t)) :
          mb_list' = [mb_list EXCEPT ![p[1]] = DelUser(mb_list[p[1]], p[2])]
    BY <1>6 DEF MBIO_UNMAP
  <2>2. p[1] \in 1 .. Len(mb_list) /\ Cuts(mb_list, mb_list', p[1], t)
    BY <2>1, <1>0, UnmapMoves DEF Addrs
  <2> QED BY <2>2 DEF CutsOnce, Sweeps
<1>7. ASSUME NEW v \in UserVA, MBIO_GET(t, v) PROVE Links(mb_list, mb_list', t)
  <2>1. PICK p \in Mmaps(mb_list, ByUser(mb_list, v, t)) : GetRef(p[1], t, v)
    BY <1>7 DEF MBIO_GET
  <2>2. p[1] \in 1 .. Len(mb_list) /\ v \in Addrs
    BY <1>0, UnmapFacts DEF Addrs
  <2> QED BY <2>1, <2>2, <1>0, GetMoves
<1>8. ASSUME NEW v \in Addrs, MBIO_PUT(t, v) PROVE CutsOnce(mb_list, mb_list', t)
  <2>1. \A p \in GetPuts(mb_list, ByUser(mb_list, v, t)) :
          /\ p \in Entries(mb_list)
          /\ mb_list[p[1]].mbu_list[p[2]].addr # NULL
          /\ TgidMatch(mb_list[p[1]].mbu_list[p[2]], t)
    BY DEF GetPuts, ByUser, IsGetPut
  <2> QED BY <2>1, <1>0, <1>8, PutMoves DEF MBIO_PUT
<1>9. ASSUME NEW a \in Phys, MBIO_GET_BY_PHYS(t, a)
      PROVE  Links(mb_list, mb_list', t)
  BY <1>0, <1>9, GetMoves DEF MBIO_GET_BY_PHYS, Addrs
<1>10. ASSUME NEW a \in Phys, MBIO_PUT_BY_PHYS(t, a)
       PROVE  CutsOnce(mb_list, mb_list', t)
  <2>1. \A p \in GetPuts(mb_list, ByPhys(mb_list, a, t)) :
          /\ p \in Entries(mb_list)
          /\ mb_list[p[1]].mbu_list[p[2]].addr # NULL
          /\ TgidMatch(mb_list[p[1]].mbu_list[p[2]], t)
    BY DEF GetPuts, ByPhys, IsGetPut
  <2> QED BY <2>1, <1>0, <1>10, PutMoves DEF MBIO_PUT_BY_PHYS
<1>11. ASSUME MBIO_FORCE_RESET(t)
       PROVE  mb_list' = mb_list \/ Clears(mb_list, mb_list')
  BY <1>11 DEF MBIO_FORCE_RESET, Clears
<1> QED BY <1>1, <1>2, <1>3, <1>4, <1>5, <1>6, <1>7, <1>8, <1>9, <1>10, <1>11
        DEF TaskStep, Moves

-----------------------------------------------------------------------------
(* A move of g gives no user to anybody else.                              *)
Uses(l, t) ==
  \E i \in 1 .. Len(l) :
    \E j \in 1 .. Len(l[i].mbu_list) : l[i].mbu_list[j].tgid = t

LEMMA UsesFacts == ASSUME NEW l, NEW t PROVE UsersOf(l, t) = {} <=> ~Uses(l, t)
<1>1. ASSUME NEW i \in 1 .. Len(l), NEW j \in 1 .. Len(l[i].mbu_list),
             l[i].mbu_list[j].tgid = t
      PROVE  <<i, j>> \in UsersOf(l, t)
  <2>1. <<i, j>> \in Entries(l)
    BY DEF Entries
  <2> QED BY <1>1, <2>1 DEF UsersOf
<1>2. ASSUME NEW p \in UsersOf(l, t) PROVE Uses(l, t)
  BY EntryOf DEF UsersOf, Uses
<1> QED BY <1>1, <1>2 DEF Uses

LEMMA UserSeq ==
  ASSUME NEW l, ListOK(l), NEW i \in 1 .. Len(l)
  PROVE  /\ l[i].mbu_list \in Seq(MbUser) /\ Len(l[i].mbu_list) \in Nat
         /\ l[i].count = Len(l[i].mbu_list) /\ l[i].creator \in Nat
BY EntryFacts DEF BlockOK, Block

LEMMA CutsUses ==
  ASSUME NEW l, ListOK(l), NEW r, NEW i, NEW g, Cuts(l, r, i, g), NEW t,
         ~Uses(l, t)
  PROVE  ~Uses(r, t)
<1> SUFFICES ASSUME NEW h \in 1 .. Len(r), NEW k \in 1 .. Len(r[h].mbu_list),
                    r[h].mbu_list[k].tgid = t
             PROVE  FALSE
  BY DEF Uses
<1>1. /\ Len(r) = Len(l) /\ i \in 1 .. Len(l)
      /\ \A j \in 1 .. Len(l) : j # i => r[j] = l[j]
  BY CutsFacts
<1>2. CASE h # i
  BY <1>1, <1>2 DEF Uses
<1>3. CASE h = i
  <2>1. PICK j \in 1 .. Len(l[i].mbu_list) :
          r[i].mbu_list = RemoveAt(l[i].mbu_list, j)
    BY CutsFacts
  <2> DEFINE m == l[i].mbu_list
             x == RemoveAt(m, j)
  <2>2. m \in Seq(MbUser) /\ Len(m) \in Nat /\ j \in 1 .. Len(m)
    BY <1>1, <2>1, UserSeq
  <2>3. /\ Len(x) = Len(m) - 1
        /\ \A e \in 1 .. Len(m) - 1 : x[e] = IF e < j THEN m[e] ELSE m[e + 1]
    BY <2>2, RemoveAtFacts, Zenon
  <2>4. k \in 1 .. Len(x) /\ x[k].tgid = t
    BY <1>3, <2>1
  <2> HIDE DEF x, m
  <2>5. \E e \in 1 .. Len(m) : m[e].tgid = t
    <3>1. CASE k < j
      BY <3>1, <2>2, <2>3, <2>4
    <3>2. CASE ~(k < j)
      <4>1. k + 1 \in 1 .. Len(m) /\ x[k] = m[k + 1]
        BY <3>2, <2>2, <2>3, <2>4
      <4> QED BY <4>1, <2>4
    <3> QED BY <3>1, <3>2
  <2> QED BY <2>5, <1>1 DEF Uses, m
<1> QED BY <1>2, <1>3

LEMMA SweepsUses ==
  ASSUME NEW l, ListOK(l), NEW r, NEW i, Sweeps(l, r, i), NEW t, ~Uses(l, t)
  PROVE  ~Uses(r, t)
<1>1. CASE r = l
  BY <1>1
<1>2. CASE i \in 1 .. Len(l) /\ r = RemoveAt(l, i)
  <2>1. l \in Seq(Block) /\ Len(l) \in Nat
    BY EntryFacts DEF ListOK
  <2>2. /\ Len(r) = Len(l) - 1
        /\ \A j \in 1 .. Len(l) - 1 : r[j] = IF j < i THEN l[j] ELSE l[j + 1]
    BY <1>2, <2>1, RemoveAtFacts, Zenon
  <2>3. \A j \in 1 .. Len(r) : \E h \in 1 .. Len(l) : r[j] = l[h]
    <3> SUFFICES ASSUME NEW j \in 1 .. Len(r)
                 PROVE  \E h \in 1 .. Len(l) : r[j] = l[h]
      OBVIOUS
    <3>1. /\ j \in 1 .. Len(l) /\ j + 1 \in 1 .. Len(l)
          /\ r[j] = IF j < i THEN l[j] ELSE l[j + 1]
      BY <2>1, <2>2
    <3> QED BY <3>1
  <2>4. ASSUME NEW j \in 1 .. Len(r), NEW k \in 1 .. Len(r[j].mbu_list)
        PROVE  r[j].mbu_list[k].tgid # t
    <3>1. PICK h \in 1 .. Len(l) : r[j] = l[h]
      BY <2>3
    <3>2. k \in 1 .. Len(l[h].mbu_list) /\ r[j].mbu_list[k] = l[h].mbu_list[k]
      BY <3>1
    <3> QED BY <3>2, Zenon DEF Uses
  <2> QED BY <2>4, Zenon DEF Uses
<1> QED BY <1>1, <1>2 DEF Sweeps

LEMMA LinksUses ==
  ASSUME NEW l, ListOK(l), NEW r, NEW g, Links(l, r, g), NEW t, t # g,
         ~Uses(l, t)
  PROVE  ~Uses(r, t)
<1>1. PICK i \in 1 .. Len(l), u \in MbUser :
        u.tgid = g /\ u.addr # NULL /\ r = [l EXCEPT ![i] = AddUser(l[i], u)]
  BY DEF Links
<1> DEFINE b == AddUser(l[i], u)
<1>2. BlockOK(b) /\ SamePlace(b, l[i])
  BY <1>1, EntryFacts, AddUserOK
<1>3. l[i] \in Block
  BY EntryFacts
<1>4. b.mbu_list = Append(l[i].mbu_list, u)
  BY <1>3, UpdateTwo DEF AddUser
<1>5. r = [l EXCEPT ![i] = b]
  BY <1>1
<1> HIDE DEF b
<1>6. /\ Len(r) = Len(l) /\ r[i] = b
      /\ \A j \in 1 .. Len(l) : j # i => r[j] = l[j]
  <2> DEFINE x == [l EXCEPT ![i] = b]
  <2>1. /\ Len(x) = Len(l) /\ x[i] = b
        /\ \A h \in 1 .. Len(l) : h # i => x[h] = l[h]
    BY <1>2, ReplaceFacts
  <2> HIDE DEF x
  <2> QED BY <1>5, <2>1 DEF x
<1> SUFFICES ASSUME NEW h \in 1 .. Len(r), NEW k \in 1 .. Len(r[h].mbu_list),
                    r[h].mbu_list[k].tgid = t
             PROVE  FALSE
  BY DEF Uses
<1>7. CASE h # i
  BY <1>6, <1>7 DEF Uses
<1>8. CASE h = i
  <2> DEFINE m == l[i].mbu_list
             x == Append(m, u)
  <2>1. m \in Seq(MbUser) /\ Len(m) \in Nat
    BY UserSeq
  <2>2. /\ Len(x) = Len(m) + 1 /\ x[Len(m) + 1] = u
        /\ \A j \in 1 .. Len(m) : x[j] = m[j]
    BY <2>1, AppendProperties
  <2>3. k \in 1 .. Len(x) /\ x[k].tgid = t
    BY <1>4, <1>6, <1>8
  <2> HIDE DEF x
  <2>4. k \in 1 .. Len(m) /\ m[k].tgid = t
    BY <1>1, <2>1, <2>2, <2>3
  <2> QED BY <2>4 DEF Uses
<1> QED BY <1>7, <1>8

(* A new block shifts the ones behind it.                                  *)
LEMMA PlacesFacts ==
  ASSUME NEW l, ListOK(l), NEW r, NEW g, Places(l, r, g)
  PROVE  \E k \in 1 .. Len(l) + 1, b \in Block :
           /\ Fresh(b, g) /\ r[k] = b /\ ListOK(r) /\ Len(r) = Len(l) + 1
           /\ \A j \in 1 .. k - 1 : r[j] = l[j]
           /\ \A j \in k + 1 .. Len(l) + 1 : r[j] = l[j - 1]
<1>1. PICK k \in 1 .. Len(l) + 1, b \in Block :
        Fresh(b, g) /\ r = InsertAt(l, k, b) /\ ListOK(r)
  BY DEF Places
<1>2. l \in Seq(Block)
  BY DEF ListOK
<1>3. k \in 1 .. Len(l) + 1 /\ b \in Block
  OBVIOUS
<1> DEFINE x == InsertAt(l, k, b)
<1>4. Len(x) = Len(l) + 1 /\ x[k] = b
  BY <1>2, <1>3, InsertAtFacts
<1>5. \A j \in 1 .. k - 1 : x[j] = l[j]
  BY <1>2, <1>3, InsertAtFacts
<1>6. \A j \in k + 1 .. Len(l) + 1 : x[j] = l[j - 1]
  BY <1>2, <1>3, InsertAtFacts
<1>7. r = x
  BY <1>1
<1> HIDE DEF x
<1> QED BY <1>1, <1>4, <1>5, <1>6, <1>7

LEMMA PlacesUses ==
  ASSUME NEW l, ListOK(l), NEW r, NEW g, Places(l, r, g), NEW t, t # g,
         ~Uses(l, t)
  PROVE  ~Uses(r, t)
<1>1. PICK k \in 1 .. Len(l) + 1, b \in Block :
        /\ Fresh(b, g) /\ r[k] = b /\ ListOK(r) /\ Len(r) = Len(l) + 1
        /\ \A j \in 1 .. k - 1 : r[j] = l[j]
        /\ \A j \in k + 1 .. Len(l) + 1 : r[j] = l[j - 1]
  BY PlacesFacts
<1>2. Len(l) \in Nat
  BY EntryFacts
<1> SUFFICES ASSUME NEW h \in 1 .. Len(r), NEW j \in 1 .. Len(r[h].mbu_list),
                    r[h].mbu_list[j].tgid = t
             PROVE  FALSE
  BY DEF Uses
<1>3. CASE h = k
  <2>1. Len(b.mbu_list) = 1 /\ b.mbu_list[1].tgid = g
    BY <1>1 DEF Fresh, BlockOK
  <2> QED BY <2>1, <1>1, <1>3
<1>4. CASE h < k
  <2>1. h \in 1 .. k - 1 /\ h \in 1 .. Len(l)
    BY <1>1, <1>2, <1>4
  <2> QED BY <2>1, <1>1 DEF Uses
<1>5. CASE h > k
  <2>1. h \in k + 1 .. Len(l) + 1 /\ h - 1 \in 1 .. Len(l)
    BY <1>1, <1>2, <1>5
  <2>2. r[h] = l[h - 1]
    BY <2>1, <1>1
  <2> QED BY <2>1, <2>2 DEF Uses
<1> QED BY <1>1, <1>2, <1>3, <1>4, <1>5

LEMMA MovesUses ==
  ASSUME NEW l, ListOK(l), NEW r, NEW g, Moves(l, r, g), NEW t, t # g,
         ~Uses(l, t)
  PROVE  ~Uses(r, t)
<1>1. CASE CutsOnce(l, r, g)
  <2>1. PICK i \in 1 .. Len(l) : \E x : Cuts(l, x, i, g) /\ Sweeps(x, r, i)
    BY <1>1 DEF CutsOnce
  <2>2. PICK x : Cuts(l, x, i, g) /\ Sweeps(x, r, i)
    BY <2>1
  <2>3. ListOK(x) /\ ~Uses(x, t)
    BY <2>2, CutsFacts, CutsUses
  <2> QED BY <2>2, <2>3, SweepsUses
<1>2. CASE CutsTwice(l, r, g)
  <2>1. PICK i \in 1 .. Len(l) : \E x, y :
          Cuts(l, x, i, g) /\ Cuts(x, y, i, g) /\ Sweeps(y, r, i)
    BY <1>2 DEF CutsTwice
  <2>2. PICK x, y : Cuts(l, x, i, g) /\ Cuts(x, y, i, g) /\ Sweeps(y, r, i)
    BY <2>1
  <2>3. ListOK(x) /\ ~Uses(x, t)
    BY <2>2, CutsFacts, CutsUses
  <2>4. ListOK(y) /\ ~Uses(y, t)
    BY <2>2, <2>3, CutsFacts, CutsUses
  <2> QED BY <2>2, <2>4, SweepsUses
<1>3. CASE Clears(l, r)
  <2>1. Len(r) = 0
    BY <1>3, EmptySeq DEF Clears
  <2> QED BY <2>1 DEF Uses
<1> QED BY <1>1, <1>2, <1>3, LinksUses, PlacesUses DEF Moves

LEMMA ClosedStep ==
  ASSUME IInv, ClosedHoldsNothing, [Next]_vars PROVE ClosedHoldsNothing'
<1>0. ListOK(mb_list) /\ mbti \in [Tasks -> 0 .. MaxOpen] /\ MaxOpen \in Nat
  BY MBAssumption DEF IInv, ListInv, TaskInv
<1>1. SUFFICES ASSUME NEW u \in Tasks, u # closing', mbti'[u] = 0
               PROVE  ~Uses(mb_list', u)
  <2>1. ASSUME NEW u \in Tasks \ {closing'}, mbti'[u] = 0
        PROVE  UsersOf(mb_list', u) = {}
    BY <1>1, <2>1, UsesFacts
  <2> QED BY <2>1 DEF ClosedHoldsNothing
<1>2. u # closing /\ mbti[u] = 0 => ~Uses(mb_list, u)
  BY UsesFacts DEF ClosedHoldsNothing
<1>3. CASE KernelStep
  <2>1. UNCHANGED <<mbti, closing>>
    BY <1>3 DEF KernelStep, mb_alloc, mb_free, mb_get, mb_put
  <2>2. Moves(mb_list, mb_list', MB_DEF_TGID) /\ u # MB_DEF_TGID
    BY <1>3, KernelMoves, MBAssumption
  <2> QED BY <2>1, <2>2, <1>0, <1>1, <1>2, MovesUses
<1>4. ASSUME NEW t \in Tasks, TaskStep(t), u # t PROVE ~Uses(mb_list', u)
  <2>1. Moves(mb_list, mb_list', t)
    BY <1>4, TaskMoves
  <2>2. mbti'[u] = mbti[u]
    BY <1>0, <1>4 DEF TaskStep, mb_open, mb_release, ReleaseScan, ReleaseDone,
       MBIO_MALLOC, mb_mmap, MBIO_FREE, MBIO_UNMAP, MBIO_GET, MBIO_PUT,
       MBIO_GET_BY_PHYS, MBIO_PUT_BY_PHYS, MBIO_FORCE_RESET
  <2>3. closing' = closing \/ closing \in {None, t}
    BY <1>4 DEF TaskStep, mb_open, mb_release, ReleaseScan, ReleaseDone,
       MBIO_MALLOC, mb_mmap, MBIO_FREE, MBIO_UNMAP, MBIO_GET, MBIO_PUT,
       MBIO_GET_BY_PHYS, MBIO_PUT_BY_PHYS, MBIO_FORCE_RESET, Opened, Runs
  <2>4. u # None
    BY MBAssumption DEF None
  <2> QED BY <2>1, <2>2, <2>3, <2>4, <1>0, <1>1, <1>2, <1>4, MovesUses
<1>5. CASE TaskStep(u)
  <2>1. mbti[u] \in Nat
    BY <1>0
  <2>2. CASE mb_open(u)
    <3>1. mbti'[u] = mbti[u] + 1
      BY <2>2, <1>0 DEF mb_open
    <3> QED BY <3>1, <2>1, <1>1
  <2>3. CASE mb_release(u)
    <3>1. /\ mbti'[u] = mbti[u] - 1 /\ mbti[u] > 0
          /\ closing' = IF mbti[u] = 1 THEN u ELSE None
      BY <2>3, <1>0 DEF mb_release, Opened
    <3> QED BY <3>1, <2>1, <1>1
  <2>4. CASE ReleaseScan(u)
    BY <2>4, <1>1 DEF ReleaseScan
  <2>5. CASE ReleaseDone(u)
    BY <2>5, UsesFacts DEF ReleaseDone
  <2>6. CASE mbti' = mbti /\ mbti[u] > 0
    BY <2>1, <2>6, <1>1
  <2> QED BY <1>5, <2>2, <2>3, <2>4, <2>5, <2>6 DEF TaskStep, MBIO_MALLOC,
          mb_mmap, MBIO_FREE, MBIO_UNMAP, MBIO_GET, MBIO_PUT, MBIO_GET_BY_PHYS,
          MBIO_PUT_BY_PHYS, MBIO_FORCE_RESET, Opened
<1>6. CASE UNCHANGED vars
  BY <1>1, <1>2, <1>6 DEF vars
<1> QED BY <1>3, <1>4, <1>5, <1>6 DEF Next, Dead

(* A task that has closed its last file holds no block, mapping or get:    *)
(* the RESCAN loops of mb_release miss none of them, and nothing but a     *)
(* call of the task itself, which needs an open file, makes a new one.     *)
THEOREM GoneHoldsNothing == Spec => []ClosedHoldsNothing
<1>1. Init => ClosedHoldsNothing
  <2> SUFFICES ASSUME Init PROVE ClosedHoldsNothing
    OBVIOUS
  <2>1. Len(mb_list) = 0
    BY EmptySeq DEF Init
  <2>2. \A t : UsersOf(mb_list, t) = {}
    BY <2>1, UsesFacts DEF Uses
  <2> QED BY <2>2 DEF ClosedHoldsNothing
<1>2. Spec => []IInv
  BY InitIInv, NextIInv, PTL DEF Spec
<1> QED BY <1>1, <1>2, ClosedStep, PTL DEF Spec

-----------------------------------------------------------------------------
(* The references of others, as positions and as what is found there.      *)
Foreign(l, t) ==
  {p \in Entries(l) : /\ l[p[1]].mbu_list[p[2]].tgid # t
                      /\ l[p[1]].mbu_list[p[2]].addr # NULL}

RefAt(l, p) == <<l[p[1]].phys, l[p[1]].mbu_list[p[2]]>>

LEMMA EntryPairs ==
  ASSUME NEW l
  PROVE  /\ \A i, j : <<i, j>> \in Entries(l) <=>
               i \in 1 .. Len(l) /\ j \in 1 .. Len(l[i].mbu_list)
         /\ \A p \in Entries(l) : p = <<p[1], p[2]>>
BY DEF Entries

(* The lists are finite: the least number of blocks whose users were       *)
(* infinitely many would have one block with infinitely many users.        *)
LEMMA FiniteEntries == ASSUME NEW l, ListOK(l) PROVE IsFiniteSet(Entries(l))
<1> DEFINE E(n) == UNION {{i} \X (1 .. Len(l[i].mbu_list)) : i \in 1 .. n}
           T == {n \in 0 .. Len(l) : ~IsFiniteSet(E(n))}
<1>0. Len(l) \in Nat
  BY EntryFacts
<1>1. E(0) = {}
  OBVIOUS
<1>2. ASSUME NEW n \in 1 .. Len(l), IsFiniteSet(E(n - 1))
      PROVE  IsFiniteSet(E(n))
  <2> DEFINE m == Len(l[n].mbu_list)
             F == {n} \X (1 .. m)
             f == [j \in 1 .. m |-> <<n, j>>]
  <2>1. m \in Nat
    BY UserSeq
  <2> HIDE DEF m
  <2>0. 1 \in Int /\ m \in Int
    BY <2>1
  <2>2. IsFiniteSet(1 .. m)
    BY <2>0, FS_Interval
  <2>3. f \in Surjection(1 .. m, F)
    BY DEF Surjection
  <2>4. IsFiniteSet(F)
    BY <2>2, <2>3, FS_Surjection
  <2>5. E(n) = E(n - 1) \cup F
    <3>1. 1 .. n = (1 .. n - 1) \cup {n}
      BY <1>0
    <3> QED BY <3>1 DEF m
  <2> HIDE DEF E, F
  <2> QED BY <1>2, <2>4, <2>5, FS_Union
<1>3. T = {}
  <2> SUFFICES ASSUME T # {} PROVE FALSE
    OBVIOUS
  <2>1. T \subseteq Nat
    BY <1>0
  <2>2. PICK n \in T : \A y \in T : n <= y
    BY <2>1, LeastNat
  <2>3. n # 0
    BY <2>2, <1>1, FS_EmptySet
  <2>4. n \in 1 .. Len(l) /\ n - 1 \in 0 .. Len(l)
    BY <2>2, <2>3, <1>0
  <2>5. n - 1 \notin T
    <3> HIDE DEF T
    <3> QED BY <2>2, <2>4
  <2> HIDE DEF E
  <2> QED BY <2>2, <2>4, <2>5, <1>2
<1>4. Entries(l) = E(Len(l))
  BY DEF Entries
<1>5. Len(l) \in 0 .. Len(l)
  BY <1>0
<1> HIDE DEF E
<1> QED BY <1>3, <1>4, <1>5

(* Positions that correspond one to one, with the same reference at each:  *)
(* every reference is there as often as before.                            *)
LEMMA SameRefs ==
  ASSUME NEW l, ListOK(l), NEW r, NEW t,
         NEW f \in [Foreign(l, t) -> Foreign(r, t)],
         NEW e \in [Foreign(r, t) -> Foreign(l, t)],
         \A p \in Foreign(l, t) : e[f[p]] = p /\ RefAt(r, f[p]) = RefAt(l, p),
         \A q \in Foreign(r, t) : f[e[q]] = q
  PROVE  RefsOfOthers(l, t) = RefsOfOthers(r, t)
<1> DEFINE P == Foreign(l, t)
           Q == Foreign(r, t)
           A(x) == {p \in P : RefAt(l, p) = x}
           B(x) == {q \in Q : RefAt(r, q) = x}
<1>1. RefsOfOthers(l, t) = [x \in {RefAt(l, p) : p \in P} |-> Cardinality(A(x))]
  BY DEF RefsOfOthers, Foreign, RefAt
<1>2. RefsOfOthers(r, t) = [x \in {RefAt(r, q) : q \in Q} |-> Cardinality(B(x))]
  BY DEF RefsOfOthers, Foreign, RefAt
<1>3. IsFiniteSet(P)
  <2>1. P \in SUBSET Entries(l)
    BY DEF Foreign
  <2> QED BY <2>1, FiniteEntries, FS_Subset
<1> HIDE DEF P, Q
<1>4. /\ f \in [P -> Q] /\ e \in [Q -> P]
      /\ \A p \in P : e[f[p]] = p /\ RefAt(r, f[p]) = RefAt(l, p)
      /\ \A q \in Q : f[e[q]] = q
  BY DEF P, Q
<1>5. {RefAt(l, p) : p \in P} = {RefAt(r, q) : q \in Q}
  <2>1. \A q \in Q : e[q] \in P /\ RefAt(r, q) = RefAt(l, e[q])
    BY <1>4
  <2>2. \A p \in P : f[p] \in Q /\ RefAt(r, f[p]) = RefAt(l, p)
    BY <1>4
  <2>3. ASSUME NEW p \in P
        PROVE  RefAt(l, p) \in {RefAt(r, q) : q \in Q}
    BY <2>2
  <2>4. ASSUME NEW q \in Q
        PROVE  RefAt(r, q) \in {RefAt(l, p) : p \in P}
    BY <2>1
  <2> HIDE DEF RefAt
  <2> QED BY <2>3, <2>4
<1>6. ASSUME NEW x PROVE Cardinality(A(x)) = Cardinality(B(x))
  <2> DEFINE h == [p \in A(x) |-> f[p]]
  <2>1. h \in [A(x) -> B(x)]
    BY <1>4
  <2>2. \A p, q \in A(x) : h[p] = h[q] => p = q
    BY <1>4
  <2>3. \A q \in B(x) : \E p \in A(x) : h[p] = q
    <3> SUFFICES ASSUME NEW q \in B(x) PROVE e[q] \in A(x) /\ h[e[q]] = q
      BY Zenon
    <3>1. e[q] \in P /\ f[e[q]] = q
      BY <1>4
    <3>2. RefAt(l, e[q]) = x
      BY <3>1, <1>4
    <3> QED BY <3>1, <3>2
  <2>4. A(x) \in SUBSET P
    OBVIOUS
  <2>5. IsFiniteSet(A(x))
    BY <2>4, <1>3, FS_Subset
  <2> HIDE DEF A, B, h
  <2>6. h \in Bijection(A(x), B(x))
    BY <2>1, <2>2, <2>3 DEF Bijection, Injection, Surjection, IsInjective
  <2>7. ExistsBijection(A(x), B(x))
    BY <2>6 DEF ExistsBijection
  <2> QED BY <2>5, <2>7, FS_Bijection
<1> HIDE DEF A, B
<1> QED BY <1>1, <1>2, <1>5, <1>6

LEMMA ForeignFacts ==
  ASSUME NEW l, NEW t
  PROVE  /\ \A i, j : <<i, j>> \in Foreign(l, t) <=>
               /\ i \in 1 .. Len(l) /\ j \in 1 .. Len(l[i].mbu_list)
               /\ l[i].mbu_list[j].tgid # t /\ l[i].mbu_list[j].addr # NULL
         /\ \A p \in Foreign(l, t) : p = <<p[1], p[2]>>
BY EntryPairs DEF Foreign

(* List x is list l without block i, on which nobody else has a reference. *)
LEMMA BlockGone ==
  ASSUME NEW l, ListOK(l), NEW x, NEW i \in 1 .. Len(l), NEW t,
         Len(x) = Len(l) - 1,
         \A h \in 1 .. i - 1 : x[h] = l[h],
         \A h \in i + 1 .. Len(l) : x[h - 1] = l[h],
         \A j \in 1 .. Len(l[i].mbu_list) :
           l[i].mbu_list[j].tgid = t \/ l[i].mbu_list[j].addr = NULL
  PROVE  RefsOfOthers(l, t) = RefsOfOthers(x, t)
<1> DEFINE F(p) == IF p[1] > i THEN <<p[1] - 1, p[2]>> ELSE p
           E(q) == IF q[1] >= i THEN <<q[1] + 1, q[2]>> ELSE q
           f == [p \in Foreign(l, t) |-> F(p)]
           e == [q \in Foreign(x, t) |-> E(q)]
<1>0. Len(l) \in Nat
  BY EntryFacts
<1>1. ASSUME NEW p \in Foreign(l, t)
      PROVE  /\ F(p) \in Foreign(x, t) /\ E(F(p)) = p
             /\ RefAt(x, F(p)) = RefAt(l, p)
  <2> DEFINE h == p[1]
             k == p[2]
  <2>1. /\ p = <<h, k>> /\ h \in 1 .. Len(l) /\ k \in 1 .. Len(l[h].mbu_list)
        /\ l[h].mbu_list[k].tgid # t /\ l[h].mbu_list[k].addr # NULL
    BY ForeignFacts
  <2>2. h # i
    BY <2>1
  <2> HIDE DEF h, k
  <2>3. CASE h < i
    <3>1. h \in 1 .. i - 1 /\ h \in 1 .. Len(x) /\ ~(h > i) /\ ~(h >= i)
      BY <2>1, <2>3, <1>0
    <3>2. x[h] = l[h] /\ F(p) = <<h, k>>
      BY <3>1, <2>1
    <3> QED BY <3>1, <3>2, <2>1, ForeignFacts DEF RefAt
  <2>4. CASE h > i
    <3>1. /\ h \in i + 1 .. Len(l) /\ h - 1 \in 1 .. Len(x) /\ h - 1 >= i
          /\ (h - 1) + 1 = h
      BY <2>1, <2>4, <1>0
    <3>2. x[h - 1] = l[h] /\ F(p) = <<h - 1, k>>
      BY <3>1, <2>1, <2>4
    <3>3. E(F(p)) = p
      BY <3>1, <3>2, <2>1
    <3>4. F(p) \in Foreign(x, t)
      BY <3>1, <3>2, <2>1, ForeignFacts
    <3>5. RefAt(x, <<h - 1, k>>) = RefAt(l, <<h, k>>)
      BY <3>2 DEF RefAt
    <3> HIDE DEF F, E
    <3> QED BY <3>2, <3>3, <3>4, <3>5, <2>1
  <2> QED BY <2>1, <2>2, <2>3, <2>4
<1>2. ASSUME NEW q \in Foreign(x, t)
      PROVE  E(q) \in Foreign(l, t) /\ F(E(q)) = q
  <2> DEFINE h == q[1]
             k == q[2]
  <2>1. /\ q = <<h, k>> /\ h \in 1 .. Len(x) /\ k \in 1 .. Len(x[h].mbu_list)
        /\ x[h].mbu_list[k].tgid # t /\ x[h].mbu_list[k].addr # NULL
    BY ForeignFacts
  <2> HIDE DEF h, k
  <2>2. CASE h < i
    <3>1. h \in 1 .. i - 1 /\ h \in 1 .. Len(l) /\ ~(h > i) /\ ~(h >= i)
      BY <2>1, <2>2, <1>0
    <3>2. x[h] = l[h] /\ E(q) = <<h, k>>
      BY <3>1, <2>1
    <3> QED BY <3>1, <3>2, <2>1, ForeignFacts
  <2>3. CASE h >= i
    <3>1. /\ h + 1 \in i + 1 .. Len(l) /\ h + 1 \in 1 .. Len(l) /\ h + 1 > i
          /\ (h + 1) - 1 = h
      BY <2>1, <2>3, <1>0
    <3>2. x[h] = l[h + 1] /\ E(q) = <<h + 1, k>>
      BY <3>1, <2>1, <2>3
    <3>3. F(E(q)) = q
      BY <3>1, <3>2, <2>1
    <3>4. <<h + 1, k>> \in Foreign(l, t)
      BY <3>1, <3>2, <2>1, ForeignFacts
    <3> HIDE DEF F, E
    <3> QED BY <3>2, <3>3, <3>4
  <2> QED BY <2>1, <2>2, <2>3
<1> HIDE DEF F, E
<1>3. f \in [Foreign(l, t) -> Foreign(x, t)] /\ e \in [Foreign(x, t) -> Foreign(l, t)]
  BY <1>1, <1>2
<1>4. \A p \in Foreign(l, t) : e[f[p]] = p /\ RefAt(x, f[p]) = RefAt(l, p)
  BY <1>1
<1>5. \A q \in Foreign(x, t) : f[e[q]] = q
  BY <1>2
<1> HIDE DEF f, e
<1> QED BY <1>3, <1>4, <1>5, SameRefs

(* List x is list l without user j of block i, which is t's own or a       *)
(* creator.                                                                *)
LEMMA UserGone ==
  ASSUME NEW l, ListOK(l), NEW x, NEW i \in 1 .. Len(l), NEW t,
         NEW j \in 1 .. Len(l[i].mbu_list), Len(x) = Len(l),
         \A h \in 1 .. Len(l) : h # i => x[h] = l[h],
         x[i].phys = l[i].phys,
         Len(x[i].mbu_list) = Len(l[i].mbu_list) - 1,
         \A k \in 1 .. j - 1 : x[i].mbu_list[k] = l[i].mbu_list[k],
         \A k \in j + 1 .. Len(l[i].mbu_list) :
           x[i].mbu_list[k - 1] = l[i].mbu_list[k],
         l[i].mbu_list[j].tgid = t \/ l[i].mbu_list[j].addr = NULL
  PROVE  RefsOfOthers(l, t) = RefsOfOthers(x, t)
<1> DEFINE F(p) == IF p[1] = i /\ p[2] > j THEN <<p[1], p[2] - 1>> ELSE p
           E(q) == IF q[1] = i /\ q[2] >= j THEN <<q[1], q[2] + 1>> ELSE q
           f == [p \in Foreign(l, t) |-> F(p)]
           e == [q \in Foreign(x, t) |-> E(q)]
           m == l[i].mbu_list
           n == x[i].mbu_list
<1>0. Len(m) \in Nat /\ j \in 1 .. Len(m) /\ Len(n) = Len(m) - 1
  BY UserSeq
<1>1. ASSUME NEW p \in Foreign(l, t)
      PROVE  /\ F(p) \in Foreign(x, t) /\ E(F(p)) = p
             /\ RefAt(x, F(p)) = RefAt(l, p)
  <2> DEFINE h == p[1]
             k == p[2]
  <2>1. /\ p = <<h, k>> /\ h \in 1 .. Len(l) /\ k \in 1 .. Len(l[h].mbu_list)
        /\ l[h].mbu_list[k].tgid # t /\ l[h].mbu_list[k].addr # NULL
    BY ForeignFacts
  <2>2. ~(h = i /\ k = j)
    BY <2>1
  <2> HIDE DEF h, k
  <2>3. CASE h # i
    <3>1. x[h] = l[h] /\ F(p) = <<h, k>>
      BY <2>1, <2>3
    <3> QED BY <3>1, <2>1, <2>3, ForeignFacts DEF RefAt
  <2>4. CASE h = i /\ k < j
    <3>1. k \in 1 .. j - 1 /\ k \in 1 .. Len(n) /\ ~(k > j) /\ ~(k >= j)
      BY <2>1, <2>4, <1>0
    <3>2. n[k] = m[k] /\ F(p) = <<h, k>>
      BY <3>1, <2>1
    <3>3. E(F(p)) = p
      BY <3>1, <3>2, <2>1
    <3> QED BY <3>1, <3>2, <3>3, <2>1, <2>4, ForeignFacts DEF RefAt
  <2>5. CASE h = i /\ k > j
    <3>1. /\ k \in j + 1 .. Len(m) /\ k - 1 \in 1 .. Len(n) /\ k - 1 >= j
          /\ (k - 1) + 1 = k
      BY <2>1, <2>5, <1>0
    <3>2. n[k - 1] = m[k] /\ F(p) = <<h, k - 1>>
      BY <3>1, <2>1, <2>5
    <3>3. E(F(p)) = p
      BY <3>1, <3>2, <2>1, <2>5
    <3> QED BY <3>1, <3>2, <3>3, <2>1, <2>5, ForeignFacts DEF RefAt
  <2>6. h = i => k < j \/ k > j
    BY <2>1, <2>2, <1>0
  <2> QED BY <2>3, <2>4, <2>5, <2>6
<1>2. ASSUME NEW q \in Foreign(x, t)
      PROVE  E(q) \in Foreign(l, t) /\ F(E(q)) = q
  <2> DEFINE h == q[1]
             k == q[2]
  <2>1. /\ q = <<h, k>> /\ h \in 1 .. Len(x) /\ k \in 1 .. Len(x[h].mbu_list)
        /\ x[h].mbu_list[k].tgid # t /\ x[h].mbu_list[k].addr # NULL
    BY ForeignFacts
  <2> HIDE DEF h, k
  <2>3. CASE h # i
    <3>1. x[h] = l[h] /\ E(q) = <<h, k>>
      BY <2>1, <2>3
    <3> QED BY <3>1, <2>1, <2>3, ForeignFacts
  <2>4. CASE h = i /\ k < j
    <3>1. k \in 1 .. j - 1 /\ k \in 1 .. Len(m) /\ ~(k > j) /\ ~(k >= j)
      BY <2>1, <2>4, <1>0
    <3>2. n[k] = m[k] /\ E(q) = <<h, k>>
      BY <3>1, <2>1
    <3>3. F(E(q)) = q
      BY <3>1, <3>2, <2>1
    <3> QED BY <3>1, <3>2, <3>3, <2>1, <2>4, ForeignFacts
  <2>5. CASE h = i /\ k >= j
    <3>0. k \in 1 .. Len(n)
      BY <2>1, <2>5
    <3>1. /\ k + 1 \in j + 1 .. Len(m) /\ k + 1 \in 1 .. Len(m) /\ k + 1 > j
          /\ (k + 1) - 1 = k
      <4> HIDE DEF m, n
      <4> QED BY <3>0, <2>5, <1>0
    <3>2. n[k] = m[k + 1] /\ E(q) = <<h, k + 1>>
      BY <3>1, <2>1, <2>5
    <3>3. F(E(q)) = q
      BY <3>1, <3>2, <2>1, <2>5
    <3>4. /\ i \in 1 .. Len(l) /\ k + 1 \in 1 .. Len(l[i].mbu_list)
          /\ l[i].mbu_list[k + 1].tgid # t /\ l[i].mbu_list[k + 1].addr # NULL
      BY <3>1, <3>2, <2>1, <2>5, <1>0
    <3>5. E(q) = <<i, k + 1>>
      BY <3>2, <2>5
    <3> HIDE DEF E, F
    <3>6. E(q) \in Foreign(l, t)
      BY <3>4, <3>5, ForeignFacts
    <3> QED BY <3>3, <3>6
  <2>6. h = i => k < j \/ k >= j
    BY <2>1, <1>0
  <2> QED BY <2>3, <2>4, <2>5, <2>6
<1> HIDE DEF F, E
<1>3. f \in [Foreign(l, t) -> Foreign(x, t)] /\ e \in [Foreign(x, t) -> Foreign(l, t)]
  BY <1>1, <1>2
<1>4. \A p \in Foreign(l, t) : e[f[p]] = p /\ RefAt(x, f[p]) = RefAt(l, p)
  BY <1>1
<1>5. \A q \in Foreign(x, t) : f[e[q]] = q
  BY <1>2
<1> HIDE DEF f, e
<1> QED BY <1>3, <1>4, <1>5, SameRefs

LEMMA CutsRefs ==
  ASSUME NEW l, ListOK(l), NEW x, NEW i, NEW t \in Tasks, Cuts(l, x, i, t)
  PROVE  RefsOfOthers(l, t) = RefsOfOthers(x, t)
<1>1. /\ Len(x) = Len(l) /\ i \in 1 .. Len(l)
      /\ \A h \in 1 .. Len(l) : h # i => x[h] = l[h]
      /\ x[i].phys = l[i].phys
  BY CutsFacts DEF SamePlace
<1>2. PICK j \in 1 .. Len(l[i].mbu_list) :
        Reaches(l[i], j, t) /\ x[i].mbu_list = RemoveAt(l[i].mbu_list, j)
  BY CutsFacts
<1> DEFINE m == l[i].mbu_list
           n == x[i].mbu_list
<1>3. m \in Seq(MbUser) /\ Len(m) \in Nat /\ j \in 1 .. Len(m)
  BY <1>1, <1>2, UserSeq
<1>4. /\ Len(RemoveAt(m, j)) = Len(m) - 1
      /\ \A k \in 1 .. Len(m) - 1 :
           RemoveAt(m, j)[k] = IF k < j THEN m[k] ELSE m[k + 1]
  BY <1>3, RemoveAtFacts, Zenon
<1>5. n = RemoveAt(m, j)
  BY <1>2
<1>6. m[j].tgid = t \/ m[j].addr = NULL
  <2>1. BlockOK(l[i]) /\ t # MB_DEF_TGID
    BY <1>1, EntryFacts, MBAssumption
  <2> QED BY <1>2, <2>1 DEF Reaches, TgidMatch, BlockOK
<1> HIDE DEF m, n
<1>7. Len(n) = Len(m) - 1 /\ \A k \in 1 .. j - 1 : n[k] = m[k]
  BY <1>3, <1>4, <1>5
<1>8. ASSUME NEW k \in j + 1 .. Len(m) PROVE n[k - 1] = m[k]
  <2>1. k - 1 \in 1 .. Len(m) - 1 /\ ~(k - 1 < j) /\ (k - 1) + 1 = k
    BY <1>3
  <2> QED BY <2>1, <1>4, <1>5
<1> QED BY <1>1, <1>3, <1>6, <1>7, <1>8, UserGone DEF m, n

LEMMA SweepsRefs ==
  ASSUME NEW l, ListOK(l), NEW x, NEW i, NEW t, Sweeps(l, x, i)
  PROVE  RefsOfOthers(l, t) = RefsOfOthers(x, t)
<1>1. CASE x = l
  BY <1>1
<1>2. CASE i \in 1 .. Len(l) /\ l[i].count = 0 /\ x = RemoveAt(l, i)
  <2>1. l \in Seq(Block) /\ Len(l) \in Nat /\ i \in 1 .. Len(l)
    BY <1>2, EntryFacts DEF ListOK
  <2>2. /\ Len(x) = Len(l) - 1
        /\ \A h \in 1 .. Len(l) - 1 : x[h] = IF h < i THEN l[h] ELSE l[h + 1]
    BY <1>2, <2>1, RemoveAtFacts, Zenon
  <2>3. \A h \in 1 .. i - 1 : x[h] = l[h]
    BY <2>1, <2>2
  <2>4. ASSUME NEW h \in i + 1 .. Len(l) PROVE x[h - 1] = l[h]
    <3>1. h - 1 \in 1 .. Len(l) - 1 /\ ~(h - 1 < i) /\ (h - 1) + 1 = h
      BY <2>1
    <3> QED BY <3>1, <2>2
  <2>5. Len(l[i].mbu_list) = 0
    BY <1>2, <2>1, UserSeq
  <2> QED BY <2>1, <2>2, <2>3, <2>4, <2>5, BlockGone
<1> QED BY <1>1, <1>2 DEF Sweeps

(* Read backwards, a new user or block is one that goes.                   *)
LEMMA LinksRefs ==
  ASSUME NEW l, ListOK(l), NEW x, NEW t, Links(l, x, t)
  PROVE  RefsOfOthers(l, t) = RefsOfOthers(x, t)
<1>1. PICK i \in 1 .. Len(l), u \in MbUser :
        u.tgid = t /\ u.addr # NULL /\ x = [l EXCEPT ![i] = AddUser(l[i], u)]
  BY DEF Links
<1> DEFINE b == AddUser(l[i], u)
           y == [l EXCEPT ![i] = b]
<1>2. BlockOK(b) /\ SamePlace(b, l[i])
  BY <1>1, EntryFacts, AddUserOK
<1>3. l[i] \in Block
  BY EntryFacts
<1>4. b.mbu_list = Append(l[i].mbu_list, u)
  BY <1>3, UpdateTwo DEF AddUser
<1>5. x = y
  BY <1>1
<1> HIDE DEF b
<1>6. /\ ListOK(y) /\ Len(y) = Len(l) /\ y[i] = b
      /\ \A h \in 1 .. Len(l) : h # i => y[h] = l[h]
  BY <1>2, ReplaceFacts
<1> HIDE DEF y
<1> DEFINE m == l[i].mbu_list
           n == y[i].mbu_list
           j == Len(m) + 1
<1>7. m \in Seq(MbUser) /\ Len(m) \in Nat
  BY UserSeq
<1>8. /\ Len(n) = Len(m) + 1 /\ n[Len(m) + 1] = u
      /\ \A k \in 1 .. Len(m) : n[k] = m[k]
  BY <1>4, <1>6, <1>7, AppendProperties
<1>9. i \in 1 .. Len(y) /\ l[i].phys = y[i].phys
      /\ \A h \in 1 .. Len(y) : h # i => l[h] = y[h]
  BY <1>2, <1>6 DEF SamePlace
<1> HIDE DEF m, n
<1>10. /\ j \in 1 .. Len(n) /\ Len(m) = Len(n) - 1 /\ n[j].tgid = t
       /\ \A k \in 1 .. j - 1 : m[k] = n[k]
       /\ \A k \in j + 1 .. Len(n) : m[k - 1] = n[k]
  BY <1>1, <1>7, <1>8
<1> HIDE DEF j
<1>11. ListOK(y) /\ Len(l) = Len(y)
  BY <1>6
<1>12. /\ j \in 1 .. Len(y[i].mbu_list)
       /\ Len(l[i].mbu_list) = Len(y[i].mbu_list) - 1
       /\ y[i].mbu_list[j].tgid = t \/ y[i].mbu_list[j].addr = NULL
       /\ \A k \in 1 .. j - 1 : l[i].mbu_list[k] = y[i].mbu_list[k]
       /\ \A k \in j + 1 .. Len(y[i].mbu_list) :
            l[i].mbu_list[k - 1] = y[i].mbu_list[k]
  BY <1>10 DEF m, n
<1>13. RefsOfOthers(y, t) = RefsOfOthers(l, t)
  BY <1>9, <1>11, <1>12, UserGone
<1> QED BY <1>5, <1>13

LEMMA PlacesRefs ==
  ASSUME NEW l, ListOK(l), NEW x, NEW t, Places(l, x, t)
  PROVE  RefsOfOthers(l, t) = RefsOfOthers(x, t)
<1>1. PICK k \in 1 .. Len(l) + 1, b \in Block :
        /\ Fresh(b, t) /\ x[k] = b /\ ListOK(x) /\ Len(x) = Len(l) + 1
        /\ \A j \in 1 .. k - 1 : x[j] = l[j]
        /\ \A j \in k + 1 .. Len(l) + 1 : x[j] = l[j - 1]
  BY PlacesFacts
<1>2. Len(l) \in Nat
  BY EntryFacts
<1>3. /\ k \in 1 .. Len(x) /\ Len(l) = Len(x) - 1
      /\ \A h \in 1 .. k - 1 : l[h] = x[h]
      /\ \A h \in k + 1 .. Len(x) : l[h - 1] = x[h]
  <2>1. k \in 1 .. Len(x) /\ Len(l) = Len(x) - 1
    BY <1>1, <1>2
  <2> QED BY <2>1, <1>1
<1>4. \A j \in 1 .. Len(x[k].mbu_list) :
        x[k].mbu_list[j].tgid = t \/ x[k].mbu_list[j].addr = NULL
  <2>1. Len(b.mbu_list) = 1 /\ b.mbu_list[1].tgid = t
    BY <1>1 DEF Fresh, BlockOK
  <2> QED BY <2>1, <1>1
<1>5. RefsOfOthers(x, t) = RefsOfOthers(l, t)
  BY <1>1, <1>3, <1>4, BlockGone
<1> QED BY <1>5

LEMMA ClearsRefs ==
  ASSUME NEW l, NEW x, NEW t, Clears(l, x)
  PROVE  RefsOfOthers(l, t) = RefsOfOthers(x, t)
<1>1. x = <<>> /\ Len(<<>>) = 0
  BY EmptySeq DEF Clears
<1>2. Entries(l) = {} /\ Entries(x) = {}
  BY <1>1 DEF Clears, Entries
<1> QED BY <1>2 DEF RefsOfOthers

LEMMA MovesRefs ==
  ASSUME NEW l, ListOK(l), NEW r, NEW t \in Tasks, Moves(l, r, t)
  PROVE  RefsOfOthers(l, t) = RefsOfOthers(r, t)
<1>1. CASE CutsOnce(l, r, t)
  <2>1. PICK i \in 1 .. Len(l) : \E x : Cuts(l, x, i, t) /\ Sweeps(x, r, i)
    BY <1>1 DEF CutsOnce
  <2>2. PICK x : Cuts(l, x, i, t) /\ Sweeps(x, r, i)
    BY <2>1
  <2>3. ListOK(x) /\ RefsOfOthers(l, t) = RefsOfOthers(x, t)
    BY <2>2, CutsFacts, CutsRefs
  <2> QED BY <2>2, <2>3, SweepsRefs
<1>2. CASE CutsTwice(l, r, t)
  <2>1. PICK i \in 1 .. Len(l) : \E x, y :
          Cuts(l, x, i, t) /\ Cuts(x, y, i, t) /\ Sweeps(y, r, i)
    BY <1>2 DEF CutsTwice
  <2>2. PICK x, y : Cuts(l, x, i, t) /\ Cuts(x, y, i, t) /\ Sweeps(y, r, i)
    BY <2>1
  <2>3. ListOK(x) /\ RefsOfOthers(l, t) = RefsOfOthers(x, t)
    BY <2>2, CutsFacts, CutsRefs
  <2>4. ListOK(y) /\ RefsOfOthers(x, t) = RefsOfOthers(y, t)
    BY <2>2, <2>3, CutsFacts, CutsRefs
  <2> QED BY <2>2, <2>3, <2>4, SweepsRefs
<1> QED BY <1>1, <1>2, LinksRefs, PlacesRefs, ClearsRefs DEF Moves

(* No call of a user task, its last close included, unlinks a mapping or a *)
(* get of the kernel or of another task.                                   *)
THEOREM ForeignRefsStay == Spec => OthersKeepRefs
<1>1. ASSUME IInv, NEW t \in Tasks, TaskStep(t)
      PROVE  RefsOfOthers(mb_list, t) = RefsOfOthers(mb_list', t)
  <2>1. ListOK(mb_list)
    BY <1>1 DEF IInv, ListInv
  <2> QED BY <1>1, <2>1, TaskMoves, MovesRefs
<1>2. IInv /\ [Next]_vars =>
        [\A t \in Tasks : TaskStep(t) =>
           RefsOfOthers(mb_list, t) = RefsOfOthers(mb_list', t)]_vars
  BY <1>1
<1>3. Spec => []IInv
  BY InitIInv, NextIInv, PTL DEF Spec
<1> QED BY <1>2, <1>3, PTL DEF Spec, OthersKeepRefs

-----------------------------------------------------------------------------
(* The scan of mb_release comes to an end.                                 *)

LEMMA OwnFacts ==
  ASSUME NEW l, NEW t
  PROVE  /\ \A i, j : <<i, j>> \in UsersOf(l, t) <=>
               /\ i \in 1 .. Len(l) /\ j \in 1 .. Len(l[i].mbu_list)
               /\ l[i].mbu_list[j].tgid = t
         /\ \A p \in UsersOf(l, t) : p = <<p[1], p[2]>>
BY EntryPairs DEF UsersOf

LEMMA OwnPair ==
  ASSUME NEW l, NEW t, NEW q \in UsersOf(l, t)
  PROVE  /\ q = <<q[1], q[2]>> /\ q[1] \in 1 .. Len(l)
         /\ q[2] \in 1 .. Len(l[q[1]].mbu_list)
         /\ l[q[1]].mbu_list[q[2]].tgid = t
<1> DEFINE h == q[1]
           k == q[2]
<1>1. q = <<h, k>>
  BY OwnFacts
<1> HIDE DEF h, k
<1>2. <<h, k>> \in UsersOf(l, t)
  BY <1>1
<1>3. /\ h \in 1 .. Len(l) /\ k \in 1 .. Len(l[h].mbu_list)
      /\ l[h].mbu_list[k].tgid = t
  BY <1>2, OwnFacts
<1> QED BY <1>1, <1>3 DEF h, k

LEMMA FiniteUsers ==
  ASSUME NEW l, ListOK(l), NEW t
  PROVE  IsFiniteSet(UsersOf(l, t)) /\ Cardinality(UsersOf(l, t)) \in Nat
<1>1. UsersOf(l, t) \in SUBSET Entries(l)
  BY DEF UsersOf
<1>2. IsFiniteSet(UsersOf(l, t))
  BY <1>1, FiniteEntries, FS_Subset
<1> QED BY <1>2, FS_CardinalityType

(* Every turn finds an entry to unlink, as long as there is one: the walk  *)
(* meets one of them first.                                                *)
LEMMA WalkMeetsOne ==
  ASSUME NEW l, ListOK(l), NEW t, UsersOf(l, t) # {}
  PROVE  \E p \in UsersOf(l, t) : First(p, UsersOf(l, t))
<1> DEFINE S == UsersOf(l, t)
           I == {i \in 1 .. Len(l) : \E j : <<i, j>> \in S}
<1>0. Len(l) \in Nat
  BY EntryFacts
<1>1. \A p \in S : /\ p = <<p[1], p[2]>> /\ p[1] \in I
                   /\ p[2] \in 1 .. Len(l[p[1]].mbu_list)
  <2> SUFFICES ASSUME NEW p \in S
               PROVE  /\ p = <<p[1], p[2]>> /\ p[1] \in I
                      /\ p[2] \in 1 .. Len(l[p[1]].mbu_list)
    OBVIOUS
  <2>1. /\ p = <<p[1], p[2]>> /\ p[1] \in 1 .. Len(l)
        /\ p[2] \in 1 .. Len(l[p[1]].mbu_list)
    BY OwnPair
  <2> HIDE DEF S
  <2>2. <<p[1], p[2]>> \in S
    BY <2>1
  <2> QED BY <2>1, <2>2
<1>2. I # {} /\ I \subseteq Nat
  <2>1. PICK p \in S : TRUE
    OBVIOUS
  <2>2. p[1] \in I
    BY <1>1, <2>1
  <2>3. I \subseteq 1 .. Len(l)
    OBVIOUS
  <2>4. 1 .. Len(l) \subseteq Nat
    BY <1>0
  <2> HIDE DEF I
  <2> QED BY <2>2, <2>3, <2>4
<1>3. PICK i \in I : \A h \in I : i <= h
  BY <1>2, LeastNat
<1>4. Len(l[i].mbu_list) \in Nat /\ i \in Nat
  BY <1>2, UserSeq
<1> DEFINE J == {j \in 1 .. Len(l[i].mbu_list) : <<i, j>> \in S}
<1>5. J # {} /\ J \subseteq Nat
  <2>1. PICK j : <<i, j>> \in S
    BY <1>3
  <2>2. <<i, j>>[1] = i /\ <<i, j>>[2] = j
    OBVIOUS
  <2>3. j \in J
    BY <2>1, OwnFacts
  <2> QED BY <2>3, <1>4
<1>6. PICK j \in J : \A k \in J : j <= k
  BY <1>5, LeastNat
<1>7. <<i, j>> \in S
  BY <1>6
<1>8. ASSUME NEW q \in S PROVE i < q[1] \/ (i = q[1] /\ j <= q[2])
  <2>1. q = <<q[1], q[2]>> /\ q[1] \in I /\ i <= q[1] /\ q[1] \in Nat
    BY <1>1, <1>2, <1>3
  <2>2. CASE q[1] = i
    <3>1. q[2] \in J
      BY <1>1, <2>1, <2>2
    <3> QED BY <1>6, <2>2, <3>1
  <2>3. CASE q[1] # i
    BY <1>4, <2>1, <2>3
  <2> QED BY <2>2, <2>3
<1> HIDE DEF S, I, J
<1>9. First(<<i, j>>, S)
  BY <1>7, <1>8 DEF First
<1> QED BY <1>7, <1>9 DEF S

(* An injection into the entries there were before, which misses m.        *)
LEMMA FewerUsers ==
  ASSUME NEW l, ListOK(l), NEW x, NEW t, NEW m \in SUBSET UsersOf(l, t),
         NEW e \in [UsersOf(x, t) -> UsersOf(l, t) \ m],
         \A p, q \in UsersOf(x, t) : e[p] = e[q] => p = q
  PROVE  /\ Cardinality(UsersOf(x, t)) <= Cardinality(UsersOf(l, t))
         /\ m # {} => Cardinality(UsersOf(x, t)) < Cardinality(UsersOf(l, t))
<1> DEFINE S == UsersOf(l, t)
           T == UsersOf(x, t)
<1>1. IsFiniteSet(S) /\ Cardinality(S) \in Nat
  BY FiniteUsers
<1>2. S \ m \in SUBSET S
  OBVIOUS
<1>3. /\ IsFiniteSet(S \ m) /\ Cardinality(S \ m) <= Cardinality(S)
      /\ Cardinality(S) = Cardinality(S \ m) => S = S \ m
  BY <1>1, <1>2, FS_Subset
<1>4. e \in Injection(T, S \ m)
  BY DEF Injection, IsInjective
<1>5. IsFiniteSet(T) /\ Cardinality(T) <= Cardinality(S \ m)
  BY <1>3, <1>4, FS_Injection
<1>6. Cardinality(T) \in Nat /\ Cardinality(S \ m) \in Nat
  BY <1>3, <1>5, FS_CardinalityType
<1>7. m # {} => S # S \ m
  OBVIOUS
<1> HIDE DEF S, T
<1>8. /\ Cardinality(T) <= Cardinality(S)
      /\ m # {} => Cardinality(T) < Cardinality(S)
  BY <1>1, <1>3, <1>5, <1>6, <1>7
<1> QED BY <1>8 DEF S, T

(* User j of block i, the task's own, goes.                                *)
LEMMA CutTakesOne ==
  ASSUME NEW l, ListOK(l), NEW t, NEW i, NEW j, <<i, j>> \in UsersOf(l, t)
  PROVE  LET x == [l EXCEPT ![i] = Cut(l[i], j)]
         IN  /\ ListOK(x)
             /\ Cardinality(UsersOf(x, t)) < Cardinality(UsersOf(l, t))
<1>0. i \in 1 .. Len(l) /\ j \in 1 .. Len(l[i].mbu_list)
  BY OwnFacts
<1> DEFINE x == [l EXCEPT ![i] = Cut(l[i], j)]
           m == l[i].mbu_list
           n == x[i].mbu_list
           E(q) == IF q[1] = i /\ q[2] >= j THEN <<i, q[2] + 1>> ELSE q
           e == [q \in UsersOf(x, t) |-> E(q)]
<1>1. /\ BlockOK(Cut(l[i], j)) /\ SamePlace(Cut(l[i], j), l[i])
      /\ Cut(l[i], j).mbu_list = RemoveAt(m, j)
  BY <1>0, EntryFacts, CutFacts
<1> DEFINE b == Cut(l[i], j)
<1>2. /\ ListOK(x) /\ Len(x) = Len(l) /\ x[i] = b
      /\ \A h \in 1 .. Len(l) : h # i => x[h] = l[h]
  <2> HIDE DEF b
  <2> DEFINE y == [l EXCEPT ![i] = b]
  <2>1. BlockOK(b) /\ SamePlace(b, l[i]) /\ x = y
    BY <1>1 DEF b
  <2>2. /\ ListOK(y) /\ Len(y) = Len(l) /\ y[i] = b
        /\ \A h \in 1 .. Len(l) : h # i => y[h] = l[h]
    BY <1>0, <2>1, ReplaceFacts
  <2> HIDE DEF y
  <2> QED BY <2>1, <2>2
<1> HIDE DEF x
<1>3. m \in Seq(MbUser) /\ Len(m) \in Nat /\ j \in 1 .. Len(m)
  BY <1>0, UserSeq
<1>4. /\ Len(RemoveAt(m, j)) = Len(m) - 1
      /\ \A k \in 1 .. Len(m) - 1 :
           RemoveAt(m, j)[k] = IF k < j THEN m[k] ELSE m[k + 1]
  BY <1>3, RemoveAtFacts, Zenon
<1>5. /\ Len(n) = Len(m) - 1
      /\ \A k \in 1 .. Len(m) - 1 : n[k] = IF k < j THEN m[k] ELSE m[k + 1]
  BY <1>1, <1>2, <1>4
<1> HIDE DEF b
<1>6. ASSUME NEW q \in UsersOf(x, t)
      PROVE  /\ E(q) \in UsersOf(l, t) \ {<<i, j>>}
             /\ q = <<q[1], q[2]>> /\ E(q)[1] = q[1]
             /\ E(q)[2] = IF q[1] = i /\ q[2] >= j THEN q[2] + 1 ELSE q[2]
             /\ q[1] = i => q[2] \in Nat
  <2> DEFINE h == q[1]
             k == q[2]
  <2>1. /\ q = <<h, k>> /\ h \in 1 .. Len(x) /\ k \in 1 .. Len(x[h].mbu_list)
        /\ x[h].mbu_list[k].tgid = t
    BY OwnPair
  <2> HIDE DEF h, k
  <2>2. CASE h # i
    <3>1. x[h] = l[h] /\ E(q) = <<h, k>>
      BY <1>2, <2>1, <2>2
    <3> QED BY <3>1, <1>2, <2>1, <2>2, OwnFacts
  <2>3. CASE h = i /\ k < j
    <3>1. k \in 1 .. Len(n)
      BY <2>1, <2>3
    <3> HIDE DEF m, n
    <3>2. k \in 1 .. Len(m) - 1 /\ k \in 1 .. Len(m) /\ ~(k >= j) /\ k # j /\ k \in Nat
      BY <1>3, <1>5, <2>3, <3>1
    <3>3. n[k] = m[k]
      BY <1>5, <2>3, <3>2
    <3>4. E(q) = <<i, k>>
      BY <2>1, <2>3, <3>2
    <3>5. <<i, k>> \in UsersOf(l, t)
      BY <2>1, <2>3, <3>2, <3>3, OwnFacts DEF m, n
    <3> QED BY <2>1, <2>3, <3>2, <3>4, <3>5
  <2>4. CASE h = i /\ k >= j
    <3>1. k \in 1 .. Len(n)
      BY <2>1, <2>4
    <3> HIDE DEF m, n
    <3>2. /\ k \in 1 .. Len(m) - 1 /\ k + 1 \in 1 .. Len(m) /\ ~(k < j)
          /\ k + 1 # j /\ k \in Nat
      BY <1>3, <1>5, <2>4, <3>1
    <3>3. n[k] = m[k + 1]
      BY <1>5, <3>2
    <3>4. E(q) = <<i, k + 1>>
      BY <2>1, <2>4
    <3>5. <<i, k + 1>> \in UsersOf(l, t)
      BY <2>1, <2>4, <3>2, <3>3, OwnFacts DEF m, n
    <3> QED BY <2>1, <2>4, <3>2, <3>4, <3>5
  <2>5. h = i => k \in Nat /\ (k < j \/ k >= j)
    BY <2>1, <1>3, <1>5
  <2> QED BY <2>2, <2>3, <2>4, <2>5
<1>7. ASSUME NEW p \in UsersOf(x, t), NEW q \in UsersOf(x, t), E(p) = E(q)
      PROVE  p = q
  <2>1. p[1] = q[1] /\ E(p)[2] = E(q)[2]
    BY <1>6, <1>7
  <2>2. CASE p[1] = i
    <3>0. /\ p[1] = i => p[2] \in Nat
          /\ q[1] = i => q[2] \in Nat
      BY <1>6
    <3>1. p[2] \in Nat /\ q[2] \in Nat /\ j \in Nat
      BY <1>3, <2>1, <2>2, <3>0
    <3>2. (IF p[2] >= j THEN p[2] + 1 ELSE p[2]) = (IF q[2] >= j THEN q[2] + 1 ELSE q[2])
      BY <1>6, <2>1, <2>2
    <3>3. p[2] = q[2]
      BY <3>1, <3>2
    <3> QED BY <1>6, <2>1, <3>3
  <2>3. CASE p[1] # i
    BY <1>6, <2>1, <2>3
  <2> QED BY <2>2, <2>3
<1> HIDE DEF E
<1>8. /\ e \in [UsersOf(x, t) -> UsersOf(l, t) \ {<<i, j>>}]
      /\ \A p, q \in UsersOf(x, t) : e[p] = e[q] => p = q
  BY <1>6, <1>7
<1>9. {<<i, j>>} \in SUBSET UsersOf(l, t) /\ {<<i, j>>} # {}
  OBVIOUS
<1> HIDE DEF e
<1>10. Cardinality(UsersOf(x, t)) < Cardinality(UsersOf(l, t))
  BY <1>8, <1>9, FewerUsers
<1> QED BY <1>2, <1>10 DEF x

(* A block that nobody uses goes.                                          *)
LEMMA SweepTakesNone ==
  ASSUME NEW l, ListOK(l), NEW x, NEW i, NEW t, Sweeps(l, x, i)
  PROVE  Cardinality(UsersOf(x, t)) <= Cardinality(UsersOf(l, t))
<1>1. CASE x = l
  BY <1>1, FiniteUsers
<1>2. CASE i \in 1 .. Len(l) /\ l[i].count = 0 /\ x = RemoveAt(l, i)
  <2> DEFINE E(q) == IF q[1] >= i THEN <<q[1] + 1, q[2]>> ELSE q
             e == [q \in UsersOf(x, t) |-> E(q)]
  <2>1. l \in Seq(Block) /\ Len(l) \in Nat /\ i \in 1 .. Len(l)
    BY <1>2, EntryFacts DEF ListOK
  <2>2. /\ Len(x) = Len(l) - 1
        /\ \A h \in 1 .. Len(l) - 1 : x[h] = IF h < i THEN l[h] ELSE l[h + 1]
    BY <1>2, <2>1, RemoveAtFacts, Zenon
  <2>3. ASSUME NEW q \in UsersOf(x, t)
        PROVE  /\ E(q) \in UsersOf(l, t) /\ q = <<q[1], q[2]>> /\ q[1] \in Nat
               /\ E(q)[1] = (IF q[1] >= i THEN q[1] + 1 ELSE q[1])
               /\ E(q)[2] = q[2]
    <3> DEFINE h == q[1]
               k == q[2]
    <3>1. /\ q = <<h, k>> /\ h \in 1 .. Len(x) /\ k \in 1 .. Len(x[h].mbu_list)
          /\ x[h].mbu_list[k].tgid = t
      BY OwnFacts
    <3> HIDE DEF h, k
    <3>2. h \in Nat /\ h \in 1 .. Len(l) - 1 /\ i \in Nat
      BY <2>1, <2>2, <3>1
    <3>3. CASE h >= i
      <4>1. x[h] = l[h + 1] /\ h + 1 \in 1 .. Len(l) /\ E(q) = <<h + 1, k>>
        BY <2>1, <2>2, <3>1, <3>2, <3>3
      <4>2. <<h + 1, k>> \in UsersOf(l, t)
        BY <4>1, <3>1, OwnFacts
      <4> QED BY <3>1, <3>2, <3>3, <4>1, <4>2
    <3>4. CASE h < i
      <4>1. x[h] = l[h] /\ h \in 1 .. Len(l) /\ E(q) = <<h, k>>
        BY <2>1, <2>2, <3>1, <3>2, <3>4
      <4>2. <<h, k>> \in UsersOf(l, t)
        BY <4>1, <3>1, OwnFacts
      <4> QED BY <3>1, <3>2, <3>4, <4>1, <4>2
    <3> QED BY <3>2, <3>3, <3>4
  <2>4. ASSUME NEW p \in UsersOf(x, t), NEW q \in UsersOf(x, t), E(p) = E(q)
        PROVE  p = q
    <3>1. /\ p[1] \in Nat /\ q[1] \in Nat /\ i \in Nat /\ p[2] = q[2]
          /\ (IF p[1] >= i THEN p[1] + 1 ELSE p[1]) =
               (IF q[1] >= i THEN q[1] + 1 ELSE q[1])
      BY <2>1, <2>3, <2>4
    <3>2. p[1] = q[1]
      BY <3>1
    <3> QED BY <2>3, <3>1, <3>2
  <2> HIDE DEF E
  <2>5. /\ e \in [UsersOf(x, t) -> UsersOf(l, t) \ {}]
        /\ \A p, q \in UsersOf(x, t) : e[p] = e[q] => p = q
    BY <2>3, <2>4
  <2> HIDE DEF e
  <2>6. {} \in SUBSET UsersOf(l, t)
    OBVIOUS
  <2> QED BY <2>5, <2>6, FewerUsers
<1> QED BY <1>1, <1>2 DEF Sweeps

LEMMA ScanTakesOne ==
  ASSUME IInv, IInv', NEW t \in Tasks, ReleaseScan(t)
  PROVE  Cardinality(UsersOf(mb_list', t)) < Cardinality(UsersOf(mb_list, t))
<1>0. ListOK(mb_list) /\ ListOK(mb_list')
  BY DEF IInv, ListInv
<1>1. PICK p \in UsersOf(mb_list, t) :
        KeepOrFree(mb_list, p[1],
          IF mb_list[p[1]].creator = p[2]
          THEN DelCreator(mb_list[p[1]])
          ELSE DelUser(mb_list[p[1]], p[2]))
  BY DEF ReleaseScan
<1> DEFINE i == p[1]
           j == p[2]
           b == Cut(mb_list[i], j)
           x == [mb_list EXCEPT ![i] = b]
<1>2. /\ i \in 1 .. Len(mb_list) /\ j \in 1 .. Len(mb_list[i].mbu_list)
      /\ mb_list[i].mbu_list[j].tgid = t
  BY EntryOf DEF UsersOf
<1>3. KeepOrFree(mb_list, i, b)
  BY <1>1 DEF Cut
<1>4. BlockOK(b) /\ SamePlace(b, mb_list[i])
  BY <1>0, <1>2, EntryFacts, CutFacts
<1> HIDE DEF b
<1>5. Sweeps(x, mb_list', i)
  BY <1>0, <1>2, <1>3, <1>4, KeepOrFreeSweeps
<1>6. ListOK(x) /\ Cardinality(UsersOf(x, t)) < Cardinality(UsersOf(mb_list, t))
  <2>1. <<i, j>> \in UsersOf(mb_list, t)
    BY <1>2, OwnFacts
  <2> QED BY <1>0, <2>1, CutTakesOne DEF b
<1> HIDE DEF x, i, j
<1>7. Cardinality(UsersOf(mb_list', t)) <= Cardinality(UsersOf(x, t))
  BY <1>5, <1>6, SweepTakesNone
<1>8. /\ Cardinality(UsersOf(mb_list', t)) \in Nat
      /\ Cardinality(UsersOf(x, t)) \in Nat
      /\ Cardinality(UsersOf(mb_list, t)) \in Nat
  BY <1>0, <1>6, FiniteUsers
<1> QED BY <1>6, <1>7, <1>8

(* Why the RESCAN loops of mb_release end: as long as the task has users   *)
(* on the list the walk meets one, and every turn leaves fewer of them;    *)
(* nothing else runs meanwhile.  ReleaseEnds adds that the loop goes on.   *)
THEOREM ScanAdvances ==
  Spec => /\ [](\A t \in Tasks : closing = t =>
                  LET mine == UsersOf(mb_list, t)
                  IN  /\ Cardinality(mine) \in Nat
                      /\ mine = {} \/ \E p \in mine : First(p, mine))
          /\ [][\A t \in Tasks : closing = t /\ ~oops =>
                  \/ closing' # t
                  \/ Cardinality(UsersOf(mb_list', t)) <
                       Cardinality(UsersOf(mb_list, t))]_vars
<1>1. Spec => []IInv
  BY InitIInv, NextIInv, PTL DEF Spec
<1>2. IInv => \A t \in Tasks : closing = t =>
                LET mine == UsersOf(mb_list, t)
                IN  /\ Cardinality(mine) \in Nat
                    /\ mine = {} \/ \E p \in mine : First(p, mine)
  <2>1. IInv => ListOK(mb_list)
    BY DEF IInv, ListInv
  <2> QED BY <2>1, WalkMeetsOne, FiniteUsers
<1>3. IInv /\ IInv' /\ [Next]_vars =>
        [\A t \in Tasks : closing = t /\ ~oops =>
           \/ closing' # t
           \/ Cardinality(UsersOf(mb_list', t)) <
                Cardinality(UsersOf(mb_list, t))]_vars
  <2> SUFFICES ASSUME IInv, IInv', Next, NEW t \in Tasks, closing = t, ~oops,
                      closing' = t
               PROVE  Cardinality(UsersOf(mb_list', t)) <
                        Cardinality(UsersOf(mb_list, t))
    OBVIOUS
  <2>1. closing # None
    BY MBAssumption DEF None
  <2>2. ~KernelStep
    BY <2>1 DEF KernelStep, mb_alloc, mb_free, mb_get, mb_put, Runs
  <2>3. PICK u \in Tasks : TaskStep(u)
    BY <2>2 DEF Next, Dead
  <2>4. ReleaseScan(u) \/ ReleaseDone(u)
    BY <2>1, <2>3 DEF TaskStep, mb_open, mb_release, MBIO_MALLOC, mb_mmap,
       MBIO_FREE, MBIO_UNMAP, MBIO_GET, MBIO_PUT, MBIO_GET_BY_PHYS,
       MBIO_PUT_BY_PHYS, MBIO_FORCE_RESET, Opened, Runs
  <2>5. u = t /\ ReleaseScan(t)
    BY <2>1, <2>4 DEF ReleaseScan, ReleaseDone
  <2> QED BY <2>5, ScanTakesOne
<1> QED BY <1>1, <1>2, <1>3, PTL DEF Spec

-----------------------------------------------------------------------------
(* The list as MemShare sees it: each interval with its number of holders. *)
Intervals(l) == {Interval(l[i]) : i \in 1 .. Len(l)}

LEMMA IntervalFacts ==
  ASSUME NEW b, NEW c PROVE Interval(b) = Interval(c) <=> SamePlace(b, c)
<1>1. Interval(b) = Interval(c) => SamePlace(b, c)
  <2>1. /\ Interval(b).phys = b.phys /\ Interval(b).pages = b.pages
        /\ Interval(c).phys = c.phys /\ Interval(c).pages = c.pages
    BY DEF Interval
  <2> QED BY <2>1 DEF SamePlace
<1>2. SamePlace(b, c) => Interval(b) = Interval(c)
  BY DEF SamePlace, Interval
<1> QED BY <1>1, <1>2

LEMMA DistinctIntervals ==
  ASSUME NEW l, ListOK(l), NEW i \in 1 .. Len(l), NEW j \in 1 .. Len(l),
         Interval(l[i]) = Interval(l[j])
  PROVE  i = j
BY IntervalFacts, Distinct DEF SamePlace

LEMMA HoldersFacts ==
  ASSUME NEW l, ListOK(l)
  PROVE  /\ DOMAIN Holders(l) = Intervals(l)
         /\ Holders(l) = [iv \in Intervals(l) |-> Holders(l)[iv]]
         /\ \A i \in 1 .. Len(l) : /\ Interval(l[i]) \in Intervals(l)
                                   /\ Holders(l)[Interval(l[i])] = l[i].count
<1> DEFINE C(iv) == CHOOSE i \in 1 .. Len(l) : Interval(l[i]) = iv
<1>1. Holders(l) = [iv \in Intervals(l) |-> l[C(iv)].count]
  BY DEF Holders, Intervals
<1>2. ASSUME NEW i \in 1 .. Len(l) PROVE C(Interval(l[i])) = i
  <2>1. /\ C(Interval(l[i])) \in 1 .. Len(l)
        /\ Interval(l[C(Interval(l[i]))]) = Interval(l[i])
    OBVIOUS
  <2> HIDE DEF C
  <2> QED BY <2>1, DistinctIntervals
<1>3. \A i \in 1 .. Len(l) : Interval(l[i]) \in Intervals(l)
  BY DEF Intervals
<1> HIDE DEF C
<1> QED BY <1>1, <1>2, <1>3

(* Block i is replaced by one at the same place.                           *)
LEMMA RecountHolders ==
  ASSUME NEW l, ListOK(l), NEW x, ListOK(x), NEW i \in 1 .. Len(l),
         Len(x) = Len(l), \A h \in 1 .. Len(l) : h # i => x[h] = l[h],
         SamePlace(x[i], l[i])
  PROVE  Holders(x) = [Holders(l) EXCEPT ![Interval(l[i])] = x[i].count]
<1> DEFINE iv == Interval(l[i])
           o == Holders(l)
           q == Holders(x)
<1>1. \A h \in 1 .. Len(l) : Interval(x[h]) = Interval(l[h])
  BY IntervalFacts
<1>2. Intervals(x) = Intervals(l)
  BY <1>1 DEF Intervals
<1>3. /\ DOMAIN o = Intervals(l) /\ o = [v \in Intervals(l) |-> o[v]]
      /\ DOMAIN q = Intervals(l) /\ q = [v \in Intervals(l) |-> q[v]]
  BY <1>2, HoldersFacts
<1>4. \A h \in 1 .. Len(l) : /\ o[Interval(l[h])] = l[h].count
                             /\ q[Interval(l[h])] = x[h].count
  BY <1>1, HoldersFacts
<1>5. ASSUME NEW v \in Intervals(l)
      PROVE  q[v] = IF v = iv THEN x[i].count ELSE o[v]
  <2>1. PICK h \in 1 .. Len(l) : v = Interval(l[h])
    BY DEF Intervals
  <2>2. v = iv <=> h = i
    BY <2>1, DistinctIntervals
  <2> QED BY <2>1, <2>2, <1>4
<1>6. iv \in Intervals(l)
  BY DEF Intervals
<1> HIDE DEF iv, o, q
<1>7. q = [o EXCEPT ![iv] = x[i].count]
  BY <1>3, <1>5, <1>6
<1> QED BY <1>7 DEF iv, o, q

(* List x is list l without block i.                                       *)
LEMMA DropHolders ==
  ASSUME NEW l, ListOK(l), NEW x, ListOK(x), NEW i \in 1 .. Len(l),
         Len(x) = Len(l) - 1,
         \A h \in 1 .. i - 1 : x[h] = l[h],
         \A h \in i + 1 .. Len(l) : x[h - 1] = l[h]
  PROVE  /\ Intervals(x) = Intervals(l) \ {Interval(l[i])}
         /\ \A v \in Intervals(x) : Holders(x)[v] = Holders(l)[v]
<1>0. Len(l) \in Nat
  BY EntryFacts
<1>1. ASSUME NEW h \in 1 .. Len(l), h # i
      PROVE  \E k \in 1 .. Len(x) : x[k] = l[h]
  <2>1. CASE h < i
    <3>1. h \in 1 .. i - 1 /\ h \in 1 .. Len(x)
      BY <2>1, <1>0
    <3> QED BY <3>1
  <2>2. CASE h > i
    <3>1. h \in i + 1 .. Len(l) /\ h - 1 \in 1 .. Len(x)
      BY <2>2, <1>0
    <3> QED BY <3>1
  <2> QED BY <1>0, <1>1, <2>1, <2>2
<1>2. ASSUME NEW k \in 1 .. Len(x)
      PROVE  \E h \in 1 .. Len(l) : h # i /\ x[k] = l[h]
  <2>1. CASE k < i
    <3>1. k \in 1 .. i - 1 /\ k \in 1 .. Len(l) /\ k # i
      BY <2>1, <1>0
    <3> QED BY <3>1
  <2>2. CASE k >= i
    <3>1. k + 1 \in i + 1 .. Len(l) /\ k + 1 \in 1 .. Len(l) /\ k + 1 # i
          /\ (k + 1) - 1 = k
      BY <2>2, <1>0
    <3>2. x[k] = l[k + 1]
      BY <3>1
    <3> QED BY <3>1, <3>2
  <2> QED BY <1>0, <2>1, <2>2
<1>3. ASSUME NEW v \in Intervals(x)
      PROVE  /\ v \in Intervals(l) /\ v # Interval(l[i])
             /\ Holders(x)[v] = Holders(l)[v]
  <2>1. PICK k \in 1 .. Len(x) : v = Interval(x[k])
    BY DEF Intervals
  <2>2. PICK h \in 1 .. Len(l) : h # i /\ x[k] = l[h]
    BY <1>2
  <2>3. v # Interval(l[i])
    BY <2>1, <2>2, DistinctIntervals
  <2>4. Holders(x)[v] = x[k].count /\ Holders(l)[v] = l[h].count
    BY <2>1, <2>2, HoldersFacts
  <2> QED BY <2>1, <2>2, <2>3, <2>4 DEF Intervals
<1>4. ASSUME NEW v \in Intervals(l), v # Interval(l[i]) PROVE v \in Intervals(x)
  <2>1. PICK h \in 1 .. Len(l) : v = Interval(l[h])
    BY DEF Intervals
  <2>2. h # i
    BY <2>1, <1>4
  <2> QED BY <2>1, <2>2, <1>1 DEF Intervals
<1> QED BY <1>3, <1>4

-----------------------------------------------------------------------------
(* The steps of MemShare, from the view o to the view q.                   *)
Without(o, S) == [v \in DOMAIN o \ S |-> o[v]]

Grants(o, q) ==
  \E iv \in Share!Intervals :
    /\ \A v \in DOMAIN o : Share!Disjoint(iv, v)
    /\ q = [v \in DOMAIN o \cup {iv} |-> IF v = iv THEN 1 ELSE o[v]]

Shares(o, q) == \E iv \in DOMAIN o : q = [o EXCEPT ![iv] = o[iv] + 1]

Leaves(o, q) ==
  \E iv \in DOMAIN o, n \in 1 .. 2 :
    /\ n <= o[iv]
    /\ \/ q = [o EXCEPT ![iv] = o[iv] - n]
       \/ n = o[iv] /\ q = Without(o, {iv})

Reclaims(o, q) == q = Without(o, {v \in DOMAIN o : o[v] = 0})

LEMMA CutsHolders ==
  ASSUME NEW l, ListOK(l), NEW x, NEW i, NEW g, Cuts(l, x, i, g)
  PROVE  LET iv == Interval(l[i])
             o == Holders(l)
         IN  /\ i \in 1 .. Len(l) /\ iv \in DOMAIN o /\ o[iv] \in Nat
             /\ o[iv] >= 1 /\ o = [v \in DOMAIN o |-> o[v]]
             /\ ListOK(x) /\ Interval(x[i]) = iv
             /\ Holders(x) = [o EXCEPT ![iv] = o[iv] - 1]
<1>1. /\ ListOK(x) /\ Len(x) = Len(l) /\ i \in 1 .. Len(l)
      /\ \A j \in 1 .. Len(l) : j # i => x[j] = l[j]
      /\ SamePlace(x[i], l[i]) /\ x[i].count = l[i].count - 1
      /\ l[i].count >= 1
  BY CutsFacts
<1>2. Holders(x) = [Holders(l) EXCEPT ![Interval(l[i])] = x[i].count]
  BY <1>1, RecountHolders
<1>3. Holders(l)[Interval(l[i])] = l[i].count /\ Interval(l[i]) \in DOMAIN Holders(l)
  BY <1>1, HoldersFacts
<1>4. Interval(x[i]) = Interval(l[i]) /\ l[i].count \in Nat
  BY <1>1, IntervalFacts, UserSeq
<1> QED BY <1>1, <1>2, <1>3, <1>4, HoldersFacts

LEMMA SweepsHolders ==
  ASSUME NEW l, ListOK(l), NEW r, NEW i, Sweeps(l, r, i)
  PROVE  \/ r = l
         \/ /\ i \in 1 .. Len(l) /\ Holders(l)[Interval(l[i])] = 0
            /\ Holders(r) = Without(Holders(l), {Interval(l[i])})
<1>1. CASE i \in 1 .. Len(l) /\ l[i].count = 0 /\ r = RemoveAt(l, i)
  <2>1. l \in Seq(Block) /\ Len(l) \in Nat /\ i \in 1 .. Len(l)
    BY <1>1, EntryFacts DEF ListOK
  <2>2. /\ Len(r) = Len(l) - 1
        /\ \A h \in 1 .. Len(l) - 1 : r[h] = IF h < i THEN l[h] ELSE l[h + 1]
    BY <1>1, <2>1, RemoveAtFacts, Zenon
  <2>3. \A h \in 1 .. i - 1 : r[h] = l[h]
    BY <2>1, <2>2
  <2>4. ASSUME NEW h \in i + 1 .. Len(l) PROVE r[h - 1] = l[h]
    <3>1. h - 1 \in 1 .. Len(l) - 1 /\ ~(h - 1 < i) /\ (h - 1) + 1 = h
      BY <2>1
    <3> QED BY <3>1, <2>2
  <2>5. ListOK(r)
    BY <1>1, RemoveOK
  <2>6. /\ Intervals(r) = Intervals(l) \ {Interval(l[i])}
        /\ \A v \in Intervals(r) : Holders(r)[v] = Holders(l)[v]
    BY <2>1, <2>2, <2>3, <2>4, <2>5, DropHolders
  <2>7. /\ DOMAIN Holders(l) = Intervals(l)
        /\ Holders(r) = [v \in Intervals(r) |-> Holders(r)[v]]
        /\ Holders(l)[Interval(l[i])] = 0
    BY <1>1, <2>5, HoldersFacts
  <2>8. Holders(r) = Without(Holders(l), {Interval(l[i])})
    BY <2>6, <2>7 DEF Without
  <2> QED BY <2>1, <2>7, <2>8
<1> QED BY <1>1 DEF Sweeps

LEMMA AtExcept ==
  ASSUME NEW o, NEW iv \in DOMAIN o, NEW y PROVE [o EXCEPT ![iv] = y][iv] = y
OBVIOUS

LEMMA CutsOnceShares ==
  ASSUME NEW l, ListOK(l), NEW r, NEW g, CutsOnce(l, r, g)
  PROVE  Leaves(Holders(l), Holders(r))
<1>1. PICK i \in 1 .. Len(l) : \E x : Cuts(l, x, i, g) /\ Sweeps(x, r, i)
  BY DEF CutsOnce
<1>2. PICK x : Cuts(l, x, i, g) /\ Sweeps(x, r, i)
  BY <1>1
<1> DEFINE iv == Interval(l[i])
           o == Holders(l)
<1>3. /\ iv \in DOMAIN o /\ o[iv] \in Nat /\ o[iv] >= 1
      /\ ListOK(x) /\ Interval(x[i]) = iv
      /\ Holders(x) = [o EXCEPT ![iv] = o[iv] - 1]
  BY <1>2, CutsHolders
<1> HIDE DEF iv, o
<1>4. CASE r = x
  <2>1. Holders(r) = [o EXCEPT ![iv] = o[iv] - 1] /\ 1 \in 1 .. 2 /\ 1 <= o[iv]
    BY <1>3, <1>4
  <2> QED BY <2>1, <1>3 DEF Leaves, o
<1>5. CASE /\ Holders(x)[iv] = 0
           /\ Holders(r) = Without(Holders(x), {iv})
  <2>0. Without(Holders(x), {iv}) = Without(o, {iv})
    BY <1>3 DEF Without
  <2>1. Holders(r) = Without(o, {iv})
    BY <2>0, <1>5
  <2>2. Holders(x)[iv] = o[iv] - 1
    BY <1>3, AtExcept, Zenon
  <2>3. 1 \in 1 .. 2 /\ 1 <= o[iv] /\ 1 = o[iv]
    BY <1>3, <1>5, <2>2
  <2> QED BY <2>1, <2>3, <1>3 DEF Leaves, o
<1> QED BY <1>2, <1>3, <1>4, <1>5, SweepsHolders

LEMMA CutsTwiceShares ==
  ASSUME NEW l, ListOK(l), NEW r, NEW g, CutsTwice(l, r, g)
  PROVE  Leaves(Holders(l), Holders(r))
<1>1. PICK i \in 1 .. Len(l) : \E x, y :
        Cuts(l, x, i, g) /\ Cuts(x, y, i, g) /\ Sweeps(y, r, i)
  BY DEF CutsTwice
<1>2. PICK x, y : Cuts(l, x, i, g) /\ Cuts(x, y, i, g) /\ Sweeps(y, r, i)
  BY <1>1
<1> DEFINE iv == Interval(l[i])
           o == Holders(l)
           p == Holders(x)
           q == Holders(y)
<1>3. /\ iv \in DOMAIN o /\ o[iv] \in Nat /\ o = [v \in DOMAIN o |-> o[v]]
      /\ ListOK(x) /\ Interval(x[i]) = iv
      /\ p = [o EXCEPT ![iv] = o[iv] - 1]
  BY <1>2, CutsHolders
<1>4. /\ iv \in DOMAIN p /\ p[iv] >= 1
      /\ ListOK(y) /\ Interval(y[i]) = iv
      /\ q = [p EXCEPT ![iv] = p[iv] - 1]
  <2> DEFINE jv == Interval(x[i])
  <2>0. ListOK(x) /\ Cuts(x, y, i, g)
    BY <1>2, <1>3
  <2>1. /\ jv \in DOMAIN p /\ p[jv] >= 1
        /\ ListOK(y) /\ Interval(y[i]) = jv
        /\ q = [p EXCEPT ![jv] = p[jv] - 1]
    BY <2>0, CutsHolders
  <2>2. jv = iv
    BY <1>3
  <2> HIDE DEF iv, o, p, q, jv
  <2> QED BY <2>1, <2>2
<1> HIDE DEF iv, o, p, q
<1>5. p[iv] = o[iv] - 1 /\ o[iv] >= 2
  <2>1. p[iv] = o[iv] - 1
    BY <1>3, AtExcept, Zenon
  <2> QED BY <2>1, <1>3, <1>4
<1>6. q = [o EXCEPT ![iv] = o[iv] - 2]
  <2>1. q = [p EXCEPT ![iv] = o[iv] - 2]
    BY <1>3, <1>4, <1>5
  <2> QED BY <2>1, <1>3
<1>7. CASE r = y
  <2>1. Holders(r) = [o EXCEPT ![iv] = o[iv] - 2] /\ 2 \in 1 .. 2 /\ 2 <= o[iv]
    BY <1>5, <1>6, <1>7 DEF q
  <2> QED BY <2>1, <1>3 DEF Leaves, o
<1>8. CASE q[iv] = 0 /\ Holders(r) = Without(q, {iv})
  <2>0. Without(q, {iv}) = Without(o, {iv})
    BY <1>3, <1>6 DEF Without
  <2>1. Holders(r) = Without(o, {iv})
    BY <2>0, <1>8
  <2>2. q[iv] = o[iv] - 2
    BY <1>3, <1>6, AtExcept, Zenon
  <2>3. 2 \in 1 .. 2 /\ 2 <= o[iv] /\ 2 = o[iv]
    BY <1>3, <1>5, <1>8, <2>2
  <2> QED BY <2>1, <2>3, <1>3 DEF Leaves, o
<1>9. r = y \/ (q[iv] = 0 /\ Holders(r) = Without(q, {iv}))
  BY <1>2, <1>4, SweepsHolders DEF q
<1> QED BY <1>7, <1>8, <1>9

LEMMA LinksShares ==
  ASSUME NEW l, ListOK(l), NEW r, NEW g, Links(l, r, g)
  PROVE  Shares(Holders(l), Holders(r))
<1>1. PICK i \in 1 .. Len(l), u \in MbUser :
        u.tgid = g /\ u.addr # NULL /\ r = [l EXCEPT ![i] = AddUser(l[i], u)]
  BY DEF Links
<1> DEFINE b == AddUser(l[i], u)
           x == [l EXCEPT ![i] = b]
           iv == Interval(l[i])
           o == Holders(l)
<1>2. BlockOK(b) /\ SamePlace(b, l[i])
  BY <1>1, EntryFacts, AddUserOK
<1>3. l[i] \in Block
  BY EntryFacts
<1>4. b.count = l[i].count + 1
  BY <1>3, UpdateTwo DEF AddUser
<1>5. r = x
  BY <1>1
<1> HIDE DEF b
<1>6. /\ ListOK(x) /\ Len(x) = Len(l) /\ x[i] = b
      /\ \A h \in 1 .. Len(l) : h # i => x[h] = l[h]
  BY <1>2, ReplaceFacts
<1> HIDE DEF x
<1>7. Holders(x) = [o EXCEPT ![iv] = x[i].count]
  BY <1>2, <1>6, RecountHolders
<1>8. iv \in DOMAIN o /\ o[iv] = l[i].count
  BY HoldersFacts
<1> QED BY <1>4, <1>5, <1>6, <1>7, <1>8 DEF Shares

(* A new block lies inside the area and meets no other.                    *)
LEMMA PlacesShares ==
  ASSUME NEW l, ListOK(l), NEW r, NEW g, Places(l, r, g)
  PROVE  Grants(Holders(l), Holders(r))
<1>1. PICK k \in 1 .. Len(l) + 1, b \in Block :
        /\ Fresh(b, g) /\ r[k] = b /\ ListOK(r) /\ Len(r) = Len(l) + 1
        /\ \A j \in 1 .. k - 1 : r[j] = l[j]
        /\ \A j \in k + 1 .. Len(l) + 1 : r[j] = l[j - 1]
  BY PlacesFacts
<1>2. Len(l) \in Nat
  BY EntryFacts
<1>3. k \in 1 .. Len(r) /\ Len(l) = Len(r) - 1
  BY <1>1, <1>2
<1>4. /\ \A h \in 1 .. k - 1 : l[h] = r[h]
      /\ \A h \in k + 1 .. Len(r) : l[h - 1] = r[h]
  BY <1>1
<1> DEFINE iv == Interval(b)
           o == Holders(l)
           q == Holders(r)
<1>5. /\ Intervals(l) = Intervals(r) \ {iv}
      /\ \A v \in Intervals(l) : o[v] = q[v]
  BY <1>1, <1>3, <1>4, DropHolders
<1>6. /\ DOMAIN o = Intervals(l) /\ DOMAIN q = Intervals(r)
      /\ q = [v \in Intervals(r) |-> q[v]]
      /\ iv \in Intervals(r) /\ q[iv] = 1
  BY <1>1, <1>3, HoldersFacts DEF Fresh
<1>7. q = [v \in DOMAIN o \cup {iv} |-> IF v = iv THEN 1 ELSE o[v]]
  <2> HIDE DEF iv, o, q
  <2>1. Intervals(r) = DOMAIN o \cup {iv}
    BY <1>5, <1>6
  <2>2. \A v \in Intervals(r) : q[v] = IF v = iv THEN 1 ELSE o[v]
    BY <1>5, <1>6
  <2> QED BY <2>1, <2>2, <1>6
<1>8. iv \in Share!Intervals
  <2>1. /\ b.phys \in Phys /\ b.pages \in 1 .. Pages /\ End(b) <= PfnEnd
    BY <1>1, <1>3, EntryFacts DEF Block
  <2>2. /\ iv \in [phys : PhysStart .. PhysStart + Pages - 1, pages : 1 .. Pages]
        /\ iv.phys + iv.pages <= PhysStart + Pages
    <3>1. /\ b.phys \in PhysStart .. PhysStart + Pages - 1
          /\ b.phys + b.pages <= PhysStart + Pages
      BY <2>1, MBAssumption DEF Phys, PfnEnd, End
    <3>2. iv = [phys |-> b.phys, pages |-> b.pages]
      BY DEF Interval
    <3> HIDE DEF iv
    <3> QED BY <3>1, <3>2, <2>1
  <2> QED BY <2>2 DEF Share!Intervals
<1>9. ASSUME NEW v \in DOMAIN o PROVE Share!Disjoint(iv, v)
  <2>1. v \in Intervals(r) /\ v # iv
    BY <1>5, <1>6
  <2>2. PICK h \in 1 .. Len(r) : v = Interval(r[h])
    BY <2>1 DEF Intervals
  <2>3. h # k
    BY <2>1, <2>2, <1>1
  <2>4. End(r[h]) <= r[k].phys \/ End(r[k]) <= r[h].phys
    <3>1. h < k \/ k < h
      BY <2>3, <1>1, <1>2
    <3>2. ListOK(r) /\ h \in 1 .. Len(r) /\ k \in 1 .. Len(r)
      BY <1>1, <1>3
    <3> QED BY <3>1, <3>2, OrderFacts
  <2>5. /\ iv.phys = r[k].phys /\ iv.pages = r[k].pages
        /\ v.phys = r[h].phys /\ v.pages = r[h].pages
    BY <2>2, <1>1 DEF Interval
  <2> QED BY <2>4, <2>5 DEF Share!Disjoint, End
<1> HIDE DEF iv, o, q
<1>10. Grants(o, q)
  BY <1>7, <1>8, <1>9 DEF Grants
<1> QED BY <1>10 DEF o, q

LEMMA NoHolders == Holders(<<>>) = [v \in {} |-> 0]
<1>1. Len(<<>>) = 0
  BY EmptySeq
<1> QED BY <1>1 DEF Holders

LEMMA ClearsShares ==
  ASSUME NEW l, ListOK(l), NEW r, Clears(l, r)
  PROVE  Reclaims(Holders(l), Holders(r))
<1>1. Holders(r) = [v \in {} |-> 0]
  BY NoHolders DEF Clears
<1>2. \A v \in Intervals(l) : Holders(l)[v] = 0
  <2>1. \A i \in 1 .. Len(l) : l[i].count = 0
    BY UserSeq, EmptySeq DEF Clears
  <2> QED BY <2>1, HoldersFacts DEF Intervals
<1>3. DOMAIN Holders(l) = Intervals(l)
  BY HoldersFacts
<1>4. DOMAIN Holders(l) \ {v \in DOMAIN Holders(l) : Holders(l)[v] = 0} = {}
  BY <1>2, <1>3
<1> QED BY <1>1, <1>4 DEF Reclaims, Without

LEMMA MovesShares ==
  ASSUME NEW l, ListOK(l), NEW r, NEW g, Moves(l, r, g)
  PROVE  LET o == Holders(l)
             q == Holders(r)
         IN  q = o \/ Grants(o, q) \/ Shares(o, q) \/ Leaves(o, q)
             \/ Reclaims(o, q)
BY LinksShares, PlacesShares, CutsOnceShares, CutsTwiceShares, ClearsShares
   DEF Moves

(* First fit on the sorted list, the nested searches and the use counts    *)
(* implement MemShare: pages are granted to one block at a time, blocks    *)
(* are shared, and leave the list only when nobody holds them.             *)
THEOREM ImplementsShare == Spec => SharesPages
<1>1. Init => Share!Init
  BY NoHolders DEF Init, Share!Init
<1>2. IInv /\ [Next]_vars => [Share!Next]_(Holders(mb_list))
  <2> SUFFICES ASSUME IInv, [Next]_vars
               PROVE  [Share!Next]_(Holders(mb_list))
    OBVIOUS
  <2>1. \E g : Moves(mb_list, mb_list', g)
    <3>1. CASE KernelStep
      BY <3>1, KernelMoves
    <3>2. CASE \E t \in Tasks : TaskStep(t)
      BY <3>2, TaskMoves
    <3>3. CASE UNCHANGED vars
      BY <3>3 DEF vars, Moves
    <3> QED BY <3>1, <3>2, <3>3 DEF Next, Dead
  <2>2. ListOK(mb_list)
    BY DEF IInv, ListInv
  <2> DEFINE o == Holders(mb_list)
             q == Holders(mb_list')
  <2>3. \/ q = o \/ Grants(o, q) \/ Shares(o, q) \/ Leaves(o, q)
        \/ Reclaims(o, q)
    BY <2>1, <2>2, MovesShares
  <2>4. ASSUME Grants(o, q) PROVE Share!Next
    BY <2>4 DEF Grants, Share!Next, Share!Grant
  <2>5. ASSUME Shares(o, q) PROVE Share!Next
    BY <2>5 DEF Shares, Share!Next, Share!Share
  <2>6. ASSUME Leaves(o, q) PROVE Share!Next
    BY <2>6 DEF Leaves, Without, Share!Next, Share!Leave, Share!Without
  <2>7. ASSUME Reclaims(o, q) PROVE Share!Next
    BY <2>7 DEF Reclaims, Without, Share!Next, Share!Reclaim, Share!Without
  <2> QED BY <2>3, <2>4, <2>5, <2>6, <2>7
<1>3. Spec => []IInv
  BY InitIInv, NextIInv, PTL DEF Spec
<1> QED BY <1>1, <1>2, <1>3, PTL DEF Spec, SharesPages, Share!Spec
=============================================================================
