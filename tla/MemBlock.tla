------------------------------ MODULE MemBlock ------------------------------
(***************************************************************************)
(* The memory block (MB) driver, drivers/video/wmt/memblock.c: physically  *)
(* contiguous video buffers carved out of one static memory area (MBA) and *)
(* shared, by reference count, between kernel drivers and user tasks.      *)
(*                                                                         *)
(* Addresses and sizes are counted in pages, so a pfn and a physical       *)
(* address are the same number.  The build (Android_defconfig) is          *)
(* uniprocessor and does not preempt the kernel: a section between         *)
(* spin_lock_irqsave and spin_unlock_irqrestore runs alone unless it       *)
(* sleeps.  This module takes every such section as one step; module       *)
(* MemBlockResched lets the ones that allocate with GFP_KERNEL sleep.      *)
(***************************************************************************)
EXTENDS Integers, FiniteSets, SequencesExt

CONSTANTS
  Tasks,        \* tgids of the user tasks that use /dev/mbdev
  MB_DEF_TGID,  \* the tgid of kernel callers; a wildcard in searches
  PhysStart,    \* mba->pgi.pfn_start
  Pages,        \* mba->pages
  UserVA,       \* the user virtual addresses mmap may return
  ULongRange,   \* 2^32 in the code: the range of unsigned long
  MaxMbu,       \* bound: objects the mb_user cache can hand out
  MaxOpen       \* bound: files a task has open on the device

PfnEnd == PhysStart + Pages
Phys == PhysStart .. PfnEnd - 1

(* mb_mmap tells a block's offset from a frame buffer offset by assuming   *)
(* that the area starts above its own size (memblock.c:2217-2220).         *)
ASSUME MBAssumption ==
  /\ MB_DEF_TGID \notin Tasks
  /\ Pages \in Nat \ {0}
  /\ PhysStart \in Nat /\ PhysStart > Pages
  /\ UserVA \subseteq Nat \ {0} /\ UserVA \cap Phys = {}
  /\ ULongRange \in Nat /\ ULongRange > PfnEnd
  /\ MaxMbu \in Nat /\ MaxOpen \in Nat

VARIABLES
  mb_list,      \* mba->mb_list, each mb_struct with its mbu_list
  nr_mb,        \* mba->nr_mb
  mba_max,      \* mba->max_available_pages
  mba_free,     \* mba->tot_free_pages
  mbah_max,     \* wmt_mbah->max_available_pages
  mbah_free,    \* wmt_mbah->tot_free_pages
  mbti,         \* wmt_mbti: task -> mbti->count, 0 when it has no entry
  closing,      \* the task whose last mb_release is scanning, or None
  oops          \* a walk through freed memory: nothing is claimed after it

counters == <<nr_mb, mba_max, mba_free, mbah_max, mbah_free>>
vars == <<mb_list, counters, mbti, closing, oops>>

None == MB_DEF_TGID
NULL == 0       \* no creator, and the address of a creator's mbu
FREED == -1     \* a pointer to an mb_user that was given back to its cache

Tgids == Tasks \cup {MB_DEF_TGID}
Addrs == Phys \cup UserVA

(* struct mb_user.  A creator has address 0 and the block's size, a mapping *)
(* its user address and length, a get/put reference an address and size 0.  *)
MbUser == [tgid : Tgids, addr : Addrs \cup {NULL}, size : 0 .. Pages]

(* struct mb_struct.  creator is the position in mbu_list of the mb_user   *)
(* that mb->creator points to.                                             *)
MbStruct == [phys : Int, pages : Int, count : Int, creator : Int,
             mbu_list : Seq(MbUser)]

-----------------------------------------------------------------------------
(* Zones: the gaps the list walks of mb_alloc_mb and mb_free_mb visit.     *)

ULongSub(a, b) == IF a >= b THEN a - b ELSE a - b + ULongRange

End(b) == b.phys + b.pages

ZoneStart(l, k) == IF k = 1 THEN PhysStart ELSE End(l[k - 1])
ZoneEnd(l, k) == IF k = Len(l) + 1 THEN PfnEnd ELSE l[k].phys

Zone(l, k) == ULongSub(ZoneEnd(l, k), ZoneStart(l, k))
Zones(l) == 1 .. Len(l) + 1

LargestZone(l) == Max({Zone(l, k) : k \in Zones(l)})
FreePages(l) == MapThenSumSet(LAMBDA k : Zone(l, k), Zones(l))

(* Slip: the walk accepts a zone one page too short.                       *)
StopsAt_OffByOne(l, pages, k) ==
  /\ k \in Zones(l)
  /\ k <= Len(l) => Zone(l, k) + 1 >= pages
  /\ \A j \in 1 .. Len(l) : j < k => Zone(l, j) + 1 < pages

(* The walk of mb_alloc_mb stops at the first entry that leaves room before *)
(* it; k is that entry's position, Len(l) + 1 when the walk ran to the end. *)
StopsAt(l, pages, k) ==
  /\ k \in Zones(l)
  /\ k <= Len(l) => Zone(l, k) >= pages
  /\ \A j \in 1 .. Len(l) : j < k => Zone(l, j) < pages

(* Slip: next is never moved from the head of the list.                    *)
Before_Tail(l, k) == Len(l) + 1

(* Where the new block goes: zs >= ze sends it to the tail of the list.    *)
Before(l, k) == IF k <= Len(l) /\ ZoneStart(l, k) < l[k].phys
                THEN k ELSE Len(l) + 1
Room(l, k) == ULongSub(ZoneEnd(l, Before(l, k)), ZoneStart(l, k))

-----------------------------------------------------------------------------
(* Searches.                                                               *)

(* The mb_users of all blocks, as pairs of positions in the nested lists.  *)
Entries(l) == UNION {{i} \X (1 .. Len(l[i].mbu_list)) : i \in 1 .. Len(l)}

(* mb_find_mb by physical address: position i is the first hit.            *)
FindMb(l, a, i) ==
  /\ i \in 1 .. Len(l)
  /\ l[i].phys <= a /\ a < End(l[i])
  /\ \A h \in 1 .. i - 1 : ~(l[h].phys <= a /\ a < End(l[h]))

IsMmap(u) == u.size # 0
IsGetPut(u) == u.addr # NULL /\ u.size = 0

(* Slip: mb_find_mbu without its test of the tgid.                         *)
TgidMatch_Any(u, tgid) == TRUE

TgidMatch(u, tgid) == u.tgid = tgid \/ tgid = MB_DEF_TGID

(* mb_find_mbu by MBUFIND_PHYS and by MBUFIND_USER: all the entries that   *)
(* match.  A MBUFIND_CREATOR search looks no further.                      *)
ByPhys(l, a, tgid) ==
  {p \in Entries(l) :
     l[p[1]].phys = a /\ TgidMatch(l[p[1]].mbu_list[p[2]], tgid)}

ByUser(l, a, tgid) ==
  {p \in Entries(l) :
     /\ l[p[1]].mbu_list[p[2]].addr = a
     /\ TgidMatch(l[p[1]].mbu_list[p[2]], tgid)}

(* The ones that MBUFIND_MMAP and MBUFIND_GETPUT accept.                   *)
Mmaps(l, S) == {p \in S : IsMmap(l[p[1]].mbu_list[p[2]])}
GetPuts(l, S) == {p \in S : IsGetPut(l[p[1]].mbu_list[p[2]])}

(* The entry the nested list walk meets first.                             *)
First(p, S) ==
  /\ p \in S
  /\ \A q \in S : p[1] < q[1] \/ (p[1] = q[1] /\ p[2] <= q[2])

-----------------------------------------------------------------------------
(* Changes to a block and to the list.                                     *)

(* Slip: an mb_user is linked without atomic_inc(&mb->count).              *)
AddUser_NoCount(b, u) == [b EXCEPT !.mbu_list = Append(@, u)]

(* list_add_tail(&mbu->mbu_list) and atomic_inc(&mb->count).               *)
AddUser(b, u) == [b EXCEPT !.mbu_list = Append(@, u), !.count = @ + 1]

(* list_del(&mbu->mbu_list), kmem_cache_free, atomic_dec(&mb->count).      *)
DelUser(b, j) ==
  [b EXCEPT !.mbu_list = RemoveAt(@, j),
            !.count = @ - 1,
            !.creator = IF @ = j THEN FREED ELSE IF @ > j THEN @ - 1 ELSE @]

(* Slip: mb->creator is left pointing to the freed mb_user.                *)
DelCreator_NoClear(b) == DelUser(b, b.creator)

(* The same for the creator, with the mb->creator = NULL that follows.     *)
DelCreator(b) == [DelUser(b, b.creator) EXCEPT !.creator = NULL]

(* Slip: mb_free_mb forgets the host's max_available_pages.                *)
FreeMb_StaleHostMax(l, i) ==
  LET rest == RemoveAt(l, i)
  IN  /\ mb_list' = rest
      /\ nr_mb' = nr_mb - 1
      /\ mba_free' = FreePages(rest)
      /\ mbah_free' = mbah_free - mba_free + FreePages(rest)
      /\ mba_max' = LargestZone(rest)
      /\ UNCHANGED mbah_max

(* mb_free_mb of entry i: unlink it and recompute the free zones.  The     *)
(* area is static, so it stays when its last block goes.                   *)
FreeMb(l, i) ==
  LET rest == RemoveAt(l, i)
  IN  /\ mb_list' = rest
      /\ nr_mb' = nr_mb - 1
      /\ mba_free' = FreePages(rest)
      /\ mbah_free' = mbah_free - mba_free + FreePages(rest)
      /\ mba_max' = LargestZone(rest)
      /\ mbah_max' = IF mbah_max >= LargestZone(rest)
                     THEN mbah_max ELSE LargestZone(rest)

(* Slip: the block is freed without the MB_IN_USE test.                    *)
KeepOrFree_AlwaysFree(l, i, b) == FreeMb(l, i)

(* What follows the removal of a user: b is entry i without it.            *)
KeepOrFree(l, i, b) ==
  IF b.count = 0
  THEN FreeMb(l, i)
  ELSE /\ mb_list' = [l EXCEPT ![i] = b]
       /\ UNCHANGED counters

(* kmem_cache_alloc(mbu_cachep) fails when the bound is reached; the       *)
(* handler then returns without a change.                                  *)
MbuAvailable == Cardinality(Entries(mb_list)) < MaxMbu

(* A handler runs when the system is alive and no other one is inside its  *)
(* locked section; an ioctl or mmap needs a file of the task.              *)
Runs == ~oops /\ closing = None
Opened(t) == Runs /\ mbti[t] > 0

-----------------------------------------------------------------------------
(* The kernel interface, which user ioctls also go through.                *)

(* mb_do_alloc: mb_alloc_mb in the one area, then the creator's mb_user.   *)
mb_do_alloc(pages, tgid) ==
  /\ MbuAvailable
  /\ pages <= mbah_max /\ pages <= mba_max
  /\ \E k \in Zones(mb_list) :
       /\ StopsAt(mb_list, pages, k)
       /\ Room(mb_list, k) >= pages
       /\ LET mb == [phys |-> ZoneStart(mb_list, k), pages |-> pages,
                     count |-> 1, creator |-> 1,
                     mbu_list |-> <<[tgid |-> tgid, addr |-> NULL,
                                     size |-> pages]>>]
              list == InsertAt(mb_list, Before(mb_list, k), mb)
          IN  /\ mb_list' = list
              /\ nr_mb' = nr_mb + 1
              /\ mba_free' = mba_free - pages
              /\ mbah_free' = mbah_free - pages
              /\ mba_max' = LargestZone(list)
              /\ mbah_max' = LargestZone(list)

(* mb_do_free on list l: the caller may already have dropped a mapping.    *)
(* A CREATOR search accepts any mb_user of the tgid and returns creator.   *)
mb_do_free(l, a, tgid) ==
  LET hits == ByPhys(l, a, tgid)
  IN  \/ \E p \in hits : /\ First(p, hits)
                         /\ l[p[1]].creator # NULL
                         /\ KeepOrFree(l, p[1], DelCreator(l[p[1]]))
      \/ /\ \A p \in hits : First(p, hits) => l[p[1]].creator = NULL
         /\ mb_list' = l
         /\ UNCHANGED counters

(* mb_do_get once its block is known: a user caller names an address it    *)
(* mapped, a kernel caller any physical address inside the block.          *)
GetRef(i, tgid, a) ==
  /\ MbuAvailable
  /\ mb_list' = [mb_list EXCEPT ![i] =
                   AddUser(@, [tgid |-> tgid, addr |-> a, size |-> 0])]
  /\ UNCHANGED counters

(* mb_do_put of the mb_user the search met first.                          *)
PutRef(hits) ==
  \E p \in hits :
    /\ First(p, hits)
    /\ mb_list[p[1]].count # 0
    /\ KeepOrFree(mb_list, p[1], DelUser(mb_list[p[1]], p[2]))

mb_alloc(pages) ==
  /\ Runs
  /\ mb_do_alloc(pages, MB_DEF_TGID)
  /\ UNCHANGED <<mbti, closing, oops>>

mb_free(a) ==
  /\ Runs
  /\ mb_do_free(mb_list, a, MB_DEF_TGID)
  /\ UNCHANGED <<mbti, closing, oops>>

mb_get(a) ==
  /\ Runs
  /\ \E i \in 1 .. Len(mb_list) : FindMb(mb_list, a, i)
                                  /\ GetRef(i, MB_DEF_TGID, a)
  /\ UNCHANGED <<mbti, closing, oops>>

mb_put(a) ==
  /\ Runs
  /\ PutRef(GetPuts(mb_list, ByPhys(mb_list, a, MB_DEF_TGID)))
  /\ UNCHANGED <<mbti, closing, oops>>

-----------------------------------------------------------------------------
(* The character device.                                                   *)

mb_open(t) ==
  /\ Runs
  /\ mbti[t] < MaxOpen
  /\ mbti' = [mbti EXCEPT ![t] = @ + 1]
  /\ UNCHANGED <<mb_list, counters, closing, oops>>

(* mb_release: the last close of the task starts the scan of the lists,    *)
(* which keeps both locks until it ends.                                   *)
mb_release(t) ==
  /\ Opened(t)
  /\ mbti' = [mbti EXCEPT ![t] = @ - 1]
  /\ closing' = IF mbti[t] = 1 THEN t ELSE None
  /\ UNCHANGED <<mb_list, counters, oops>>

UsersOf(l, t) ==
  {p \in Entries(l) :
     l[p[1]].mbu_list[p[2]].tgid = t}

(* Slip: the mb_user is found but never unlinked.                          *)
ReleaseScan_NoUnlink(t) ==
  /\ ~oops /\ closing = t
  /\ UsersOf(mb_list, t) # {}
  /\ UNCHANGED vars

(* One turn of the RESCAN loops: the first mb_user of the task goes, and   *)
(* its block with it when nobody else uses it.                             *)
ReleaseScan(t) ==
  /\ ~oops /\ closing = t
  /\ LET mine == UsersOf(mb_list, t)
     IN  \E p \in mine :
           /\ First(p, mine)
           /\ KeepOrFree(mb_list, p[1],
                IF mb_list[p[1]].creator = p[2]
                THEN DelCreator(mb_list[p[1]])
                ELSE DelUser(mb_list[p[1]], p[2]))
  /\ UNCHANGED <<mbti, closing, oops>>

(* Slip: the scan stops after its first turn, without RESCAN.              *)
ReleaseDone_NoRescan(t) ==
  /\ ~oops /\ closing = t
  /\ mbah_free' = FreePages(mb_list)
  /\ mbah_max' = LargestZone(mb_list)
  /\ closing' = None
  /\ UNCHANGED <<mb_list, nr_mb, mba_max, mba_free, mbti, oops>>

(* The scan found nothing more: mb_update_mbah, and the entry is deleted.  *)
ReleaseDone(t) ==
  /\ ~oops /\ closing = t
  /\ UsersOf(mb_list, t) = {}
  /\ mbah_free' = FreePages(mb_list)
  /\ mbah_max' = LargestZone(mb_list)
  /\ closing' = None
  /\ UNCHANGED <<mb_list, nr_mb, mba_max, mba_free, mbti, oops>>

(* mb_mmap of len pages from physical page off at user address va.  The    *)
(* kernel may return an address whose earlier mapping was unmapped without *)
(* telling the driver, so va is any address.                               *)
mb_mmap(t, off, len, va) ==
  /\ Opened(t)
  /\ MbuAvailable
  /\ \E i \in 1 .. Len(mb_list) :
       /\ FindMb(mb_list, off, i)
       /\ off + len <= End(mb_list[i])
       /\ mb_list' = [mb_list EXCEPT ![i] =
                        AddUser(@, [tgid |-> t, addr |-> va, size |-> len])]
  /\ UNCHANGED <<counters, mbti, closing, oops>>

MBIO_MALLOC(t, pages) ==
  /\ Opened(t)
  /\ mb_do_alloc(pages, t)
  /\ UNCHANGED <<mbti, closing, oops>>

(* "if not unmap, unmap first": a mapping at v is dropped, without freeing *)
(* the block, and v becomes the block's address.                           *)
MBIO_FREE(t, v) ==
  /\ Opened(t)
  /\ LET maps == Mmaps(mb_list, ByUser(mb_list, v, t))
     IN  \/ \E p \in maps :
              /\ First(p, maps)
              /\ mb_do_free([mb_list EXCEPT ![p[1]] = DelUser(@, p[2])],
                            mb_list[p[1]].phys, t)
         \/ maps = {} /\ mb_do_free(mb_list, v, t)
  /\ UNCHANGED <<mbti, closing, oops>>

MBIO_UNMAP(t, va) ==
  /\ Opened(t)
  /\ LET maps == Mmaps(mb_list, ByUser(mb_list, va, t))
     IN  \E p \in maps :
           /\ First(p, maps)
           /\ mb_list' = [mb_list EXCEPT ![p[1]] = DelUser(@, p[2])]
  /\ UNCHANGED <<counters, mbti, closing, oops>>

MBIO_GET(t, va) ==
  /\ Opened(t)
  /\ LET maps == Mmaps(mb_list, ByUser(mb_list, va, t))
     IN  \E p \in maps : First(p, maps) /\ GetRef(p[1], t, va)
  /\ UNCHANGED <<mbti, closing, oops>>

MBIO_PUT(t, va) ==
  /\ Opened(t)
  /\ PutRef(GetPuts(mb_list, ByUser(mb_list, va, t)))
  /\ UNCHANGED <<mbti, closing, oops>>

MBIO_GET_BY_PHYS(t, a) ==
  /\ Opened(t)
  /\ \E i \in 1 .. Len(mb_list) : FindMb(mb_list, a, i) /\ GetRef(i, t, a)
  /\ UNCHANGED <<mbti, closing, oops>>

MBIO_PUT_BY_PHYS(t, a) ==
  /\ Opened(t)
  /\ PutRef(GetPuts(mb_list, ByPhys(mb_list, a, t)))
  /\ UNCHANGED <<mbti, closing, oops>>

(* MBIO_FORCE_RESET frees every block.  Its walk over mbu_list goes on     *)
(* from an mb_user it has just unlinked and freed: mbu_list is the first   *)
(* member, where SLUB keeps the link to the next free object, so the walk  *)
(* never meets the list head again.                                        *)
MBIO_FORCE_RESET(t) ==
  /\ Opened(t)
  /\ \/ /\ \A i \in 1 .. Len(mb_list) : mb_list[i].mbu_list = <<>>
        /\ mb_list' = <<>>
        /\ nr_mb' = nr_mb - Len(mb_list)
        /\ mba_max' = IF mb_list = <<>> THEN mba_max ELSE LargestZone(<<>>)
        /\ mba_free' = IF mb_list = <<>> THEN mba_free ELSE FreePages(<<>>)
        /\ mbah_max' = LargestZone(<<>>)
        /\ mbah_free' = FreePages(<<>>)
        /\ oops' = FALSE
     \/ /\ \E i \in 1 .. Len(mb_list) : mb_list[i].mbu_list # <<>>
        /\ oops' = TRUE
        /\ UNCHANGED <<mb_list, counters>>
  /\ UNCHANGED <<mbti, closing>>

-----------------------------------------------------------------------------
(* mb_probe: one area, all of it free.                                     *)
Init ==
  /\ mb_list = <<>>
  /\ nr_mb = 0
  /\ mba_max = Pages /\ mba_free = Pages
  /\ mbah_max = Pages /\ mbah_free = Pages
  /\ mbti = [t \in Tasks |-> 0]
  /\ closing = None
  /\ oops = FALSE

KernelStep ==
  \/ \E n \in 1 .. Pages : mb_alloc(n)
  \/ \E a \in Phys : mb_free(a) \/ mb_get(a) \/ mb_put(a)

TaskStep(t) ==
  \/ mb_open(t) \/ mb_release(t) \/ ReleaseScan(t) \/ ReleaseDone(t)
  \/ \E n \in 1 .. Pages : MBIO_MALLOC(t, n)
  \/ \E off \in Phys, len \in 1 .. Pages, va \in UserVA :
       mb_mmap(t, off, len, va)
  \/ \E v \in Addrs : MBIO_FREE(t, v)
  \/ \E v \in UserVA : MBIO_UNMAP(t, v) \/ MBIO_GET(t, v)
  \/ \E v \in Addrs : MBIO_PUT(t, v)
  \/ \E a \in Phys : MBIO_GET_BY_PHYS(t, a) \/ MBIO_PUT_BY_PHYS(t, a)
  \/ MBIO_FORCE_RESET(t)

(* After an oops nothing runs.                                             *)
Dead == oops /\ UNCHANGED vars

Next == KernelStep \/ (\E t \in Tasks : TaskStep(t)) \/ Dead

(* The scan of mb_release runs with interrupts off until it ends.          *)
Fairness == \A t \in Tasks : WF_vars(ReleaseScan(t) \/ ReleaseDone(t))

Spec == Init /\ [][Next]_vars /\ Fairness
-----------------------------------------------------------------------------
(* Properties.                                                             *)

(* Every variable has its type; in particular mb->creator is NULL or a     *)
(* live position, never FREED: no path gives a creator's mb_user back      *)
(* without clearing the pointer.                                           *)
TypeOK ==
  /\ mb_list \in Seq([phys : Phys, pages : 1 .. Pages, count : Nat,
                      creator : Nat, mbu_list : Seq(MbUser)])
  /\ nr_mb \in Nat
  /\ mba_max \in 0 .. Pages /\ mbah_max \in 0 .. Pages
  /\ mbti \in [Tasks -> 0 .. MaxOpen]
  /\ closing \in Tgids
  /\ oops \in BOOLEAN

(* The list is in address order, its blocks lie inside the area and no two *)
(* share a page: mb_alloc_mb inserts before the entry its zone ends at.    *)
BlocksDisjoint ==
  /\ \A i \in 1 .. Len(mb_list) :
       PhysStart <= mb_list[i].phys /\ End(mb_list[i]) <= PfnEnd
  /\ \A i, j \in 1 .. Len(mb_list) :
       i < j => End(mb_list[i]) <= mb_list[j].phys

(* mb->count is the number of users on mbu_list, through every path that   *)
(* adds or removes one: mmap, get, put, free, unmap and release.           *)
CountIsUsers ==
  \A i \in 1 .. Len(mb_list) :
    mb_list[i].count = Len(mb_list[i].mbu_list)

(* mb->creator points into the block's own mbu_list, at the one mb_user    *)
(* with address 0 and the block's size; without a creator there is none.   *)
CreatorInList ==
  \A i \in 1 .. Len(mb_list) :
    LET b == mb_list[i]
    IN  /\ b.creator \in 0 .. Len(b.mbu_list)
        /\ \A j \in 1 .. Len(b.mbu_list) :
             /\ b.mbu_list[j].addr = NULL <=> j = b.creator
             /\ j = b.creator => b.mbu_list[j].size = b.pages

(* The counters that decide whether an allocation is tried are exact: the  *)
(* area and the host agree on the largest zone and on the free pages,      *)
(* although alloc, free, release and reset update them along different     *)
(* paths, and the free pages are those that no block covers.               *)
CountersExact ==
  /\ nr_mb = Len(mb_list)
  /\ mba_max = LargestZone(mb_list) /\ mbah_max = mba_max
  /\ mba_free = mbah_free
  /\ mba_free = Cardinality({p \in Phys : \A i \in 1 .. Len(mb_list) :
                               ~(mb_list[i].phys <= p /\ p < End(mb_list[i]))})

(* The branch of mb_alloc_mb marked "impossible, something wrong" is: a    *)
(* request the counters admit always stops at a zone it fits in.           *)
ZoneFitsRequest ==
  \A n \in 1 .. Pages : (n <= mbah_max /\ n <= mba_max) =>
    \A k \in Zones(mb_list) : StopsAt(mb_list, n, k) => Room(mb_list, k) >= n

(* A task that closed its last file holds nothing: mb_release found every  *)
(* allocation, mapping and get of the task, whatever the RESCAN jumps.     *)
ClosedHoldsNothing ==
  \A t \in Tasks \ {closing} : mbti[t] = 0 => UsersOf(mb_list, t) = {}

(* The mappings and get/put references that belong to others than t, each  *)
(* with its multiplicity.                                                  *)
RefsOfOthers(l, t) ==
  LET Ref(p) == <<l[p[1]].phys, l[p[1]].mbu_list[p[2]]>>
      foreign == {p \in Entries(l) :
                    /\ l[p[1]].mbu_list[p[2]].tgid # t
                    /\ l[p[1]].mbu_list[p[2]].addr # NULL}
  IN  [r \in {Ref(p) : p \in foreign} |->
         Cardinality({p \in foreign : Ref(p) = r})]

(* Whatever a user task does, the mappings and references of the kernel    *)
(* and of other tasks stay, and with them the blocks they are on.          *)
OthersKeepRefs ==
  [][\A t \in Tasks : TaskStep(t) =>
       RefsOfOthers(mb_list, t) = RefsOfOthers(mb_list', t)]_vars

(* The blocks as the clients see them: who holds which pages.              *)
Interval(b) == [phys |-> b.phys, pages |-> b.pages]
Holders(l) ==
  [iv \in {Interval(l[i]) : i \in 1 .. Len(l)} |->
     l[CHOOSE i \in 1 .. Len(l) : Interval(l[i]) = iv].count]

Share == INSTANCE MemShare WITH
  FirstPage <- PhysStart, NumPages <- Pages, owned <- Holders(mb_list)

(* Every step grants pages that nobody has, adds a holder, or lets holders *)
(* go and reclaims a block only with the last of them: first fit on the    *)
(* sorted list, the searches and the counting implement MemShare.          *)
SharesPages == Share!Spec

(* The scan of the last mb_release ends: every turn removes a user.        *)
ReleaseEnds == \A t \in Tasks : (closing = t) ~> (closing # t \/ oops)

(* "current MB use count, release until zero" (memblock.c:248): a block    *)
(* that nobody uses any more is given back.                                *)
UnusedIsReleased == \A i \in 1 .. Len(mb_list) : mb_list[i].count > 0
=============================================================================
