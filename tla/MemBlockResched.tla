-------------------------- MODULE MemBlockResched --------------------------
(***************************************************************************)
(* The memory block driver in the shipped build, where mb_alloc_mb calls   *)
(* kmem_cache_alloc(GFP_KERNEL) with mb_do_lock held (memblock.c:1027).    *)
(* With CONFIG_PREEMPT_VOLUNTARY and without CONFIG_SMP that call passes a *)
(* rescheduling point (mm/slub.c:847, kernel/sched.c:5555) and the lock is *)
(* no more than disabled interrupts, which schedule() enables again: other *)
(* callers may run between the zone search and the insertion.              *)
(***************************************************************************)
EXTENDS MemBlock

VARIABLE asleep \* tgid -> the allocation it sleeps in, or Awake

Awake == [pages |-> 0, zs |-> 0, next |-> 0]
varsR == <<vars, asleep>>

(* mb_do_alloc and mb_alloc_mb up to kmem_cache_alloc: zs, and next as the *)
(* address of the entry the new block goes before, NULL for the head.      *)
AllocSleep(tgid, pages) ==
  /\ Runs /\ asleep[tgid] = Awake
  /\ tgid \in Tasks => mbti[tgid] > 0
  /\ MbuAvailable
  /\ pages <= mbah_max /\ pages <= mba_max
  /\ \E k \in Zones(mb_list) :
       /\ StopsAt(mb_list, pages, k)
       /\ Room(mb_list, k) >= pages
       /\ LET at == Before(mb_list, k)
          IN  asleep' = [asleep EXCEPT ![tgid] =
                [pages |-> pages, zs |-> ZoneStart(mb_list, k),
                 next |-> IF at > Len(mb_list) THEN NULL
                          ELSE mb_list[at].phys]]
  /\ UNCHANGED vars

(* The rest of mb_alloc_mb and mb_do_alloc.  When the entry next points to *)
(* was freed meanwhile, list_add_tail writes through a stale pointer.      *)
AllocWake(tgid) ==
  /\ Runs /\ asleep[tgid] # Awake
  /\ LET s == asleep[tgid]
         mb == [phys |-> s.zs, pages |-> s.pages, count |-> 1, creator |-> 1,
                mbu_list |-> <<[tgid |-> tgid, addr |-> NULL,
                                size |-> s.pages]>>]
         places == IF s.next = NULL THEN {Len(mb_list) + 1}
                   ELSE {i \in 1 .. Len(mb_list) : mb_list[i].phys = s.next}
     IN  \/ \E at \in places :
              LET list == InsertAt(mb_list, at, mb)
              IN  /\ mb_list' = list
                  /\ nr_mb' = nr_mb + 1
                  /\ mba_free' = mba_free - s.pages
                  /\ mbah_free' = mbah_free - s.pages
                  /\ mba_max' = LargestZone(list)
                  /\ mbah_max' = LargestZone(list)
                  /\ oops' = FALSE
         \/ /\ places = {}
            /\ oops' = TRUE
            /\ UNCHANGED <<mb_list, counters>>
  /\ asleep' = [asleep EXCEPT ![tgid] = Awake]
  /\ UNCHANGED <<mbti, closing>>

(* A task asleep in its ioctl makes no other call and keeps its file open. *)
InitR == Init /\ asleep = [g \in Tgids |-> Awake]

NextR ==
  \/ \E g \in Tgids : AllocWake(g) \/ \E n \in 1 .. Pages : AllocSleep(g, n)
  \/ /\ KernelStep \/ \E t \in Tasks : asleep[t] = Awake /\ TaskStep(t)
     /\ UNCHANGED asleep
  \/ Dead /\ UNCHANGED asleep

SpecR == InitR /\ [][NextR]_varsR
=============================================================================
