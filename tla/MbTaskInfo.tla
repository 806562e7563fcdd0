----------------------------- MODULE MbTaskInfo -----------------------------
(***************************************************************************)
(* The list of tasks that use /dev/mbdev, drivers/video/wmt/memblock.c:    *)
(* mb_open and mb_release share one mb_task_info between the files of a    *)
(* task and count them; the last close frees it together with everything   *)
(* the task still holds.  The sections under mb_task_lock are single steps *)
(* except where mb_open allocates: kmem_cache_alloc(GFP_KERNEL) may give   *)
(* the processor away, between the search of the list and the addition.    *)
(***************************************************************************)
EXTENDS Integers, FiniteSets, SequencesExt

CONSTANTS
  Tasks,        \* tgids
  Files,        \* struct file objects of the tasks' threads
  Owner,        \* file -> the task that opens it
  Ids,          \* the objects of the mb_task_info cache
  NULL

ASSUME MbtiAssumption ==
  /\ Owner \in [Files -> Tasks]
  /\ IsFiniteSet(Files)
  /\ NULL \notin Ids

VARIABLES
  mbti_list,    \* wmt_mbti.mbti_list: entries with an identity (pointer)
  private_data, \* file -> identity of the entry it points to, NULL
  filp,         \* file -> "closed", "opening" (asleep in mb_open) or "open"
  overlapped    \* history: two threads of a task were in the allocation at once

vars == <<mbti_list, private_data, filp, overlapped>>

(* The first entry of a tgid, as the walks of mb_open and mb_release do.   *)
FirstOf(tgid, i) ==
  /\ i \in 1 .. Len(mbti_list)
  /\ mbti_list[i].tgid = tgid
  /\ \A h \in 1 .. i - 1 : mbti_list[h].tgid # tgid
Exists(tgid) == \E i \in 1 .. Len(mbti_list) : mbti_list[i].tgid = tgid

Live(id) == \E i \in 1 .. Len(mbti_list) : mbti_list[i].id = id

Init ==
  /\ mbti_list = <<>>
  /\ private_data = [f \in Files |-> NULL]
  /\ filp = [f \in Files |-> "closed"]
  /\ overlapped = FALSE

(* mb_open when the task already has an entry.                             *)
OpenExisting(f) ==
  /\ filp[f] = "closed"
  /\ \E i \in 1 .. Len(mbti_list) :
       /\ FirstOf(Owner[f], i)
       /\ mbti_list' = [mbti_list EXCEPT ![i].count = @ + 1]
       /\ private_data' = [private_data EXCEPT ![f] = mbti_list[i].id]
  /\ filp' = [filp EXCEPT ![f] = "open"]
  /\ UNCHANGED overlapped

(* mb_open when it has none: the thread enters the allocation.             *)
OpenSearch(f) ==
  /\ filp[f] = "closed"
  /\ ~Exists(Owner[f])
  /\ filp' = [filp EXCEPT ![f] = "opening"]
  /\ overlapped' = (overlapped \/ \E g \in Files : /\ Owner[g] = Owner[f]
                                                   /\ filp[g] = "opening")
  /\ UNCHANGED <<mbti_list, private_data>>

(* The thread has its object and links it at the tail, whatever the list   *)
(* holds by now, with its count set to 0 and then incremented.             *)
OpenAdd(f) ==
  /\ filp[f] = "opening"
  /\ \E id \in Ids :
       /\ ~Live(id)
       /\ mbti_list' = Append(mbti_list,
                              [id |-> id, tgid |-> Owner[f], count |-> 1])
       /\ private_data' = [private_data EXCEPT ![f] = id]
  /\ filp' = [filp EXCEPT ![f] = "open"]
  /\ UNCHANGED overlapped

(* The allocation fails and mb_open returns -EFAULT.                       *)
OpenFails(f) ==
  /\ filp[f] = "opening"
  /\ filp' = [filp EXCEPT ![f] = "closed"]
  /\ UNCHANGED <<mbti_list, private_data, overlapped>>

(* Slip: the entry is freed at every close, without the test of its count. *)
DropFile_NoCount(i) == mbti_list' = RemoveAt(mbti_list, i)

(* The close of a file of entry i: the last one deletes and frees it.      *)
DropFile(i) ==
  mbti_list' = IF mbti_list[i].count = 1
               THEN RemoveAt(mbti_list, i)
               ELSE [mbti_list EXCEPT ![i].count = @ - 1]

(* mb_release reads the tgid through private_data and then walks the list  *)
(* for the first entry of that tgid; without one it returns.  What it reads *)
(* of an entry that was freed may be any tgid, or no task's.               *)
mb_release(f) ==
  /\ filp[f] = "open"
  /\ \E tgid \in Tasks \cup {NULL} :
       /\ \A p \in 1 .. Len(mbti_list) :
            mbti_list[p].id = private_data[f] => tgid = mbti_list[p].tgid
       /\ \/ \E i \in 1 .. Len(mbti_list) : FirstOf(tgid, i) /\ DropFile(i)
          \/ ~Exists(tgid) /\ UNCHANGED mbti_list
  /\ private_data' = [private_data EXCEPT ![f] = NULL]
  /\ filp' = [filp EXCEPT ![f] = "closed"]
  /\ UNCHANGED overlapped

Next == \E f \in Files : \/ OpenExisting(f) \/ OpenSearch(f) \/ OpenAdd(f)
                         \/ OpenFails(f) \/ mb_release(f)

Spec == Init /\ [][Next]_vars

-----------------------------------------------------------------------------
(* Every variable has its type; an entry on the list has a file counted.   *)
TypeOK ==
  /\ mbti_list \in Seq([id : Ids, tgid : Tasks, count : Nat \ {0}])
  /\ private_data \in [Files -> Ids \cup {NULL}]
  /\ filp \in [Files -> {"closed", "opening", "open"}]
  /\ overlapped \in BOOLEAN

FilesOf(id) == {f \in Files : filp[f] = "open" /\ private_data[f] = id}

(* The count of an entry is the record of its multiple opens that its      *)
(* declaration calls it (memblock.c:296): every open file points to an     *)
(* entry that mb_release has not freed, and each entry counts exactly the  *)
(* files that point to it.  Two threads of a task that open at once break  *)
(* it, since each adds an entry and mb_release closes the first it finds.  *)
MultiOpenRecord ==
  /\ \A f \in Files : filp[f] = "open" => Live(private_data[f])
  /\ \A i \in 1 .. Len(mbti_list) :
       mbti_list[i].count = Cardinality(FilesOf(mbti_list[i].id))

(* No second entry of a task, and every open file points to its own task's *)
(* entry.                                                                  *)
OneEntryPerTask ==
  /\ \A f \in Files : \A i \in 1 .. Len(mbti_list) :
       (filp[f] = "open" /\ mbti_list[i].id = private_data[f]) =>
         mbti_list[i].tgid = Owner[f]
  /\ \A i, j \in 1 .. Len(mbti_list) :
       i # j => /\ mbti_list[i].tgid # mbti_list[j].tgid
                /\ mbti_list[i].id # mbti_list[j].id

(* As long as no two threads of one task were in the allocation of mb_open *)
(* at the same time, the open files of a task share its one live entry and *)
(* are what it counts: mb_release frees an entry with the last file that   *)
(* points to it.  Opens and closes of other tasks may run meanwhile.       *)
FilesShareOneEntry == ~overlapped => MultiOpenRecord /\ OneEntryPerTask
=============================================================================
