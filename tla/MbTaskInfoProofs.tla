-------------------------- MODULE MbTaskInfoProofs --------------------------
(***************************************************************************)
(* The task list for any number of tasks, files and objects of the cache:  *)
(* the files of a task share one entry, which is freed when the last of    *)
(* them is closed and not before, until two threads of one task meet in    *)
(* the allocation of mb_open.                                              *)
(***************************************************************************)
EXTENDS MbTaskInfo, ListLemmas, FiniteSetTheorems

Entry == [id : Ids, tgid : Tasks, count : Nat \ {0}]
Positions == 1 .. Len(mbti_list)

(* The inductive invariant: until an overlap, a thread that sleeps in the  *)
(* allocation is the only one of its task that does, and its task has no   *)
(* entry yet, so that the search that it made is still good when it wakes. *)
AloneInOpen ==
  \A f \in Files : filp[f] = "opening" =>
    /\ \A i \in 1 .. Len(mbti_list) : mbti_list[i].tgid # Owner[f]
    /\ \A g \in Files : filp[g] = "opening" /\ Owner[g] = Owner[f] => g = f
Good == MultiOpenRecord /\ OneEntryPerTask /\ AloneInOpen
IInv == TypeOK /\ (~overlapped => Good)

-----------------------------------------------------------------------------
(* The types of an entry, of the positions and of the sets of files.       *)
LEMMA EntryTypes ==
  ASSUME TypeOK
  PROVE  /\ Len(mbti_list) \in Nat /\ mbti_list \in Seq(Entry)
         /\ \A i \in Positions : /\ mbti_list[i] \in Entry
                                 /\ mbti_list[i].id \in Ids
                                 /\ mbti_list[i].tgid \in Tasks
                                 /\ mbti_list[i].count \in Nat
                                 /\ mbti_list[i].count > 0
         /\ \A id : IsFiniteSet(FilesOf(id)) /\ Cardinality(FilesOf(id)) \in Nat
<1>1. mbti_list \in Seq(Entry)
  BY DEF TypeOK, Entry
<1>2. Len(mbti_list) \in Nat /\ \A i \in Positions : mbti_list[i] \in Entry
  BY <1>1, LenProperties, ElementOfSeq DEF Positions
<1>3. ASSUME NEW id
      PROVE  IsFiniteSet(FilesOf(id)) /\ Cardinality(FilesOf(id)) \in Nat
  <2>1. FilesOf(id) \in SUBSET Files
    BY DEF FilesOf
  <2>2. IsFiniteSet(FilesOf(id))
    BY <2>1, FS_Subset, MbtiAssumption
  <2> QED BY <2>2, FS_CardinalityType
<1>4. \A e \in Entry : /\ e.id \in Ids /\ e.tgid \in Tasks
                        /\ e.count \in Nat /\ e.count > 0
  BY DEF Entry
<1> QED BY <1>1, <1>2, <1>3, <1>4

(* Every open file has its own task's entry.                               *)
LEMMA OpenHasEntry ==
  ASSUME Good, NEW f \in Files, filp[f] = "open"
  PROVE  \E i \in Positions : /\ mbti_list[i].id = private_data[f]
                              /\ mbti_list[i].tgid = Owner[f]
<1>1. PICK i \in Positions : mbti_list[i].id = private_data[f]
  BY DEF Good, MultiOpenRecord, Live, Positions
<1> QED BY <1>1 DEF Good, OneEntryPerTask, Positions

-----------------------------------------------------------------------------
LEMMA InitInv == Init => IInv
<1> SUFFICES ASSUME Init PROVE IInv
  OBVIOUS
<1>1. mbti_list = <<>> /\ Len(mbti_list) = 0
  BY DEF Init
<1>2. TypeOK
  BY EmptySeq DEF Init, TypeOK
<1>3. \A f \in Files : filp[f] = "closed"
  BY DEF Init
<1>4. Good
  BY <1>1, <1>3 DEF Good, MultiOpenRecord, OneEntryPerTask, AloneInOpen
<1> QED BY <1>2, <1>4 DEF IInv

(* A thread that finds no entry goes to sleep: nothing but its own state   *)
(* changes, and a second one of its task is recorded as an overlap.        *)
LEMMA OpenSearchInv ==
  ASSUME IInv, NEW f \in Files, OpenSearch(f)
  PROVE  IInv'
<1>1. /\ filp[f] = "closed" /\ filp' = [filp EXCEPT ![f] = "opening"]
      /\ mbti_list' = mbti_list /\ private_data' = private_data
      /\ \A i \in Positions : mbti_list[i].tgid # Owner[f]
      /\ overlapped' = (overlapped \/ \E g \in Files : /\ Owner[g] = Owner[f]
                                                       /\ filp[g] = "opening")
  BY DEF OpenSearch, Exists, Positions
<1>2. TypeOK
  BY DEF IInv
<1>3. overlapped' \in BOOLEAN
  BY <1>1, <1>2 DEF TypeOK
<1>4. TypeOK'
  BY <1>1, <1>2, <1>3 DEF TypeOK
<1>5. ASSUME ~overlapped' PROVE Good'
  <2>1. /\ ~overlapped
        /\ \A g \in Files : Owner[g] = Owner[f] => filp[g] # "opening"
    BY <1>1, <1>5
  <2>2. Good
    BY <2>1 DEF IInv
  <2>3. \A g \in Files : filp'[g] = IF g = f THEN "opening" ELSE filp[g]
    BY <1>1, <1>2 DEF TypeOK
  <2>4. \A id : FilesOf(id)' = FilesOf(id)
    BY <1>1, <2>3 DEF FilesOf
  <2>5. MultiOpenRecord'
    BY <1>1, <2>2, <2>3, <2>4 DEF Good, MultiOpenRecord, Live
  <2>6. OneEntryPerTask'
    BY <1>1, <2>2, <2>3 DEF Good, OneEntryPerTask
  <2>7. AloneInOpen'
    BY <1>1, <2>1, <2>2, <2>3 DEF Good, AloneInOpen, Positions
  <2> QED BY <2>5, <2>6, <2>7 DEF Good
<1> QED BY <1>4, <1>5 DEF IInv

LEMMA OpenFailsInv ==
  ASSUME IInv, NEW f \in Files, OpenFails(f)
  PROVE  IInv'
<1>1. /\ filp[f] = "opening" /\ filp' = [filp EXCEPT ![f] = "closed"]
      /\ UNCHANGED <<mbti_list, private_data, overlapped>>
  BY DEF OpenFails
<1>2. TypeOK
  BY DEF IInv
<1>3. TypeOK'
  BY <1>1, <1>2 DEF TypeOK
<1>4. ASSUME ~overlapped' PROVE Good'
  <2>1. Good
    BY <1>1, <1>4 DEF IInv
  <2>2. \A g \in Files : filp'[g] = IF g = f THEN "closed" ELSE filp[g]
    BY <1>1, <1>2 DEF TypeOK
  <2>3. \A id : FilesOf(id)' = FilesOf(id)
    BY <1>1, <2>2 DEF FilesOf
  <2>4. MultiOpenRecord'
    BY <1>1, <2>1, <2>2, <2>3 DEF Good, MultiOpenRecord, Live
  <2>5. OneEntryPerTask' /\ AloneInOpen'
    BY <1>1, <2>1, <2>2 DEF Good, OneEntryPerTask, AloneInOpen
  <2> QED BY <2>4, <2>5 DEF Good
<1> QED BY <1>3, <1>4 DEF IInv

(* The thread that wakes is still alone, so its entry is its task's first. *)
LEMMA OpenAddInv ==
  ASSUME IInv, NEW f \in Files, OpenAdd(f)
  PROVE  IInv'
<1>1. PICK id \in Ids :
        /\ \A i \in Positions : mbti_list[i].id # id
        /\ mbti_list' = Append(mbti_list,
                               [id |-> id, tgid |-> Owner[f], count |-> 1])
        /\ private_data' = [private_data EXCEPT ![f] = id]
  BY DEF OpenAdd, Live, Positions
<1> DEFINE e == [id |-> id, tgid |-> Owner[f], count |-> 1]
           l == mbti_list'
           n == Len(mbti_list)
           F(k) == {g \in Files : filp'[g] = "open" /\ private_data'[g] = k}
<1>2. /\ filp[f] = "opening" /\ filp' = [filp EXCEPT ![f] = "open"]
      /\ overlapped' = overlapped
  BY DEF OpenAdd
<1>3. TypeOK
  BY DEF IInv
<1>4. e \in Entry /\ Owner[f] \in Tasks
  BY MbtiAssumption DEF Entry
<1>5. n \in Nat /\ mbti_list \in Seq(Entry)
  BY <1>3, EntryTypes
<1>6. /\ l \in Seq(Entry) /\ Len(l) = n + 1 /\ l[n + 1] = e
      /\ \A i \in Positions : l[i] = mbti_list[i]
  BY <1>1, <1>4, <1>5, AppendProperties DEF Positions
<1> HIDE DEF l
<1>7. TypeOK'
  BY <1>1, <1>2, <1>3, <1>6 DEF TypeOK, Entry, l
<1>8. ASSUME ~overlapped' PROVE Good'
  <2>1. Good
    BY <1>2, <1>8 DEF IInv
  <2>2. \A i \in Positions : mbti_list[i].tgid # Owner[f]
    BY <1>2, <2>1 DEF Good, AloneInOpen, Positions
  <2>3. /\ \A g \in Files : filp'[g] = IF g = f THEN "open" ELSE filp[g]
        /\ \A g \in Files : private_data'[g] = IF g = f THEN id ELSE private_data[g]
    BY <1>1, <1>2, <1>3 DEF TypeOK
  <2>4. \A g \in Files : filp[g] = "open" =>
          \E i \in Positions : /\ mbti_list[i].id = private_data[g]
                               /\ mbti_list[i].tgid = Owner[g]
    BY <2>1, OpenHasEntry
  <2>5. F(id) = {f}
    BY <1>1, <1>2, <2>3, <2>4
  <2>6. ASSUME NEW k, k # id PROVE F(k) = FilesOf(k)
    BY <1>2, <2>3, <2>6 DEF FilesOf
  <2> HIDE DEF F
  <2>7. \A i \in 1 .. Len(l) : i \in Positions \/ i = n + 1
    BY <1>5, <1>6 DEF Positions
  <2>8. n + 1 \in 1 .. Len(l) /\ \A i \in Positions : i \in 1 .. Len(l)
    BY <1>5, <1>6 DEF Positions
  <2>9. ASSUME NEW g \in Files, filp'[g] = "open"
        PROVE  \E i \in 1 .. Len(l) : l[i].id = private_data'[g]
    BY <1>6, <2>3, <2>4, <2>8, <2>9
  <2>10. ASSUME NEW g \in Files, filp'[g] = "open",
                NEW i \in 1 .. Len(l), l[i].id = private_data'[g]
         PROVE  l[i].tgid = Owner[g]
    <3>1. CASE g = f
      BY <3>1, <1>1, <1>6, <2>3, <2>7, <2>10
    <3>2. CASE g # f
      <4>1. filp[g] = "open" /\ private_data'[g] = private_data[g]
        BY <3>2, <2>3, <2>10
      <4>2. i # n + 1
        BY <4>1, <1>1, <1>6, <2>4, <2>10
      <4> QED BY <4>1, <4>2, <1>6, <2>1, <2>7, <2>10
              DEF Good, OneEntryPerTask, Positions
    <3> QED BY <3>1, <3>2
  <2>11. ASSUME NEW i \in 1 .. Len(l), NEW j \in 1 .. Len(l), i # j
         PROVE  l[i].tgid # l[j].tgid /\ l[i].id # l[j].id
    BY <1>1, <1>6, <2>1, <2>2, <2>7, <2>11 DEF Good, OneEntryPerTask, Positions
  <2>12. ASSUME NEW i \in 1 .. Len(l)
         PROVE  l[i].count = Cardinality(F(l[i].id))
    <3>1. CASE i \in Positions
      <4>1. l[i] = mbti_list[i] /\ mbti_list[i].id # id
        BY <3>1, <1>1, <1>6
      <4>2. F(l[i].id) = FilesOf(mbti_list[i].id)
        BY <4>1, <2>6
      <4> QED BY <3>1, <4>1, <4>2, <2>1 DEF Good, MultiOpenRecord, Positions
    <3>2. CASE i = n + 1
      <4>1. Cardinality({f}) = 1
        BY FS_Singleton
      <4>2. l[i].count = 1 /\ l[i].id = id
        BY <3>2, <1>6
      <4> QED BY <4>1, <4>2, <2>5
    <3> QED BY <3>1, <3>2, <2>7
  <2>13. MultiOpenRecord'
    BY <2>9, <2>12 DEF MultiOpenRecord, Live, FilesOf, F, l
  <2>14. OneEntryPerTask'
    BY <2>10, <2>11 DEF OneEntryPerTask, l
  <2>15. AloneInOpen'
    <3>1. ASSUME NEW g \in Files, filp'[g] = "opening"
          PROVE  /\ \A i \in 1 .. Len(l) : l[i].tgid # Owner[g]
                 /\ \A h \in Files : filp'[h] = "opening" /\ Owner[h] = Owner[g]
                                      => h = g
      <4>1. g # f /\ filp[g] = "opening"
        BY <3>1, <2>3
      <4>2. Owner[g] # Owner[f]
        BY <4>1, <1>2, <2>1 DEF Good, AloneInOpen
      <4> QED BY <4>1, <4>2, <1>6, <2>1, <2>3, <2>7
              DEF Good, AloneInOpen, Positions
    <3> QED BY <3>1 DEF AloneInOpen, l
  <2> QED BY <2>13, <2>14, <2>15 DEF Good
<1> QED BY <1>7, <1>8 DEF IInv

LEMMA OpenExistingInv ==
  ASSUME IInv, NEW f \in Files, OpenExisting(f)
  PROVE  IInv'
<1> DEFINE l == mbti_list'
           F(k) == {g \in Files : filp'[g] = "open" /\ private_data'[g] = k}
<1>1. PICK i \in Positions :
        /\ mbti_list[i].tgid = Owner[f]
        /\ l = [mbti_list EXCEPT ![i].count = @ + 1]
        /\ private_data' = [private_data EXCEPT ![f] = mbti_list[i].id]
  BY DEF OpenExisting, FirstOf, Positions
<1>2. /\ filp[f] = "closed" /\ filp' = [filp EXCEPT ![f] = "open"]
      /\ overlapped' = overlapped
  BY DEF OpenExisting
<1>3. TypeOK
  BY DEF IInv
<1> DEFINE id == mbti_list[i].id
           e == [mbti_list[i] EXCEPT !.count = @ + 1]
<1>4. /\ mbti_list \in Seq(Entry) /\ mbti_list[i] \in Entry /\ id \in Ids
      /\ mbti_list[i].count \in Nat
  BY <1>3, EntryTypes
<1>5. /\ e \in Entry /\ e.id = id /\ e.tgid = Owner[f]
      /\ e.count = mbti_list[i].count + 1
  BY <1>1, <1>4 DEF Entry
<1>6. l = [mbti_list EXCEPT ![i] = e]
  BY <1>1
<1> HIDE DEF e, l
<1>7. /\ l \in Seq(Entry) /\ Len(l) = Len(mbti_list)
      /\ \A j \in Positions : l[j] = IF j = i THEN e ELSE mbti_list[j]
  BY <1>4, <1>5, <1>6, ExceptSeq DEF Positions
<1>8. TypeOK'
  BY <1>1, <1>2, <1>3, <1>4, <1>7 DEF TypeOK, Entry, l
<1>9. \A j \in Positions : l[j].id = mbti_list[j].id /\ l[j].tgid = mbti_list[j].tgid
  BY <1>1, <1>5, <1>7
<1>10. ASSUME ~overlapped' PROVE Good'
  <2>1. Good
    BY <1>2, <1>10 DEF IInv
  <2>2. /\ \A g \in Files : filp'[g] = IF g = f THEN "open" ELSE filp[g]
        /\ \A g \in Files : private_data'[g] = IF g = f THEN id ELSE private_data[g]
    BY <1>1, <1>2, <1>3 DEF TypeOK
  <2>3. ASSUME NEW g \in Files, filp'[g] = "open"
        PROVE  \E j \in Positions : l[j].id = private_data'[g]
                                    /\ l[j].tgid = Owner[g]
    <3>1. CASE g = f
      BY <3>1, <1>1, <1>9, <2>2
    <3>2. CASE g # f
      BY <3>2, <1>9, <2>1, <2>2, <2>3, OpenHasEntry
    <3> QED BY <3>1, <3>2
  <2>4. ASSUME NEW j \in Positions, NEW k \in Positions, j # k
        PROVE  l[j].tgid # l[k].tgid /\ l[j].id # l[k].id
    BY <1>9, <2>1, <2>4 DEF Good, OneEntryPerTask, Positions
  <2> HIDE DEF F
  <2>5. ASSUME NEW j \in Positions
        PROVE  l[j].count = Cardinality(F(l[j].id))
    <3>1. mbti_list[j].count = Cardinality(FilesOf(mbti_list[j].id))
      BY <2>1 DEF Good, MultiOpenRecord, Positions
    <3>2. CASE j = i
      <4>1. f \notin FilesOf(id)
        BY <1>2 DEF FilesOf
      <4>2. F(id) = FilesOf(id) \cup {f}
        BY <2>2 DEF FilesOf, F
      <4>3. Cardinality(F(id)) = Cardinality(FilesOf(id)) + 1
        BY <4>1, <4>2, <1>3, EntryTypes, FS_AddElement
      <4> QED BY <3>1, <3>2, <4>3, <1>4, <1>5, <1>7
    <3>3. CASE j # i
      <4>1. l[j] = mbti_list[j] /\ mbti_list[j].id # id
        BY <3>3, <1>7, <2>1 DEF Good, OneEntryPerTask, Positions
      <4>2. F(mbti_list[j].id) = FilesOf(mbti_list[j].id)
        BY <4>1, <1>2, <2>2 DEF FilesOf, F
      <4> QED BY <3>1, <4>1, <4>2
    <3> QED BY <3>2, <3>3
  <2>6. MultiOpenRecord'
    BY <1>7, <2>3, <2>5 DEF MultiOpenRecord, Live, FilesOf, Positions, F, l
  <2>7. ASSUME NEW g \in Files, filp'[g] = "open",
               NEW j \in Positions, l[j].id = private_data'[g]
        PROVE  l[j].tgid = Owner[g]
    BY <2>3, <2>4, <2>7
  <2>8. OneEntryPerTask'
    BY <1>7, <2>4, <2>7 DEF OneEntryPerTask, Positions, l
  <2>9. AloneInOpen'
    BY <1>7, <1>9, <2>1, <2>2 DEF Good, AloneInOpen, Positions, l
  <2> QED BY <2>6, <2>8, <2>9 DEF Good
<1> QED BY <1>8, <1>10 DEF IInv

(* Whatever entry the walk finds, the list keeps its type.                 *)
LEMMA DropFileType ==
  ASSUME TypeOK, NEW i \in Positions, DropFile(i)
  PROVE  mbti_list' \in Seq(Entry)
<1>1. /\ mbti_list \in Seq(Entry) /\ mbti_list[i] \in Entry
      /\ mbti_list[i].count \in Nat /\ mbti_list[i].count > 0
      /\ i \in 1 .. Len(mbti_list)
  BY EntryTypes DEF Positions
<1>2. CASE mbti_list[i].count = 1
  BY <1>1, <1>2, RemoveAtFacts DEF DropFile
<1>3. CASE mbti_list[i].count # 1
  <2> DEFINE e == [mbti_list[i] EXCEPT !.count = @ - 1]
  <2>1. e \in Entry
    <3>1. mbti_list[i].count - 1 \in Nat \ {0}
      BY <1>1, <1>3
    <3> QED BY <3>1, <1>1 DEF Entry
  <2>2. mbti_list' = [mbti_list EXCEPT ![i] = e]
    BY <1>3 DEF DropFile
  <2> HIDE DEF e
  <2> QED BY <1>1, <2>1, <2>2, ExceptSeq
<1> QED BY <1>2, <1>3

(* The entry found through private_data and the one the walk for its tgid  *)
(* finds are the same.                                                     *)
LEMMA ReleaseGood ==
  ASSUME TypeOK, Good, NEW f \in Files, mb_release(f)
  PROVE  Good'
<1> DEFINE l == mbti_list'
           n == Len(mbti_list)
           F(k) == {g \in Files : filp'[g] = "open" /\ private_data'[g] = k}
<1>1. /\ filp[f] = "open" /\ filp' = [filp EXCEPT ![f] = "closed"]
      /\ private_data' = [private_data EXCEPT ![f] = NULL]
  BY DEF mb_release
<1>2. PICK p \in Positions : /\ mbti_list[p].id = private_data[f]
                             /\ mbti_list[p].tgid = Owner[f]
  BY <1>1, OpenHasEntry
<1>3. PICK i \in Positions : mbti_list[i].id = private_data[f] /\ DropFile(i)
  <2>1. PICK tgid \in Tasks \cup {NULL} :
          /\ \A q \in Positions : mbti_list[q].id = private_data[f]
                                    => tgid = mbti_list[q].tgid
          /\ \/ \E i \in Positions : FirstOf(tgid, i) /\ DropFile(i)
             \/ ~Exists(tgid) /\ UNCHANGED mbti_list
    BY DEF mb_release, Positions
  <2>2. tgid = mbti_list[p].tgid /\ Exists(tgid)
    BY <2>1, <1>2 DEF Exists, Positions
  <2>3. PICK i \in Positions : FirstOf(tgid, i) /\ DropFile(i)
    BY <2>1, <2>2
  <2>4. mbti_list[i].tgid = mbti_list[p].tgid
    BY <2>2, <2>3 DEF FirstOf
  <2>5. i = p
    BY <2>4 DEF Good, OneEntryPerTask, Positions
  <2> QED BY <2>3, <2>5, <1>2
<1> DEFINE id == mbti_list[i].id
           e == [mbti_list[i] EXCEPT !.count = @ - 1]
<1>4. /\ n \in Nat /\ mbti_list \in Seq(Entry) /\ mbti_list[i] \in Entry
      /\ id \in Ids /\ mbti_list[i].count \in Nat /\ i \in 1 .. n
      /\ mbti_list[i].count > 0
  BY EntryTypes DEF Positions
<1>5. /\ \A g \in Files : filp'[g] = IF g = f THEN "closed" ELSE filp[g]
      /\ \A g \in Files : private_data'[g] = IF g = f THEN NULL ELSE private_data[g]
  BY <1>1 DEF TypeOK
<1>6. /\ f \in FilesOf(id) /\ F(id) = FilesOf(id) \ {f}
      /\ \A k : k # id => F(k) = FilesOf(k)
  BY <1>1, <1>3, <1>5 DEF FilesOf
<1> HIDE DEF F
<1>7. IsFiniteSet(F(id)) /\ Cardinality(F(id)) = mbti_list[i].count - 1
  <2>1. mbti_list[i].count = Cardinality(FilesOf(id))
    BY DEF Good, MultiOpenRecord, Positions
  <2> QED BY <2>1, <1>6, EntryTypes, FS_RemoveElement
<1>8. ASSUME NEW g \in Files, filp'[g] = "open"
      PROVE  /\ g # f /\ filp[g] = "open" /\ private_data'[g] = private_data[g]
             /\ \E j \in Positions : /\ mbti_list[j].id = private_data[g]
                                     /\ mbti_list[j].tgid = Owner[g]
  BY <1>5, <1>8, OpenHasEntry
<1>9. ASSUME NEW j \in Positions, j # i
      PROVE  /\ mbti_list[j].id # id
             /\ mbti_list[j].count = Cardinality(F(mbti_list[j].id))
  <2>1. mbti_list[j].id # id
    BY <1>9 DEF Good, OneEntryPerTask, Positions
  <2>2. F(mbti_list[j].id) = FilesOf(mbti_list[j].id)
    BY <2>1, <1>6
  <2> QED BY <2>1, <2>2 DEF Good, MultiOpenRecord, Positions
<1>10. SUFFICES
         /\ \A g \in Files : filp'[g] = "open" =>
              \E k \in 1 .. Len(l) : l[k].id = private_data'[g]
                                     /\ l[k].tgid = Owner[g]
         /\ \A j, k \in 1 .. Len(l) : j # k => /\ l[j].tgid # l[k].tgid
                                               /\ l[j].id # l[k].id
         /\ \A j \in 1 .. Len(l) : l[j].count = Cardinality(F(l[j].id))
         /\ \A j \in 1 .. Len(l) : \E k \in Positions : l[j].tgid = mbti_list[k].tgid
  <2>1. MultiOpenRecord'
    BY <1>10 DEF MultiOpenRecord, Live, FilesOf, F, l
  <2>2. OneEntryPerTask'
    <3>1. ASSUME NEW g \in Files, filp'[g] = "open",
                 NEW j \in 1 .. Len(l), l[j].id = private_data'[g]
          PROVE  l[j].tgid = Owner[g]
      BY <1>10, <3>1
    <3> QED BY <1>10, <3>1 DEF OneEntryPerTask, l
  <2>3. AloneInOpen'
    <3>1. \A g \in Files : filp'[g] = "opening" => filp[g] = "opening"
      BY <1>5
    <3>2. ASSUME NEW g \in Files, filp'[g] = "opening", NEW j \in 1 .. Len(l)
          PROVE  l[j].tgid # Owner[g]
      BY <1>10, <3>1, <3>2 DEF Good, AloneInOpen, Positions
    <3> QED BY <3>1, <3>2 DEF Good, AloneInOpen, l
  <2> QED BY <2>1, <2>2, <2>3 DEF Good
<1>11. CASE mbti_list[i].count = 1
  <2>1. l = RemoveAt(mbti_list, i)
    BY <1>3, <1>11 DEF DropFile
  <2> HIDE DEF l
  <2> DEFINE at(j) == IF j < i THEN j ELSE j + 1
  <2>2. /\ l \in Seq(Entry) /\ Len(l) = n - 1
        /\ \A j \in 1 .. n - 1 : l[j] = mbti_list[at(j)]
    <3>1. \A j \in 1 .. n - 1 :
            l[j] = IF j < i THEN mbti_list[j] ELSE mbti_list[j + 1]
      BY <2>1, <1>4, RemoveAtFacts
    <3> QED BY <2>1, <3>1, <1>4, RemoveAtFacts
  <2>3. \A j \in 1 .. n - 1 : at(j) \in Positions /\ at(j) # i
    BY <1>4 DEF Positions
  <2>4. \A j, k \in 1 .. n - 1 : j # k => at(j) # at(k)
    BY <1>4
  <2>5. ASSUME NEW j \in Positions, j # i PROVE \E k \in 1 .. n - 1 : j = at(k)
    <3>1. CASE j < i
      <4>1. j \in 1 .. n - 1 /\ at(j) = j
        BY <3>1, <1>4 DEF Positions
      <4> QED BY <4>1
    <3>2. CASE j > i
      <4>1. j - 1 \in 1 .. n - 1 /\ at(j - 1) = j
        BY <3>2, <1>4 DEF Positions
      <4> QED BY <4>1
    <3> QED BY <3>1, <3>2, <2>5, <1>4 DEF Positions
  <2> HIDE DEF at
  <2>6. F(id) = {}
    BY <1>7, <1>11, FS_EmptySet
  <2>7. ASSUME NEW g \in Files, filp'[g] = "open"
        PROVE  \E k \in 1 .. n - 1 : l[k].id = private_data'[g]
                                     /\ l[k].tgid = Owner[g]
    <3>1. PICK j \in Positions : /\ mbti_list[j].id = private_data'[g]
                                 /\ mbti_list[j].tgid = Owner[g]
      BY <2>7, <1>8
    <3>2. j # i
      BY <2>6, <2>7, <3>1 DEF F
    <3> QED BY <2>2, <2>5, <3>1, <3>2
  <2>8. ASSUME NEW j \in 1 .. n - 1, NEW k \in 1 .. n - 1, j # k
        PROVE  l[j].tgid # l[k].tgid /\ l[j].id # l[k].id
    <3>1. PICK a \in Positions, b \in Positions : a = at(j) /\ b = at(k) /\ a # b
      BY <2>3, <2>4, <2>8
    <3>2. l[j] = mbti_list[a] /\ l[k] = mbti_list[b]
      BY <2>2, <3>1
    <3>3. mbti_list[a].tgid # mbti_list[b].tgid /\ mbti_list[a].id # mbti_list[b].id
      BY <3>1 DEF Good, OneEntryPerTask, Positions
    <3> QED BY <3>2, <3>3
  <2>9. ASSUME NEW j \in 1 .. n - 1
        PROVE  /\ l[j].count = Cardinality(F(l[j].id))
               /\ \E k \in Positions : l[j].tgid = mbti_list[k].tgid
    BY <2>2, <2>3, <1>9
  <2> QED BY <2>2, <2>7, <2>8, <2>9
<1>12. CASE mbti_list[i].count # 1
  <2>1. l = [mbti_list EXCEPT ![i] = e]
    BY <1>3, <1>12 DEF DropFile
  <2>2. /\ e \in Entry /\ e.id = id /\ e.tgid = mbti_list[i].tgid
        /\ e.count = mbti_list[i].count - 1
    <3>1. mbti_list[i].count - 1 \in Nat \ {0}
      BY <1>4, <1>12
    <3> QED BY <3>1, <1>4 DEF Entry
  <2> HIDE DEF e, l
  <2>3. /\ l \in Seq(Entry) /\ Len(l) = n
        /\ \A j \in Positions : l[j] = IF j = i THEN e ELSE mbti_list[j]
    BY <2>1, <2>2, <1>4, ExceptSeq DEF Positions
  <2>4. \A j \in Positions : l[j].id = mbti_list[j].id
                             /\ l[j].tgid = mbti_list[j].tgid
    BY <2>2, <2>3
  <2>5. ASSUME NEW j \in Positions
        PROVE  l[j].count = Cardinality(F(l[j].id))
    BY <2>2, <2>3, <1>7, <1>9
  <2>6. ASSUME NEW j \in Positions, NEW k \in Positions, j # k
        PROVE  l[j].tgid # l[k].tgid /\ l[j].id # l[k].id
    BY <2>4, <2>6 DEF Good, OneEntryPerTask, Positions
  <2>7. ASSUME NEW g \in Files, filp'[g] = "open"
        PROVE  \E j \in Positions : l[j].id = private_data'[g]
                                    /\ l[j].tgid = Owner[g]
    BY <2>4, <2>7, <1>8
  <2> QED BY <2>3, <2>4, <2>5, <2>6, <2>7 DEF Positions
<1> QED BY <1>11, <1>12

(* After an overlap the tgid may come from a freed entry, and whatever     *)
(* entry is dropped the types hold.                                        *)
LEMMA ReleaseInv ==
  ASSUME IInv, NEW f \in Files, mb_release(f)
  PROVE  IInv'
<1>1. TypeOK
  BY DEF IInv
<1>2. mbti_list' \in Seq(Entry)
  <2>1. CASE \E i \in Positions : DropFile(i)
    BY <2>1, <1>1, DropFileType
  <2>2. CASE UNCHANGED mbti_list
    BY <2>2, <1>1, EntryTypes
  <2> QED BY <2>1, <2>2 DEF mb_release, Positions
<1>3. TypeOK'
  BY <1>1, <1>2 DEF TypeOK, Entry, mb_release
<1>4. ~overlapped' => Good'
  BY <1>1, ReleaseGood DEF IInv, mb_release
<1> QED BY <1>3, <1>4 DEF IInv

LEMMA NextInv == IInv /\ [Next]_vars => IInv'
<1> SUFFICES ASSUME IInv, [Next]_vars PROVE IInv'
  OBVIOUS
<1>1. CASE Next
  BY <1>1, OpenSearchInv, OpenAddInv, OpenFailsInv, OpenExistingInv, ReleaseInv
  DEF Next
<1>2. CASE UNCHANGED vars
  BY <1>2 DEF vars, IInv, TypeOK, Good, MultiOpenRecord, OneEntryPerTask,
              AloneInOpen, Live, FilesOf
<1> QED BY <1>1, <1>2

(* mb_open and mb_release keep every field of the task list in its type,   *)
(* and no entry stays on the list with a count of zero, also when threads  *)
(* of a task open at once and mb_release reads a freed entry.              *)
THEOREM TypeCorrect == Spec => []TypeOK
<1>1. Spec => []IInv
  BY InitInv, NextInv, PTL DEF Spec
<1>2. IInv => TypeOK
  BY DEF IInv
<1> QED BY <1>1, <1>2, PTL

(* Until two threads of one task meet in the allocation of mb_open, every  *)
(* open file points to the one live entry of its task, whose count is the  *)
(* number of such files: mb_release frees an entry with the last of them,  *)
(* whatever other tasks open and close while a thread sleeps in mb_open.   *)
THEOREM TaskFilesShareOneEntry == Spec => []FilesShareOneEntry
<1>1. Spec => []IInv
  BY InitInv, NextInv, PTL DEF Spec
<1>2. IInv => FilesShareOneEntry
  BY DEF IInv, Good, FilesShareOneEntry
<1> QED BY <1>1, <1>2, PTL
=============================================================================
