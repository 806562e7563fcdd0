--------------------------- MODULE BootEnvProofs ----------------------------
(***************************************************************************)
(* The boot environment for every set of callers, names and values and     *)
(* every size of the sectors: the lock is accounted for, what was stored   *)
(* survives a power cut at any step, and the two sectors implement         *)
(* EnvStore, each as long as the boot is free of the troubles that break   *)
(* it.                                                                     *)
(***************************************************************************)
EXTENDS BootEnv, ListLemmas

(* A sector whose CRC is wrong holds no environment.                       *)
SectorsOK == \A i \in Copies : flash[i].crc # "good" => flash[i].data = Empty

(* The indices name a good copy and the other one, or no copy exists.      *)
NoIndex == env_valid = ENV_INVALID /\ env_invalid = ENV_INVALID /\ ~HasCopy
TwoIndices ==
  /\ env_valid \in Copies /\ env_invalid = 1 - env_valid
  /\ flash[env_valid].crc = "good"
IndicesOK == mtd_init => NoIndex \/ TwoIndices

(* Between updates, and until the new copy is written, the index is the    *)
(* one that the next boot would find.                                      *)
IndexIsValid ==
  mtd_init /\ (\A p \in Procs : pc[p] # "mark") => env_valid = Valid(flash)

(* What an update has done so far.                                         *)
Updating == {"erase", "noerase", "mark"}
New == [crc |-> "good", flags |-> 1, data |-> ram.data]
UpdateOK ==
  \A p \in Procs :
    /\ pc[p] \in Updating => mtd_init /\ TwoIndices /\ req[p].op = "set"
    /\ pc[p] = "erase" => flash[env_invalid] = Erased /\ Fits(ram.data)
    /\ pc[p] = "mark" => flash[env_invalid] = New

(* What holds in a boot without trouble.                                   *)
Core ==
  /\ TypeOK /\ LockExact
  /\ SectorsOK /\ IndicesOK /\ IndexIsValid /\ UpdateOK
  /\ StoredIsFound /\ StoredIsSeen /\ WildOnlyIfEmpty

(* What holds in every boot, two updates at once and failed writes         *)
(* included: where the indices can point, that nothing is updated without  *)
(* them, and that RAM has what was acknowledged.                           *)
IndexBase ==
  /\ env_valid = ENV_INVALID <=> env_invalid = ENV_INVALID
  /\ mtd_init /\ env_invalid = ENV_INVALID => ~HasCopy
  /\ \A p \in Procs : pc[p] \in Updating => mtd_init /\ env_invalid \in Copies
                                             /\ ~wild
FoundIsKept == ~mtd_init => StoredIsFound
Base ==
  /\ TypeOK /\ SectorsOK /\ IndexBase
  /\ FoundIsKept /\ StoredIsSeen /\ WildOnlyIfEmpty

(* The inductive invariant.                                                *)
IInv == Base /\ LockAccounted /\ (Calm => Core)

-----------------------------------------------------------------------------
(* The queue of the lock.                                                  *)

LEMMA AppendQueue ==
  ASSUME NEW q \in Seq(Procs), NEW p \in Procs, p \notin Range(q),
         IsInjective(q)
  PROVE  /\ Append(q, p) \in Seq(Procs) /\ Append(q, p) # <<>>
         /\ Range(Append(q, p)) = Range(q) \cup {p}
         /\ IsInjective(Append(q, p))
<1> DEFINE a == Append(q, p)
<1>1. /\ a \in Seq(Procs) /\ Len(a) = Len(q) + 1 /\ Len(q) \in Nat
      /\ \A i \in 1 .. Len(q) : a[i] = q[i]
      /\ a[Len(q) + 1] = p /\ DOMAIN a = 1 .. Len(q) + 1
      /\ DOMAIN q = 1 .. Len(q) /\ a # <<>>
  BY AppendProperties
<1> HIDE DEF a
<1>2. Range(a) = Range(q) \cup {p}
  BY <1>1 DEF Range
<1>3. \A i \in 1 .. Len(q) : q[i] # p
  BY <1>1 DEF Range
<1>4. IsInjective(a)
  BY <1>1, <1>3 DEF IsInjective
<1> QED BY <1>1, <1>2, <1>4 DEF a

LEMMA TailQueue ==
  ASSUME NEW q \in Seq(Procs), q # <<>>, IsInjective(q)
  PROVE  /\ Tail(q) \in Seq(Procs) /\ Head(q) \in Range(q)
         /\ Range(Tail(q)) = Range(q) \ {Head(q)}
         /\ IsInjective(Tail(q))
<1> DEFINE t == Tail(q)
<1>1. /\ t \in Seq(Procs) /\ Len(t) = Len(q) - 1 /\ Len(q) \in Nat
      /\ Len(q) > 0 /\ Head(q) = q[1]
      /\ \A i \in 1 .. Len(t) : t[i] = q[i + 1]
      /\ DOMAIN t = 1 .. Len(t) /\ DOMAIN q = 1 .. Len(q)
  BY HeadTailProperties, EmptySeq
<1> HIDE DEF t
<1>2. \A i, j \in 1 .. Len(q) : q[i] = q[j] => i = j
  BY <1>1 DEF IsInjective
<1>3. ASSUME NEW x \in Range(q), x # q[1]
      PROVE  x \in Range(t)
  <2>1. PICK i \in 1 .. Len(q) : x = q[i]
    BY <1>1 DEF Range
  <2>2. i - 1 \in 1 .. Len(t) /\ t[i - 1] = q[i]
    BY <2>1, <1>1, <1>3
  <2> QED BY <2>1, <2>2, <1>1 DEF Range
<1>4. ASSUME NEW x \in Range(t)
      PROVE  x \in Range(q) /\ x # q[1]
  <2>1. PICK i \in 1 .. Len(t) : x = t[i]
    BY <1>1 DEF Range
  <2>2. i + 1 \in 1 .. Len(q) /\ x = q[i + 1] /\ i + 1 # 1
    BY <2>1, <1>1
  <2> QED BY <2>2, <1>1, <1>2 DEF Range
<1>5. \A i, j \in 1 .. Len(t) : t[i] = t[j] => i = j
  BY <1>1, <1>2
<1>6. IsInjective(t)
  BY <1>1, <1>5 DEF IsInjective
<1>7. 1 \in DOMAIN q
  BY <1>1
<1>8. Head(q) \in Range(q)
  BY <1>1, <1>7 DEF Range
<1>9. Range(t) = Range(q) \ {q[1]}
  BY <1>3, <1>4
<1> QED BY <1>1, <1>6, <1>8, <1>9 DEF t

LEMMA EmptyQueue ==
  <<>> \in Seq(Procs) /\ Range(<<>>) = {} /\ IsInjective(<<>>)
BY EmptySeq DEF Range, IsInjective

(* The caller inside the lock is alone there.                              *)
LEMMA AloneInside ==
  ASSUME LockExact, NEW p \in Procs, pc[p] \notin {"idle", "wait"}
  PROVE  sem = 0 /\ \A q \in Procs \ {p} : pc[q] \in {"idle", "wait"}
<1>1. p \in Inside
  BY DEF Inside
<1> QED BY <1>1 DEF LockExact, Inside

(* After up and return the lock is accounted for and nobody is updating.   *)
LEMMA ReturnLock ==
  ASSUME TypeOK, LockExact, NEW p \in Procs,
         pc[p] \notin {"idle", "wait"}, Return(p)
  PROVE  /\ LockExact'
         /\ sem' \in Nat /\ waiters' \in Seq(Procs)
         /\ pc' \in [Procs -> {"idle", "wait", "in"}]
         /\ req' \in [Procs -> Requests]
<1>1. sem = 0 /\ \A q \in Procs \ {p} : pc[q] \in {"idle", "wait"}
  BY AloneInside
<1>2. /\ waiters \in Seq(Procs) /\ IsInjective(waiters)
      /\ Range(waiters) = {q \in Procs : pc[q] = "wait"}
      /\ pc \in [Procs -> {"idle", "wait", "in", "erase", "noerase", "mark"}]
  BY DEF TypeOK, LockExact
<1>3. req' \in [Procs -> Requests]
  BY DEF Return, TypeOK, Requests
<1>4. CASE waiters = <<>>
  <2>1. sem' = 1 /\ waiters' = <<>> /\ pc' = [pc EXCEPT ![p] = "idle"]
    BY <1>1, <1>4 DEF Return
  <2>2. \A q \in Procs : pc[q] # "wait"
    BY <1>2, <1>4, EmptyQueue
  <2>3. /\ pc' \in [Procs -> {"idle", "wait", "in"}]
        /\ \A q \in Procs : pc'[q] = "idle"
    BY <2>1, <2>2, <1>1, <1>2
  <2>4. Inside' = {} /\ {q \in Procs : pc'[q] = "wait"} = {}
    BY <2>3 DEF Inside
  <2>5. LockExact'
    BY <2>1, <2>4, EmptyQueue DEF LockExact
  <2> QED BY <2>1, <2>3, <2>5, <1>3, EmptyQueue
<1>5. CASE waiters # <<>>
  <2> DEFINE h == Head(waiters)
  <2>1. /\ sem' = 0 /\ waiters' = Tail(waiters)
        /\ pc' = [pc EXCEPT ![p] = "idle", ![h] = "in"]
    BY <1>1, <1>5 DEF Return
  <2>2. /\ waiters' \in Seq(Procs) /\ IsInjective(waiters')
        /\ h \in Range(waiters) /\ Range(waiters') = Range(waiters) \ {h}
    BY <2>1, <1>2, <1>5, TailQueue
  <2>3. h \in Procs /\ pc[h] = "wait" /\ h # p
    BY <2>2, <1>2
  <2> HIDE DEF h
  <2>4. /\ pc' \in [Procs -> {"idle", "wait", "in"}]
        /\ pc'[h] = "in" /\ pc'[p] = "idle"
        /\ \A q \in Procs \ {p, h} : pc'[q] = pc[q]
    BY <2>1, <2>3, <1>1, <1>2
  <2>5. Inside' = {h}
    BY <2>3, <2>4, <1>1 DEF Inside
  <2>6. {q \in Procs : pc'[q] = "wait"} = Range(waiters) \ {h}
    BY <2>3, <2>4, <1>1, <1>2
  <2>7. LockExact'
    BY <2>1, <2>2, <2>3, <2>5, <2>6 DEF LockExact
  <2> QED BY <2>1, <2>2, <2>4, <2>7, <1>3
<1> QED BY <1>4, <1>5

(* A step of the caller inside, to another place inside.                   *)
LEMMA InsideLock ==
  ASSUME TypeOK, LockExact, NEW p \in Procs,
         pc[p] \notin {"idle", "wait"}, UNCHANGED lock,
         NEW w \in {"in", "erase", "noerase", "mark"},
         pc' = [pc EXCEPT ![p] = w]
  PROVE  LockExact'
<1>1. sem = 0 /\ \A q \in Procs \ {p} : pc[q] \in {"idle", "wait"}
  BY AloneInside
<1>2. pc \in [Procs -> {"idle", "wait", "in", "erase", "noerase", "mark"}]
  BY DEF TypeOK
<1>3. Inside' = {p}
  BY <1>1, <1>2 DEF Inside
<1>4. {q \in Procs : pc'[q] = "wait"} = {q \in Procs : pc[q] = "wait"}
  BY <1>1, <1>2
<1> QED BY <1>1, <1>3, <1>4 DEF LockExact, lock

-----------------------------------------------------------------------------
(* What read_env_after_mtd_init chooses.                                   *)

LEMMA ValidFacts ==
  ASSUME NEW s \in [Copies -> Sector]
  PROVE  /\ Valid(s) \in Copies \cup {ENV_INVALID}
         /\ Valid(s) \in Copies => s[Valid(s)].crc = "good"
         /\ Valid(s) = ENV_INVALID => \A i \in Copies : s[i].crc # "good"
<1>1. \A i \in Copies : s[i].flags \in {0, 1}
  BY DEF Sector
<1> QED BY <1>1 DEF Valid, Is, Copies, ENV_INVALID

(* A spoilt copy beside the chosen one changes nothing.                    *)
LEMMA ValidSpoilt ==
  ASSUME NEW s \in [Copies -> Sector], NEW t \in [Copies -> Sector],
         Valid(s) \in Copies,
         t[Valid(s)] = s[Valid(s)], t[1 - Valid(s)].crc # "good"
  PROVE  Valid(t) = Valid(s)
<1>1. \A i \in Copies : s[i].flags \in {0, 1} /\ t[i].flags \in {0, 1}
  BY DEF Sector
<1>2. s[Valid(s)].crc = "good"
  BY ValidFacts
<1> QED BY <1>1, <1>2 DEF Valid, Is, Copies, ENV_INVALID

(* A new active copy beside a good one: either is found.                   *)
LEMMA ValidWritten ==
  ASSUME NEW s \in [Copies -> Sector], NEW v \in Copies,
         s[1 - v].crc = "good", s[1 - v].flags = 1
  PROVE  /\ Valid(s) \in Copies
         /\ ~Is(s, v, 1) => Valid(s) = 1 - v
BY DEF Valid, Is, Copies, ENV_INVALID, Sector

(* The environment the callers of this boot see.                           *)
View == IF mtd_init THEN ram.data ELSE Recovered(flash)

(* What a call works with once env_init has run.                           *)
LEMMA NowFacts ==
  ASSUME Core
  PROVE  /\ Ram \in Sector /\ Ram.data = View
         /\ \/ /\ ValidNow = ENV_INVALID /\ InvalidNow = ENV_INVALID
               /\ ~HasCopy
            \/ /\ ValidNow \in Copies /\ InvalidNow = 1 - ValidNow
               /\ flash[ValidNow].crc = "good"
         /\ (\A p \in Procs : pc[p] # "mark") => ValidNow = Valid(flash)
         /\ \A n \in Names : kept[n] # Unknown => Ram.data[n] = kept[n]
<1>1. flash \in [Copies -> Sector] /\ ram \in Sector
  BY DEF Core, TypeOK
<1>2. CASE mtd_init
  BY <1>1, <1>2 DEF Core, IndicesOK, NoIndex, TwoIndices, IndexIsValid, StoredIsSeen,
                    Ram, ValidNow, InvalidNow, View
<1>3. CASE ~mtd_init
  <2>1. Ram = Loaded(flash) /\ ValidNow = Valid(flash)
        /\ InvalidNow = Other(Valid(flash)) /\ View = Recovered(flash)
    BY <1>3 DEF Ram, ValidNow, InvalidNow, View
  <2>2. 1 \in Copies
    BY DEF Copies
  <2>3. CASE Valid(flash) = ENV_INVALID
    <3>1. ~HasCopy /\ flash[1].crc # "good"
      BY <2>2, <2>3, <1>1, ValidFacts DEF HasCopy
    <3>2. Ram = flash[1] /\ flash[1].data = Empty /\ View = Empty
      BY <2>1, <2>2, <2>3, <3>1 DEF Loaded, Recovered, Core, SectorsOK
    <3>3. \A n \in Names : kept[n] = Unknown
      BY <2>3 DEF Core, StoredIsFound
    <3> QED BY <3>1, <3>2, <3>3, <2>1, <2>2, <2>3, <1>1 DEF Other
  <2>4. CASE Valid(flash) # ENV_INVALID
    <3>1. Valid(flash) \in Copies /\ flash[Valid(flash)].crc = "good"
      BY <2>4, <1>1, ValidFacts
    <3>2. Ram = flash[Valid(flash)] /\ View = Ram.data
      BY <2>1, <2>4 DEF Loaded, Recovered
    <3>3. \A n \in Names : kept[n] # Unknown => View[n] = kept[n]
      BY <2>1 DEF Core, StoredIsFound
    <3> QED BY <3>1, <3>2, <3>3, <2>1, <2>4, <1>1 DEF Other
  <2> QED BY <2>3, <2>4
<1> QED BY <1>2, <1>3

(* A call that leaves the flash alone and returns.                         *)
LEMMA EndOfCall ==
  ASSUME Core, Calm',  NEW p \in Procs, pc[p] = "in", InitEnv, Return(p),
         UNCHANGED <<flash, wild>>, ram' \in Sector,
         kept' \in [Names -> Contents \cup {Unknown}],
         \A n \in Names : kept'[n] # Unknown =>
           kept'[n] = kept[n] /\ ram'.data[n] = Ram.data[n]
  PROVE  Core'
<1>1. /\ LockExact' /\ sem' \in Nat /\ waiters' \in Seq(Procs)
      /\ pc' \in [Procs -> {"idle", "wait", "in"}]
      /\ req' \in [Procs -> Requests]
  BY ReturnLock DEF Core
<1>2. \A q \in Procs : pc'[q] \notin Updating
  BY <1>1 DEF Updating
<1>3. \A q \in Procs : pc[q] # "mark"
  BY AloneInside DEF Core
<1>4. /\ ValidNow = Valid(flash)
      /\ \/ ValidNow = ENV_INVALID /\ InvalidNow = ENV_INVALID /\ ~HasCopy
         \/ /\ ValidNow \in Copies /\ InvalidNow = 1 - ValidNow
            /\ flash[ValidNow].crc = "good"
      /\ \A n \in Names : kept[n] # Unknown => Ram.data[n] = kept[n]
  BY <1>3, NowFacts
<1>5. mtd_init' /\ env_valid' = ValidNow /\ env_invalid' = InvalidNow
  BY DEF InitEnv
<1>6. TypeOK'
  <2>1. env_valid' \in Copies \cup {ENV_INVALID}
        /\ env_invalid' \in Copies \cup {ENV_INVALID}
    BY <1>4, <1>5 DEF Copies
  <2> QED BY <2>1, <1>1, <1>5 DEF Core, TypeOK, Calm
<1>7. SectorsOK' /\ WildOnlyIfEmpty'
  BY DEF Core, SectorsOK, WildOnlyIfEmpty, HasCopy
<1>8. IndicesOK'
  BY <1>4, <1>5 DEF IndicesOK, NoIndex, TwoIndices, HasCopy
<1>9. IndexIsValid'
  BY <1>4, <1>5 DEF IndexIsValid
<1>10. UpdateOK'
  BY <1>2 DEF UpdateOK, Updating
<1>11. StoredIsFound' /\ StoredIsSeen'
  BY <1>4 DEF Core, StoredIsFound, StoredIsSeen
<1> QED BY <1>1, <1>6, <1>7, <1>8, <1>9, <1>10, <1>11 DEF Core

-----------------------------------------------------------------------------
(* The inductive invariant holds at first and is kept, action by action.   *)

LEMMA InitInv == Init => Core
<1> SUFFICES ASSUME Init PROVE Core
  OBVIOUS
<1> USE EnvAssumption
<1>1. flash \in [Copies -> Sector]
  BY DEF Init
<1>2. SectorsOK
  BY DEF Init, SectorsOK, Erased, Spoilt
<1>3. Empty \in Envs /\ Spoilt \in Sector /\ NoRequest \in Requests
  BY DEF Empty, Envs, Contents, Spoilt, Sector, NoRequest, Requests
<1>4. Recovered(flash) \in Envs
  <2>1. Valid(flash) # ENV_INVALID => Valid(flash) \in Copies
    BY <1>1, ValidFacts
  <2> QED BY <2>1, <1>1, <1>3 DEF Recovered, Sector
<1>5. kept \in [Names -> Contents \cup {Unknown}]
  BY <1>4 DEF Init, Envs, Found
<1>6. TypeOK
  BY <1>1, <1>3, <1>5, EmptyQueue DEF Init, TypeOK
<1>7. LockExact
  <2>1. Inside = {} /\ {p \in Procs : pc[p] = "wait"} = {}
    BY DEF Init, Inside
  <2> QED BY <2>1, EmptyQueue DEF Init, LockExact
<1>8. StoredIsFound
  BY <1>1, <1>4 DEF StoredIsFound, Init, Found
<1>9. IndicesOK /\ IndexIsValid /\ StoredIsSeen /\ WildOnlyIfEmpty
  BY DEF Init, IndicesOK, IndexIsValid, StoredIsSeen, WildOnlyIfEmpty
<1>10. UpdateOK
  BY DEF Init, UpdateOK, Updating
<1> QED BY <1>2, <1>6, <1>7, <1>8, <1>9, <1>10 DEF Core

LEMMA CallLock ==
  ASSUME TypeOK, LockExact, NEW p \in Procs, NEW r \in Requests, Call(p, r)
  PROVE  LockExact'
<1>0. /\ pc[p] = "idle" /\ req' = [req EXCEPT ![p] = r]
      /\ UNCHANGED <<flash, ram, mtd_init, env_valid, env_invalid, wild, kept>>
  BY DEF Call, index
<1>1. /\ waiters \in Seq(Procs) /\ IsInjective(waiters)
      /\ Range(waiters) = {q \in Procs : pc[q] = "wait"}
      /\ sem \in Nat /\ req \in [Procs -> Requests]
      /\ pc \in [Procs -> {"idle", "wait", "in", "erase", "noerase", "mark"}]
      /\ IF sem = 0 THEN \E q \in Procs : Inside = {q}
         ELSE sem = 1 /\ Inside = {} /\ waiters = <<>>
  BY DEF TypeOK, LockExact
<1>2. PICK w \in {"in", "wait"} :
        /\ pc' = [pc EXCEPT ![p] = w]
        /\ w = "in" => sem > 0 /\ sem' = sem - 1 /\ UNCHANGED waiters
        /\ w = "wait" => /\ sem = 0 /\ waiters' = Append(waiters, p)
                         /\ UNCHANGED sem
  BY DEF Call
<1>3. /\ pc' \in [Procs -> {"idle", "wait", "in", "erase", "noerase", "mark"}]
      /\ pc'[p] = w /\ \A q \in Procs \ {p} : pc'[q] = pc[q]
  BY <1>1, <1>2
<1>4. CASE w = "in"
  <2>1. sem = 1 /\ sem' = 0 /\ Inside = {} /\ waiters' = waiters
    BY <1>4, <1>1, <1>2
  <2>2. Inside' = {p}
    BY <2>1, <1>4, <1>3 DEF Inside
  <2>3. {q \in Procs : pc'[q] = "wait"} = {q \in Procs : pc[q] = "wait"}
    BY <1>4, <1>0, <1>3
  <2> QED BY <2>1, <2>2, <2>3, <1>1 DEF LockExact
<1>5. CASE w = "wait"
  <2>1. sem = 0 /\ sem' = 0 /\ waiters' = Append(waiters, p)
    BY <1>5, <1>2
  <2>2. Inside' = Inside
    BY <1>5, <1>0, <1>3 DEF Inside
  <2>3. {q \in Procs : pc'[q] = "wait"}
          = {q \in Procs : pc[q] = "wait"} \cup {p}
    BY <1>5, <1>3
  <2>4. p \notin Range(waiters)
    BY <1>0, <1>1
  <2>5. /\ Append(waiters, p) \in Seq(Procs)
        /\ Range(Append(waiters, p)) = Range(waiters) \cup {p}
        /\ IsInjective(Append(waiters, p))
    BY <2>4, <1>1, AppendQueue
  <2> QED BY <2>1, <2>2, <2>3, <2>5, <1>1 DEF LockExact
<1> QED BY <1>4, <1>5

LEMMA CallInv ==
  ASSUME Core, Calm, Calm', NEW p \in Procs, NEW r \in Requests, Call(p, r)
  PROVE  Core'
<1>0. /\ pc[p] = "idle" /\ req' = [req EXCEPT ![p] = r]
      /\ UNCHANGED <<flash, ram, mtd_init, env_valid, env_invalid, wild, kept>>
  BY DEF Call, index
<1>1. /\ waiters \in Seq(Procs) /\ IsInjective(waiters)
      /\ Range(waiters) = {q \in Procs : pc[q] = "wait"}
      /\ sem \in Nat /\ req \in [Procs -> Requests]
      /\ pc \in [Procs -> {"idle", "wait", "in", "erase", "noerase", "mark"}]
      /\ IF sem = 0 THEN \E q \in Procs : Inside = {q}
         ELSE sem = 1 /\ Inside = {} /\ waiters = <<>>
  BY DEF Core, TypeOK, LockExact
<1>2. PICK w \in {"in", "wait"} :
        /\ pc' = [pc EXCEPT ![p] = w]
        /\ w = "in" => sem > 0 /\ sem' = sem - 1 /\ UNCHANGED waiters
        /\ w = "wait" => /\ sem = 0 /\ waiters' = Append(waiters, p)
                         /\ UNCHANGED sem
  BY DEF Call
<1>3. /\ pc' \in [Procs -> {"idle", "wait", "in", "erase", "noerase", "mark"}]
      /\ pc'[p] = w /\ \A q \in Procs \ {p} : pc'[q] = pc[q]
  BY <1>1, <1>2
<1>4. /\ LockExact' /\ sem' \in Nat /\ waiters' \in Seq(Procs)
  BY <1>1, <1>2, CallLock, AppendProperties DEF Core
<1>5. TypeOK'
  BY <1>0, <1>1, <1>3, <1>4 DEF Core, TypeOK, Calm
<1>6. SectorsOK' /\ IndicesOK' /\ StoredIsFound' /\ StoredIsSeen' /\ WildOnlyIfEmpty'
  BY <1>0 DEF Core, SectorsOK, IndicesOK, NoIndex, TwoIndices, StoredIsFound, StoredIsSeen,
              WildOnlyIfEmpty, HasCopy
<1>7. IndexIsValid'
  <2>1. (\A q \in Procs : pc'[q] # "mark") => (\A q \in Procs : pc[q] # "mark")
    BY <1>0, <1>3
  <2> QED BY <2>1, <1>0 DEF Core, IndexIsValid
<1>8. UpdateOK'
  <2>1. \A q \in Procs : pc'[q] \in Updating => q # p /\ pc'[q] = pc[q]
    BY <1>3 DEF Updating
  <2>2. \A q \in Procs \ {p} : req'[q] = req[q]
    BY <1>0, <1>1
  <2> QED BY <2>1, <2>2, <1>0 DEF Core, UpdateOK, Updating, TwoIndices, New
<1> QED BY <1>4, <1>5, <1>6, <1>7, <1>8 DEF Core

LEMMA LoadFailsInv ==
  ASSUME Core, Calm, Calm', NEW p \in Procs, LoadFails(p) PROVE Core'
BY NowFacts, EndOfCall DEF LoadFails, Running, Core, TypeOK

LEMMA NoChangeInv ==
  ASSUME Core, Calm, Calm', NEW p \in Procs, NoChange(p) PROVE Core'
BY NowFacts, EndOfCall DEF NoChange, Running, Core, TypeOK

LEMMA SetTooLongInv ==
  ASSUME Core, Calm, Calm', NEW p \in Procs, SetTooLong(p) PROVE Core'
<1> DEFINE n == req[p].name
<1>1. /\ pc[p] = "in" /\ InitEnv /\ Return(p) /\ UNCHANGED <<flash, wild>>
      /\ ram' = [Ram EXCEPT !.data = Cleared(p)]
      /\ kept' = [kept EXCEPT ![n] = Unknown]
  BY DEF SetTooLong, Running
<1>2. Ram \in Sector /\ Ram.data \in Envs
  BY NowFacts DEF Sector
<1>3. Cleared(p) \in Envs /\ \A m \in Names \ {n} : Cleared(p)[m] = Ram.data[m]
  BY <1>2 DEF Cleared, Envs, Contents
<1>4. ram' \in Sector /\ ram'.data = Cleared(p)
  BY <1>1, <1>2, <1>3 DEF Sector
<1>5. /\ kept' \in [Names -> Contents \cup {Unknown}]
      /\ \A m \in Names : kept'[m] # Unknown => m # n /\ kept'[m] = kept[m]
  BY <1>1 DEF Core, TypeOK
<1>6. \A m \in Names : kept'[m] # Unknown =>
        kept'[m] = kept[m] /\ ram'.data[m] = Ram.data[m]
  BY <1>3, <1>4, <1>5
<1> HIDE DEF n
<1> QED BY <1>1, <1>4, <1>5, <1>6, EndOfCall

(* The copy in RAM after a set.                                            *)
LEMMA SetRam ==
  ASSUME Core, NEW p \in Procs, Set(p)
  PROVE  /\ ram' \in Sector
         /\ ram'.data = [Ram.data EXCEPT ![req[p].name] = req[p].val]
         /\ req[p].name \in Names /\ req[p].val \in Contents
         /\ req[p].op = "set"
<1> DEFINE d == [Ram.data EXCEPT ![req[p].name] = req[p].val]
           c == [Ram EXCEPT !.crc = "good"]
<1>1. Ram \in Sector /\ Ram.data \in Envs
  BY NowFacts DEF Sector
<1>2. /\ req[p].name \in Names /\ req[p].val \in Contents
      /\ req[p].op = "set"
  BY DEF Set, Core, TypeOK, Requests, NoRequest, Contents
<1>3. d \in Envs
  BY <1>1, <1>2 DEF Envs
<1>4. c \in Sector /\ c.data = Ram.data
  BY <1>1 DEF Sector
<1>5. ram' = [c EXCEPT !.data = d]
  BY DEF Set, NewText
<1> HIDE DEF c, d
<1>6. ram' \in Sector /\ ram'.data = d
  BY <1>3, <1>4, <1>5 DEF Sector
<1> QED BY <1>2, <1>6 DEF d

LEMMA SetInv ==
  ASSUME Core, Calm, Calm', NEW p \in Procs, Set(p) PROVE Core'
<1> DEFINE n == req[p].name
           v == Valid(flash)
<1>1. /\ pc[p] = "in" /\ InitEnv /\ InvalidNow # ENV_INVALID
      /\ kept' = [kept EXCEPT ![n] = Unknown]
      /\ UNCHANGED <<sem, waiters, req, wild>>
  BY DEF Set, Running, lock
<1>2. PICK s \in {Erased, Spoilt, flash[InvalidNow]},
           w \in {"erase", "noerase"} :
        /\ flash' = [flash EXCEPT ![InvalidNow] = s]
        /\ pc' = [pc EXCEPT ![p] = w]
        /\ w = "erase" => s = Erased
  BY DEF Set
<1>3. \A q \in Procs \ {p} : pc[q] \in {"idle", "wait"}
  BY <1>1, AloneInside DEF Core
<1>4. /\ v = ValidNow /\ v \in Copies /\ InvalidNow = 1 - v
      /\ flash[v].crc = "good"
      /\ \A m \in Names : kept[m] # Unknown => Ram.data[m] = kept[m]
  BY <1>1, <1>3, NowFacts
<1>5. 1 - v \in Copies /\ 1 - v # v /\ v # ENV_INVALID
  BY <1>4 DEF Copies, ENV_INVALID
<1>6. /\ ram' \in Sector
      /\ ram'.data = [Ram.data EXCEPT ![n] = req[p].val]
      /\ n \in Names /\ req[p].op = "set"
  BY SetRam
<1>7. mtd_init' /\ env_valid' = v /\ env_invalid' = 1 - v
  BY <1>4 DEF Set, InitEnv
<1>8. flash \in [Copies -> Sector] /\ Ram \in Sector
  BY NowFacts DEF Core, TypeOK
<1>9. Erased \in Sector /\ Spoilt \in Sector
  BY DEF Erased, Spoilt, Sector, Empty, Envs, Contents
<1> HIDE DEF n, v
<1>10. /\ flash' \in [Copies -> Sector]
       /\ flash'[v] = flash[v] /\ flash'[1 - v] = s
  BY <1>2, <1>4, <1>5, <1>8, <1>9
<1>11. Valid(flash') = v
  <2>1. CASE s = flash[1 - v]
    <3>1. flash' = flash
      BY <2>1, <1>2, <1>4, <1>5, <1>8
    <3> QED BY <3>1 DEF v
  <2>2. CASE s # flash[1 - v]
    <3>1. s.crc # "good"
      BY <2>2, <1>2, <1>4 DEF Erased, Spoilt
    <3> QED BY <3>1, <1>4, <1>8, <1>10, ValidSpoilt DEF v
  <2> QED BY <2>1, <2>2
<1>12. LockExact'
  BY <1>1, <1>2, InsideLock DEF Core, lock
<1>13. /\ pc' \in [Procs -> {"idle", "wait", "in", "erase", "noerase", "mark"}]
       /\ pc'[p] = w /\ \A q \in Procs \ {p} : pc'[q] \in {"idle", "wait"}
  BY <1>2, <1>3 DEF Core, TypeOK
<1>14. /\ kept' \in [Names -> Contents \cup {Unknown}]
       /\ \A m \in Names : kept'[m] # Unknown => m # n /\ kept'[m] = kept[m]
  BY <1>1 DEF Core, TypeOK
<1>15. TypeOK'
  BY <1>1, <1>5, <1>6, <1>7, <1>10, <1>13, <1>14, <1>4 DEF Core, TypeOK, Calm
<1>16. SectorsOK'
  <2>1. \A i \in Copies : i = v \/ i = 1 - v
    BY <1>4 DEF Copies
  <2>2. s.crc # "good" => s.data = Empty
    BY <1>2, <1>4, <1>5 DEF Erased, Spoilt, Core, SectorsOK
  <2> QED BY <2>1, <2>2, <1>4, <1>10 DEF SectorsOK
<1>17. TwoIndices'
  BY <1>4, <1>7, <1>10 DEF TwoIndices
<1>18. IndicesOK' /\ IndexIsValid'
  BY <1>7, <1>11, <1>17 DEF IndicesOK, IndexIsValid
<1>19. UpdateOK'
  <2>1. Fits(ram'.data)
    BY <1>6 DEF Set, NewText, Calm, n
  <2>2. Fits(ram.data)'
    BY <2>1 DEF Fits, Used
  <2> QED BY <2>2, <1>1, <1>2, <1>6, <1>7, <1>10, <1>13, <1>17
          DEF UpdateOK, Updating
<1>20. StoredIsFound'
  <2>1. Recovered(flash') = Recovered(flash)
    BY <1>5, <1>10, <1>11 DEF Recovered, v
  <2> QED BY <2>1, <1>5, <1>11, <1>14 DEF Core, StoredIsFound
<1>21. StoredIsSeen'
  <2>1. \A m \in Names \ {n} : ram'.data[m] = Ram.data[m]
    BY <1>6, <1>8 DEF Sector, Envs
  <2> QED BY <2>1, <1>4, <1>14 DEF StoredIsSeen
<1>22. WildOnlyIfEmpty'
  <2>1. HasCopy
    BY <1>4 DEF HasCopy
  <2> QED BY <2>1, <1>1 DEF Core, WildOnlyIfEmpty
<1> QED BY <1>12, <1>15, <1>16, <1>18, <1>19, <1>20, <1>21, <1>22 DEF Core

LEMMA SetWildInv ==
  ASSUME Core, Calm, Calm', NEW p \in Procs, SetWild(p) PROVE Core'
<1>1. /\ UNCHANGED <<flash, ram, mtd_init, env_valid, env_invalid, sem,
                     waiters, pc, req, kept, trouble>>
      /\ wild' = TRUE /\ InvalidNow = ENV_INVALID
  BY DEF SetWild, index, lock
<1>2. ~HasCopy
  BY <1>1, NowFacts DEF Copies, ENV_INVALID
<1>3. TypeOK' /\ LockExact'
  BY <1>1 DEF Core, TypeOK, LockExact, Inside, Calm
<1>4. SectorsOK' /\ IndicesOK' /\ IndexIsValid' /\ UpdateOK' /\ StoredIsFound'
      /\ StoredIsSeen'
  BY <1>1 DEF Core, SectorsOK, IndicesOK, NoIndex, TwoIndices, IndexIsValid,
              UpdateOK, New, StoredIsFound, StoredIsSeen, HasCopy
<1>5. WildOnlyIfEmpty'
  BY <1>1, <1>2 DEF WildOnlyIfEmpty, HasCopy
<1> QED BY <1>3, <1>4, <1>5 DEF Core

LEMMA EraseFailedInv ==
  ASSUME Core, Calm, Calm', NEW p \in Procs, EraseFailed(p) PROVE Core'
<1>1. /\ pc[p] = "noerase" /\ Return(p)
      /\ UNCHANGED <<flash, ram, mtd_init, env_valid, env_invalid, wild, kept>>
  BY DEF EraseFailed, index
<1>2. /\ LockExact' /\ sem' \in Nat /\ waiters' \in Seq(Procs)
      /\ pc' \in [Procs -> {"idle", "wait", "in"}]
      /\ req' \in [Procs -> Requests]
  BY <1>1, ReturnLock DEF Core
<1>3. \A q \in Procs : pc[q] # "mark" /\ pc'[q] \notin Updating
  BY <1>1, <1>2, AloneInside DEF Core, Updating
<1>4. TypeOK'
  BY <1>1, <1>2 DEF Core, TypeOK, Calm
<1>5. SectorsOK' /\ IndicesOK' /\ StoredIsFound' /\ StoredIsSeen' /\ WildOnlyIfEmpty'
  BY <1>1 DEF Core, SectorsOK, IndicesOK, NoIndex, TwoIndices, StoredIsFound, StoredIsSeen,
              WildOnlyIfEmpty, HasCopy
<1>6. IndexIsValid' /\ UpdateOK'
  BY <1>1, <1>3 DEF Core, IndexIsValid, UpdateOK, Updating
<1> QED BY <1>2, <1>4, <1>5, <1>6 DEF Core

(* The states an update is in, for the two writes.                         *)
LEMMA UpdateFacts ==
  ASSUME Core, NEW p \in Procs, pc[p] \in {"erase", "mark"}
  PROVE  /\ mtd_init /\ env_valid \in Copies /\ env_invalid = 1 - env_valid
         /\ 1 - env_valid \in Copies /\ 1 - env_valid # env_valid
         /\ flash[env_valid].crc = "good"
         /\ \A i \in Copies : i = env_valid \/ i = 1 - env_valid
         /\ \A q \in Procs \ {p} : pc[q] \in {"idle", "wait"}
         /\ flash \in [Copies -> Sector] /\ ram \in Sector /\ ~wild
         /\ pc[p] = "erase" => /\ flash[1 - env_valid] = Erased
                               /\ Valid(flash) = env_valid
                               /\ Fits(ram.data)
         /\ pc[p] = "mark" => flash[1 - env_valid] = New
<1>1. mtd_init /\ TwoIndices
  BY DEF Core, UpdateOK, Updating
<1>2. \A q \in Procs \ {p} : pc[q] \in {"idle", "wait"}
  BY AloneInside DEF Core
<1>3. pc[p] = "erase" => Valid(flash) = env_valid
  BY <1>1, <1>2 DEF Core, IndexIsValid
<1>4. /\ pc[p] = "erase" => flash[1 - env_valid] = Erased /\ Fits(ram.data)
      /\ pc[p] = "mark" => flash[1 - env_valid] = New
  BY <1>1 DEF Core, UpdateOK, TwoIndices
<1>5. env_valid \in Copies => /\ 1 - env_valid \in Copies
                              /\ 1 - env_valid # env_valid
                              /\ \A i \in Copies : \/ i = env_valid
                                                   \/ i = 1 - env_valid
  BY DEF Copies
<1>6. ~wild
  BY <1>1 DEF Core, WildOnlyIfEmpty, TwoIndices, HasCopy, TypeOK
<1> QED BY <1>1, <1>2, <1>3, <1>4, <1>5, <1>6 DEF Core, TypeOK, TwoIndices

(* What the two writes leave in the flash.                                 *)
LEMMA WriteNewFlash ==
  ASSUME Core, Calm, Calm', NEW p \in Procs, WriteNew(p)
  PROVE  /\ flash' \in [Copies -> Sector]
         /\ flash'[env_valid] = flash[env_valid]
         /\ flash'[1 - env_valid] = New
         /\ ram' \in Sector /\ ram'.data = ram.data
<1>1. pc[p] = "erase"
  BY DEF WriteNew
<1>2. /\ env_valid \in Copies /\ env_invalid = 1 - env_valid
      /\ 1 - env_valid \in Copies /\ 1 - env_valid # env_valid
      /\ flash[1 - env_valid] = Erased /\ Fits(ram.data)
      /\ flash \in [Copies -> Sector] /\ ram \in Sector
  BY <1>1, UpdateFacts
<1>3. Programmed(Erased, Image(ram.data, req[p].name)) = New
  BY <1>2 DEF Programmed, Image, Erased, New
<1>4. flash' = [flash EXCEPT ![1 - env_valid] = New]
  BY <1>2, <1>3 DEF WriteNew, Write, Calm
<1>5. New \in Sector
  BY <1>2 DEF New, Sector
<1>6. ram' \in Sector /\ ram'.data = ram.data
  BY <1>2 DEF WriteNew, Sector
<1> QED BY <1>2, <1>4, <1>5, <1>6

LEMMA MarkOldFlash ==
  ASSUME Core, Calm, Calm', NEW p \in Procs, MarkOld(p)
  PROVE  /\ flash' \in [Copies -> Sector]
         /\ flash'[1 - env_valid] = New
         /\ flash'[env_valid].crc = "good"
         /\ Valid(flash') = 1 - env_valid
<1>1. pc[p] = "mark"
  BY DEF MarkOld
<1>2. /\ env_valid \in Copies
      /\ 1 - env_valid \in Copies /\ 1 - env_valid # env_valid
      /\ flash[env_valid].crc = "good" /\ flash[1 - env_valid] = New
      /\ flash \in [Copies -> Sector] /\ ram \in Sector
  BY <1>1, UpdateFacts
<1> DEFINE o == Obsolete(flash[env_valid])
<1>3. o \in Sector /\ o.crc = "good" /\ o.flags = 0
  BY <1>2 DEF Obsolete, Sector
<1>4. flash' = [flash EXCEPT ![env_valid] = o]
  BY DEF MarkOld, Write, Calm
<1> HIDE DEF o
<1>5. /\ flash' \in [Copies -> Sector] /\ flash'[env_valid] = o
      /\ flash'[1 - env_valid] = New
  BY <1>2, <1>3, <1>4
<1>6. New.crc = "good" /\ New.flags = 1
  BY DEF New
<1>7. ~Is(flash', env_valid, 1)
  BY <1>3, <1>5 DEF Is
<1> QED BY <1>2, <1>3, <1>5, <1>6, <1>7, ValidWritten

LEMMA WriteNewInv ==
  ASSUME Core, Calm, Calm', NEW p \in Procs, WriteNew(p) PROVE Core'
<1>1. /\ pc[p] = "erase" /\ pc' = [pc EXCEPT ![p] = "mark"]
      /\ UNCHANGED <<mtd_init, env_valid, env_invalid, sem, waiters, req,
                     wild, kept>>
  BY DEF WriteNew, index, lock
<1>2. /\ mtd_init /\ env_valid \in Copies /\ env_invalid = 1 - env_valid
      /\ flash[env_valid].crc = "good"
      /\ \A i \in Copies : i = env_valid \/ i = 1 - env_valid
      /\ \A q \in Procs \ {p} : pc[q] \in {"idle", "wait"}
      /\ Valid(flash) = env_valid /\ ~wild /\ ram \in Sector
  BY <1>1, UpdateFacts
<1>3. /\ flash' \in [Copies -> Sector]
      /\ flash'[env_valid] = flash[env_valid] /\ flash'[1 - env_valid] = New
      /\ ram' \in Sector /\ ram'.data = ram.data
  BY WriteNewFlash
<1>4. New.crc = "good" /\ New.flags = 1 /\ New.data = ram.data
  BY DEF New
<1>5. /\ pc' \in [Procs -> {"idle", "wait", "in", "erase", "noerase", "mark"}]
      /\ pc'[p] = "mark" /\ \A q \in Procs \ {p} : pc'[q] \in {"idle", "wait"}
  BY <1>1, <1>2 DEF Core, TypeOK
<1>6. LockExact'
  BY <1>1, InsideLock DEF Core, lock
<1>7. TypeOK'
  BY <1>1, <1>3, <1>5 DEF Core, TypeOK, Calm
<1>8. SectorsOK'
  BY <1>2, <1>3, <1>4 DEF SectorsOK
<1>9. TwoIndices'
  BY <1>1, <1>2, <1>3 DEF TwoIndices
<1>10. IndicesOK' /\ IndexIsValid'
  BY <1>5, <1>9 DEF IndicesOK, IndexIsValid
<1>11. UpdateOK'
  <2>1. New' = New
    BY <1>3 DEF New
  <2>2. req[p].op = "set"
    BY <1>1 DEF Core, UpdateOK, Updating
  <2> QED BY <2>1, <2>2, <1>1, <1>2, <1>3, <1>5, <1>9 DEF UpdateOK, Updating
<1>12. StoredIsSeen'
  BY <1>1, <1>3 DEF Core, StoredIsSeen
<1>13. StoredIsFound'
  <2>1. Valid(flash') \in Copies
    BY <1>2, <1>3, <1>4, ValidWritten
  <2>2. Valid(flash') # ENV_INVALID /\ Valid(flash) # ENV_INVALID
    BY <2>1, <1>2 DEF Copies, ENV_INVALID
  <2>3. Recovered(flash') \in {Recovered(flash), ram.data}
    BY <2>1, <2>2, <1>2, <1>3, <1>4 DEF Recovered
  <2> QED BY <2>2, <2>3, <1>1, <1>2 DEF Core, StoredIsFound, StoredIsSeen
<1>14. WildOnlyIfEmpty'
  BY <1>1, <1>2 DEF WildOnlyIfEmpty
<1> QED BY <1>6, <1>7, <1>8, <1>10, <1>11, <1>12, <1>13, <1>14 DEF Core

LEMMA MarkOldInv ==
  ASSUME Core, Calm, Calm', NEW p \in Procs, MarkOld(p) PROVE Core'
<1> DEFINE n == req[p].name
<1>1. /\ pc[p] = "mark" /\ Return(p)
      /\ env_valid' = env_invalid /\ env_invalid' = env_valid
      /\ kept' = [kept EXCEPT ![n] =
                    IF ram.data[n] = req[p].val THEN req[p].val ELSE Unknown]
      /\ UNCHANGED <<ram, mtd_init, wild>>
  BY DEF MarkOld
<1>2. /\ mtd_init /\ env_valid \in Copies /\ env_invalid = 1 - env_valid
      /\ 1 - env_valid \in Copies /\ env_valid = 1 - (1 - env_valid)
      /\ \A i \in Copies : i = env_valid \/ i = 1 - env_valid
      /\ ~wild /\ ram \in Sector
  BY <1>1, UpdateFacts DEF Copies
<1>3. /\ flash' \in [Copies -> Sector] /\ flash'[1 - env_valid] = New
      /\ flash'[env_valid].crc = "good" /\ Valid(flash') = 1 - env_valid
  BY MarkOldFlash
<1>4. New.crc = "good" /\ New.data = ram.data
  BY DEF New
<1>5. /\ LockExact' /\ sem' \in Nat /\ waiters' \in Seq(Procs)
      /\ pc' \in [Procs -> {"idle", "wait", "in"}]
      /\ req' \in [Procs -> Requests]
  BY <1>1, ReturnLock DEF Core
<1>6. req[p].val \in Contents
  <2>1. req[p].op = "set"
    BY <1>1 DEF Core, UpdateOK, Updating
  <2> QED BY <2>1 DEF Core, TypeOK, Requests, NoRequest, Contents
<1>7. /\ kept' \in [Names -> Contents \cup {Unknown}]
      /\ \A m \in Names : kept'[m] # Unknown => ram.data[m] = kept'[m]
  BY <1>1, <1>2, <1>6 DEF Core, TypeOK, StoredIsSeen
<1>8. TypeOK'
  BY <1>1, <1>2, <1>3, <1>5, <1>7 DEF Core, TypeOK, Calm
<1>9. SectorsOK'
  BY <1>2, <1>3, <1>4 DEF SectorsOK
<1>10. IndicesOK' /\ IndexIsValid'
  BY <1>1, <1>2, <1>3, <1>4 DEF IndicesOK, TwoIndices, IndexIsValid
<1>11. UpdateOK'
  BY <1>5 DEF UpdateOK, Updating
<1>12. StoredIsSeen'
  BY <1>1, <1>7 DEF StoredIsSeen
<1>13. StoredIsFound'
  <2>1. 1 - env_valid # ENV_INVALID
    BY <1>2 DEF Copies, ENV_INVALID
  <2>2. Recovered(flash') = ram.data
    BY <2>1, <1>3, <1>4 DEF Recovered
  <2> QED BY <2>1, <2>2, <1>3, <1>7 DEF StoredIsFound
<1>14. WildOnlyIfEmpty'
  BY <1>1, <1>2 DEF WildOnlyIfEmpty
<1> QED BY <1>5, <1>8, <1>9, <1>10, <1>11, <1>12, <1>13, <1>14 DEF Core

(* A power cut changes nothing but a copy that is not the chosen one.      *)
LEMMA CrashFlash ==
  ASSUME Core, Crash
  PROVE  /\ flash' \in [Copies -> Sector] /\ SectorsOK'
         /\ Valid(flash') = Valid(flash)
         /\ Recovered(flash') = Recovered(flash)
         /\ HasCopy => HasCopy'
<1>1. CASE flash' = flash
  BY <1>1 DEF Core, TypeOK, SectorsOK, HasCopy
<1>2. CASE /\ \E p \in Procs : pc[p] = "erase"
           /\ flash' = [flash EXCEPT ![env_invalid] = Spoilt]
  <2>1. PICK p \in Procs : pc[p] = "erase"
    BY <1>2
  <2>2. /\ env_valid \in Copies /\ env_invalid = 1 - env_valid
        /\ 1 - env_valid \in Copies /\ 1 - env_valid # env_valid
        /\ \A i \in Copies : i = env_valid \/ i = 1 - env_valid
        /\ flash[env_valid].crc = "good" /\ Valid(flash) = env_valid
        /\ flash \in [Copies -> Sector]
    BY <2>1, UpdateFacts
  <2>3. Spoilt \in Sector /\ Spoilt.crc # "good" /\ Spoilt.data = Empty
    BY DEF Spoilt, Sector, Empty, Envs, Contents
  <2>4. /\ flash' \in [Copies -> Sector]
        /\ flash'[env_valid] = flash[env_valid]
        /\ flash'[1 - env_valid] = Spoilt
    BY <2>2, <2>3, <1>2
  <2>5. Valid(flash') = env_valid
    BY <2>2, <2>3, <2>4, ValidSpoilt
  <2>6. Recovered(flash') = Recovered(flash)
    BY <2>2, <2>4, <2>5 DEF Recovered
  <2>7. HasCopy' /\ SectorsOK'
    BY <2>2, <2>3, <2>4 DEF HasCopy, SectorsOK
  <2> QED BY <2>2, <2>4, <2>5, <2>6, <2>7
<1> QED BY <1>1, <1>2 DEF Crash

LEMMA UnchangedInv == ASSUME Core, UNCHANGED vars PROVE Core'
<1>1. UNCHANGED <<flash, ram, mtd_init, env_valid, env_invalid, sem, waiters,
                  pc, req, wild, kept, trouble>>
  BY DEF vars, index, lock
<1>2. TypeOK' /\ LockExact'
  BY <1>1 DEF Core, TypeOK, LockExact, Inside
<1>3. SectorsOK' /\ IndicesOK' /\ IndexIsValid' /\ UpdateOK' /\ StoredIsFound'
      /\ StoredIsSeen' /\ WildOnlyIfEmpty'
  BY <1>1 DEF Core, SectorsOK, IndicesOK, NoIndex, TwoIndices, IndexIsValid,
              UpdateOK, New, StoredIsFound, StoredIsSeen, HasCopy, WildOnlyIfEmpty
<1> QED BY <1>2, <1>3 DEF Core

-----------------------------------------------------------------------------
(* What holds in every boot, action by action.                             *)

LEMMA NowBase ==
  ASSUME Base
  PROVE  /\ Ram \in Sector
         /\ ValidNow \in Copies \cup {ENV_INVALID}
         /\ InvalidNow \in Copies \cup {ENV_INVALID}
         /\ ValidNow = ENV_INVALID <=> InvalidNow = ENV_INVALID
         /\ InvalidNow = ENV_INVALID => ~HasCopy
         /\ \A n \in Names : kept[n] # Unknown => Ram.data[n] = kept[n]
<1>1. flash \in [Copies -> Sector] /\ ram \in Sector
  BY DEF Base, TypeOK
<1>2. CASE mtd_init
  BY <1>1, <1>2 DEF Base, TypeOK, IndexBase, StoredIsSeen, Ram, ValidNow,
                    InvalidNow
<1>3. CASE ~mtd_init
  <2>1. /\ Ram = Loaded(flash) /\ ValidNow = Valid(flash)
        /\ InvalidNow = Other(Valid(flash)) /\ 1 \in Copies
    BY <1>3 DEF Ram, ValidNow, InvalidNow, Copies
  <2>2. /\ Valid(flash) \in Copies \cup {ENV_INVALID}
        /\ Valid(flash) = ENV_INVALID => ~HasCopy
    BY <1>1, ValidFacts DEF HasCopy
  <2>3. StoredIsFound
    BY <1>3 DEF Base, FoundIsKept
  <2>4. CASE Valid(flash) = ENV_INVALID
    <3>1. Ram = flash[1] /\ InvalidNow = ENV_INVALID
      BY <2>1, <2>4 DEF Loaded, Other
    <3>2. \A n \in Names : kept[n] = Unknown
      BY <2>3, <2>4 DEF StoredIsFound
    <3> QED BY <3>1, <3>2, <2>1, <2>2, <2>4, <1>1
  <2>5. CASE Valid(flash) # ENV_INVALID
    <3>1. Ram = flash[Valid(flash)] /\ InvalidNow = 1 - Valid(flash)
      BY <2>1, <2>5 DEF Loaded, Other
    <3>2. Valid(flash) \in Copies /\ 1 - Valid(flash) \in Copies
          /\ 1 - Valid(flash) # ENV_INVALID
      BY <2>2, <2>5 DEF Copies, ENV_INVALID
    <3>3. Recovered(flash) = Ram.data
      BY <3>1, <2>5 DEF Recovered
    <3> QED BY <3>1, <3>2, <3>3, <2>1, <2>3, <2>5, <1>1 DEF StoredIsFound
  <2> QED BY <2>4, <2>5
<1> QED BY <1>2, <1>3

LEMMA ReturnBase ==
  ASSUME TypeOK, NEW p \in Procs, Return(p)
  PROVE  /\ sem' \in Nat /\ waiters' \in Seq(Procs)
         /\ pc' \in [Procs -> {"idle", "wait", "in", "erase", "noerase", "mark"}]
         /\ req' \in [Procs -> Requests]
         /\ \A q \in Procs : pc'[q] \in Updating => pc'[q] = pc[q]
<1>1. /\ waiters \in Seq(Procs) /\ sem \in Nat /\ req \in [Procs -> Requests]
      /\ pc \in [Procs -> {"idle", "wait", "in", "erase", "noerase", "mark"}]
  BY DEF TypeOK
<1>2. req' \in [Procs -> Requests]
  BY <1>1 DEF Return, Requests
<1>3. CASE waiters = <<>>
  BY <1>1, <1>2, <1>3 DEF Return, Updating
<1>4. CASE waiters # <<>>
  <2>1. Head(waiters) \in Procs /\ Tail(waiters) \in Seq(Procs)
    BY <1>1, <1>4, HeadTailProperties
  <2> QED BY <2>1, <1>1, <1>2, <1>4 DEF Return, Updating
<1> QED BY <1>3, <1>4

(* A call that leaves the flash alone and returns.                         *)
LEMMA EndBase ==
  ASSUME Base, NEW p \in Procs, InitEnv, Return(p),
         UNCHANGED <<flash, wild, trouble>>, ram' \in Sector,
         kept' \in [Names -> Contents \cup {Unknown}],
         \A n \in Names : kept'[n] # Unknown =>
           kept'[n] = kept[n] /\ ram'.data[n] = Ram.data[n]
  PROVE  Base'
<1>1. /\ sem' \in Nat /\ waiters' \in Seq(Procs) /\ req' \in [Procs -> Requests]
      /\ pc' \in [Procs -> {"idle", "wait", "in", "erase", "noerase", "mark"}]
      /\ \A q \in Procs : pc'[q] \in Updating => pc'[q] = pc[q]
  BY ReturnBase DEF Base
<1>2. mtd_init' = TRUE /\ env_valid' = ValidNow /\ env_invalid' = InvalidNow
  BY DEF InitEnv
<1>3. TypeOK'
  BY <1>1, <1>2, NowBase DEF Base, TypeOK
<1>4. IndexBase'
  <2>1. HasCopy' = HasCopy
    BY DEF HasCopy
  <2>2. \A q \in Procs : pc'[q] \in Updating => mtd_init /\ ~wild
                           /\ env_invalid \in Copies
    BY <1>1 DEF Base, IndexBase
  <2>3. mtd_init => InvalidNow = env_invalid
    BY DEF InvalidNow
  <2> QED BY <2>1, <2>2, <2>3, <1>2, NowBase DEF IndexBase
<1>5. SectorsOK' /\ WildOnlyIfEmpty' /\ FoundIsKept'
  BY <1>2 DEF Base, SectorsOK, WildOnlyIfEmpty, HasCopy, FoundIsKept
<1>6. StoredIsSeen'
  BY NowBase DEF StoredIsSeen
<1> QED BY <1>3, <1>4, <1>5, <1>6 DEF Base

LEMMA NoChangeBase ==
  ASSUME Base, NEW p \in Procs, LoadFails(p) \/ NoChange(p) PROVE Base'
BY NowBase, EndBase DEF LoadFails, NoChange, Base, TypeOK

LEMMA SetTooLongBase ==
  ASSUME Base, NEW p \in Procs, SetTooLong(p) PROVE Base'
<1> DEFINE n == req[p].name
<1>1. /\ InitEnv /\ Return(p) /\ UNCHANGED <<flash, wild, trouble>>
      /\ ram' = [Ram EXCEPT !.data = Cleared(p)]
      /\ kept' = [kept EXCEPT ![n] = Unknown]
  BY DEF SetTooLong
<1>2. Ram \in Sector /\ Ram.data \in Envs
  BY NowBase DEF Sector
<1>3. Cleared(p) \in Envs /\ \A m \in Names \ {n} : Cleared(p)[m] = Ram.data[m]
  BY <1>2 DEF Cleared, Envs, Contents
<1>4. ram' \in Sector /\ ram'.data = Cleared(p)
  BY <1>1, <1>2, <1>3 DEF Sector
<1>5. /\ kept' \in [Names -> Contents \cup {Unknown}]
      /\ \A m \in Names : kept'[m] # Unknown => m # n /\ kept'[m] = kept[m]
  BY <1>1 DEF Base, TypeOK
<1>6. \A m \in Names : kept'[m] # Unknown =>
        kept'[m] = kept[m] /\ ram'.data[m] = Ram.data[m]
  BY <1>3, <1>4, <1>5
<1> HIDE DEF n
<1> QED BY <1>1, <1>4, <1>5, <1>6, EndBase

(* One sector of the flash gets a typed content.                           *)
LEMMA SectorBase ==
  ASSUME flash \in [Copies -> Sector], SectorsOK, NEW i \in Copies,
         NEW t \in Sector, t.crc # "good" => t.data = Empty,
         flash' = [flash EXCEPT ![i] = t]
  PROVE  flash' \in [Copies -> Sector] /\ SectorsOK'
BY DEF SectorsOK

LEMMA BlankFacts ==
  /\ Erased \in Sector /\ Erased.data = Empty
  /\ Spoilt \in Sector /\ Spoilt.data = Empty
BY DEF Erased, Spoilt, Sector, Empty, Envs, Contents

LEMMA SetBase ==
  ASSUME Base, NEW p \in Procs, Set(p) PROVE Base'
<1> DEFINE n == req[p].name
           d == NewText(p)
           c == [Ram EXCEPT !.crc = "good"]
<1>1. /\ pc[p] = "in" /\ ~wild /\ InitEnv /\ InvalidNow # ENV_INVALID
      /\ kept' = [kept EXCEPT ![n] = Unknown]
      /\ ram' = [c EXCEPT !.data = d]
      /\ UNCHANGED <<sem, waiters, req, wild>>
      /\ req[p].op = "set" /\ trouble' \in {trouble, trouble \cup {"fit"}}
  BY DEF Set, Running, lock
<1>2. PICK s \in {Erased, Spoilt, flash[InvalidNow]},
           w \in {"erase", "noerase"} :
        /\ flash' = [flash EXCEPT ![InvalidNow] = s]
        /\ pc' = [pc EXCEPT ![p] = w]
  BY DEF Set
<1>3. /\ Ram \in Sector /\ InvalidNow \in Copies /\ ValidNow \in Copies
      /\ Ram.data \in Envs
  BY <1>1, NowBase DEF Sector
<1>4. n \in Names /\ req[p].val \in Contents
  BY <1>1 DEF Base, TypeOK, Requests, NoRequest, Contents
<1>5. d \in Envs /\ \A m \in Names \ {n} : d[m] = Ram.data[m]
  BY <1>3, <1>4 DEF NewText, Envs
<1>6. c \in Sector
  BY <1>3 DEF Sector
<1>7. mtd_init' = TRUE /\ env_valid' = ValidNow /\ env_invalid' = InvalidNow
  BY <1>1 DEF InitEnv
<1> HIDE DEF n, d, c
<1>8. ram' \in Sector /\ ram'.data = d
  BY <1>1, <1>5, <1>6 DEF Sector
<1>9. s \in Sector /\ (s.crc # "good" => s.data = Empty)
  BY <1>2, <1>3, BlankFacts DEF Base, TypeOK, SectorsOK
<1>10. flash' \in [Copies -> Sector] /\ SectorsOK'
  BY <1>2, <1>3, <1>9, SectorBase DEF Base, TypeOK
<1>11. /\ kept' \in [Names -> Contents \cup {Unknown}]
       /\ \A m \in Names : kept'[m] # Unknown => m # n /\ kept'[m] = kept[m]
  BY <1>1 DEF Base, TypeOK
<1>12. pc' \in [Procs -> {"idle", "wait", "in", "erase", "noerase", "mark"}]
  BY <1>2 DEF Base, TypeOK
<1>13. TypeOK'
  BY <1>1, <1>3, <1>7, <1>8, <1>10, <1>11, <1>12 DEF Base, TypeOK
<1>14. IndexBase'
  BY <1>1, <1>3, <1>7 DEF IndexBase, Copies, ENV_INVALID
<1>15. FoundIsKept' /\ WildOnlyIfEmpty'
  BY <1>1, <1>7 DEF FoundIsKept, WildOnlyIfEmpty
<1>16. StoredIsSeen'
  BY <1>5, <1>8, <1>11, NowBase DEF StoredIsSeen
<1> QED BY <1>10, <1>13, <1>14, <1>15, <1>16 DEF Base

LEMMA SetWildBase ==
  ASSUME Base, NEW p \in Procs, SetWild(p) PROVE Base'
<1>1. /\ UNCHANGED <<flash, ram, mtd_init, env_valid, env_invalid, sem,
                     waiters, pc, req, kept, trouble>>
      /\ wild' = TRUE /\ InvalidNow = ENV_INVALID
  BY DEF SetWild, index, lock
<1>2. ~HasCopy
  BY <1>1, NowBase
<1>3. \A q \in Procs : pc[q] \notin Updating
  BY <1>1 DEF Base, IndexBase, InvalidNow, Copies, ENV_INVALID
<1>4. TypeOK' /\ SectorsOK' /\ FoundIsKept' /\ StoredIsSeen'
  BY <1>1 DEF Base, TypeOK, SectorsOK, FoundIsKept, StoredIsFound, StoredIsSeen
<1>5. IndexBase' /\ WildOnlyIfEmpty'
  BY <1>1, <1>2, <1>3 DEF Base, IndexBase, WildOnlyIfEmpty, HasCopy
<1> QED BY <1>4, <1>5 DEF Base

LEMMA EraseFailedBase ==
  ASSUME Base, NEW p \in Procs, EraseFailed(p) PROVE Base'
<1>1. /\ Return(p)
      /\ UNCHANGED <<flash, ram, mtd_init, env_valid, env_invalid, wild, kept,
                     trouble>>
  BY DEF EraseFailed, index
<1>2. /\ sem' \in Nat /\ waiters' \in Seq(Procs) /\ req' \in [Procs -> Requests]
      /\ pc' \in [Procs -> {"idle", "wait", "in", "erase", "noerase", "mark"}]
      /\ \A q \in Procs : pc'[q] \in Updating => pc'[q] = pc[q]
  BY <1>1, ReturnBase DEF Base
<1>3. TypeOK' /\ SectorsOK' /\ FoundIsKept' /\ StoredIsSeen'
  BY <1>1, <1>2 DEF Base, TypeOK, SectorsOK, FoundIsKept, StoredIsFound,
                    StoredIsSeen
<1>4. IndexBase' /\ WildOnlyIfEmpty'
  BY <1>1, <1>2 DEF Base, IndexBase, WildOnlyIfEmpty, HasCopy
<1> QED BY <1>3, <1>4 DEF Base

LEMMA WriteNewBase ==
  ASSUME Base, NEW p \in Procs, WriteNew(p) PROVE Base'
<1> DEFINE old == flash[env_invalid]
           e == Image(ram.data, req[p].name)
           t == Programmed(old, e)
<1>1. /\ pc[p] = "erase" /\ ~wild
      /\ ram' = [ram EXCEPT !.flags = 1] /\ Write(env_invalid, t, {old, Spoilt})
      /\ pc' = [pc EXCEPT ![p] = "mark"]
      /\ UNCHANGED <<mtd_init, env_valid, env_invalid, sem, waiters, req, wild,
                     kept>>
  BY DEF WriteNew, index, lock
<1>2. /\ mtd_init /\ env_invalid \in Copies /\ flash \in [Copies -> Sector]
      /\ ram \in Sector /\ SectorsOK
  BY <1>1 DEF Base, TypeOK, IndexBase, Updating
<1>3. ram' \in Sector /\ ram'.data = ram.data /\ ram.data \in Envs
  BY <1>1, <1>2 DEF Sector
<1>4. e \in Envs
  BY <1>3 DEF Image, Envs, Contents
<1>5. old \in Sector /\ (old.crc # "good" => old.data = Empty)
  BY <1>2 DEF SectorsOK
<1> HIDE DEF e, old
<1>6. t \in Sector /\ (t.crc # "good" => t.data = Empty)
  BY <1>4, <1>5, BlankFacts DEF Programmed, Sector
<1> HIDE DEF t
<1>7. PICK u \in {t, old, Spoilt} : flash' = [flash EXCEPT ![env_invalid] = u]
  BY <1>1 DEF Write
<1>8. flash' \in [Copies -> Sector] /\ SectorsOK'
  BY <1>2, <1>5, <1>6, <1>7, BlankFacts, SectorBase
<1>9. trouble' \subseteq {"signal", "write", "fit"}
  BY <1>1 DEF Write, Base, TypeOK
<1>10. TypeOK'
  BY <1>1, <1>3, <1>8, <1>9 DEF Base, TypeOK
<1>11. IndexBase'
  BY <1>1, <1>2 DEF Base, TypeOK, IndexBase, Updating, Copies, ENV_INVALID
<1>12. FoundIsKept' /\ WildOnlyIfEmpty' /\ StoredIsSeen'
  BY <1>1, <1>2, <1>3 DEF Base, FoundIsKept, WildOnlyIfEmpty, StoredIsSeen
<1> QED BY <1>8, <1>10, <1>11, <1>12 DEF Base

LEMMA MarkOldBase ==
  ASSUME Base, NEW p \in Procs, MarkOld(p) PROVE Base'
<1> DEFINE n == req[p].name
           old == flash[env_valid]
           t == Obsolete(old)
<1>1. /\ pc[p] = "mark" /\ Return(p) /\ Write(env_valid, t, {old})
      /\ env_valid' = env_invalid /\ env_invalid' = env_valid
      /\ kept' = [kept EXCEPT ![n] =
                    IF ram.data[n] = req[p].val THEN req[p].val ELSE Unknown]
      /\ UNCHANGED <<ram, mtd_init, wild>>
  BY DEF MarkOld
<1>2. /\ mtd_init /\ env_invalid \in Copies /\ env_valid \in Copies /\ ~wild
      /\ flash \in [Copies -> Sector] /\ ram \in Sector /\ SectorsOK
  BY <1>1 DEF Base, TypeOK, IndexBase, Updating, Copies, ENV_INVALID
<1>3. /\ sem' \in Nat /\ waiters' \in Seq(Procs) /\ req' \in [Procs -> Requests]
      /\ pc' \in [Procs -> {"idle", "wait", "in", "erase", "noerase", "mark"}]
      /\ \A q \in Procs : pc'[q] \in Updating => pc'[q] = pc[q]
  BY <1>1, ReturnBase DEF Base
<1>4. old \in Sector /\ (old.crc # "good" => old.data = Empty)
  BY <1>2 DEF SectorsOK
<1> HIDE DEF old
<1>5. t \in Sector /\ (t.crc # "good" => t.data = Empty)
  BY <1>4, BlankFacts DEF Obsolete, Sector
<1> HIDE DEF t
<1>6. PICK u \in {t, old} : flash' = [flash EXCEPT ![env_valid] = u]
  BY <1>1 DEF Write
<1>7. flash' \in [Copies -> Sector] /\ SectorsOK'
  BY <1>2, <1>4, <1>5, <1>6, SectorBase
<1>8. trouble' \subseteq {"signal", "write", "fit"}
  BY <1>1 DEF Write, Base, TypeOK
<1>9. req[p].val \in Contents
  BY DEF Base, TypeOK, Requests, NoRequest, Contents
<1>10. /\ kept' \in [Names -> Contents \cup {Unknown}]
       /\ \A m \in Names : kept'[m] # Unknown => ram.data[m] = kept'[m]
  BY <1>1, <1>2, <1>9 DEF Base, TypeOK, StoredIsSeen
<1>11. TypeOK'
  BY <1>1, <1>2, <1>3, <1>7, <1>8, <1>10 DEF Base, TypeOK
<1>12. IndexBase'
  BY <1>1, <1>2, <1>3 DEF Base, IndexBase, Copies, ENV_INVALID
<1>13. FoundIsKept' /\ WildOnlyIfEmpty' /\ StoredIsSeen'
  BY <1>1, <1>2, <1>10 DEF FoundIsKept, WildOnlyIfEmpty, StoredIsSeen
<1> QED BY <1>7, <1>11, <1>12, <1>13 DEF Base

LEMMA CallBase ==
  ASSUME Base, NEW p \in Procs, NEW r \in Requests, Call(p, r) PROVE Base'
<1>1. /\ req' = [req EXCEPT ![p] = r]
      /\ UNCHANGED <<flash, ram, mtd_init, env_valid, env_invalid, wild, kept,
                     trouble>>
  BY DEF Call, index
<1>2. /\ waiters \in Seq(Procs) /\ sem \in Nat /\ req \in [Procs -> Requests]
      /\ pc \in [Procs -> {"idle", "wait", "in", "erase", "noerase", "mark"}]
  BY DEF Base, TypeOK
<1>3. /\ sem' \in Nat /\ waiters' \in Seq(Procs) /\ req' \in [Procs -> Requests]
      /\ pc' \in [Procs -> {"idle", "wait", "in", "erase", "noerase", "mark"}]
      /\ \A q \in Procs : pc'[q] \in Updating => pc'[q] = pc[q]
  BY <1>1, <1>2, AppendProperties DEF Call, Updating
<1>4. TypeOK' /\ SectorsOK' /\ FoundIsKept' /\ StoredIsSeen'
  BY <1>1, <1>3 DEF Base, TypeOK, SectorsOK, FoundIsKept, StoredIsFound,
                    StoredIsSeen
<1>5. IndexBase' /\ WildOnlyIfEmpty'
  BY <1>1, <1>3 DEF Base, IndexBase, WildOnlyIfEmpty, HasCopy
<1> QED BY <1>4, <1>5 DEF Base

LEMMA InterruptBase ==
  ASSUME Base, NEW p \in Procs, Interrupt(p) PROVE Base'
<1>1. /\ pc' = [pc EXCEPT ![p] = "in"] /\ trouble' = trouble \cup {"signal"}
      /\ UNCHANGED <<flash, ram, mtd_init, env_valid, env_invalid, sem, req,
                     wild, kept>>
  BY DEF Interrupt, index
<1>2. waiters' \in Seq(Procs)
  BY RemoveAtFacts DEF Interrupt, Base, TypeOK
<1>3. /\ pc' \in [Procs -> {"idle", "wait", "in", "erase", "noerase", "mark"}]
      /\ \A q \in Procs : pc'[q] \in Updating => pc'[q] = pc[q]
  BY <1>1 DEF Base, TypeOK, Updating
<1>4. TypeOK' /\ SectorsOK' /\ FoundIsKept' /\ StoredIsSeen'
  BY <1>1, <1>2, <1>3 DEF Base, TypeOK, SectorsOK, FoundIsKept, StoredIsFound,
                          StoredIsSeen
<1>5. IndexBase' /\ WildOnlyIfEmpty'
  BY <1>1, <1>3 DEF Base, IndexBase, WildOnlyIfEmpty, HasCopy
<1> QED BY <1>4, <1>5 DEF Base

(* A boot without trouble passes its promises on, any other what is found. *)
LEMMA CrashBase == ASSUME IInv, Crash PROVE Base'
<1>1. /\ ~wild /\ ram' = Spoilt /\ mtd_init' = FALSE
      /\ env_valid' = ENV_INVALID /\ env_invalid' = ENV_INVALID
      /\ sem' = 1 /\ waiters' = <<>>
      /\ pc' = [p \in Procs |-> "idle"] /\ req' = [p \in Procs |-> NoRequest]
      /\ kept' = IF trouble = {} THEN kept ELSE Found(flash')
      /\ UNCHANGED wild /\ trouble' \subseteq trouble
  BY DEF Crash
<1>2. Spoilt \in Sector /\ NoRequest \in Requests /\ Spoilt.data = Empty
      /\ Empty \in Envs
  BY DEF Spoilt, Sector, Empty, Envs, Contents, Requests
<1>3. flash' \in [Copies -> Sector] /\ SectorsOK'
  <2>1. CASE flash' = flash
    BY <2>1 DEF IInv, Base, TypeOK, SectorsOK
  <2>2. CASE /\ \E p \in Procs : pc[p] = "erase"
             /\ flash' = [flash EXCEPT ![env_invalid] = Spoilt]
    <3>1. env_invalid \in Copies
      BY <2>2 DEF IInv, Base, IndexBase, Updating
    <3> QED BY <3>1, <2>2, <1>2, SectorBase DEF IInv, Base, TypeOK
  <2> QED BY <2>1, <2>2 DEF Crash
<1>4. kept' \in [Names -> Contents \cup {Unknown}] /\ StoredIsFound'
  <2>1. CASE Calm
    <3>1. UNCHANGED kept /\ Core
      BY <1>1, <2>1 DEF Calm, IInv
    <3>2. StoredIsFound'
      BY <3>1, CrashFlash DEF Core, StoredIsFound
    <3> QED BY <3>1, <3>2 DEF Core, TypeOK
  <2>2. CASE ~Calm
    <3>1. kept' = Found(flash')
      BY <1>1, <2>2 DEF Calm
    <3>2. Valid(flash') # ENV_INVALID => Valid(flash') \in Copies
      BY <1>3, ValidFacts
    <3>3. Recovered(flash') \in Envs
      BY <3>2, <1>2, <1>3 DEF Recovered, Sector
    <3>4. kept' \in [Names -> Contents \cup {Unknown}]
      BY <3>1, <3>3 DEF Found, Envs
    <3>5. StoredIsFound'
      BY <3>1, <3>3 DEF Found, StoredIsFound
    <3> QED BY <3>4, <3>5
  <2> QED BY <2>1, <2>2
<1>5. TypeOK'
  BY <1>1, <1>2, <1>3, <1>4, EmptyQueue DEF IInv, Base, TypeOK
<1>6. IndexBase' /\ FoundIsKept' /\ StoredIsSeen' /\ WildOnlyIfEmpty'
  BY <1>1, <1>4 DEF IndexBase, FoundIsKept, StoredIsSeen, WildOnlyIfEmpty,
                    Updating
<1> QED BY <1>3, <1>5, <1>6 DEF Base

(* A boot starts with the lock free and nobody in a call.                  *)
LEMMA CrashInv == ASSUME IInv, Crash PROVE Base' /\ LockExact' /\ Core'
<1>1. /\ mtd_init' = FALSE /\ sem' = 1 /\ waiters' = <<>>
      /\ pc' = [p \in Procs |-> "idle"]
  BY DEF Crash
<1>2. LockExact'
  <2>1. Inside' = {} /\ {p \in Procs : pc'[p] = "wait"} = {}
    BY <1>1 DEF Inside
  <2> QED BY <2>1, <1>1, EmptyQueue DEF LockExact
<1>3. IndicesOK' /\ IndexIsValid' /\ UpdateOK'
  BY <1>1 DEF IndicesOK, IndexIsValid, UpdateOK, Updating
<1> QED BY <1>1, <1>2, <1>3, CrashBase DEF Base, FoundIsKept, Core

LEMMA UnchangedBase == ASSUME Base, UNCHANGED vars PROVE Base'
<1>1. UNCHANGED <<flash, ram, mtd_init, env_valid, env_invalid, sem, waiters,
                  pc, req, wild, kept, trouble>>
  BY DEF vars, index, lock
<1> QED BY <1>1 DEF Base, TypeOK, SectorsOK, IndexBase, FoundIsKept,
                    StoredIsFound, StoredIsSeen, WildOnlyIfEmpty, HasCopy

(* The lock, as long as no signal ended the wait of a caller.              *)
LEMMA StepLock ==
  ASSUME TypeOK, LockExact, NEW p \in Procs, Step(p), ~Interrupt(p)
  PROVE  LockExact'
<1>1. CASE LoadFails(p) \/ NoChange(p) \/ SetTooLong(p) \/ EraseFailed(p)
           \/ MarkOld(p)
  <2>1. Return(p) /\ pc[p] \in {"in", "noerase", "mark"}
    BY <1>1 DEF LoadFails, NoChange, SetTooLong, EraseFailed, MarkOld, Running
  <2> QED BY <2>1, ReturnLock
<1>2. CASE Set(p) \/ WriteNew(p)
  <2>1. PICK w \in {"erase", "noerase", "mark"} : pc' = [pc EXCEPT ![p] = w]
    BY <1>2 DEF Set, WriteNew
  <2>2. pc[p] \in {"in", "erase"} /\ UNCHANGED lock
    BY <1>2 DEF Set, WriteNew, Running
  <2> QED BY <2>1, <2>2, InsideLock
<1>3. CASE SetWild(p)
  BY <1>3 DEF SetWild, LockExact, Inside, lock
<1> QED BY <1>1, <1>2, <1>3 DEF Step

-----------------------------------------------------------------------------
LEMMA InitBase == Init => IInv
<1> SUFFICES ASSUME Init PROVE IInv
  OBVIOUS
<1>1. Core
  BY InitInv
<1>2. IndexBase
  BY DEF Init, IndexBase, Updating
<1> QED BY <1>1, <1>2 DEF IInv, Core, Base, FoundIsKept, LockAccounted

LEMMA NextInv == IInv /\ [Next]_vars => IInv'
<1> SUFFICES ASSUME IInv, [Next]_vars PROVE IInv'
  OBVIOUS
<1>1. ASSUME NEW p \in Procs, Step(p) PROVE IInv'
  <2>1. Base'
    BY <1>1, NoChangeBase, SetTooLongBase, SetBase, SetWildBase,
       EraseFailedBase, WriteNewBase, MarkOldBase, InterruptBase DEF Step, IInv
  <2>2. trouble \subseteq trouble' /\ (Interrupt(p) => "signal" \in trouble')
    BY <1>1 DEF Step, LoadFails, NoChange, SetTooLong, Set, SetWild,
                EraseFailed, WriteNew, MarkOld, Write, Interrupt
  <2>3. LockAccounted'
    BY <1>1, <2>2, StepLock DEF IInv, Base, LockAccounted
  <2>4. ASSUME Calm' PROVE Core'
    <3>1. Calm /\ Core /\ ~Interrupt(p)
      BY <2>2, <2>4 DEF Calm, IInv
    <3> QED BY <1>1, <2>4, <3>1, LoadFailsInv, NoChangeInv, SetTooLongInv,
               SetInv, SetWildInv, EraseFailedInv, WriteNewInv, MarkOldInv
            DEF Step
  <2> QED BY <2>1, <2>3, <2>4 DEF IInv
<1>2. ASSUME NEW p \in Procs, NEW r \in Requests, Call(p, r) PROVE IInv'
  <2>1. Base' /\ trouble' = trouble
    BY <1>2, CallBase DEF IInv, Call
  <2>2. LockAccounted'
    BY <1>2, <2>1, CallLock DEF IInv, Base, LockAccounted
  <2>3. ASSUME Calm' PROVE Core'
    BY <1>2, <2>1, <2>3, CallInv DEF Calm, IInv
  <2> QED BY <2>1, <2>2, <2>3 DEF IInv
<1>3. CASE Crash
  BY <1>3, CrashInv DEF IInv, LockAccounted
<1>4. CASE Stopped \/ UNCHANGED vars
  <2>1. UNCHANGED vars
    BY <1>4 DEF Stopped
  <2>2. Base'
    BY <2>1, UnchangedBase DEF IInv
  <2>3. LockAccounted'
    BY <2>1 DEF IInv, LockAccounted, LockExact, Inside, vars, lock
  <2>4. ASSUME Calm' PROVE Core'
    BY <2>1, <2>4, UnchangedInv DEF IInv, Calm, vars
  <2> QED BY <2>2, <2>3, <2>4 DEF IInv
<1> QED BY <1>1, <1>2, <1>3, <1>4 DEF Next

(* The inductive invariant of the boot environment holds for every set of  *)
(* callers, names and values and every size, with signals, failing writes  *)
(* and texts that do not fit: what the updates of wmt_env.c rely on in any *)
(* boot, and what they rely on in a boot without these.                    *)
THEOREM Invariant == Spec => []IInv
<1> QED BY InitBase, NextInv, PTL DEF Spec

(* Every variable of the environment keeps its type.                       *)
THEOREM TypeCorrect == Spec => []TypeOK
<1>1. IInv => TypeOK
  BY DEF IInv, Base
<1> QED BY <1>1, Invariant, PTL

(* Until a signal ends the wait of a caller, s_wmt_env_lock is with one    *)
(* caller or free whatever error path the callers take, whatever writes    *)
(* fail and wherever the power is cut, and its queue is exact; a boot      *)
(* after one with a signal starts over.                                    *)
THEOREM LockIsAccounted == Spec => []LockAccounted
<1>1. IInv => LockAccounted
  BY DEF IInv
<1> QED BY <1>1, Invariant, PTL

(* In a boot without a signal to a waiting caller, a write that failed or  *)
(* a text that did not fit: what wmt_setsyspara stored with success is     *)
(* what the next boot finds, wherever the power is cut and whatever other  *)
(* sets fail.                                                              *)
THEOREM StoredIsDurable == Spec => []Durable
<1>1. IInv => Durable
  BY DEF IInv, Core, Durable
<1> QED BY <1>1, Invariant, PTL

(* And it is what wmt_getsyspara finds in this boot, with signals and      *)
(* failing writes too, until a text does not fit.                          *)
THEOREM StoredIsVisible == Spec => []Visible
<1>1. IInv => Visible
  BY DEF IInv, Base, Visible
<1> QED BY <1>1, Invariant, PTL

(* mtd_table is indexed with 0xFF on an empty flash only, whatever went    *)
(* wrong before.                                                           *)
THEOREM WildNeedsEmptyFlash == Spec => []WildOnlyIfEmpty
<1>1. IInv => WildOnlyIfEmpty
  BY DEF IInv, Base
<1> QED BY <1>1, Invariant, PTL

-----------------------------------------------------------------------------
(* What a step does to the flash and to what callers see.                  *)

(* The step of the abstract store, in terms of this module.                *)
Changes == \E n \in Names, c \in Contents : View' = [View EXCEPT ![n] = c]
StoreStep ==
  \/ View' = View /\ Recovered(flash') = Recovered(flash)
  \/ Changes /\ Recovered(flash') = Recovered(flash)
  \/ Recovered(flash') = View /\ View' = View
  \/ View' = Recovered(flash) /\ Recovered(flash') = Recovered(flash)

LEMMA StepIsStoreStep ==
  ASSUME Core, Calm, Calm', NEW p \in Procs, Step(p)
  PROVE  StoreStep /\ (HasCopy => HasCopy')
<1>1. Ram.data = View /\ Ram \in Sector
  BY NowFacts
<1>2. CASE LoadFails(p) \/ NoChange(p)
  <2>1. mtd_init' /\ ram' = Ram /\ flash' = flash
    BY <1>2 DEF LoadFails, NoChange, InitEnv
  <2>2. View' = View
    BY <2>1, <1>1 DEF View
  <2> QED BY <2>1, <2>2 DEF StoreStep, HasCopy
<1>3. CASE SetTooLong(p)
  <2>1. /\ mtd_init' /\ ram' = [Ram EXCEPT !.data = Cleared(p)]
        /\ flash' = flash /\ req[p].op = "set"
    BY <1>3 DEF SetTooLong, InitEnv
  <2>2. ram'.data = [View EXCEPT ![req[p].name] = Unset]
    BY <2>1, <1>1 DEF Cleared, Sector
  <2>3. req[p].name \in Names /\ Unset \in Contents
    BY <2>1 DEF Core, TypeOK, Requests, NoRequest, Contents
  <2>4. View' = [View EXCEPT ![req[p].name] = Unset]
    BY <2>1, <2>2 DEF View
  <2>5. Changes
    BY <2>3, <2>4 DEF Changes
  <2> QED BY <2>1, <2>5 DEF StoreStep, HasCopy
<1>4. CASE Set(p)
  <2>1. /\ mtd_init' /\ ram'.data = [View EXCEPT ![req[p].name] = req[p].val]
        /\ req[p].name \in Names /\ req[p].val \in Contents
    BY <1>1, <1>4, SetRam DEF Set, InitEnv
  <2>2. View' = [View EXCEPT ![req[p].name] = req[p].val]
    BY <2>1 DEF View
  <2>3. Changes
    BY <2>1, <2>2 DEF Changes
  <2>4. pc[p] = "in" /\ InvalidNow # ENV_INVALID
    BY <1>4 DEF Set, Running
  <2>5. \A q \in Procs : pc[q] # "mark"
    BY <2>4, AloneInside DEF Core
  <2>6. /\ Valid(flash) \in Copies /\ InvalidNow = 1 - Valid(flash)
        /\ flash[Valid(flash)].crc = "good" /\ env_valid' = Valid(flash)
    BY <2>4, <2>5, <1>4, NowFacts DEF Set, InitEnv
  <2>7. /\ 1 - Valid(flash) # Valid(flash) /\ Valid(flash) # ENV_INVALID
    BY <2>6 DEF Copies, ENV_INVALID
  <2>8. flash'[Valid(flash)] = flash[Valid(flash)]
    BY <2>6, <2>7, <1>4 DEF Set, Core, TypeOK
  <2>9. Core'
    BY <1>4, SetInv
  <2>10. pc'[p] # "mark" /\ \A q \in Procs \ {p} : pc'[q] = pc[q]
    BY <1>4 DEF Set, Core, TypeOK
  <2>11. Valid(flash') = Valid(flash)
    BY <2>1, <2>5, <2>6, <2>9, <2>10 DEF Core, IndexIsValid
  <2>12. Recovered(flash') = Recovered(flash) /\ HasCopy'
    BY <2>6, <2>7, <2>8, <2>11 DEF Recovered, HasCopy
  <2> QED BY <2>3, <2>12 DEF StoreStep
<1>5. CASE SetWild(p) \/ EraseFailed(p)
  <2>1. UNCHANGED <<flash, ram, mtd_init>>
    BY <1>5 DEF SetWild, EraseFailed
  <2> QED BY <2>1 DEF StoreStep, View, HasCopy
<1>6. CASE WriteNew(p)
  <2>1. pc[p] = "erase" /\ mtd_init' = mtd_init
    BY <1>6 DEF WriteNew
  <2>2. /\ mtd_init /\ env_valid \in Copies /\ Valid(flash) = env_valid
        /\ 1 - env_valid \in Copies /\ env_valid # ENV_INVALID
        /\ \A i \in Copies : i = env_valid \/ i = 1 - env_valid
    BY <2>1, UpdateFacts DEF Copies, ENV_INVALID
  <2>3. /\ flash' \in [Copies -> Sector]
        /\ flash'[env_valid] = flash[env_valid] /\ flash'[1 - env_valid] = New
        /\ ram'.data = ram.data
    BY <1>6, WriteNewFlash
  <2>4. New.crc = "good" /\ New.flags = 1 /\ New.data = ram.data
    BY DEF New
  <2>5. Valid(flash') \in Copies
    BY <2>2, <2>3, <2>4, ValidWritten
  <2>6. Valid(flash') # ENV_INVALID
    BY <2>5 DEF Copies, ENV_INVALID
  <2>7. Recovered(flash') \in {Recovered(flash), ram.data}
    BY <2>2, <2>3, <2>4, <2>5, <2>6 DEF Recovered
  <2>8. View' = View /\ View = ram.data /\ HasCopy'
    BY <2>1, <2>2, <2>3, <2>4 DEF View, HasCopy
  <2> QED BY <2>7, <2>8 DEF StoreStep
<1>7. CASE MarkOld(p)
  <2>1. pc[p] = "mark" /\ UNCHANGED <<ram, mtd_init>>
    BY <1>7 DEF MarkOld
  <2>2. mtd_init /\ 1 - env_valid \in Copies /\ 1 - env_valid # ENV_INVALID
    BY <2>1, UpdateFacts DEF Copies, ENV_INVALID
  <2>3. flash'[1 - env_valid] = New /\ Valid(flash') = 1 - env_valid
    BY <1>7, MarkOldFlash
  <2>4. New.crc = "good" /\ New.data = ram.data
    BY DEF New
  <2>5. Recovered(flash') = ram.data /\ HasCopy'
    BY <2>2, <2>3, <2>4 DEF Recovered, HasCopy
  <2>6. View' = View /\ View = ram.data
    BY <2>1, <2>2 DEF View
  <2> QED BY <2>5, <2>6 DEF StoreStep
<1>8. ~Interrupt(p)
  BY DEF Interrupt, Calm
<1> QED BY <1>2, <1>3, <1>4, <1>5, <1>6, <1>7, <1>8 DEF Step

LEMMA NextIsStoreStep ==
  ASSUME IInv, Calm, Calm', [Next]_vars
  PROVE  StoreStep /\ (HasCopy => HasCopy')
<1>0. Core
  BY DEF IInv
<1>1. CASE \E p \in Procs : Step(p)
  BY <1>0, <1>1, StepIsStoreStep
<1>2. CASE \E p \in Procs, r \in Requests : Call(p, r)
  <2>1. UNCHANGED <<flash, ram, mtd_init>>
    BY <1>2 DEF Call
  <2> QED BY <2>1 DEF StoreStep, View, HasCopy
<1>3. CASE Crash
  <2>1. /\ Recovered(flash') = Recovered(flash) /\ mtd_init' = FALSE
        /\ HasCopy => HasCopy'
    BY <1>0, <1>3, CrashFlash DEF Crash
  <2> QED BY <2>1 DEF StoreStep, View
<1>4. CASE Stopped \/ UNCHANGED vars
  <2>1. UNCHANGED <<flash, ram, mtd_init>>
    BY <1>4 DEF Stopped, vars
  <2> QED BY <2>1 DEF StoreStep, View, HasCopy
<1> QED BY <1>1, <1>2, <1>3, <1>4 DEF Next

(* As long as no signal ends the wait of a caller, no write fails and the  *)
(* text fits, env_update never leaves the flash without a good copy when   *)
(* it had one.                                                             *)
THEOREM FlashKeepsACopy == Spec => KeepsACopy
<1>1. IInv /\ [Next]_vars => [Calm /\ Calm' => (HasCopy => HasCopy')]_vars
  BY NextIsStoreStep
<1> QED BY <1>1, Invariant, PTL DEF Spec, KeepsACopy

(* The two sectors and the copy in RAM implement EnvStore in every step of *)
(* a boot without a signal to a waiting caller, a failed write or a text   *)
(* that does not fit: callers see one environment, and what the next boot  *)
(* finds becomes it as a whole.                                            *)
THEOREM ImplementsStore == Spec => ChangesAsAWhole
<1>1. Init => Store!Init
  <2> SUFFICES ASSUME Init PROVE Store!Init
    OBVIOUS
  <2>1. ~mtd_init /\ flash \in [Copies -> Sector]
    BY DEF Init
  <2>2. Valid(flash) # ENV_INVALID => Valid(flash) \in Copies
    BY <2>1, ValidFacts
  <2>3. Recovered(flash) \in [Names -> Contents]
    BY <2>1, <2>2 DEF Recovered, Sector, Envs, Empty, Contents
  <2> QED BY <2>1, <2>3 DEF Store!Init, Store!Envs
<1>2. IInv /\ [Next]_vars =>
        [Calm /\ Calm' => Store!Next]_<<IF mtd_init THEN ram.data
                                         ELSE Recovered(flash),
                                         Recovered(flash)>>
  <2> SUFFICES ASSUME IInv, [Next]_vars, Calm, Calm', StoreStep
               PROVE  [Store!Next]_<<View, Recovered(flash)>>
    BY NextIsStoreStep DEF View
  <2> QED BY DEF StoreStep, Changes, View, Store!Next, Store!Change,
                 Store!Commit, Store!Reboot
<1> QED BY <1>1, <1>2, Invariant, PTL DEF Spec, ChangesAsAWhole
=============================================================================
