------------------------------ MODULE BootEnv -------------------------------
(***************************************************************************)
(* The boot environment, drivers/mtd/wmt_env.c: named variables shared by  *)
(* the kernel, the user space and the boot loader, kept as two copies in   *)
(* two sectors of the serial flash.  A set changes the copy in RAM, erases *)
(* the sector that is not in use, writes the new environment there and     *)
(* then clears the flags byte of the old one.                              *)
(*                                                                         *)
(* The model starts at the first call after the flash driver registered    *)
(* its partitions (mtd_init); the SPI flash is the boot flash.  The kernel *)
(* is uniprocessor and not preemptible: the only place where a call of an  *)
(* initialised environment gives up the processor, other than the          *)
(* semaphore, is the msleep of spi_flash_sector_erase.  Power may be cut   *)
(* anywhere.                                                               *)
(*                                                                         *)
(* Three things the code does not stand: a signal that ends the wait for   *)
(* the lock, a write that fails, and a text that its overflow test accepts *)
(* although it does not fit.  They are steps like any other, and `trouble' *)
(* records them, so that each promise can say which it survives.           *)
(***************************************************************************)
EXTENDS Integers, FiniteSetsExt, SequencesExt

CONSTANTS
  Procs,         \* the callers of wmt_getsyspara and wmt_setsyspara
  Names,         \* names of variables
  Baudrate,      \* the name "baudrate"
  Values,        \* values a caller may store
  Supported,     \* the values of baudrate_table
  Unset,         \* the content of a variable that is not defined
  Cut,           \* the content of a variable whose text lost its end
  Unknown,       \* in kept: the last call on the variable has no outcome
  EntryLen,      \* strlen(name) + strlen(value) + 2 for an entry
  ENV_MAX_SIZE,  \* bytes of a sector, header included
  HeaderLen,     \* bytes of crc and flags in struct env_t: 5
  Faults,        \* what may happen: "signal", "write"
  MaxPermits     \* bound: callers the lock has let in or will let in

Contents == Values \cup {Unset, Cut}
Envs == [Names -> Contents]
Empty == [n \in Names |-> Unset]

ASSUME EnvAssumption ==
  /\ Unset \notin Values /\ Cut \notin Values \cup {Unset}
  /\ Unknown \notin Contents
  /\ Baudrate \in Names /\ Supported \subseteq Values
  /\ EntryLen \in [Values \cup {Cut} -> Nat]
  /\ ENV_MAX_SIZE \in Nat /\ HeaderLen \in Nat
  /\ Faults \subseteq {"signal", "write"} /\ MaxPermits \in Nat

Copies == {0, 1}
ENV_INVALID == 255

(* A sector with what env_crc32 would say of it: "blank" is erased, "bad"  *)
(* a torn or overwritten one.  flags and data count in a good one only.    *)
Sector == [crc : {"good", "bad", "blank"}, flags : {0, 1}, data : Envs]
Erased == [crc |-> "blank", flags |-> 0, data |-> Empty]
Spoilt == [crc |-> "bad", flags |-> 0, data |-> Empty]

(* A get does the same whatever its name is.                               *)
NoRequest == [op |-> "get", name |-> Baudrate, val |-> Unset]
Requests == {NoRequest} \cup [op : {"set"}, name : Names, val : Values \cup {Unset}]

VARIABLES
  flash,        \* the two sectors
  ram,          \* *env_ptr
  mtd_init,     \* env_init has run: env_ptr is used as it is
  env_valid,    \* the sector in use, or ENV_INVALID
  env_invalid,  \* the sector the next update goes to, or ENV_INVALID
  sem,          \* s_wmt_env_lock.count
  waiters,      \* s_wmt_env_lock.wait_list
  pc,           \* where each caller is
  req,          \* the call each caller is in
  wild,         \* mtd_table was indexed with ENV_INVALID
  kept,         \* history: what each variable was last acknowledged to be
  trouble       \* history: the faults of this boot, a text that does not fit

lock == <<sem, waiters>>
index == <<env_valid, env_invalid>>
vars == <<flash, ram, mtd_init, index, lock, pc, req, wild, kept, trouble>>

-----------------------------------------------------------------------------
(* read_env_after_mtd_init.                                                *)

Is(s, i, f) == s[i].crc = "good" /\ s[i].flags = f

(* Mistakes the properties must catch: an obsolete copy is never taken;    *)
(* the last good copy is taken whatever its flags; the index of no copy is *)
(* swapped like any other; the copy of the second loop is not read again.  *)
Valid_ActiveOnly(s) == IF Is(s, 0, 1) THEN 0
                       ELSE IF Is(s, 1, 1) THEN 1 ELSE ENV_INVALID
Valid_LastGood(s) == IF s[1].crc = "good" THEN 1
                     ELSE IF s[0].crc = "good" THEN 0 ELSE ENV_INVALID
Other_AlwaysSwaps(i) == 1 - i
Loaded_ReadOnce(s) == IF Is(s, 0, 1) THEN s[0] ELSE s[1]

(* The first active copy; without one, the last obsolete copy.             *)
Valid(s) == IF Is(s, 0, 1) THEN 0
            ELSE IF Is(s, 1, 1) \/ Is(s, 1, 0) THEN 1
            ELSE IF Is(s, 0, 0) THEN 0
            ELSE ENV_INVALID

Other(i) == IF i = ENV_INVALID THEN ENV_INVALID ELSE 1 - i

(* What env_ptr holds afterwards; without a good copy, the last one read.  *)
Loaded(s) == IF Valid(s) = ENV_INVALID THEN s[1] ELSE s[Valid(s)]

(* What env_init leaves behind: on the first call it reads the flash.      *)
Ram == IF mtd_init THEN ram ELSE Loaded(flash)
ValidNow == IF mtd_init THEN env_valid ELSE Valid(flash)
InvalidNow_InUse == IF mtd_init THEN env_valid ELSE Valid(flash)
InvalidNow == IF mtd_init THEN env_invalid ELSE Other(Valid(flash))

InitEnv ==
  /\ mtd_init' = TRUE
  /\ env_valid' = ValidNow
  /\ env_invalid' = InvalidNow

(* The environment the next boot will find.                                *)
Recovered(s) == IF Valid(s) = ENV_INVALID THEN Empty ELSE s[Valid(s)].data

(* What a boot that finds s owes to its callers.                           *)
Found(s) == [n \in Names |-> IF Valid(s) = ENV_INVALID THEN Unknown
                             ELSE Recovered(s)[n]]

-----------------------------------------------------------------------------
(* The text of the environment: entries one after the other, then a NUL.   *)

Used(e) ==
  SumFunction([n \in Names |-> IF e[n] = Unset THEN 0 ELSE EntryLen[e[n]]])

(* The text and its closing NUL fit in env_t.data.                         *)
Fits(e) == Used(e) + 1 <= ENV_MAX_SIZE - HeaderLen

(* What is written of the text e, whose last entry is that of n: the image *)
(* has ENV_MAX_SIZE bytes, header included, and the CRC of what it has; it *)
(* may just miss the closing NUL.                                          *)
Image(e, n) == IF Fits(e) \/ Used(e) = ENV_MAX_SIZE - HeaderLen THEN e
               ELSE [e EXCEPT ![n] = Cut]

(* "varname=varval" and its NUL do not fit behind the entries of e.        *)
Overflow(e, c) == EntryLen[c] > ENV_MAX_SIZE - Used(e)

(* wmt_setsyspara gives up before it has changed anything: a baud rate     *)
(* that is set only changes to a supported one, and what is not set cannot *)
(* be cleared.                                                             *)
Refused(e, r) ==
  \/ r.name = Baudrate /\ e[r.name] # Unset /\ r.val \notin Supported
  \/ r.val = Unset /\ e[r.name] = Unset

-----------------------------------------------------------------------------
(* s_wmt_env_lock.  down_interruptible queues the caller behind others; up *)
(* hands the lock to the first in the queue.                               *)

(* The processor is taken from no caller between the two writes.           *)
CpuFree(p) == \A q \in Procs \ {p} : pc[q] # "mark"

(* A caller enters wmt_getsyspara or wmt_setsyspara; `Interrupt' is the    *)
(* branch of a wait that ends with -EINTR.  The search of a text without   *)
(* end is not followed.                                                    *)
Call(p, r) ==
  /\ pc[p] = "idle" /\ CpuFree(p)
  /\ ~wild /\ "fit" \notin trouble
  /\ req' = [req EXCEPT ![p] = r]
  /\ \/ /\ sem > 0
        /\ sem' = sem - 1
        /\ pc' = [pc EXCEPT ![p] = "in"]
        /\ UNCHANGED waiters
     \/ /\ sem = 0
        /\ waiters' = Append(waiters, p)
        /\ pc' = [pc EXCEPT ![p] = "wait"]
        /\ UNCHANGED sem
  /\ UNCHANGED <<flash, ram, mtd_init, index, wild, kept, trouble>>

Inside == {p \in Procs : pc[p] \notin {"idle", "wait"}}

(* A signal ends the wait with -EINTR; the caller prints a warning and     *)
(* goes on as if it had the lock.  Its up adds a permit each time, which   *)
(* MaxPermits bounds.                                                      *)
Interrupt(p) ==
  /\ "signal" \in Faults /\ sem + Cardinality(Inside) < MaxPermits
  /\ pc[p] = "wait" /\ CpuFree(p) /\ ~wild
  /\ \E i \in 1 .. Len(waiters) : waiters[i] = p /\ waiters' = RemoveAt(waiters, i)
  /\ pc' = [pc EXCEPT ![p] = "in"]
  /\ trouble' = trouble \cup {"signal"}
  /\ UNCHANGED <<flash, ram, mtd_init, index, sem, req, wild, kept>>

(* up and return, with or without the lock.                                *)
Return(p) ==
  /\ req' = [req EXCEPT ![p] = NoRequest]
  /\ \/ /\ waiters = <<>>
        /\ sem' = sem + 1
        /\ pc' = [pc EXCEPT ![p] = "idle"]
        /\ UNCHANGED waiters
     \/ /\ waiters # <<>>
        /\ waiters' = Tail(waiters)
        /\ pc' = [pc EXCEPT ![p] = "idle", ![Head(waiters)] = "in"]
        /\ UNCHANGED sem

-----------------------------------------------------------------------------
(* wmt_getsyspara and wmt_setsyspara behind the lock.                      *)

Running(p) == pc[p] = "in" /\ CpuFree(p) /\ ~wild

(* env_init finds no good copy; mtd_init stays set, so that the calls that *)
(* follow use env_ptr and the two indices as they are now.                 *)
LoadFails(p) ==
  /\ Running(p) /\ ~mtd_init /\ ValidNow = ENV_INVALID
  /\ InitEnv
  /\ ram' = Ram
  /\ Return(p)
  /\ UNCHANGED <<flash, wild, kept, trouble>>

Usable == mtd_init \/ ValidNow # ENV_INVALID

(* A get copies from env_ptr; a refused set returns an error.              *)
NoChange(p) ==
  /\ Running(p) /\ Usable
  /\ req[p].op = "set" => Refused(Ram.data, req[p])
  /\ InitEnv
  /\ ram' = Ram
  /\ Return(p)
  /\ UNCHANGED <<flash, wild, kept, trouble>>

(* The environment without the variable the caller of p names.             *)
Cleared(p) == [Ram.data EXCEPT ![req[p].name] = Unset]

TooLong(p) == req[p].val # Unset /\ Overflow(Cleared(p), req[p].val)

(* The old definition is gone from RAM when the overflow is noticed, and   *)
(* nothing is written.                                                     *)
SetTooLong(p) ==
  /\ Running(p) /\ Usable
  /\ req[p].op = "set" /\ ~Refused(Ram.data, req[p]) /\ TooLong(p)
  /\ InitEnv
  /\ ram' = [Ram EXCEPT !.data = Cleared(p)]
  /\ kept' = [kept EXCEPT ![req[p].name] = Unknown]
  /\ Return(p)
  /\ UNCHANGED <<flash, wild, trouble>>

(* The set itself, and env_update up to the msleep of the erase.  An erase *)
(* that fails may have touched the sector or not.  A text that does not    *)
(* fit runs over the end of env_ptr.                                       *)
NewText(p) == [Ram.data EXCEPT ![req[p].name] = req[p].val]
Set(p) ==
  /\ Running(p) /\ Usable
  /\ req[p].op = "set" /\ ~Refused(Ram.data, req[p]) /\ ~TooLong(p)
  /\ InvalidNow # ENV_INVALID
  /\ InitEnv
  /\ ram' = [Ram EXCEPT !.crc = "good", !.data = NewText(p)]
  /\ kept' = [kept EXCEPT ![req[p].name] = Unknown]
  /\ trouble' = trouble \cup (IF Fits(NewText(p)) THEN {} ELSE {"fit"})
  /\ \/ /\ flash' = [flash EXCEPT ![InvalidNow] = Erased]
        /\ pc' = [pc EXCEPT ![p] = "erase"]
     \/ /\ \E s \in {flash[InvalidNow], Spoilt} :
             flash' = [flash EXCEPT ![InvalidNow] = s]
        /\ pc' = [pc EXCEPT ![p] = "noerase"]
  /\ UNCHANGED <<lock, req, wild>>

(* env_update with the indices of an environment that was never found.     *)
SetWild(p) ==
  /\ Running(p) /\ Usable
  /\ req[p].op = "set" /\ ~Refused(Ram.data, req[p]) /\ ~TooLong(p)
  /\ InvalidNow = ENV_INVALID
  /\ wild' = TRUE
  /\ UNCHANGED <<flash, ram, mtd_init, index, lock, pc, req, kept, trouble>>

(* A mistake: the error path does not give the lock back.                  *)
EraseFailed_KeepsLock(p) ==
  /\ pc[p] = "noerase" /\ CpuFree(p) /\ ~wild
  /\ pc' = [pc EXCEPT ![p] = "idle"]
  /\ req' = [req EXCEPT ![p] = NoRequest]
  /\ UNCHANGED <<flash, ram, mtd_init, index, lock, wild, kept, trouble>>

EraseFailed(p) ==
  /\ pc[p] = "noerase" /\ CpuFree(p) /\ ~wild
  /\ Return(p)
  /\ UNCHANGED <<flash, ram, mtd_init, index, wild, kept, trouble>>

(* What programming the image e leaves of sector s: bits only go to zero.  *)
Programmed(s, e) ==
  IF s.crc = "blank" THEN [crc |-> "good", flags |-> 1, data |-> e]
  ELSE IF s.crc = "good" /\ s.data = e THEN s
  ELSE Spoilt

(* A write of spi_flash_sector_write leaves t in sector i, or stops at an  *)
(* error or a time-out with what is in `torn'; sf_write returns 0 for both.*)
Write(i, t, torn) ==
  \/ /\ flash' = [flash EXCEPT ![i] = t]
     /\ UNCHANGED trouble
  \/ /\ "write" \in Faults
     /\ \E u \in torn : flash' = [flash EXCEPT ![i] = u]
     /\ trouble' = trouble \cup {"write"}

(* The write of the whole environment.                                     *)
WriteNew(p) ==
  /\ pc[p] = "erase" /\ CpuFree(p) /\ ~wild
  /\ ram' = [ram EXCEPT !.flags = 1]
  /\ LET old == flash[env_invalid]
     IN Write(env_invalid, Programmed(old, Image(ram.data, req[p].name)),
              {old, Spoilt})
  /\ pc' = [pc EXCEPT ![p] = "mark"]
  /\ UNCHANGED <<mtd_init, index, lock, req, wild, kept>>

(* One zero byte at offset 4 of sector s.                                  *)
Obsolete(s) == IF s.crc = "good" THEN [s EXCEPT !.flags = 0] ELSE Spoilt

(* A mistake: the indices stay as they were.                               *)
MarkOld_NoSwap(p) ==
  /\ pc[p] = "mark"
  /\ flash' = [flash EXCEPT ![env_valid] = Obsolete(@)]
  /\ kept' = [kept EXCEPT ![req[p].name] = req[p].val]
  /\ Return(p)
  /\ UNCHANGED <<ram, mtd_init, index, wild, trouble>>

(* The write of the flags byte, the swap of the indices and the return of  *)
(* 0.                                                                      *)
MarkOld(p) ==
  /\ pc[p] = "mark"
  /\ Write(env_valid, Obsolete(flash[env_valid]), {flash[env_valid]})
  /\ env_valid' = env_invalid
  /\ env_invalid' = env_valid
  /\ kept' = [kept EXCEPT ![req[p].name] =
                IF ram.data[req[p].name] = req[p].val THEN req[p].val
                ELSE Unknown]
  /\ Return(p)
  /\ UNCHANGED <<ram, mtd_init, wild>>

(* The power is cut, or the kernel restarts; only the flash remains, a     *)
(* write of the whole environment perhaps half done.  (The flags byte      *)
(* changes in one bit.)  A boot with trouble passes no promise on but what *)
(* is found; a text that does not fit stays one.                           *)
Crash ==
  /\ ~wild
  /\ \/ UNCHANGED flash
     \/ /\ \E p \in Procs : pc[p] = "erase"
        /\ flash' = [flash EXCEPT ![env_invalid] = Spoilt]
  /\ ram' = Spoilt /\ mtd_init' = FALSE
  /\ env_valid' = ENV_INVALID /\ env_invalid' = ENV_INVALID
  /\ sem' = 1 /\ waiters' = <<>>
  /\ pc' = [p \in Procs |-> "idle"]
  /\ req' = [p \in Procs |-> NoRequest]
  /\ kept' = IF trouble = {} THEN kept ELSE Found(flash')
  /\ trouble' = trouble \ {"signal", "write"}
  /\ UNCHANGED wild

(* Nothing is claimed of what follows a wild access.                       *)
Stopped == wild /\ UNCHANGED vars

-----------------------------------------------------------------------------
Init ==
  /\ flash \in [Copies -> Sector]
  /\ \A i \in Copies :
       IF flash[i].crc = "good"
       THEN Fits(flash[i].data) /\ \A n \in Names : flash[i].data[n] # Cut
       ELSE flash[i] \in {Erased, Spoilt}
  /\ ram = Spoilt /\ mtd_init = FALSE
  /\ env_valid = ENV_INVALID /\ env_invalid = ENV_INVALID
  /\ sem = 1 /\ waiters = <<>>
  /\ pc = [p \in Procs |-> "idle"]
  /\ req = [p \in Procs |-> NoRequest]
  /\ wild = FALSE
  /\ kept = Found(flash)
  /\ trouble = {}

Step(p) ==
  \/ LoadFails(p) \/ NoChange(p) \/ SetTooLong(p) \/ Set(p) \/ SetWild(p)
  \/ EraseFailed(p) \/ WriteNew(p) \/ MarkOld(p) \/ Interrupt(p)

Next ==
  \/ \E p \in Procs : Step(p) \/ \E r \in Requests : Call(p, r)
  \/ Crash \/ Stopped

Spec == Init /\ [][Next]_vars

-----------------------------------------------------------------------------
(* Every variable has its type.                                            *)
TypeOK ==
  /\ flash \in [Copies -> Sector] /\ ram \in Sector
  /\ mtd_init \in BOOLEAN /\ wild \in BOOLEAN
  /\ env_valid \in Copies \cup {ENV_INVALID}
  /\ env_invalid \in Copies \cup {ENV_INVALID}
  /\ sem \in Nat /\ waiters \in Seq(Procs)
  /\ pc \in [Procs -> {"idle", "wait", "in", "erase", "noerase", "mark"}]
  /\ req \in [Procs -> Requests]
  /\ kept \in [Names -> Contents \cup {Unknown}]
  /\ trouble \subseteq {"signal", "write", "fit"}

Calm == trouble = {}

(* "Return 0 indicates success" (wmt_env.c:855): what a set stored and     *)
(* nobody tried to change since, and what was there before the boot, is    *)
(* what the next boot finds.  wmt_setsyspara breaks it after a signal, a   *)
(* write that failed and a text that did not fit.                          *)
StoredIsFound ==
  \A n \in Names : kept[n] # Unknown =>
    Valid(flash) # ENV_INVALID /\ Recovered(flash)[n] = kept[n]

(* Without these three: what was stored is found wherever the power is     *)
(* cut, also when other sets fail, in the erase or for lack of room, or    *)
(* are cut off half way; and again in every boot after one with trouble.   *)
Durable == Calm => StoredIsFound

(* The same for the callers of this boot: env_ptr, which wmt_getsyspara    *)
(* reads, has every variable as it was last set with success, also after   *)
(* sets of other variables that failed, beside callers without the lock,   *)
(* and when writes fail; only while its text fits.                         *)
StoredIsSeen ==
  mtd_init => \A n \in Names : kept[n] # Unknown => ram.data[n] = kept[n]
Visible == "fit" \notin trouble => StoredIsSeen

(* env_update never leaves the flash without a copy whose CRC is right     *)
(* when there was one: it erases and writes only the copy that             *)
(* read_env_after_mtd_init would not choose.  After a write that failed,   *)
(* or beside a caller without the lock, it does not keep to this.          *)
HasCopy == \E i \in Copies : flash[i].crc = "good"
KeepsACopy == [][Calm /\ Calm' => (HasCopy => HasCopy')]_vars

(* mtd_table is indexed with 0xFF only on a flash that has no copy at all: *)
(* env_init accepts an obsolete copy when there is no active one.          *)
WildOnlyIfEmpty == wild => ~HasCopy

(* s_wmt_env_lock is with one caller or free, on every error path it is    *)
(* given back, also when writes fail, and exactly the callers that sleep   *)
(* for it are in its queue: no update runs inside another and nobody       *)
(* sleeps beside a free lock.  A signal to a waiting caller breaks this    *)
(* for the rest of the boot.                                               *)
LockExact ==
  /\ IF sem = 0 THEN \E p \in Procs : Inside = {p}
     ELSE sem = 1 /\ Inside = {} /\ waiters = <<>>
  /\ Range(waiters) = {p \in Procs : pc[p] = "wait"}
  /\ IsInjective(waiters)
LockAccounted == "signal" \notin trouble => LockExact

(* The two sectors implement one environment that changes as a whole: what *)
(* the next boot finds only ever becomes what the callers see, in every    *)
(* step of a boot without trouble.                                         *)
Store == INSTANCE EnvStore WITH
           view <- IF mtd_init THEN ram.data ELSE Recovered(flash),
           durable <- Recovered(flash)
ChangesAsAWhole ==
  /\ Store!Init
  /\ [][Calm /\ Calm' => Store!Next]_<<IF mtd_init THEN ram.data
                                       ELSE Recovered(flash), Recovered(flash)>>
=============================================================================
