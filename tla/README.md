# TLA+ models of the WM8850 kernel drivers

The repository is the Android Linux 3.0.8 kernel tree for the WonderMedia
WM8850 SoC. Most of its 39,000 files are upstream Linux and AOSP code. What is
the repository's own is the SoC support: `arch/arm/mach-wmt` and the `wmt`
drivers. This directory models the part of it whose correctness depends on
control rather than on register values, checks it with TLC on small instances
and proves all of its safety properties with TLAPS for every instance. Where the code
does not keep what its comments say, a run or one of the configurations kept beside
the runs shows it, and the property that is checked and proved names the condition
under which it holds.

All paths below are relative to `src/ANDROID_3.0.8/`.

## Inventory

| component | state it keeps | operations | interacts with | what makes it correct |
|---|---|---|---|---|
| memory block (MB) driver, `drivers/video/wmt/memblock.c` | one static area; a sorted list of blocks; per block a use count, a creator pointer and a list of users; cached maxima and free counts of the area and the host | `mb_alloc/free/get/put` for kernel drivers; open, release, mmap and 15 ioctls for tasks | display (`dev-vpp.c`), graphics (`ge/com-ge.c`), camera (`wmt-cmos.c`), boot animation, user tasks | blocks never overlap; a block lives exactly as long as it has users; nobody takes another's reference; caches are exact; a task that exits leaves nothing behind |
| MB task list, same file | one counted entry per task with open files | open, release | the above | files of a task share one entry, which outlives them all |
| DMA controller, `arch/arm/mach-wmt/dma.c` | 16 channels with owner, descriptor rings, residue and callback | request, setup, start, stop, resume, clear, free, interrupt | audio, SPI, serial | exclusive owner; the ring the hardware reads is the one that was built; every completion is accounted for |
| sound streams, `sound/soc/wmt/wmt-pcm.c` | per stream the next period, the periods queued, whether it is active | open, close, prepare, trigger, pointer, the DMA callback, suspend | DMA controller, ALSA core | the buffer is played in order, without gap or repetition, as long as the stream is active |
| boot environment, `drivers/mtd/wmt_env.c` | two copies in flash, one in RAM, which copy is in use, a semaphore | `wmt_getsyspara`, `wmt_setsyspara` | serial flash (`wmt_sf.c`), nearly every driver's probe, the boot loader | a value that was stored survives a power cut at any moment; one valid copy at all times |
| SD/MMC hosts, `drivers/mmc/host/mmc_atsmb*.c` | the request in progress, whom to wake, the host's interrupt masks | request, two interrupt handlers, time-out | MMC core (`drivers/mmc/core/core.c`) | every request ends once; success is only reported for what was done; no handler touches a request that is over |
| I2C masters, `drivers/i2c/busses/wmt-i2c-bus*.c` | a request queue, the transfer in progress, two global wake-up flags | blocking and non-blocking transfers, interrupt handler | touch, PMIC, sensors | every queued request is sent and answered, to its own sender |
| SPI, serial, USB gadget | queues of requests and hardware completion | submit, interrupt, timeout | DMA | completion exactly once |
| flash (`wmt_nand.c`, `wmt_sf.c`) | flash pages | read, program, erase | MTD | errors are reported |
| display pipeline (`dev-vpp.c`, `vpp.c`, ...) | frame queue, mode registers | queue, vsync work, mode set | MB driver | a frame's blocks are held while it is shown |
| clocks, power, GPIO, input, battery, RTC | registers | accessors, suspend, timers | - | mostly register programming |

Hard behaviours: the MB driver is called by tasks and drivers in any order and
must undo everything at the last close; its locked sections call an allocator
that may sleep; the sound, SD/MMC and I2C drivers share state between callers and
interrupt handlers and wait on flags; the boot environment meets power cuts
between any two writes. The list under `hazards` in `PROJECT.json` names each place.

## Modules

| module | models |
|---|---|
| `MemBlock` | the MB driver as it is built: one static area, uniprocessor |
| `MemShare` | what the MB driver promises: pages are granted once, shared, and reclaimed only without holders |
| `MemBlockResched` | `MemBlock` with the sleep inside `mb_alloc_mb` |
| `MbTaskInfo` | the MB driver's task list |
| `ListLemmas` | proved facts on list insertion, removal, minima and maxima |
| `MemBlockProofs` | the layout, counts and creators of `MemBlock`, proved |
| `MemShareProofs` | what sharers of `MemBlock` rely on, and that it implements `MemShare`, proved |
| `MbTaskInfoProofs`, `I2cBusProofs`, `PcmStreamProofs`, `BootEnvProofs`, `SdHostProofs` | the proofs about the modules of those names |
| `I2cBus` | an I2C master: senders, queue, interrupt handler, retries |
| `I2cService` | what an I2C master promises: calls stand in one line, the bus carries the bytes of the first, each call is answered from its own bytes |
| `DmaChannel` | one channel of the DMA controller: driver functions as operators on its ring, and the engine |
| `PcmStream` | a sound stream; extends `DmaChannel` and composes the two with the ALSA core |
| `EnvStore` | what the boot environment promises: the stored environment changes as a whole |
| `BootEnv` | the boot environment in two flash sectors, with power cuts |
| `SdHost` | the first SD/MMC host: a caller, two interrupt handlers, a timer, and the host |
| `MC*` | instances for TLC |

The MB modules, `I2cBus`, `PcmStream`, `BootEnv` and `SdHost` share no state.
The drivers read the boot environment in their probe functions and do not call
each other otherwise.

### MemBlock

Addresses and sizes are in pages (the driver page-aligns every size on entry), so
`pfn_start` and `phys` coincide. `mb_list` is the area's list; each element is
an `mb_struct` with its `mbu_list`, and `creator` is the position of
`mb->creator` in it (0 for `NULL`, -1 for a pointer to a freed object, which no
state may contain). The list walks of `mb_alloc_mb` and `mb_free_mb` become
*zones*: zone `k` is the gap before entry `k`. Zone sizes are unsigned
differences and wrap at `ULongRange`, as in the code. A search of
`mb_find_mbu` is the set of matching (block, user) positions and `First`, the
one the nested walk meets first. One action per kernel entry point and per
ioctl that changes state; `mb_release` is a step for the count and then one
step per turn of its RESCAN loops (`ReleaseScan`), during which, as in the code,
nobody else runs. A failing call changes nothing and is not a step, except that
`MBIO_FREE` can fail after it has unlinked the mapping.

The build is uniprocessor with voluntary preemption (`Android_defconfig`), so
`spin_lock_irqsave` sections are single steps unless they call something that
may reschedule. They do, in `mb_alloc_mb` (`memblock.c:1027`), `mb_open`
(`memblock.c:1686`) and `mb_mmap` (`memblock.c:2267`): `kmem_cache_alloc` with
`GFP_KERNEL` passes `might_sleep_if` (`mm/slub.c:847`), which is a call of
`_cond_resched` (`kernel/sched.c:5552`) that does not look at disabled
interrupts. `MemBlockResched` models the first, `MbTaskInfo` the second.

`MBIO_FORCE_RESET` on a block with users continues its walk from a freed
object; `oops` stands for everything that may follow and no property says
anything about the states after it.

Not in the model: areas added at run time (`CONFIG_WMT_MB_DYNAMIC_ALLOCATE_SUPPORT`
is off), the frame-buffer style mmap of the whole area (it registers no user),
queries that change nothing, the names kept for the log, and `user_to_prdt`.

### MbTaskInfo

Entries have an identity, the pointer kept in `filp->private_data`, so that a
release through a freed entry can be told from one through a live entry. A release
through a freed one may read any tgid. `mb_open` is cut at its allocation:
`OpenSearch` has looked through the list and found nothing, `OpenAdd` links the new
entry whatever the list holds by then, and `OpenFails` is the allocation that finds
no memory. Two threads of one task that are both in between add an entry each, and
from then on a release frees the first entry of the tgid, which another file may
point to (`MCMbTaskInfo_overlap.cfg`). `overlapped` records that this happened;
`FilesShareOneEntry` is what holds until then, while other tasks open and close.

### I2cBus

One bus: `drivers/i2c/busses/wmt-i2c-bus.c` with the entry points of
`drivers/i2c/algos/wmt-i2c-algo.c`. Buses 2 and 3 are copies. Bus 1 differs in
one place that matters here: only a blocking sender clears `isr_int_pending`
(`wmt-i2c-bus-1.c:149`), which `ClearsForAll` selects.

| state | code |
|---|---|
| `fifo` | `wmt_i2c_fifohead`, the queue of requests; the head is on the wire |
| `isr_nack`, `isr_int_pending` | the two flags in the global `i2c` |
| `hw` | the controller: bus ready, a byte under way, or the clock held for the CPU |
| `pc`, `call`, `tries`, `ret` | where each sender is, its messages, `i` of `wmt_i2c_xfer`, the outcome |
| `moved`, `refused` | history: the bytes of a call on the wire, the refusals it met |
| `stuck` | the processor spins with interrupts off, or has left a buffer or list |

`i2c_transfer` takes the adapter's mutex and clears the flags with interrupts
on; `i2c_send_request` is the section under `i2c_fifolock`; `WaitEvent`,
`Result` and `Retry` are the wait, the tail of the sender and the loop of
`wmt_i2c_xfer`. `wmt_i2c_transfer` is the non-blocking entry: its callers run
in a timer, which interrupts a task between any two steps but is not
interrupted by one. The only such caller in the tree is the kxte9 sensor
(`drivers/input/sensor/kxte9_gsensor/kxte9.c`), which `Android_defconfig` does
not enable. The handler is one action per outcome of an interrupt: a NACK, a
byte in the middle of a message, the end of a message, the end of a request,
each for reads and writes.

A data byte is the pair of its message and index, so a byte that is sent
twice, skipped or taken from another message can be seen in `moved`.

`I2cService` is the promise, without queue entries, flags and registers. A call
joins the line, has its bytes carried in order while it is first, leaves with its
last byte or with a refusal, and is tried again from its first byte or answered:
`ok` when all its bytes were carried, `EIO` after `Retries + 1` refusals. `I2cBus`
implements it (`ServesInLine`) with `line` mapped to the owners of the queued
requests, `carried` to `moved` and `refusals` to `refused`; the callback of a
timer client is an answer in the same step as its last byte.

Assumed of the controller, which is not in the source: one interrupt has one
cause; only an address is refused; after a read byte that is not acknowledged
the controller stops by itself, and `TX_END` makes it stop after a write; every
byte that is started ends, also after an SCL timeout (the handler only
acknowledges the timeout).

A call to the master's own address (`wmt-i2c-bus.c:143`) returns at once and changes
nothing, which is a stuttering step. A message may have no bytes, as the comment
at `wmt-i2c-bus.c:285` allows and the core's probing sends (`i2c-core.c:1448`). For a
write of none the counter of the handler, 1 after the first byte, never equals the
length, and the handler sends on past the buffer: `stuck` is then `"wild"`, which
`InBounds` allows for such a write and for nothing else, and nothing is modelled
after it (`Halted`).

Not in the model: resets and mode setting, init and exit, the suspend hooks of
buses 2 and 3, `i2c_wmt_read_msg` and `i2c_wmt_write_msg` (nobody calls them), a
failed `kzalloc`, and a NACK together with the end of a byte.

### Sound stream

`PcmStream` is a playback or capture stream of `wmt-pcm.c` on its DMA channel.
The buffer is a ring of `Periods` periods of `Units` units; the driver keeps up
to two periods queued on the channel.

| state | code |
|---|---|
| `dma` | the channel: its ring in memory, `des0cnt`, `residue_des0cnt`, the registers |
| `s` | `struct audio_stream_a`: `active`, `period`, `periods` |
| `pcm` | the state the ALSA core keeps (external) |
| `due`, `again` | history: the unit after the one moved last; why the engine is about to go back |
| `errors`, `dma.queued` | history: errors so far, buffers not finished |

Driver functions run with interrupts off (`dma_list_lock`, ALSA's stream lock)
and are operators from one channel to the next. The engine fetches a
descriptor, moves it unit by unit, ends it, fails at any point of it, or stops at a
descriptor with the END bit. `TransferDone` and `TransferError` are the two outcomes of
`dma_irq_handler`, with the callback into the stream; the ALSA core may stop the
stream from inside it (an underrun).

Assumed of the engine, which is not in the source: END is read when a
descriptor is finished, so that a descriptor queued meanwhile is seen; a
stopped engine keeps RUN and looks at END again when it is woken; two
descriptors that end before the handler runs raise one interrupt.
`add_descript` is one step: the engine may end the last descriptor between
the clearing of its END bit and the writing of the new one, and what it then
does depends on hardware the source does not describe (`dma.c:402`).

Not in the model: the choice of a channel, buffers of more than one descriptor
(periods are below 32 KB; `add_descript` computes the address of a further
descriptor from one already advanced, `dma.c:416`), `MEMORY_DMA_REQ` (no
client; its second ring overwrites the address of the first, `dma.c:732`),
`wmt_wake_dma` (no caller), the conversion of samples and the copy for WFD.

The code goes back in the buffer in two cases, which `InOrder` names and bounds. A
pause or a suspension clears the channel and `period`, so that the stream plays on
from the first unit of the buffer while ALSA's position is elsewhere
(`wmt-pcm.c:383`); only `wmt_pcm_prepare` makes the application start there too. And
an error that comes when nothing is left of a descriptor moves on the CPR of an
argument that was passed by value (`dma.c:503-510`), so that the descriptor, or
what an earlier error had left of it, is moved once more; the engine then is where
it had been before.

A mono playback stream of 16-bit samples queues each period twice
(`wmt-pcm.c:215-251`), which is `Submits = 2`: `AtMostTwo` fails within a few steps
(run `pcm_mono`), and so does `CountsCover`. The passing run and the proofs are about
the other streams.

### Boot environment

`BootEnv` is `wmt_env.c` on the serial flash after the flash driver has registered
its partitions. A set changes the environment in RAM, erases the copy not in use,
writes the new one and then clears the flags byte of the old one.

| state | code |
|---|---|
| `flash` | the two sectors: CRC right, wrong or erased; flags; the variables |
| `ram`, `mtd_init`, `env_valid`, `env_invalid` | `*env_ptr` and the statics of the same names |
| `sem`, `waiters` | `s_wmt_env_lock` |
| `pc`, `req` | where each caller is: waiting, inside, asleep in the erase, between the two writes |
| `wild` | `mtd_table` was indexed with `ENV_INVALID`; nothing is claimed afterwards |
| `kept` | history: the value each variable was last acknowledged to have |
| `trouble` | history: a signal ended a wait in this boot, a write failed, a text did not fit |

A sector that was not erased before it is written, or whose write was cut, has a
wrong CRC; clearing the flags byte changes one bit and is not cut. `Crash` takes everything but the
flash, at any step. An erase may fail before or after it has touched the
sector. A write may stop at an error with the sector as it was or torn; `sf_write`
returns 0 all the same (`wmt_sf.c:677`), so the driver goes on. `Interrupt` is the
wait for the lock that a signal ends: the caller goes on without it, and its `up`
lets one more in (`MaxPermits` bounds how many). The erase sleeps; the two writes do not, and nobody runs between them
(uniprocessor, no preemption). The lengths of entries are kept, so that the
overflow test is the code's; of a text that it lets through although it does not fit,
the last entry loses its end in the flash (`Image`), and no further call is followed,
since the search in RAM would run over the end of `env_ptr`. After a load that found nothing the text in RAM is
whatever was read last; it is taken to be empty.

`EnvStore` is the promise: callers see one environment, a reboot shows another,
and the second changes only by becoming the first as a whole. `BootEnv`
implements it with `durable` mapped to what `read_env_after_mtd_init` would
choose, which is where a set that has written but not yet marked takes effect.

Not in the model: the path before the MTD layer is up, environments on NAND or
NOR flash, and the parsing of the text.

These three break the promise that a set which returned 0 is found by the next boot
(`StoredIsFound`, run `env_lost`; `MCBootEnv_signal.cfg`, `MCBootEnv_write.cfg` and
`MCBootEnv_overflow.cfg` have one of them each). The
properties of the passing run say which of them each survives: `Durable`,
`KeepsACopy` and `ChangesAsAWhole` none in the same boot (the boot after it starts
with what it finds and is held to it again), `LockAccounted` all but the signal,
`Visible` all but the text that does not fit, `WildOnlyIfEmpty` all.

What the code does outside the model: `wmt_getsyspara` copies a value before it looks
at `*varlen` (`wmt_env.c:824`); clearing `baudrate` with NULL hands NULL to
`simple_strtoul` (`wmt_env.c:916`).

### SD host

`SdHost` is `mmc_atsmb.c` with the request functions of `core.c`. One caller makes
requests one after the other, which is what `req_sema` enforces.

| state | code |
|---|---|
| `h.kind`, `retries`, `cmd_error`, `data_error`, `resp` | the request |
| `h.mrq_done`, `done_data`, `soft_timeout`, `opcode`, `DmaIntMask` | `struct atsmb_host` |
| `h.complete`, `h.done` | `complete()` calls on the completions of `atsmb_start_data` and of `mmc_wait_for_req` |
| `h.mask`, `status`, `pdma`, `ier`, `op` | the registers and the command under way |
| `h.own`, `h.moved` | history: the command is this request's; what the request asks for was done |
| `h.late` | history: a poll timed out, or a command was prepared before a given-up one had ended |
| `pc`, `polls` | the caller, and `loop_cnt` |

Requests are plain commands (with retries), SEND_STATUS, commands that read a
register back by DMA, single and multiple block transfers, and SDIO transfers.
The caller's steps are cut where an interrupt matters: between the announcement
of the completion, the preparation of the host (which enables its interrupts), the
set-up of the DMA engine and the command, after the wait, between the test of
`soft_timeout` and the reset. `dma_times` is 1 in every request, because
`max_segs` is 128 and a chunk has 256 descriptors, so the loop over chunks runs
once.

The host ends a command well, with an error on one of its two interrupt lines or
on both, or, for a transfer, without an interrupt, as after a bad CRC among several
blocks, for which no interrupt is enabled. A transfer may also outlast the timer.
Assumed of it: the response to a command with data may come first, and all else that
it has to report is raised at one time; a new command replaces the one before it; a
soft reset of the DMA engine disables its interrupt.

Both timers are in the model. The one of a transfer resets the DMA engine and
disables the interrupts; the one of a poll does neither (`mmc_atsmb.c:695-701`). If
that is the last turn of the loop, the data command goes out with the interrupt of
the response enabled, its response is taken for the end of the transfer, and the
transfer, still running, interrupts when the caller has gone
(`MCSdHost_poll.cfg`). A command that is prepared while an old one is still under way
meets a like fate: what the old one reports between the unmasking (`mmc_atsmb.c:514`)
and the start (`:546`) is judged as the new one's. `late` records both, until a
request finds the host idle; `SuccessIsTransferred` and `HandlerFindsCaller` are about
requests without it, `EndsOnce` and `EveryRequestEnds` about all. Host 1 (`mmc_atsmb1.c`) has no `mrq_done`; the mutant of `EndsOnce` is
its `atsmb_request_end`.

Not in the model: insertion and removal, the SDIO interrupt, bus and power
settings, suspend, and the other three hosts, which are copies.

## Runs

| run | instance | shows |
|---|---|---|
| `share` | 2 tasks, 2 pages, 3 user objects, 1 user address, 2 files each | `TypeOK`, `CountIsUsers`, `CreatorInList`, `ClosedHoldsNothing`, `OthersKeepRefs`; `ReleaseEnds`: the RESCAN loops of the last close end |
| `layout` | 1 task, 5 pages, at most 4 blocks, no mappings | `BlocksDisjoint`, `CountersExact`, `ZoneFitsRequest`, and `SharesPages`: the driver implements `MemShare` |
| `mbti` | 2 tasks, 5 files, 3 entries | `FilesShareOneEntry` |
| `i2c_blocking` | 2 tasks, 12 message lists of up to 3 messages, 2 of them with an empty write, refusals, 3 retries | `TypeOK`, `TransferComplete`, `FailureIsRefusal`, `MsgsNotInUse`, `InBounds`, `NoSpin`, `EveryCallEnds` |
| `i2c_mixed` | bus 1; 2 tasks, 2 timer clients, 4 lists that end with a read, no refusals | `NoLostWakeup`, `QueueRuns`, `EveryCallEnds`, and `ServesInLine`: the driver implements `I2cService` |
| `pcm` | 3 periods of 2 units queued once, a ring of 4 descriptors, 2 transfer errors | `InOrder`, `AtMostTwo`, `CountsCover`, `EndIsLast`, `NoStall`, `KeepsPlaying`, `TypeOK` |
| `env` | 2 callers, 2 variables, 2 values, power cuts, signals, failed erases and writes, texts that do not fit | `Durable`, `Visible`, `KeepsACopy`, `WildOnlyIfEmpty`, `LockAccounted`, `TypeOK`, and `ChangesAsAWhole`: the driver implements `EnvStore` |
| `sd` | every kind of request, up to 2 retries, 3 polls | `EndsOnce`, `SuccessIsTransferred`, `HandlerFindsCaller`, `EveryRequestEnds` |

The two instances of the driver split what is large. Sharing needs several
clients and few pages: two pages give two blocks, or one block with an interior
address, and three user objects give a creator, a mapping and a get next to
each other, in every order and of every owner. Layout needs pages and no sharing: with five pages and four blocks every
pattern of gaps around a block (none, before, after, both, merged on free)
occurs, and a gap can be larger than, equal to and smaller than a request.
`MaxMbu` also makes the exhausted-cache paths happen, since every object
handed out is an element of some list.

`i2c_blocking` is the bus as the shipped configuration uses it, and the lists
contain no, one and several bytes, both directions, stops and repeated starts, and
combinations in which the restart flag outlives a message. Two tasks are enough:
the adapter's mutex lets one in at a time, and the second finds the flags the
first left. `i2c_mixed` fills the shared queue with up to three requests, so that
one is started by a sender, one by the handler after it, and one waits; it is
the part of the mixed use that works. Outside it: a write at the end breaks
`TransferComplete` (run `i2c_queued_after_write`); a refusal unlinks its request and
starts no other, so `QueueRuns` fails with `AddrNack`; and on a bus other than 1 a
timer client clears the flag before the woken task has tested it, whose wait
has no timeout, so `NoLostWakeup` fails with `ClearsForAll`.

`pcm`: with a ring of four and three periods the positions in the ring and in the
buffer drift against each other, so every period meets every slot, the one that
branches back included; two units let an error hit a descriptor before, between and
after its units; two errors let a second one hit the recovery of the first.

`mbti`: three threads of one task let an open meet an allocation, another open and a
close at once; three objects for two tasks let the allocation fail once entries are
left behind.

`env`: the entries are 7 and 14 bytes long in a sector of 21 with a header of 5,
so that one long or two short entries fill the data, a short and a long one are
accepted and do not fit, and two long ones are refused (with a sector of 20, as in
`MCBootEnv_signal.cfg` and `MCBootEnv_write.cfg`, nothing is accepted that does not fit); one variable is `baudrate`, with a supported and an unsupported value. The initial
flash is every pair of good, torn and erased copies, active and obsolete. Two
callers suffice for the lock: one inside and one waiting, arriving or let in by a
signal, so that `MaxPermits` = 2 cuts nothing off but permits nobody is left to use.

`sd`: three polls let the loop end by success, by an error, and by running out;
two retries let a retry fail and be retried. Requests follow each other without
bound, so that whatever one leaves behind meets every kind of next request.

Deadlock is checked in all passing runs.

Violation runs, each a disagreement between the code and a comment in it
(details in `findings` of `PROJECT.json`):

| run | the comment | what the code does |
|---|---|---|
| `resched_alloc` | "mb_do_lock locked" | two allocations get the same pages |
| `pcm_mono` | "at most 2 successful calls can be made before one of them terminates" | a mono stream of 16-bit samples has four buffers queued |
| `env_lost` | "Return 0 indicates success. Nonzero indicates failure." | a set returns 0 and is lost: `sf_write` returns 0 for a write that failed; the overflow test lets a text through that is stored without its end; a caller that a signal wakes from `down_interruptible` goes on without the lock |
| `i2c_queued_after_write` | "send i2c_msg into fifo of i2c bus" | a request queued behind one that ends with a write starts at its second message |

Further configurations are kept beside the runs. Each has one property, which TLC
finds violated:

| configuration | property | the comment | what the code does |
|---|---|---|---|
| `MCMemBlock_UnusedIsReleased.cfg` | `UnusedIsReleased` | "current MB use count, release until zero" (`memblock.c:248`) | an unmap that drops the last reference leaves the block allocated, until somebody gets and puts it by its address, maps it and closes, or resets the area |
| `MCMbTaskInfo_overlap.cfg` | `MultiOpenRecord` | "multi open record" (`memblock.c:296`) | two threads of a task that open at once add two entries; a close frees the one another file points to |
| `MCSdHost_poll.cfg` | `CallerIsThere` | "Now, we can safely issue read/write command." (`mmc_atsmb.c:710`) | after a poll that timed out the interrupt of the data command finds its caller gone |
| `MCBootEnv_write.cfg`, `MCBootEnv_overflow.cfg`, `MCBootEnv_signal.cfg` | `StoredIsFound` | as for `env_lost`, and '"varname" + "=" + "val" +"\0\0"  > ENV_SIZE - (env-env_data)' (`wmt_env.c:974`) | the three causes of `env_lost`, one at a time |

Other consequences of the MB driver's searches that the model contains and that
no run asks about: a CREATOR search matches any user of the block and then returns
`mb->creator`, so a task that only mapped a block can drop the creator of
another task (`memblock.c:1243`); `MB_DEF_TGID` matches every tgid, so a kernel
put may unlink a task's get (`memblock.c:1238`); and `mb_get` accepts an
interior address that `mb_put` does not find (`memblock.c:1583`). A force reset
with a block in use deletes inside the unsafe form of the list walk and goes on
from the freed entry (`memblock.c:2075`).
`OthersKeepRefs` is what does hold: a task can drop a foreign *creator*, but
never a foreign mapping or get. On the I2C bus, with refusals and timer clients
together, `MsgsNotInUse` fails as well (the refusal of one request wakes the
sender of another).

Fairness. `ReleaseEnds` needs weak fairness of the turns of `mb_release`: they
run with interrupts off in one function call, so nothing but the loop itself can
keep it from ending. `EveryCallEnds` needs a task that is runnable again and
again to run (strong fairness, since a timer can interrupt it before any
step; timers are periodic and the scheduler runs tasks between them), a timer
function to go on (weak), and the controller to end every byte it started (weak).
It promises nothing once the handler has left a buffer on an empty write.
`KeepsPlaying` needs the engine to move on and interrupts to be served (weak);
not the application, since a stream that runs dry is stopped. `EveryRequestEnds`
needs the caller to be scheduled, interrupts to be served and the host to end what
it was given, be it without a word (weak each): the timers do the rest for
transfers and polls. Nobody is assumed to make a call.

## Proofs

Every invariant and action property of the passing runs is proved for every value of
the constants that satisfy the assumptions named here, and so are the three
refinements. Each proof
module has an inductive invariant `IInv` that TLC checked first on the instances
of the runs. The theorems, their properties and a sentence on each are under
`theorems` in `PROJECT.json`; what follows is the argument.

**MB driver.** `MemBlockProofs`, for every `Tasks`, `Pages`, `PhysStart`,
`UserVA`, `ULongRange`, `MaxMbu` and `MaxOpen` that satisfy `MBAssumption`:
`TypeOK`, `BlocksDisjoint`, `CountIsUsers`, `CreatorInList`, `ZoneFitsRequest`,
`CountersExact`.
`MBAssumption` says that the area is not empty, lies above its own size (the
driver's own assumption, `memblock.c:2220`), ends below the range of `unsigned
long`, and that user addresses are neither 0 nor physical addresses of the area.
`IInv` is the conjunction of

* `ListOK(mb_list)`: every block is sound on its own (`BlockOK`: count, creator,
  types) and the blocks are in order inside the area (`Layout`);
* `nr_mb`, `mba_max`, `mbah_max`, `mba_free` and `mbah_free` agree with the list;
* the types of the task variables.

The counters are needed because the guard of an allocation reads them and not
the list; the order of the list is needed because the unsigned zone sizes only mean
something when they do not wrap; and that the creator is exactly the user with
address 0 is what keeps `put` and `unmap` from unlinking it. The argument goes
by operation on values: `AddUserOK`, `DelUserOK`, `DelCreatorOK` for a block,
`ReplaceOK`, `RemoveOK`, `InsertOK` for the list, `RemoveGrows` (freeing never
shrinks the largest zone, which is why `mb_free_mb` may use `max` on the host's
cached value) and `RequestFits` for the first-fit walk; then one step per action.

The free pages of `CountersExact` are kept in two ways: `mb_alloc_mb` subtracts, and
`mb_free_mb`, `mb_release` and the force reset sum them up zone by zone. For the
first, a placed block takes its own pages out of the set of free ones. The second is
a fold over the zones, whose value would need an
induction over the list, which the prover does not have. Instead
`SumIsFree` shows that the number of pages in a set of gaps satisfies the fold's
recursion equation (the gaps are pairwise disjoint and together the free pages,
`GapsDisjoint`, `GapsAreFree`), and that two solutions cannot differ, since there
would be a smallest set of zones on which they do (`WFMin` on proper subsets).

`MemShareProofs` adds `ClosedHoldsNothing`, `OthersKeepRefs` and `SharesPages`
from the same assumptions. It first shows that every step of the driver is one of
six *moves* on the list (`KernelMoves`, `TaskMoves`): a user is linked, a block is
placed with its creator as only user, one or two entries the caller can reach are
cut and the block is swept if it is then unused, or an unused list is cleared.
Each result is then one lemma per move. A closed task holds nothing because
moves add users of the caller only, and a closed task is no caller; the end of
`mb_release` is the scan that finds nothing. Foreign references, counted with
multiplicity, stay because what a cut or a sweep leaves is in bijection with what
was there (`SameRefs`), and a cut only reaches a creator or the caller's own
entries. For the refinement the list is mapped to a function from intervals to
counts (`Holders`); `BlocksDisjoint` makes the intervals distinct, so that this is
a function, and each move is a step of `MemShare` or a stutter.

`ScanAdvances` is the part of `ReleaseEnds` that is not about fairness: while a task is
being closed and has users on the list, the walk meets a first one, and every step
that does not end the close leaves strictly fewer. A cut maps what is left
injectively into the entries before, past the one that went; the sweep of an
unused block takes none.

**Task list.** `MbTaskInfoProofs`, for any finite set of files:
`FilesShareOneEntry`. The invariant adds types and `AloneInOpen`: until an overlap, a
thread that sleeps in the allocation is the only one of its task there and the task has
no entry, so that the search it made is still right when it wakes.

**I2C.** `I2cBusProofs`, for any tasks, clients, message lists and number of
retries, under `SafeUse`: all of `TypeOK`, `TransferComplete`,
`FailureIsRefusal`, `MsgsNotInUse`, `NoLostWakeup`, `QueueRuns`, `InBounds`,
`NoSpin`. `SafeUse` asks two things.

* The lists are well formed: no message is empty, and a list does not end with a
  read of several bytes with `I2C_M_NOSTART`. The code does not survive either: an
  empty write never meets its length, an empty read is refused after it was
  queued, and after such a last read the bus stays held and the next sender spins.
* The use is one that works: blocking senders alone, on any bus and with
  refusals; or timer clients too (`ClientsServed`), when slaves do not refuse, when
  tasks share the bus with them on bus 1 only, and when lists end with a read or
  there is just one sender (`Alone`), so that nobody queues behind a write. The
  section on runs says what fails in other uses.

All lists of the passing runs but the two with an empty write satisfy it. Under
`SafeUse` the exception of `InBounds` does not occur, and the theorem says so.
`IInv` says that the bytes moved for the head of
the queue are exactly those before its current one (`Sent`); that the controller
is set up for that byte: the byte in `CDR` for a write, the no-acknowledge bit for
a read; that the restart flag is set whenever the message will end with the bus
held; that the other requests are untouched; that each owner waits and is queued
once; and that the flags are set only for a task whose request has left the queue.
The refusals of a call are `Retries - tries`, one more while `isr_nack` waits to be
seen. All properties follow from this one invariant, and none is inductive without
it: `TransferComplete`, for one, needs the flags, the queue and the controller.

`ServesInLine` needs one thing more, `CutInv`: an attempt that ended with a NACK has
bytes left, and one that is to be repeated was not the last. Then the two entry
points are `Ask`, `i2c_send_request` is `Join`, the interrupts for a byte are `Carry`
of the head of the line, a NACK is `Refuse`, `Retry` is `Again`, and `Result` is
`Answer` or, before a retry, a stutter like `WaitEvent`. That
`Result` answers the right call from flags all senders share is where `IInv` is
used: a set flag belongs to the one task whose request has left the queue.

**Sound stream.** `PcmStreamProofs`, for every number and size of periods, every
ring of more than two descriptors and any number of errors, for streams that submit
each period once (`Submits = 1`; mono playback of 16-bit samples submits twice, and
there the properties fail). The ring of the code has about 127 descriptors
(`dma.c:717`); a ring of two would let the branch back meet the descriptor in
use. `IInv` says where in the ring the queued descriptors are, which periods they hold,
and how far the engine is in the first (`Running`, `HeadAt`), that the driver's
counts cover them (`Playing`), that an inactive stream is cleared, and how the unit the
engine will move next relates to the last one (`Follows`): it is the next one, or the
first, or it begins a rest of the descriptor that ends where the engine had got.

**Boot environment.** `BootEnvProofs`, for every set of callers, variables, values
and faults and every sector size: all properties of the run `env`. `IInv` has three
parts. `Base` holds in every boot, with two updates at once and failed writes: both
indices name a sector or neither does, and then there is no good copy; RAM has what was
acknowledged; and a boot that has not read the flash yet finds there what it owes.
The lock is accounted for until a signal. And `Core` holds as long as there was no
trouble: the indices name a good copy and the other one, the first is what the next
boot would find unless an update is between its two writes, and what an update has done
at each point. `Durable` by itself says nothing of which sector will be erased next.
That `ChangesAsAWhole` is a refinement of `EnvStore` step by step, in the boots without
trouble, follows from `Core` in both states of a step.

**SD host.** `SdHostProofs`, for every set of requests, retries and polls:
`EndsOnce`, `SuccessIsTransferred`, `HandlerFindsCaller`. `Base` holds in every
behaviour and says that a request that is not over is either unended or was ended
once. The rest of `IInv`, as long as `late` is not set, is a table
(`HostAt`) of what the host can be doing at each point of the caller. Its core is
`Calm`: whenever the caller has no command of its own out, an old one may still
run after a time-out, but with no interrupt enabled.

Only model-checked: `ReleaseEnds`, `EveryCallEnds`, `KeepsPlaying` and
`EveryRequestEnds`, since liveness under fairness is out of the prover's reach. Of
the first the variant is proved (`ScanAdvances`); of the second and third what a
waiting caller waits for (`NoLostWakeup`, `QueueRuns`, `NoStall`). The
violation runs are about single instances and are no subject of the proofs.

## Plan

1. Done: `MemBlock`, `MemShare`, `MemBlockResched`, `MbTaskInfo`, `I2cBus`,
   `I2cService`, `DmaChannel` and `PcmStream`, `EnvStore` and `BootEnv`, `SdHost`, and
   the proofs of the section above.
2. Proofs still open: what holds of an I2C bus with refusals and timer clients, with
   the properties restricted to the requests that were not refused.
3. The I2C handler under a NACK that comes with the end of a byte.
4. The sleep inside `mb_mmap`; insertion and removal on the SD host; the display
   queue as a client of `MemBlock`; SPI and the serial port as clients of
   `DmaChannel`.

## Not modelled

The repository is a whole kernel; upstream Linux and AOSP code, vendored
wireless and GPU drivers and the generic subsystems are out of scope.
Of the SoC's own code these parts are left out (each with its files and reason
in `components` of `PROJECT.json`): clocks, power, GPIO, input, backlight, battery and
RTC, which are register accessors with a timer at most; NAND and serial flash
command sequences and ECC, whose control is that of the MTD layer; the display
pipeline, camera and GPU glue, whose correctness is in register values apart from
the display queue; SPI, serial and the USB gadget, whose queues and completions
resemble the ones modelled here.
