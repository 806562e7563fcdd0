------------------------------- MODULE I2cBus -------------------------------
(***************************************************************************)
(* An I2C master of the SoC: drivers/i2c/busses/wmt-i2c-bus.c and its      *)
(* copies -1, -2 and -3, with the entry points of algos/wmt-i2c-algo.c.    *)
(* Tasks make blocking transfers under the adapter's mutex; clients such   *)
(* as the kxte9 sensor send non-blocking requests from a timer, which      *)
(* interrupts a task anywhere, and are called back by the interrupt        *)
(* handler.  All requests share one queue, wmt_i2c_fifohead, and all       *)
(* senders two flags that the handler sets.  The kernel is built for one   *)
(* processor, so a section with interrupts off is one step.                *)
(***************************************************************************)
EXTENDS Integers, Sequences

CONSTANTS
  Tasks,         \* callers of i2c_transfer
  Clients,       \* callers of wmt_i2c_transfer, one request at a time each
  MsgLists,      \* the message lists they may pass
  Retries,       \* i2c_adapter.retries (I2C_ADAPTER_RETRIES, 3)
  ClearsForAll,  \* a non-blocking sender clears isr_int_pending too: TRUE
                 \* for buses 0, 2 and 3, FALSE for bus 1
  AddrNack       \* a slave may refuse its address

Procs == Tasks \cup Clients

(* struct i2c_msg: direction (I2C_M_RD), I2C_M_NOSTART and length.         *)
Msg == [rd : BOOLEAN, nostart : BOOLEAN, len : Nat]

ASSUME I2cAssumption ==
  /\ Tasks \cap Clients = {}
  /\ MsgLists \subseteq {s \in Seq(Msg) : s # <<>>}
  /\ Retries \in Nat
  /\ ClearsForAll \in BOOLEAN
  /\ AddrNack \in BOOLEAN

VARIABLES
  fifo,             \* wmt_i2c_fifohead
  isr_nack,         \* i2c.isr_nack
  isr_int_pending,  \* i2c.isr_int_pending
  hw,               \* the controller
  pc,               \* where each sender is
  call,             \* the messages of each sender's last call
  tries,            \* i of wmt_i2c_xfer, for the owner of the adapter
  ret,              \* what each sender's last call came to
  moved,            \* the bytes of that call moved so far, as <<msg, index>>
  refused,          \* how often a slave refused an address of that call
  stuck             \* "spin": interrupts off, waiting for a bus that nobody
                    \* will free; "wild": a buffer or list overrun

vars == <<fifo, isr_nack, isr_int_pending, hw, pc, call, tries, ret, moved,
          refused, stuck>>

None == <<-1, -1>>

(* A queued request, struct wmt_i2cbusfifo; msg and msg_num point into the *)
(* sender's call, callback is the sender's when non_block.                 *)
Request == [who : Procs, non_block : BOOLEAN, xfer_length : Nat,
            xfer_msgnum : Nat, restart : BOOLEAN]

(* The controller: ready, with a byte under way, or holding the clock until *)
(* the CPU answers.  addr: the byte follows an address; noack: CR_TX_NEXT_ *)
(* NO_ACK; cdr: the byte to send.                                          *)
Controller == [bus : {"ready", "busy", "held"}, addr : BOOLEAN,
               noack : BOOLEAN, cdr : {None} \cup (Nat \X Nat)]

Init ==
  /\ fifo = <<>>
  /\ isr_nack = FALSE
  /\ isr_int_pending = FALSE
  /\ hw = [bus |-> "ready", addr |-> FALSE, noack |-> FALSE, cdr |-> None]
  /\ pc = [p \in Procs |-> "idle"]
  /\ call = [p \in Procs |-> <<>>]
  /\ tries = 0
  /\ ret = [p \in Procs |-> "none"]
  /\ moved = [p \in Procs |-> <<>>]
  /\ refused = [p \in Procs |-> 0]
  /\ stuck = "no"

-----------------------------------------------------------------------------
(* Starting a message                                                      *)

MsgNum(r) == Len(call[r.who])

(* xfer_msgnum < msg_num - 1 does not hold: nothing follows this message.  *)
LastMsg_Early(r) == r.xfer_msgnum >= MsgNum(r) - 2
LastMsg_Late(r) == r.xfer_msgnum >= MsgNum(r)
LastMsg(r) == r.xfer_msgnum >= MsgNum(r) - 1

Overrun(r) == r.xfer_msgnum >= MsgNum(r)
Pmsg(r) == call[r.who][r.xfer_msgnum + 1]

(* The write buffer's first byte, or the 0 sent for a message without one. *)
FirstByte(r) ==
  IF Pmsg(r).rd \/ Pmsg(r).len = 0 THEN None ELSE <<r.xfer_msgnum, 0>>

(* i2c_wmt_read_buf and i2c_wmt_write_buf: the first message of a request  *)
(* that found the queue empty.  A read of no bytes is refused before the   *)
(* controller is touched.                                                  *)
Refused(r) == Pmsg(r).rd /\ Pmsg(r).len = 0
StartFirst(r) ==
  [bus |-> "busy", addr |-> TRUE, noack |-> Pmsg(r).rd /\ Pmsg(r).len = 1,
   cdr |-> FirstByte(r)]

(* wmt_i2c_transfer_msg: any later message.  Without a repeated start it   *)
(* waits for the bus.                                                      *)
StartNext(r, h) ==
  [bus |-> "busy", addr |-> TRUE,
   noack |-> IF Pmsg(r).rd THEN Pmsg(r).len = 1 ELSE h.noack,
   cdr |-> FirstByte(r)]

(* i2c_wmt_wait_bus_not_busy has no exit but a ready bus.                  *)
Spins(bus) == bus # "ready"

(* The handler starts the current message of the request r, with rest      *)
(* queued behind it, on the controller h.                                  *)
Launch(r, rest, h) ==
  IF Overrun(r)
  THEN /\ stuck' = "wild"
       /\ UNCHANGED <<fifo, hw, isr_nack>>
  ELSE IF ~r.restart /\ Spins(h.bus)
  THEN /\ stuck' = "spin"
       /\ UNCHANGED <<fifo, hw, isr_nack>>
  ELSE /\ fifo' = <<[r EXCEPT !.xfer_length = 1]>> \o rest
       /\ hw' = StartNext(r, h)
       /\ isr_nack' = FALSE
       /\ UNCHANGED stuck

-----------------------------------------------------------------------------
(* Sending a request                                                       *)

(* The timer that a client runs in is not preempted by tasks.              *)
InTimer == \E c \in Clients : pc[c] = "queue"
CanRun == stuck = "no" /\ ~InTimer

(* The head of i2c_send_request, with interrupts on.  (A call to the       *)
(* master's own address, WMT_I2C_API_I2C_ADDR, returns 0 before it and     *)
(* changes nothing, however often wmt_i2c_xfer tries: a stuttering step.)  *)
ClearFlags_Always(p) == isr_nack' = FALSE /\ isr_int_pending' = FALSE
ClearFlags_KeepPending(p) == isr_nack' = FALSE /\ UNCHANGED isr_int_pending
ClearFlags(p) ==
  /\ isr_nack' = FALSE
  /\ isr_int_pending' = (isr_int_pending /\ p \in Clients /\ ~ClearsForAll)

NewCall(p, msgs) ==
  /\ call' = [call EXCEPT ![p] = msgs]
  /\ ret' = [ret EXCEPT ![p] = "none"]
  /\ moved' = [moved EXCEPT ![p] = <<>>]
  /\ refused' = [refused EXCEPT ![p] = 0]
  /\ pc' = [pc EXCEPT ![p] = "queue"]
  /\ UNCHANGED <<fifo, hw, stuck>>

(* i2c_transfer takes the adapter's mutex; wmt_i2c_xfer calls              *)
(* i2c_send_request for the first time.                                    *)
i2c_transfer(t, msgs) ==
  /\ CanRun
  /\ \A u \in Tasks : pc[u] = "idle"
  /\ ClearFlags(t)
  /\ NewCall(t, msgs)
  /\ tries' = Retries

(* wmt_i2c_transfer.                                                       *)
wmt_i2c_transfer(c, msgs) ==
  /\ CanRun
  /\ pc[c] = "idle"
  /\ ClearFlags(c)
  /\ NewCall(c, msgs)
  /\ UNCHANGED tries

NewRequest(p) ==
  [who |-> p, non_block |-> p \in Clients, xfer_length |-> 0,
   xfer_msgnum |-> 0, restart |-> FALSE]

(* The part of i2c_send_request under i2c_fifolock: start the request if   *)
(* the queue is empty, otherwise leave it to the handler.                  *)
Enqueue(p) ==
  LET r == NewRequest(p)
      first == [r EXCEPT !.xfer_length = 1,
                         !.restart = ~Pmsg(r).rd /\ Pmsg(r).nostart]
  IN  IF fifo # <<>>
      THEN /\ fifo' = Append(fifo, r)
           /\ UNCHANGED <<hw, isr_nack, stuck>>
      ELSE IF Spins(hw.bus)
      THEN /\ stuck' = "spin"
           /\ UNCHANGED <<fifo, hw, isr_nack>>
      ELSE /\ fifo' = <<first>>
           /\ hw' = IF Refused(r) THEN hw ELSE StartFirst(r)
           /\ isr_nack' = (isr_nack /\ Refused(r))
           /\ UNCHANGED stuck

i2c_send_request(p) ==
  /\ stuck = "no"
  /\ pc[p] = "queue"
  /\ p \in Tasks => ~InTimer
  /\ Enqueue(p)
  /\ pc' = [pc EXCEPT ![p] = IF p \in Clients THEN "out" ELSE "wait"]
  /\ UNCHANGED <<isr_int_pending, call, tries, ret, moved, refused>>

(* wait_event(i2c1_wait, i2c.isr_int_pending) returns.                     *)
WaitEvent(t) ==
  /\ CanRun
  /\ pc[t] = "wait" /\ isr_int_pending
  /\ pc' = [pc EXCEPT ![t] = "woken"]
  /\ UNCHANGED <<fifo, isr_nack, isr_int_pending, hw, call, tries, ret, moved,
                 refused, stuck>>

(* The loop of wmt_i2c_xfer ends.                                          *)
NoMoreTries_OneMore == tries < 0
NoMoreTries_OneLess == tries <= 1
NoMoreTries == tries <= 0

(* The tail of i2c_send_request and the loop of wmt_i2c_xfer: the number   *)
(* of messages is returned, a NACK is tried again.                         *)
Result(t) ==
  /\ CanRun
  /\ pc[t] = "woken"
  /\ \/ /\ ~isr_nack
        /\ ret' = [ret EXCEPT ![t] = "ok"]
        /\ pc' = [pc EXCEPT ![t] = "idle"]
        /\ UNCHANGED tries
     \/ /\ isr_nack /\ NoMoreTries
        /\ ret' = [ret EXCEPT ![t] = "EIO"]
        /\ pc' = [pc EXCEPT ![t] = "idle"]
        /\ UNCHANGED tries
     \/ /\ isr_nack /\ ~NoMoreTries
        /\ tries' = tries - 1
        /\ pc' = [pc EXCEPT ![t] = "retry"]
        /\ UNCHANGED ret
  /\ UNCHANGED <<fifo, isr_nack, isr_int_pending, hw, call, moved, refused,
                 stuck>>

(* The next call of i2c_send_request by wmt_i2c_xfer.                      *)
Retry(t) ==
  /\ CanRun
  /\ pc[t] = "retry"
  /\ ClearFlags(t)
  /\ pc' = [pc EXCEPT ![t] = "queue"]
  /\ moved' = [moved EXCEPT ![t] = <<>>]
  /\ UNCHANGED <<fifo, hw, call, tries, ret, refused, stuck>>

-----------------------------------------------------------------------------
(* The interrupt handler, i2c_wmt_handler                                  *)

Irq == stuck = "no" /\ hw.bus = "busy"
r0 == Head(fifo)

Moved(b) == moved' = [moved EXCEPT ![r0.who] = Append(@, b)]

(* The end of a request: a task is woken, a client called back.            *)
Complete_NoCall(r) ==
  /\ isr_int_pending' = (isr_int_pending \/ ~r.non_block)
  /\ UNCHANGED <<pc, ret>>
Complete(r) ==
  IF r.non_block
  THEN /\ pc' = [pc EXCEPT ![r.who] = "idle"]
       /\ ret' = [ret EXCEPT ![r.who] = "ok"]
       /\ UNCHANGED isr_int_pending
  ELSE /\ isr_int_pending' = TRUE
       /\ UNCHANGED <<pc, ret>>

(* The handler moves on to the next request of the queue, skip messages    *)
(* into it.                                                                *)
Dequeue_NoNext(skip, h) ==
  /\ fifo' = Tail(fifo)
  /\ hw' = h
  /\ UNCHANGED <<isr_nack, stuck>>
Dequeue_Skip(skip, h) ==
  IF Tail(fifo) = <<>>
  THEN Dequeue_NoNext(skip, h)
  ELSE Launch([fifo[2] EXCEPT !.xfer_msgnum = @ + skip + 1],
              Tail(Tail(fifo)), h)
Dequeue(skip, h) ==
  IF Tail(fifo) = <<>>
  THEN /\ fifo' = <<>>
       /\ hw' = h
       /\ UNCHANGED <<isr_nack, stuck>>
  ELSE Launch([fifo[2] EXCEPT !.xfer_msgnum = @ + skip], Tail(Tail(fifo)), h)

(* I2C_ISR_NACK_ADDR: the request is unlinked and whoever waits is woken.  *)
NackIrq_NoWake ==
  /\ Irq /\ AddrNack /\ hw.addr
  /\ fifo' = Tail(fifo)
  /\ hw' = [hw EXCEPT !.bus = "ready"]
  /\ isr_nack' = TRUE
  /\ refused' = [refused EXCEPT ![r0.who] = @ + 1]
  /\ UNCHANGED <<isr_int_pending, pc, call, tries, ret, moved, stuck>>
NackIrq ==
  /\ Irq /\ AddrNack /\ hw.addr
  /\ fifo' = Tail(fifo)
  /\ hw' = [hw EXCEPT !.bus = "ready"]
  /\ isr_nack' = TRUE
  /\ isr_int_pending' = TRUE
  /\ refused' = [refused EXCEPT ![r0.who] = @ + 1]
  /\ UNCHANGED <<pc, call, tries, ret, moved, stuck>>

(* A read byte: the controller stops by itself after the byte it did not   *)
(* acknowledge.                                                            *)
ReadIrq ==
  /\ Irq /\ Pmsg(r0).rd
  /\ Moved(<<r0.xfer_msgnum, r0.xfer_length - 1>>)
AfterRead == [hw EXCEPT !.bus = IF hw.noack THEN "ready" ELSE "held"]

(* Not the last byte: the last one of a message without NOSTART is not     *)
(* acknowledged.                                                           *)
ReadData ==
  /\ ReadIrq
  /\ r0.xfer_length # Pmsg(r0).len
  /\ LET last == r0.xfer_length = Pmsg(r0).len - 1
         more == [r0 EXCEPT !.xfer_length = @ + 1]
         next == IF last THEN [more EXCEPT !.restart = Pmsg(r0).nostart]
                 ELSE more
     IN  /\ fifo' = <<next>> \o Tail(fifo)
         /\ hw' = [hw EXCEPT !.addr = FALSE,
                             !.noack = @ \/ (last /\ ~Pmsg(r0).nostart)]
  /\ stuck' = IF r0.xfer_length > Pmsg(r0).len THEN "wild" ELSE stuck
  /\ UNCHANGED <<isr_nack, isr_int_pending, pc, call, tries, ret, refused>>

ReadNextMsg ==
  /\ ReadIrq
  /\ r0.xfer_length = Pmsg(r0).len
  /\ ~LastMsg(r0)
  /\ Launch([r0 EXCEPT !.xfer_msgnum = @ + 1], Tail(fifo), AfterRead)
  /\ UNCHANGED <<isr_int_pending, pc, call, tries, ret, refused>>

(* The next request of the queue starts at its first message.              *)
ReadDone ==
  /\ ReadIrq
  /\ r0.xfer_length = Pmsg(r0).len
  /\ LastMsg(r0)
  /\ Complete(r0)
  /\ Dequeue(0, AfterRead)
  /\ UNCHANGED <<call, tries, refused>>

(* A written byte: the controller holds the clock; TX_END releases the     *)
(* bus.                                                                    *)
WriteIrq ==
  /\ Irq /\ ~Pmsg(r0).rd
  /\ Moved(hw.cdr)
Stopped_NoTxEnd == [hw EXCEPT !.bus = "held"]
Stopped == [hw EXCEPT !.bus = "ready"]

WriteData ==
  /\ WriteIrq
  /\ r0.xfer_length # Pmsg(r0).len
  /\ fifo' = <<[r0 EXCEPT !.xfer_length = @ + 1]>> \o Tail(fifo)
  /\ hw' = [hw EXCEPT !.addr = FALSE,
                      !.cdr = <<r0.xfer_msgnum, r0.xfer_length>>]
  /\ stuck' = IF r0.xfer_length > Pmsg(r0).len THEN "wild" ELSE stuck
  /\ UNCHANGED <<isr_nack, isr_int_pending, pc, call, tries, ret, refused>>

WriteNextMsg ==
  /\ WriteIrq
  /\ r0.xfer_length = Pmsg(r0).len
  /\ ~LastMsg(r0)
  /\ Launch([r0 EXCEPT !.xfer_msgnum = @ + 1, !.restart = Pmsg(r0).nostart],
            Tail(fifo),
            IF Pmsg(r0).nostart THEN [hw EXCEPT !.bus = "held"] ELSE Stopped)
  /\ UNCHANGED <<isr_int_pending, pc, call, tries, ret, refused>>

(* The next request of the queue starts after its first message.           *)
WriteDone ==
  /\ WriteIrq
  /\ r0.xfer_length = Pmsg(r0).len
  /\ LastMsg(r0)
  /\ Complete(r0)
  /\ Dequeue(1, Stopped)
  /\ UNCHANGED <<call, tries, refused>>

ByteIrq ==
  \/ ReadData \/ ReadNextMsg \/ ReadDone
  \/ WriteData \/ WriteNextMsg \/ WriteDone

(* Nothing is claimed of what follows when the handler has left a buffer,  *)
(* and nothing follows a spin.                                             *)
Halted == stuck # "no" /\ UNCHANGED vars

-----------------------------------------------------------------------------
TaskStep(t) == i2c_send_request(t) \/ WaitEvent(t) \/ Result(t) \/ Retry(t)

Next ==
  \/ \E t \in Tasks, s \in MsgLists : i2c_transfer(t, s)
  \/ \E c \in Clients, s \in MsgLists : wmt_i2c_transfer(c, s)
  \/ \E t \in Tasks : TaskStep(t)
  \/ \E c \in Clients : i2c_send_request(c)
  \/ NackIrq
  \/ ByteIrq
  \/ Halted

Spec == Init /\ [][Next]_vars

(* A runnable task runs, between the timers that keep interrupting it too; *)
(* a timer function goes on; the controller ends every byte it started.    *)
(* Nothing makes callers call.                                             *)
Fairness ==
  /\ \A t \in Tasks : SF_vars(TaskStep(t))
  /\ \A c \in Clients : WF_vars(i2c_send_request(c))
  /\ WF_vars(NackIrq \/ ByteIrq)

FairSpec == Spec /\ Fairness

-----------------------------------------------------------------------------
(* Properties                                                              *)

TypeOK ==
  /\ fifo \in Seq(Request)
  /\ isr_nack \in BOOLEAN
  /\ isr_int_pending \in BOOLEAN
  /\ hw \in Controller
  /\ pc \in [Procs -> {"idle", "queue", "wait", "woken", "retry", "out"}]
  /\ call \in [Procs -> MsgLists \cup {<<>>}]
  /\ tries \in 0 .. Retries
  /\ ret \in [Procs -> {"none", "ok", "EIO"}]
  /\ moved \in [Procs -> Seq({None} \cup (Nat \X Nat))]
  /\ refused \in [Procs -> Nat]
  /\ stuck \in {"no", "spin", "wild"}

Bytes(msgs) == UNION {{m - 1} \X (0 .. msgs[m].len - 1) : m \in 1 .. Len(msgs)}
Before(a, b) == a[1] < b[1] \/ (a[1] = b[1] /\ a[2] < b[2])
Whole(p) ==
  /\ {moved[p][k] : k \in 1 .. Len(moved[p])} = Bytes(call[p])
  /\ \A k \in 1 .. Len(moved[p]) - 1 : Before(moved[p][k], moved[p][k + 1])

(* A transfer that is reported as done (a positive return, a callback) has *)
(* moved every byte of every message, once and in order.                   *)
TransferComplete == \A p \in Procs : ret[p] = "ok" => Whole(p)

(* wmt_i2c_xfer reports a failure only after a slave refused each of its   *)
(* attempts, and not because of somebody else's.                           *)
FailureIsRefusal == \A t \in Tasks : ret[t] = "EIO" => refused[t] = Retries + 1

Queued(p) == \E k \in 1 .. Len(fifo) : fifo[k].who = p

(* When a call has returned or its callback has run, no queued request     *)
(* still points to its messages: the handler would use the caller's dead   *)
(* stack frame.                                                            *)
MsgsNotInUse == \A p \in Procs : pc[p] = "idle" => ~Queued(p)

(* A task waits only while the handler still has to set isr_int_pending    *)
(* for it, or has set it.                                                  *)
NoLostWakeup == \A t \in Tasks : pc[t] = "wait" => Queued(t) \/ isr_int_pending

(* While a request is queued the controller works on its head: nobody but  *)
(* the next interrupt would start it.                                      *)
QueueRuns == fifo # <<>> => hw.bus = "busy"

(* The handler stays inside the message list, and inside the buffers of    *)
(* all messages but one kind: a write of no bytes, which i2c_wmt_write_buf *)
(* says it allows (wmt-i2c-bus.c:285), is counted past its end when the    *)
(* slave does not refuse it.                                               *)
EmptyWrite(r) == ~Overrun(r) /\ ~Pmsg(r).rd /\ Pmsg(r).len = 0
InBounds == stuck = "wild" => fifo # <<>> /\ EmptyWrite(Head(fifo))

(* i2c_wmt_wait_bus_not_busy is never called, interrupts off, on a bus     *)
(* that is not going to be freed.                                          *)
NoSpin == stuck # "spin"

Service == INSTANCE I2cService WITH
  Callers <- Procs, Lists <- MsgLists, Attempts <- Retries + 1,
  active <- {p \in Procs : pc[p] # "idle"}, asked <- call,
  line <- [k \in 1 .. Len(fifo) |-> fifo[k].who],
  carried <- moved, refusals <- refused, answer <- ret

(* The calls of tasks and timers are served in the order they were queued, *)
(* each byte after byte and nobody else's in between, and each is answered *)
(* once, from its own bytes: the queue, the flags that all senders share   *)
(* and the handler's counters implement I2cService.                        *)
ServesInLine == Service!Spec

(* Every transfer returns and every callback is made, unless the handler   *)
(* left a buffer, which InBounds says when it can.                         *)
EveryCallEnds ==
  \A p \in Procs : pc[p] # "idle" ~> pc[p] = "idle" \/ stuck = "wild"

=============================================================================
