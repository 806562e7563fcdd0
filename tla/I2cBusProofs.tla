---------------------------- MODULE I2cBusProofs ----------------------------
(***************************************************************************)
(* Proofs about the I2C masters of I2cBus, for any number of tasks and     *)
(* clients, any number of tries and the message lists of SafeUse, on which *)
(* every theorem rests.  Two uses of a bus are safe, and they are proved   *)
(* together: tasks alone, and non-blocking clients as long as no slave     *)
(* refuses its address, nobody queues behind a list that ends with a       *)
(* write, and tasks join in on bus 1 only; in both every message has a     *)
(* byte.  The code does not keep its callers to this, and outside of it    *)
(* the theorems are false: the run i2c_queued_after_write has the trace of *)
(* a request behind a write, and i2c_blocking reaches the state in which   *)
(* the handler has left the buffer of a write of no bytes.                 *)
(***************************************************************************)
EXTENDS I2cBus, TLAPS

(* What callers have to respect whatever else goes on.  i2c_wmt_read_buf   *)
(* refuses a read of no bytes after it was queued, a write of none never   *)
(* meets xfer_length == len, and a call that ends with a read of several   *)
(* bytes with I2C_M_NOSTART leaves the controller holding the bus.         *)
WellFormed ==
  \A s \in MsgLists :
    /\ \A m \in 1 .. Len(s) : s[m].len > 0
    /\ s[Len(s)].rd /\ s[Len(s)].nostart => s[Len(s)].len = 1

BlockingOnly == Clients = {}

(* At most one sender, so that nobody queues behind anybody.               *)
Alone == \A p, q \in Procs : p = q

(* Non-blocking clients are served: nobody is refused (a refusal starts no *)
(* other request), a client that queues does not clear the flag a task is  *)
(* about to test (ClearsForAll; bus 1 only), and nobody is queued behind a *)
(* list that ends with a write.                                            *)
ClientsServed ==
  /\ ~AddrNack
  /\ Tasks = {} \/ ~ClearsForAll
  /\ Alone \/ \A s \in MsgLists : s[Len(s)].rd

SafeUse == WellFormed /\ (BlockingOnly \/ ClientsServed)

-----------------------------------------------------------------------------
(* The inductive invariant                                                 *)

(* mv are the bytes of the list s before byte l of message n, in order.    *)
Sent(mv, s, n, l) ==
  /\ \A k \in 1 .. Len(mv) : mv[k] \in Bytes(s) /\ Before(mv[k], <<n, l>>)
  /\ \A b \in Bytes(s) : Before(b, <<n, l>>) => \E k \in 1 .. Len(mv) : mv[k] = b
  /\ \A k \in 1 .. Len(mv) - 1 : Before(mv[k], mv[k + 1])

(* The request r is under way on the controller h: what the handler will   *)
(* find at its next interrupt.                                             *)
UnderWay(r, s, mv, h) ==
  LET n == r.xfer_msgnum
      m == s[n + 1]
  IN  /\ n < Len(s)
      /\ r.xfer_length \in 1 .. m.len
      /\ Sent(mv, s, n, r.xfer_length - 1)
      /\ m.rd => h.noack = (m.len = 1 \/ (r.xfer_length = m.len /\ ~m.nostart))
      /\ m.rd /\ m.nostart /\ m.len > 1 /\ r.xfer_length = m.len => r.restart
      /\ ~m.rd => h.cdr = <<n, r.xfer_length - 1>>

(* The queue: its owners wait, each once; only the head has been started.  *)
FifoOK ==
  /\ \A k \in 1 .. Len(fifo) :
       /\ fifo[k].non_block = (fifo[k].who \in Clients)
       /\ pc[fifo[k].who] = IF fifo[k].who \in Clients THEN "out" ELSE "wait"
  /\ \A j, k \in 1 .. Len(fifo) : fifo[j].who = fifo[k].who => j = k
  /\ \A k \in 2 .. Len(fifo) :
       fifo[k] = NewRequest(fifo[k].who) /\ moved[fifo[k].who] = <<>>
  /\ fifo # <<>> =>
       UnderWay(fifo[1], call[fifo[1].who], moved[fifo[1].who], hw)

CallOK(p) ==
  /\ pc[p] # "idle" => ret[p] = "none" /\ call[p] \in MsgLists
  /\ pc[p] = "queue" => moved[p] = <<>>
  /\ ret[p] = "ok" => Whole(p)

ClientOK(c) ==
  /\ pc[c] \in {"idle", "queue", "out"}
  /\ pc[c] = "out" => Queued(c)

(* The attempts of a task that were refused, as its counter tells.         *)
Refusals(t) ==
  refused[t] = IF isr_nack /\ pc[t] # "retry" THEN Retries - tries + 1
               ELSE Retries - tries

TaskOK(t) ==
  /\ pc[t] # "out"
  /\ pc[t] = "queue" => ~isr_nack /\ ~isr_int_pending
  /\ pc[t] = "wait" /\ Queued(t) => ~isr_nack /\ ~isr_int_pending
  /\ pc[t] = "wait" /\ ~Queued(t) => isr_int_pending
  /\ pc[t] = "woken" => isr_int_pending
  /\ pc[t] \in {"wait", "woken"} /\ isr_int_pending /\ ~isr_nack => Whole(t)
  /\ pc[t] # "idle" => Refusals(t)
  /\ ret[t] = "EIO" => refused[t] = Retries + 1

IInv ==
  /\ TypeOK
  /\ stuck = "no"
  /\ hw.bus = IF fifo = <<>> THEN "ready" ELSE "busy"
  /\ FifoOK
  /\ \A p \in Procs : CallOK(p)
  /\ \A c \in Clients : ClientOK(c)
  /\ \A t \in Tasks : TaskOK(t)
  /\ \A t, u \in Tasks : pc[t] # "idle" /\ pc[u] # "idle" => t = u
  /\ ~AddrNack => ~isr_nack

-----------------------------------------------------------------------------
(* Bytes sent                                                              *)

Byte == {None} \cup (Nat \X Nat)

(* Lengths are numbers.                                                    *)
LEMMA MsgLength ==
  ASSUME NEW s \in Seq(Msg)
  PROVE  \A m \in 1 .. Len(s) : s[m] \in Msg /\ s[m].len \in Nat
<1> SUFFICES ASSUME NEW m \in 1 .. Len(s)
             PROVE  s[m] \in Msg /\ s[m].len \in Nat
  OBVIOUS
<1>1. s[m] \in Msg
  OBVIOUS
<1> QED
  BY <1>1 DEF Msg

(* The bytes of a message list, one by one.                                *)
LEMMA BytesElements ==
  ASSUME NEW s \in Seq(Msg), NEW b
  PROVE  b \in Bytes(s) <=>
           \E m \in 1 .. Len(s), i \in Nat : i < s[m].len /\ b = <<m - 1, i>>
<1>1. \A m \in 1 .. Len(s) : s[m].len \in Nat
  BY MsgLength
<1>2. b \in Bytes(s) <=> \E m \in 1 .. Len(s) : b \in {m - 1} \X (0 .. s[m].len - 1)
  BY Zenon DEF Bytes
<1>3. ASSUME NEW m \in 1 .. Len(s)
      PROVE  b \in {m - 1} \X (0 .. s[m].len - 1) <=>
               \E i \in Nat : i < s[m].len /\ b = <<m - 1, i>>
  BY <1>1
<1> QED
  BY <1>2, <1>3

(* The byte i of message n is a byte of the list.                          *)
LEMMA ByteOfList ==
  ASSUME NEW s \in Seq(Msg), NEW n \in Nat, n < Len(s),
         NEW i \in Nat, i < s[n + 1].len
  PROVE  <<n, i>> \in Bytes(s) /\ <<n, i>> \in Byte
<1>1. n + 1 \in 1 .. Len(s)
  OBVIOUS
<1>2. s[n + 1].len \in Nat
  BY <1>1, MsgLength
<1>3. i < s[n + 1].len /\ <<n, i>> = <<(n + 1) - 1, i>>
  BY <1>2
<1> QED
  BY <1>1, <1>3, BytesElements DEF Byte

(* Nothing sent.                                                           *)
LEMMA SentNone ==
  ASSUME NEW s \in Seq(Msg)
  PROVE  Sent(<<>>, s, 0, 0)
<1>1. ASSUME NEW b \in Bytes(s)
      PROVE  ~Before(b, <<0, 0>>)
  <2>1. PICK m \in 1 .. Len(s), i \in Nat : i < s[m].len /\ b = <<m - 1, i>>
    BY BytesElements
  <2>2. s[m].len \in Nat
    BY MsgLength
  <2> QED
    BY <2>1, <2>2 DEF Before
<1> QED
  BY <1>1 DEF Sent

(* The next byte of the message is sent.                                   *)
LEMMA SentByte ==
  ASSUME NEW s \in Seq(Msg), NEW mv \in Seq(Byte),
         NEW n \in Nat, n < Len(s), NEW i \in Nat, i < s[n + 1].len,
         Sent(mv, s, n, i)
  PROVE  Append(mv, <<n, i>>) \in Seq(Byte) /\ Sent(Append(mv, <<n, i>>), s, n, i + 1)
<1> DEFINE x == Append(mv, <<n, i>>)
<1>1. <<n, i>> \in Bytes(s) /\ <<n, i>> \in Byte
  BY ByteOfList
<1>2. /\ x \in Seq(Byte)
      /\ Len(x) = Len(mv) + 1
      /\ x[Len(mv) + 1] = <<n, i>>
      /\ \A k \in 1 .. Len(mv) : x[k] = mv[k]
  BY <1>1
<1> HIDE DEF x
<1>3. ASSUME NEW b \in Bytes(s)
      PROVE  Before(b, <<n, i + 1>>) <=> Before(b, <<n, i>>) \/ b = <<n, i>>
  <2>1. PICK m \in 1 .. Len(s), j \in Nat : j < s[m].len /\ b = <<m - 1, j>>
    BY BytesElements
  <2>2. s[m].len \in Nat
    BY MsgLength
  <2> QED
    BY <2>1, <2>2 DEF Before
<1>4. \A k \in 1 .. Len(x) : x[k] \in Bytes(s) /\ Before(x[k], <<n, i + 1>>)
  <2> SUFFICES ASSUME NEW k \in 1 .. Len(x)
               PROVE  x[k] \in Bytes(s) /\ Before(x[k], <<n, i + 1>>)
    OBVIOUS
  <2>1. CASE k \in 1 .. Len(mv)
    <3>1. mv[k] \in Bytes(s) /\ Before(mv[k], <<n, i>>)
      BY <2>1 DEF Sent
    <3> QED
      BY <2>1, <3>1, <1>2, <1>3
  <2>2. CASE k = Len(mv) + 1
    BY <2>2, <1>1, <1>2, <1>3
  <2> QED
    BY <2>1, <2>2, <1>2
<1>5. \A b \in Bytes(s) : Before(b, <<n, i + 1>>) => \E k \in 1 .. Len(x) : x[k] = b
  <2> SUFFICES ASSUME NEW b \in Bytes(s), Before(b, <<n, i + 1>>)
               PROVE  \E k \in 1 .. Len(x) : x[k] = b
    OBVIOUS
  <2>1. CASE Before(b, <<n, i>>)
    <3>1. PICK k \in 1 .. Len(mv) : mv[k] = b
      BY <2>1 DEF Sent
    <3> QED
      BY <3>1, <1>2
  <2>2. CASE b = <<n, i>>
    <3>1. Len(mv) + 1 \in 1 .. Len(x)
      BY <1>2
    <3> QED
      BY <3>1, <2>2, <1>2
  <2> QED
    BY <2>1, <2>2, <1>3
<1>6. \A k \in 1 .. Len(x) - 1 : Before(x[k], x[k + 1])
  <2> SUFFICES ASSUME NEW k \in 1 .. Len(x) - 1
               PROVE  Before(x[k], x[k + 1])
    OBVIOUS
  <2>1. CASE k \in 1 .. Len(mv) - 1
    <3>1. Before(mv[k], mv[k + 1])
      BY <2>1 DEF Sent
    <3>2. k \in 1 .. Len(mv) /\ k + 1 \in 1 .. Len(mv)
      BY <2>1
    <3> QED
      BY <3>1, <3>2, <1>2
  <2>2. CASE k = Len(mv) /\ k >= 1
    <3>1. k \in 1 .. Len(mv)
      BY <2>2
    <3>2. Before(mv[k], <<n, i>>)
      BY <3>1 DEF Sent
    <3> QED
      BY <3>1, <3>2, <2>2, <1>2
  <2> QED
    BY <2>1, <2>2, <1>2
<1>7. Sent(x, s, n, i + 1)
  BY <1>4, <1>5, <1>6 DEF Sent
<1> QED
  BY <1>2, <1>7 DEF x

(* The end of a message is the beginning of the next.                      *)
LEMMA SentMessage ==
  ASSUME NEW s \in Seq(Msg), NEW mv \in Seq(Byte),
         NEW n \in Nat, n < Len(s), Sent(mv, s, n, s[n + 1].len)
  PROVE  Sent(mv, s, n + 1, 0)
<1>1. ASSUME NEW b \in Bytes(s)
      PROVE  Before(b, <<n, s[n + 1].len>>) <=> Before(b, <<n + 1, 0>>)
  <2>1. PICK m \in 1 .. Len(s), j \in Nat : j < s[m].len /\ b = <<m - 1, j>>
    BY BytesElements
  <2>2. s[m].len \in Nat /\ s[n + 1].len \in Nat
    BY MsgLength
  <2>3. b[1] = m - 1 /\ b[2] = j /\ j \in Nat /\ j < s[m].len
    BY <2>1, <2>2
  <2>4. CASE m = n + 1
    BY <2>2, <2>3, <2>4 DEF Before
  <2>5. CASE m # n + 1
    BY <2>2, <2>3, <2>5 DEF Before
  <2> QED
    BY <2>4, <2>5
<1> QED
  BY <1>1 DEF Sent

(* The bytes of all messages are the whole transfer.                       *)
LEMMA SentWhole ==
  ASSUME NEW s \in Seq(Msg), NEW mv \in Seq(Byte), Sent(mv, s, Len(s), 0)
  PROVE  /\ {mv[k] : k \in 1 .. Len(mv)} = Bytes(s)
         /\ \A k \in 1 .. Len(mv) - 1 : Before(mv[k], mv[k + 1])
<1>1. ASSUME NEW b \in Bytes(s)
      PROVE  Before(b, <<Len(s), 0>>)
  <2>1. PICK m \in 1 .. Len(s), j \in Nat : j < s[m].len /\ b = <<m - 1, j>>
    BY BytesElements
  <2>2. b[1] = m - 1
    BY <2>1
  <2> QED
    BY <2>2 DEF Before
<1>2. \A b \in Bytes(s) : \E k \in 1 .. Len(mv) : mv[k] = b
  BY <1>1 DEF Sent
<1>3. \A k \in 1 .. Len(mv) : mv[k] \in Bytes(s)
  BY DEF Sent
<1> QED
  BY <1>2, <1>3 DEF Sent

-----------------------------------------------------------------------------
(* The queue                                                               *)

(* A new head in place of the old one.                                     *)
LEMMA NewHead ==
  ASSUME NEW S, NEW q \in Seq(S), q # <<>>, NEW r \in S
  PROVE  /\ <<r>> \o Tail(q) \in Seq(S)
         /\ Len(<<r>> \o Tail(q)) = Len(q)
         /\ (<<r>> \o Tail(q))[1] = r
         /\ \A k \in 2 .. Len(q) : (<<r>> \o Tail(q))[k] = q[k]
<1>1. /\ Tail(q) \in Seq(S)
      /\ Len(Tail(q)) = Len(q) - 1
      /\ \A k \in 1 .. Len(q) - 1 : Tail(q)[k] = q[k + 1]
  OBVIOUS
<1>2. <<r>> \in Seq(S) /\ Len(<<r>>) = 1 /\ <<r>>[1] = r
  OBVIOUS
<1> QED
  BY <1>1, <1>2

(* Message lists are not empty, and a message of one is a message.         *)
LEMMA ListFacts ==
  ASSUME NEW s \in MsgLists
  PROVE  s \in Seq(Msg) /\ s # <<>> /\ Len(s) \in Nat \ {0}
  BY I2cAssumption

(* Every request has a sender.                                             *)
LEMMA Owners ==
  ASSUME IInv
  PROVE  \A k \in 1 .. Len(fifo) : fifo[k] \in Request /\ fifo[k].who \in Procs
<1> SUFFICES ASSUME NEW k \in 1 .. Len(fifo)
             PROVE  fifo[k] \in Request /\ fifo[k].who \in Procs
  OBVIOUS
<1>1. fifo \in Seq(Request)
  BY DEF IInv, TypeOK
<1>2. fifo[k] \in Request
  BY <1>1
<1> QED
  BY <1>2 DEF Request

(* What the handler finds at an interrupt.                                 *)
LEMMA HeadFacts ==
  ASSUME IInv, fifo # <<>>
  PROVE  /\ Len(fifo) \in Nat /\ Len(fifo) >= 1
         /\ r0 = fifo[1] /\ r0 \in Request /\ r0.who \in Procs
         /\ call[r0.who] \in MsgLists
         /\ moved[r0.who] \in Seq(Byte)
         /\ ret[r0.who] = "none"
         /\ r0.non_block = (r0.who \in Clients)
         /\ pc[r0.who] = IF r0.who \in Clients THEN "out" ELSE "wait"
         /\ UnderWay(r0, call[r0.who], moved[r0.who], hw)
<1>1. /\ fifo \in Seq(Request) /\ FifoOK
      /\ \A p \in Procs : CallOK(p)
      /\ moved \in [Procs -> Seq(Byte)]
  BY DEF IInv, TypeOK, Byte
<1>2. Len(fifo) \in Nat /\ Len(fifo) >= 1 /\ r0 = fifo[1] /\ r0 \in Request
  BY <1>1 DEF r0
<1>3. r0.who \in Procs
  BY <1>2 DEF Request
<1>4. /\ r0.non_block = (r0.who \in Clients)
      /\ pc[r0.who] = IF r0.who \in Clients THEN "out" ELSE "wait"
      /\ UnderWay(r0, call[r0.who], moved[r0.who], hw)
  BY <1>1, <1>2 DEF FifoOK
<1>5. ret[r0.who] = "none" /\ call[r0.who] \in MsgLists
  BY <1>1, <1>3, <1>4 DEF CallOK
<1> QED
  BY <1>1, <1>2, <1>3, <1>4, <1>5

(* A task whose request is queued: nothing has been reported to it yet.    *)
LEMMA NoNackYet ==
  ASSUME IInv, SafeUse, fifo # <<>>
  PROVE  isr_nack = FALSE
<1>1. isr_nack \in BOOLEAN
  BY DEF IInv, TypeOK
<1>2. CASE BlockingOnly
  <2>1. r0.who \in Tasks /\ pc[r0.who] = "wait"
    BY <1>2, HeadFacts DEF BlockingOnly, Procs
  <2>2. Queued(r0.who)
    BY HeadFacts DEF Queued
  <2> QED
    BY <1>1, <2>1, <2>2 DEF IInv, TaskOK
<1>3. CASE ClientsServed
  BY <1>1, <1>3 DEF IInv, ClientsServed
<1> QED
  BY <1>2, <1>3 DEF SafeUse

(* The adapter's mutex leaves one task at a time a request.                *)
LEMMA OneTaskQueued ==
  ASSUME IInv, BlockingOnly, fifo # <<>>
  PROVE  Len(fifo) = 1
<1>1. fifo \in Seq(Request) /\ FifoOK
  BY DEF IInv, TypeOK
<1>2. \A k \in 1 .. Len(fifo) : fifo[k].who \in Tasks /\ pc[fifo[k].who] = "wait"
  <2> SUFFICES ASSUME NEW k \in 1 .. Len(fifo)
               PROVE  fifo[k].who \in Tasks /\ pc[fifo[k].who] = "wait"
    OBVIOUS
  <2>1. fifo[k] \in Request
    BY <1>1
  <2> QED
    BY <1>1, <2>1 DEF FifoOK, Request, Procs, BlockingOnly
<1>3. \A j, k \in 1 .. Len(fifo) : j = k
  BY <1>1, <1>2 DEF FifoOK, IInv
<1>4. Len(fifo) \in Nat /\ Len(fifo) # 0
  BY <1>1
<1>5. 1 \in 1 .. Len(fifo) /\ Len(fifo) \in 1 .. Len(fifo)
  BY <1>4
<1> QED
  BY <1>3, <1>5

LEMMA OneSenderQueued ==
  ASSUME IInv, Alone, fifo # <<>>
  PROVE  Len(fifo) = 1
<1>1. fifo \in Seq(Request) /\ FifoOK
  BY DEF IInv, TypeOK
<1>2. \A k \in 1 .. Len(fifo) : fifo[k].who \in Procs
  BY Owners
<1>3. \A j, k \in 1 .. Len(fifo) : j = k
  BY <1>1, <1>2 DEF FifoOK, Alone
<1>4. Len(fifo) \in Nat /\ Len(fifo) # 0
  BY <1>1
<1>5. 1 \in 1 .. Len(fifo) /\ Len(fifo) \in 1 .. Len(fifo)
  BY <1>4
<1> QED
  BY <1>3, <1>5

(* Lists of the same owners hold requests of the same senders.             *)
LEMMA SameOwners ==
  ASSUME Len(fifo') = Len(fifo),
         \A k \in 1 .. Len(fifo) : fifo'[k].who = fifo[k].who
  PROVE  \A p : Queued(p)' <=> Queued(p)
  BY DEF Queued


-----------------------------------------------------------------------------
(* Interrupts                                                              *)

(* The handler goes on with the request at the head.                       *)
LEMMA HeadGoesOn ==
  ASSUME IInv, SafeUse, fifo # <<>>,
         NEW r \in Request, r.who = r0.who, r.non_block = r0.non_block,
         NEW mv \in Seq(Byte),
         fifo' = <<r>> \o Tail(fifo),
         moved' = [moved EXCEPT ![r0.who] = mv],
         hw' \in Controller, hw'.bus = "busy",
         UnderWay(r, call[r0.who], mv, hw'),
         isr_nack' = FALSE, stuck' = "no",
         UNCHANGED <<isr_int_pending, pc, call, tries, ret, refused>>
  PROVE  IInv'
<1> DEFINE p0 == r0.who
<1>1. /\ TypeOK /\ FifoOK /\ fifo \in Seq(Request) /\ moved \in [Procs -> Seq(Byte)]
      /\ \A p \in Procs : CallOK(p)
  BY DEF IInv, TypeOK, Byte
<1>2. /\ Len(fifo) \in Nat /\ Len(fifo) >= 1
      /\ r0 = fifo[1] /\ p0 \in Procs
      /\ ret[p0] = "none"
      /\ r0.non_block = (p0 \in Clients)
      /\ pc[p0] = IF p0 \in Clients THEN "out" ELSE "wait"
  BY HeadFacts
<1>3. isr_nack = FALSE
  BY NoNackYet
<1>4. /\ fifo' \in Seq(Request)
      /\ Len(fifo') = Len(fifo)
      /\ fifo'[1] = r
      /\ \A k \in 2 .. Len(fifo) : fifo'[k] = fifo[k]
  BY <1>1, NewHead
<1>5. \A k \in 1 .. Len(fifo) : fifo'[k].who = fifo[k].who
                                /\ fifo'[k].non_block = fifo[k].non_block
  BY <1>2, <1>4
<1>6. \A p : Queued(p)' <=> Queued(p)
  BY <1>4, <1>5, SameOwners
<1>7. /\ moved' \in [Procs -> Seq(Byte)]
      /\ moved'[p0] = mv
      /\ \A p \in Procs \ {p0} : moved'[p] = moved[p]
  BY <1>1, <1>2
<1> HIDE DEF p0
<1>8. TypeOK'
  BY <1>1, <1>4, <1>7 DEF TypeOK, Byte
<1>9. FifoOK'
  <2>1. \A k \in 1 .. Len(fifo') :
          /\ fifo'[k].non_block = (fifo'[k].who \in Clients)
          /\ pc'[fifo'[k].who] = IF fifo'[k].who \in Clients THEN "out" ELSE "wait"
    BY <1>1, <1>4, <1>5 DEF FifoOK
  <2>2. \A j, k \in 1 .. Len(fifo') : fifo'[j].who = fifo'[k].who => j = k
    BY <1>1, <1>4, <1>5 DEF FifoOK
  <2>3. ASSUME NEW k \in 2 .. Len(fifo')
        PROVE  fifo'[k] = NewRequest(fifo'[k].who) /\ moved'[fifo'[k].who] = <<>>
    <3>1. /\ k \in 2 .. Len(fifo) /\ fifo'[k] = fifo[k]
          /\ k \in 1 .. Len(fifo) /\ 1 \in 1 .. Len(fifo) /\ k # 1
      BY <1>2, <1>4
    <3>2. fifo[k] = NewRequest(fifo[k].who) /\ moved[fifo[k].who] = <<>>
      BY <1>1, <3>1 DEF FifoOK
    <3>3. fifo[k].who \in Procs
      BY <3>1, Owners
    <3>4. fifo[k].who # p0
      BY <1>1, <1>2, <3>1 DEF FifoOK, p0
    <3> QED
      BY <3>1, <3>2, <3>3, <3>4, <1>7
  <2>4. UnderWay(fifo'[1], call'[fifo'[1].who], moved'[fifo'[1].who], hw')
    <3>1. fifo'[1] = r /\ fifo'[1].who = p0 /\ moved'[p0] = mv /\ call'[p0] = call[p0]
      BY <1>4, <1>7 DEF p0
    <3> QED
      BY <3>1 DEF p0
  <2>5. \A k \in 2 .. Len(fifo') : (NewRequest(fifo[k].who))' = NewRequest(fifo'[k].who)
    BY DEF NewRequest
  <2> QED
    BY <2>1, <2>2, <2>3, <2>4, <2>5 DEF FifoOK
<1>10. ASSUME NEW p \in Procs, p # p0
       PROVE  Whole(p)' <=> Whole(p)
  BY <1>7, <1>10 DEF Whole
<1>11. ASSUME NEW p \in Procs PROVE CallOK(p)'
  <2>1. CallOK(p)
    BY <1>1
  <2>2. CASE p = p0
    BY <2>1, <2>2, <1>2 DEF CallOK
  <2>3. CASE p # p0
    BY <2>1, <2>3, <1>7, <1>10 DEF CallOK
  <2> QED
    BY <2>2, <2>3
<1>12. ASSUME NEW c \in Clients PROVE ClientOK(c)'
  BY <1>6 DEF IInv, ClientOK
<1>13. ASSUME NEW t \in Tasks PROVE TaskOK(t)'
  <2>1. TaskOK(t) /\ t \in Procs
    BY DEF IInv, Procs
  <2>2. CASE t = p0
    <3>1. t \notin Clients /\ pc[t] = "wait" /\ ret[t] = "none"
      BY <2>1, <2>2, <1>2, I2cAssumption
    <3>2. Queued(t)
      BY <1>2, <2>2 DEF Queued, p0
    <3> QED
      BY <2>1, <2>2, <3>1, <3>2, <1>3, <1>6 DEF TaskOK, Refusals
  <2>3. CASE t # p0
    BY <2>1, <2>3, <1>3, <1>6, <1>10 DEF TaskOK, Refusals
  <2> QED
    BY <2>2, <2>3
<1>14. fifo' # <<>>
  BY <1>2, <1>4
<1> QED
  BY <1>8, <1>9, <1>11, <1>12, <1>13, <1>14, <1>3 DEF IInv


(* The request at the head is over: its sender is told, the next one, if   *)
(* any, is started at its beginning.                                       *)
LEMMA HeadIsDone ==
  ASSUME IInv, SafeUse, fifo # <<>>,
         NEW mv \in Seq(Byte),
         Sent(mv, call[r0.who], Len(call[r0.who]), 0),
         moved' = [moved EXCEPT ![r0.who] = mv],
         Complete(r0),
         fifo' \in Seq(Request),
         Len(fifo') = Len(fifo) - 1,
         \A k \in 2 .. Len(fifo') : fifo'[k] = fifo[k + 1],
         Len(fifo') > 0 =>
           /\ fifo'[1].who = fifo[2].who
           /\ fifo'[1].non_block = fifo[2].non_block
           /\ UnderWay(fifo'[1], call[fifo[2].who], <<>>, hw'),
         hw' \in Controller, hw'.bus = IF fifo' = <<>> THEN "ready" ELSE "busy",
         isr_nack' = FALSE, stuck' = "no",
         UNCHANGED <<call, tries, refused>>
  PROVE  IInv'
<1>0. PICK p0 \in Procs : p0 = r0.who
  BY HeadFacts
<1>1. /\ TypeOK /\ FifoOK /\ fifo \in Seq(Request) /\ moved \in [Procs -> Seq(Byte)]
      /\ \A p \in Procs : CallOK(p)
  BY DEF IInv, TypeOK, Byte
<1>2. /\ Len(fifo) \in Nat /\ Len(fifo) >= 1
      /\ r0 = fifo[1] /\ p0 \in Procs /\ call[p0] \in MsgLists
      /\ ret[p0] = "none"
      /\ r0.non_block = (p0 \in Clients)
      /\ pc[p0] = IF p0 \in Clients THEN "out" ELSE "wait"
  BY <1>0, HeadFacts
<1>3. isr_nack = FALSE
  BY NoNackYet
<1>4. /\ moved' \in [Procs -> Seq(Byte)]
      /\ moved'[p0] = mv
      /\ \A p \in Procs \ {p0} : moved'[p] = moved[p]
  BY <1>0, <1>1
<1>5. Whole(p0)'
  <2>1. call[p0] \in Seq(Msg)
    BY <1>2, ListFacts
  <2>2. /\ {mv[k] : k \in 1 .. Len(mv)} = Bytes(call[p0])
        /\ \A k \in 1 .. Len(mv) - 1 : Before(mv[k], mv[k + 1])
    BY <1>0, <2>1, SentWhole
  <2>3. moved'[p0] = mv /\ call'[p0] = call[p0]
    BY <1>4
  <2> QED
    BY <2>2, <2>3 DEF Whole
<1>6. /\ \A p \in Procs \ {p0} : pc'[p] = pc[p] /\ ret'[p] = ret[p]
      /\ p0 \in Clients => pc'[p0] = "idle" /\ ret'[p0] = "ok"
                           /\ isr_int_pending' = isr_int_pending
      /\ p0 \notin Clients => pc'[p0] = "wait" /\ ret'[p0] = "none"
                              /\ isr_int_pending' = TRUE
  BY <1>0, <1>1, <1>2 DEF Complete, TypeOK
<1>7. TypeOK'
  <2>1. /\ pc' \in [Procs -> {"idle", "queue", "wait", "woken", "retry", "out"}]
        /\ ret' \in [Procs -> {"none", "ok", "EIO"}]
        /\ isr_int_pending' \in BOOLEAN
    BY <1>1, <1>2 DEF Complete, TypeOK
  <2> QED
    BY <2>1, <1>1, <1>4 DEF TypeOK, Byte
<1>8. \A k \in 1 .. Len(fifo') :
        /\ k + 1 \in 2 .. Len(fifo) /\ k + 1 \in 1 .. Len(fifo)
        /\ fifo'[k].who = fifo[k + 1].who
        /\ fifo'[k].non_block = fifo[k + 1].non_block
        /\ fifo'[k].who \in Procs /\ fifo'[k].who # p0
  <2> SUFFICES ASSUME NEW k \in 1 .. Len(fifo')
               PROVE  /\ k + 1 \in 2 .. Len(fifo) /\ k + 1 \in 1 .. Len(fifo)
                      /\ fifo'[k].who = fifo[k + 1].who
                      /\ fifo'[k].non_block = fifo[k + 1].non_block
                      /\ fifo'[k].who \in Procs /\ fifo'[k].who # p0
    OBVIOUS
  <2>1. k + 1 \in 2 .. Len(fifo) /\ k + 1 \in 1 .. Len(fifo) /\ 1 \in 1 .. Len(fifo)
        /\ k + 1 # 1
    BY <1>2
  <2>2. fifo'[k].who = fifo[k + 1].who /\ fifo'[k].non_block = fifo[k + 1].non_block
    <3>1. CASE k = 1
      BY <3>1
    <3>2. CASE k # 1
      BY <3>2
    <3> QED
      BY <3>1, <3>2
  <2>3. fifo[k + 1].who \in Procs
    BY <2>1, Owners
  <2>4. fifo[k + 1].who # p0
    BY <1>0, <1>1, <1>2, <2>1 DEF FifoOK
  <2> QED
    BY <2>1, <2>2, <2>3, <2>4
<1>9. FifoOK'
  <2>1. \A k \in 1 .. Len(fifo') :
          /\ fifo'[k].non_block = (fifo'[k].who \in Clients)
          /\ pc'[fifo'[k].who] = IF fifo'[k].who \in Clients THEN "out" ELSE "wait"
    <3> SUFFICES ASSUME NEW k \in 1 .. Len(fifo')
                 PROVE  /\ fifo'[k].non_block = (fifo'[k].who \in Clients)
                        /\ pc'[fifo'[k].who] = IF fifo'[k].who \in Clients THEN "out" ELSE "wait"
      OBVIOUS
    <3>1. /\ k + 1 \in 1 .. Len(fifo) /\ fifo'[k].who = fifo[k + 1].who
          /\ fifo'[k].non_block = fifo[k + 1].non_block
          /\ fifo'[k].who \in Procs \ {p0}
      BY <1>8
    <3>2. /\ fifo[k + 1].non_block = (fifo[k + 1].who \in Clients)
          /\ pc[fifo[k + 1].who] = IF fifo[k + 1].who \in Clients THEN "out" ELSE "wait"
      BY <1>1, <3>1 DEF FifoOK
    <3> QED
      BY <3>1, <3>2, <1>6
  <2>2. \A j, k \in 1 .. Len(fifo') : fifo'[j].who = fifo'[k].who => j = k
    <3> SUFFICES ASSUME NEW j \in 1 .. Len(fifo'), NEW k \in 1 .. Len(fifo'),
                        fifo'[j].who = fifo'[k].who
                 PROVE  j = k
      OBVIOUS
    <3>0. /\ j + 1 \in 1 .. Len(fifo) /\ k + 1 \in 1 .. Len(fifo)
          /\ fifo[j + 1].who = fifo[k + 1].who
      BY <1>8
    <3>1. j + 1 = k + 1
      BY <1>1, <3>0 DEF FifoOK
    <3> QED
      BY <3>1
  <2>3. ASSUME NEW k \in 2 .. Len(fifo')
        PROVE  fifo'[k] = NewRequest(fifo'[k].who) /\ moved'[fifo'[k].who] = <<>>
    <3>1. k \in 1 .. Len(fifo') /\ fifo'[k] = fifo[k + 1]
      OBVIOUS
    <3>2. fifo[k + 1] = NewRequest(fifo[k + 1].who) /\ moved[fifo[k + 1].who] = <<>>
      BY <1>1, <1>8, <3>1 DEF FifoOK
    <3> QED
      BY <3>1, <3>2, <1>4, <1>8
  <2>4. ASSUME fifo' # <<>>
        PROVE  UnderWay(fifo'[1], call'[fifo'[1].who], moved'[fifo'[1].who], hw')
    <3>1. 1 \in 1 .. Len(fifo') /\ Len(fifo') > 0 /\ 2 \in 2 .. Len(fifo)
      BY <2>4, <1>2
    <3>2. moved[fifo[2].who] = <<>>
      BY <1>1, <3>1 DEF FifoOK
    <3>3. moved'[fifo'[1].who] = <<>> /\ fifo'[1].who = fifo[2].who
      BY <1>4, <1>8, <3>1, <3>2
    <3> QED
      BY <3>1, <3>3
  <2> QED
    BY <2>1, <2>2, <2>3, <2>4 DEF FifoOK, NewRequest
<1>10. ASSUME NEW p \in Procs, p # p0
       PROVE  Whole(p)' <=> Whole(p)
  <2>1. moved'[p] = moved[p] /\ call'[p] = call[p]
    BY <1>4, <1>10
  <2> QED
    BY <2>1 DEF Whole
<1>11. ASSUME NEW p \in Procs
       PROVE  Queued(p)' <=> Queued(p) /\ p # p0
  <2>1. ASSUME Queued(p)' PROVE Queued(p) /\ p # p0
    BY <2>1, <1>8 DEF Queued
  <2>2. ASSUME Queued(p), p # p0 PROVE Queued(p)'
    <3>1. PICK k \in 1 .. Len(fifo) : fifo[k].who = p
      BY <2>2 DEF Queued
    <3>2. k # 1
      BY <1>0, <3>1, <2>2, <1>2
    <3>3. k - 1 \in 1 .. Len(fifo') /\ (k - 1) + 1 = k
      BY <3>2, <1>2
    <3>4. fifo'[k - 1].who = p
      BY <3>1, <3>3, <1>8
    <3> QED
      BY <3>3, <3>4 DEF Queued
  <2> QED
    BY <2>1, <2>2
<1>12. ASSUME NEW p \in Procs PROVE CallOK(p)'
  <2>1. CallOK(p)
    BY <1>1
  <2>2. CASE p = p0
    BY <2>1, <2>2, <1>2, <1>5, <1>6 DEF CallOK
  <2>3. CASE p # p0
    BY <2>1, <2>3, <1>4, <1>6, <1>10 DEF CallOK
  <2> QED
    BY <2>2, <2>3
<1>13. ASSUME NEW c \in Clients PROVE ClientOK(c)'
  <2>1. c \in Procs /\ ClientOK(c)
    BY DEF Procs, IInv
  <2> QED
    BY <2>1, <1>2, <1>6, <1>11 DEF ClientOK
<1>14. ASSUME NEW t \in Tasks PROVE TaskOK(t)'
  <2>1. TaskOK(t) /\ t \in Procs /\ t \notin Clients
    BY I2cAssumption DEF IInv, Procs
  <2>2. CASE t = p0
    <3>1. Queued(t) /\ pc[t] = "wait"
      BY <1>0, <1>2, <2>1, <2>2 DEF Queued
    <3> QED
      BY <2>1, <2>2, <3>1, <1>3, <1>5, <1>6, <1>11 DEF TaskOK, Refusals
  <2>3. CASE t # p0 /\ p0 \in Clients
    BY <2>1, <2>3, <1>3, <1>6, <1>10, <1>11 DEF TaskOK, Refusals
  <2>4. CASE t # p0 /\ p0 \notin Clients
    <3>1. p0 \in Tasks /\ pc[p0] # "idle"
      BY <2>4, <1>2 DEF Procs
    <3>2. pc[t] = "idle"
      BY <3>1, <2>4 DEF IInv
    <3> QED
      BY <2>1, <2>4, <3>2, <1>6 DEF TaskOK
  <2> QED
    BY <2>2, <2>3, <2>4
<1>15. \A t, u \in Tasks : pc'[t] # "idle" /\ pc'[u] # "idle" => t = u
  <2>1. \A t \in Tasks : pc'[t] # "idle" => pc[t] # "idle"
    BY <1>2, <1>6 DEF Procs
  <2> QED
    BY <2>1 DEF IInv
<1> QED
  BY <1>3, <1>7, <1>9, <1>12, <1>13, <1>14, <1>15 DEF IInv


(* The message under way at an interrupt, and what is known of it.         *)
LEMMA MsgFacts ==
  ASSUME IInv, SafeUse, fifo # <<>>
  PROVE  /\ call[r0.who] \in MsgLists /\ call[r0.who] \in Seq(Msg)
         /\ MsgNum(r0) = Len(call[r0.who]) /\ MsgNum(r0) \in Nat
         /\ r0.xfer_msgnum \in Nat /\ r0.xfer_msgnum < MsgNum(r0)
         /\ Pmsg(r0) = call[r0.who][r0.xfer_msgnum + 1]
         /\ Pmsg(r0) \in Msg /\ Pmsg(r0).len \in Nat \ {0}
         /\ r0.xfer_length \in Nat \ {0} /\ r0.xfer_length <= Pmsg(r0).len
         /\ moved[r0.who] \in Seq(Byte)
         /\ Sent(moved[r0.who], call[r0.who], r0.xfer_msgnum, r0.xfer_length - 1)
<1>1. /\ call[r0.who] \in MsgLists /\ r0 \in Request /\ moved[r0.who] \in Seq(Byte)
      /\ UnderWay(r0, call[r0.who], moved[r0.who], hw)
  BY HeadFacts
<1>2. call[r0.who] \in Seq(Msg) /\ Len(call[r0.who]) \in Nat
  BY <1>1, ListFacts
<1>3. r0.xfer_msgnum \in Nat /\ r0.xfer_msgnum < Len(call[r0.who])
  BY <1>1 DEF Request, UnderWay
<1>4. r0.xfer_msgnum + 1 \in 1 .. Len(call[r0.who])
  BY <1>2, <1>3
<1>5. /\ call[r0.who][r0.xfer_msgnum + 1] \in Msg
      /\ call[r0.who][r0.xfer_msgnum + 1].len \in Nat
  BY <1>2, <1>4, MsgLength
<1>6. /\ r0.xfer_length \in 1 .. call[r0.who][r0.xfer_msgnum + 1].len
      /\ Sent(moved[r0.who], call[r0.who], r0.xfer_msgnum, r0.xfer_length - 1)
  BY <1>1 DEF UnderWay
<1> QED
  BY <1>1, <1>2, <1>3, <1>5, <1>6 DEF MsgNum, Pmsg

(* The bytes moved once the byte of this interrupt is.                     *)
LEMMA ByteMoved ==
  ASSUME IInv, SafeUse, fifo # <<>>,
         NEW b, b = <<r0.xfer_msgnum, r0.xfer_length - 1>>
  PROVE  /\ Append(moved[r0.who], b) \in Seq(Byte)
         /\ Sent(Append(moved[r0.who], b), call[r0.who], r0.xfer_msgnum, r0.xfer_length)
<1> DEFINE s == call[r0.who]
           n == r0.xfer_msgnum
           i == r0.xfer_length - 1
           mv == moved[r0.who]
<1>1. /\ s \in Seq(Msg) /\ mv \in Seq(Byte)
      /\ n \in Nat /\ n < Len(s)
      /\ i \in Nat /\ i < s[n + 1].len
      /\ Sent(mv, s, n, i)
      /\ i + 1 = r0.xfer_length
  BY MsgFacts
<1> HIDE DEF s, n, i, mv
<1>2. Append(mv, <<n, i>>) \in Seq(Byte) /\ Sent(Append(mv, <<n, i>>), s, n, i + 1)
  BY <1>1, SentByte
<1> QED
  BY <1>1, <1>2 DEF s, n, i, mv


(* An interrupt comes for the request at the head.                         *)
LEMMA IrqFacts ==
  ASSUME IInv, Irq
  PROVE  fifo # <<>> /\ hw \in Controller /\ stuck = "no" /\ hw.bus = "busy"
  BY DEF IInv, Irq, TypeOK

(* A byte that is not the last one of its message.                         *)
LEMMA ReadDataInv ==
  ASSUME IInv, SafeUse, ReadData
  PROVE  IInv'
<1>1. /\ fifo # <<>> /\ hw \in Controller /\ stuck = "no" /\ hw.bus = "busy"
      /\ Pmsg(r0).rd
  BY IrqFacts DEF ReadData, ReadIrq
<1> DEFINE m == Pmsg(r0)
           last == r0.xfer_length = m.len - 1
           more == [r0 EXCEPT !.xfer_length = @ + 1]
           r == IF last THEN [more EXCEPT !.restart = m.nostart] ELSE more
           b == <<r0.xfer_msgnum, r0.xfer_length - 1>>
           mv == Append(moved[r0.who], b)
<1>2. /\ m \in Msg /\ m.len \in Nat \ {0} /\ m.nostart \in BOOLEAN
      /\ m = call[r0.who][r0.xfer_msgnum + 1]
      /\ r0.xfer_msgnum \in Nat /\ r0.xfer_msgnum < Len(call[r0.who])
      /\ r0.xfer_length \in Nat \ {0} /\ r0.xfer_length < m.len
      /\ r0 \in Request
  BY <1>1, MsgFacts, HeadFacts DEF ReadData, Msg
<1>3. mv \in Seq(Byte) /\ Sent(mv, call[r0.who], r0.xfer_msgnum, r0.xfer_length)
  BY <1>1, ByteMoved
<1>4. /\ r \in Request /\ r.who = r0.who /\ r.non_block = r0.non_block
      /\ r.xfer_msgnum = r0.xfer_msgnum
      /\ r.xfer_length = r0.xfer_length + 1
      /\ last => r.restart = m.nostart
  <2>1. /\ more \in Request /\ more.who = r0.who /\ more.non_block = r0.non_block
        /\ more.xfer_msgnum = r0.xfer_msgnum
        /\ more.xfer_length = r0.xfer_length + 1
    BY <1>2 DEF Request
  <2> HIDE DEF more, m
  <2>2. CASE last
    BY <1>2, <2>1, <2>2 DEF Request
  <2>3. CASE ~last
    BY <2>1, <2>3
  <2> QED
    BY <2>2, <2>3
<1>5. /\ fifo' = <<r>> \o Tail(fifo)
      /\ moved' = [moved EXCEPT ![r0.who] = mv]
      /\ hw' = [hw EXCEPT !.addr = FALSE, !.noack = @ \/ (last /\ ~m.nostart)]
      /\ UNCHANGED <<isr_nack, isr_int_pending, pc, call, tries, ret, refused>>
  BY DEF ReadData, ReadIrq, Moved
<1>6. stuck' = "no"
  BY <1>1, <1>2 DEF ReadData
<1>7. hw' \in Controller /\ hw'.bus = "busy" /\ hw'.noack = (hw.noack \/ (last /\ ~m.nostart))
  BY <1>1, <1>5 DEF Controller
<1>8. hw.noack = FALSE
  <2>1. UnderWay(r0, call[r0.who], moved[r0.who], hw)
    BY <1>1, HeadFacts
  <2>2. hw.noack \in BOOLEAN
    BY <1>1 DEF Controller
  <2> QED
    BY <1>1, <1>2, <2>1, <2>2 DEF UnderWay
<1>9. UnderWay(r, call[r0.who], mv, hw')
  <2>1. r.xfer_length \in 1 .. m.len /\ r.xfer_length - 1 = r0.xfer_length
    BY <1>2, <1>4
  <2>2. hw'.noack = (m.len = 1 \/ (r.xfer_length = m.len /\ ~m.nostart))
    BY <1>2, <1>4, <1>7, <1>8
  <2>3. m.nostart /\ r.xfer_length = m.len => r.restart
    BY <1>2, <1>4
  <2> HIDE DEF r, mv
  <2> QED
    BY <1>1, <1>2, <1>3, <1>4, <2>1, <2>2, <2>3 DEF UnderWay
<1>10. isr_nack' = FALSE
  BY <1>1, <1>5, NoNackYet
<1> HIDE DEF r, mv, m
<1> QED
  BY <1>1, <1>3, <1>4, <1>5, <1>6, <1>7, <1>9, <1>10, HeadGoesOn

LEMMA WriteDataInv ==
  ASSUME IInv, SafeUse, WriteData
  PROVE  IInv'
<1>1. /\ fifo # <<>> /\ hw \in Controller /\ stuck = "no" /\ hw.bus = "busy"
      /\ ~Pmsg(r0).rd
  BY IrqFacts DEF WriteData, WriteIrq
<1> DEFINE m == Pmsg(r0)
           r == [r0 EXCEPT !.xfer_length = @ + 1]
           mv == Append(moved[r0.who], hw.cdr)
<1>2. /\ m \in Msg /\ m.len \in Nat \ {0}
      /\ m = call[r0.who][r0.xfer_msgnum + 1]
      /\ r0.xfer_msgnum \in Nat /\ r0.xfer_msgnum < Len(call[r0.who])
      /\ r0.xfer_length \in Nat \ {0} /\ r0.xfer_length < m.len
      /\ r0 \in Request
  BY <1>1, MsgFacts, HeadFacts DEF WriteData
<1>3. hw.cdr = <<r0.xfer_msgnum, r0.xfer_length - 1>>
  <2>1. UnderWay(r0, call[r0.who], moved[r0.who], hw)
    BY <1>1, HeadFacts
  <2> QED
    BY <1>1, <1>2, <2>1 DEF UnderWay
<1>4. mv \in Seq(Byte) /\ Sent(mv, call[r0.who], r0.xfer_msgnum, r0.xfer_length)
  BY <1>1, <1>3, ByteMoved
<1>5. /\ r \in Request /\ r.who = r0.who /\ r.non_block = r0.non_block
      /\ r.xfer_msgnum = r0.xfer_msgnum
      /\ r.xfer_length = r0.xfer_length + 1
  BY <1>2 DEF Request
<1>6. /\ fifo' = <<r>> \o Tail(fifo)
      /\ moved' = [moved EXCEPT ![r0.who] = mv]
      /\ hw' = [hw EXCEPT !.addr = FALSE, !.cdr = <<r0.xfer_msgnum, r0.xfer_length>>]
      /\ UNCHANGED <<isr_nack, isr_int_pending, pc, call, tries, ret, refused>>
  BY DEF WriteData, WriteIrq, Moved
<1>7. stuck' = "no"
  BY <1>1, <1>2 DEF WriteData
<1>8. /\ hw' \in Controller /\ hw'.bus = "busy"
      /\ hw'.cdr = <<r0.xfer_msgnum, r0.xfer_length>>
  BY <1>1, <1>2, <1>6 DEF Controller
<1>9. UnderWay(r, call[r0.who], mv, hw')
  <2>1. r.xfer_length \in 1 .. m.len /\ r.xfer_length - 1 = r0.xfer_length
    BY <1>2, <1>5
  <2> HIDE DEF r, mv
  <2> QED
    BY <1>1, <1>2, <1>4, <1>5, <1>8, <2>1 DEF UnderWay
<1>10. isr_nack' = FALSE
  BY <1>1, <1>6, NoNackYet
<1> HIDE DEF r, mv, m
<1> QED
  BY <1>1, <1>4, <1>5, <1>6, <1>7, <1>8, <1>9, <1>10, HeadGoesOn


(* wmt_i2c_transfer_msg starts message n of the request r, whose earlier   *)
(* messages have been sent, on a controller that need not be waited for.   *)
LEMMA StartedMsg ==
  ASSUME SafeUse,
         NEW r \in Request, call[r.who] \in MsgLists, r.xfer_msgnum < Len(call[r.who]),
         NEW mv, Sent(mv, call[r.who], r.xfer_msgnum, 0),
         NEW h \in Controller
  PROVE  LET q == [r EXCEPT !.xfer_length = 1]
         IN  /\ q \in Request /\ q.who = r.who /\ q.non_block = r.non_block
             /\ StartNext(r, h) \in Controller
             /\ StartNext(r, h).bus = "busy"
             /\ UnderWay(q, call[r.who], mv, StartNext(r, h))
<1> DEFINE q == [r EXCEPT !.xfer_length = 1]
           n == r.xfer_msgnum
           m == call[r.who][n + 1]
           x == StartNext(r, h)
<1>1. /\ call[r.who] \in Seq(Msg) /\ Len(call[r.who]) \in Nat
      /\ n \in Nat /\ n + 1 \in 1 .. Len(call[r.who])
  BY ListFacts DEF Request
<1>2. /\ m \in Msg /\ m.len \in Nat /\ m.len > 0
      /\ m.rd \in BOOLEAN /\ m.nostart \in BOOLEAN
      /\ Pmsg(r) = m
  BY <1>1, MsgLength DEF Msg, SafeUse, WellFormed, Pmsg
<1>3. /\ q \in Request /\ q.who = r.who /\ q.non_block = r.non_block
      /\ q.xfer_msgnum = n /\ q.xfer_length = 1
  BY DEF Request
<1>4. h.noack \in BOOLEAN
  BY DEF Controller
<1>5. /\ x.bus = "busy" /\ x.addr = TRUE
      /\ x.noack = (IF m.rd THEN m.len = 1 ELSE h.noack)
      /\ x.cdr = FirstByte(r)
      /\ x = [bus |-> x.bus, addr |-> x.addr, noack |-> x.noack, cdr |-> x.cdr]
  BY <1>2 DEF StartNext
<1>6. /\ FirstByte(r) \in {None} \cup (Nat \X Nat)
      /\ ~m.rd => FirstByte(r) = <<n, 0>>
  BY <1>1, <1>2 DEF FirstByte
<1> HIDE DEF q, x, m
<1>7. x \in Controller
  BY <1>2, <1>4, <1>5, <1>6 DEF Controller
<1>8. UnderWay(q, call[r.who], mv, x)
  <2>1. /\ q.xfer_length \in 1 .. m.len /\ q.xfer_length - 1 = 0
        /\ q.xfer_length = 1
    BY <1>2, <1>3
  <2>2. m.rd => x.noack = (m.len = 1 \/ (q.xfer_length = m.len /\ ~m.nostart))
    BY <1>2, <1>3, <1>5
  <2> QED
    BY <1>1, <1>2, <1>3, <1>5, <1>6, <2>1, <2>2 DEF UnderWay, m
<1> QED
  BY <1>3, <1>5, <1>7, <1>8 DEF q, x


(* The last byte of a message that another one follows.                    *)
LEMMA NextMsgInv ==
  ASSUME IInv, SafeUse, fifo # <<>>, stuck = "no",
         r0.xfer_length = Pmsg(r0).len, ~LastMsg(r0),
         NEW mv \in Seq(Byte),
         Sent(mv, call[r0.who], r0.xfer_msgnum, r0.xfer_length),
         moved' = [moved EXCEPT ![r0.who] = mv],
         NEW r \in Request, r.who = r0.who, r.non_block = r0.non_block,
         r.xfer_msgnum = r0.xfer_msgnum + 1,
         NEW h \in Controller, r.restart \/ h.bus = "ready",
         Launch(r, Tail(fifo), h),
         UNCHANGED <<isr_int_pending, pc, call, tries, ret, refused>>
  PROVE  IInv'
<1> DEFINE q == [r EXCEPT !.xfer_length = 1]
           x == StartNext(r, h)
<1>1. /\ call[r.who] \in MsgLists /\ call[r.who] \in Seq(Msg)
      /\ Len(call[r.who]) \in Nat
      /\ r0.xfer_msgnum \in Nat /\ r.xfer_msgnum < Len(call[r.who])
  BY MsgFacts DEF LastMsg
<1>2. Sent(mv, call[r.who], r.xfer_msgnum, 0)
  BY MsgFacts, SentMessage
<1>3. /\ q \in Request /\ q.who = r.who /\ q.non_block = r.non_block
      /\ x \in Controller /\ x.bus = "busy"
      /\ UnderWay(q, call[r.who], mv, x)
  BY <1>1, <1>2, StartedMsg
<1>4. /\ fifo' = <<q>> \o Tail(fifo) /\ hw' = x /\ isr_nack' = FALSE /\ stuck' = "no"
  BY <1>1 DEF Launch, Overrun, MsgNum, Spins
<1> HIDE DEF q, x
<1> QED
  BY <1>3, <1>4, HeadGoesOn

LEMMA ReadNextMsgInv ==
  ASSUME IInv, SafeUse, ReadNextMsg
  PROVE  IInv'
<1>1. /\ fifo # <<>> /\ hw \in Controller /\ stuck = "no" /\ hw.bus = "busy"
      /\ Pmsg(r0).rd
      /\ r0.xfer_length = Pmsg(r0).len /\ ~LastMsg(r0)
  BY IrqFacts DEF ReadNextMsg, ReadIrq
<1> DEFINE b == <<r0.xfer_msgnum, r0.xfer_length - 1>>
           mv == Append(moved[r0.who], b)
           r == [r0 EXCEPT !.xfer_msgnum = @ + 1]
           h == AfterRead
<1>2. mv \in Seq(Byte) /\ Sent(mv, call[r0.who], r0.xfer_msgnum, r0.xfer_length)
  BY <1>1, ByteMoved
<1>3. r0 \in Request /\ UnderWay(r0, call[r0.who], moved[r0.who], hw)
  BY <1>1, HeadFacts
<1>4. /\ r \in Request /\ r.who = r0.who /\ r.non_block = r0.non_block
      /\ r.xfer_msgnum = r0.xfer_msgnum + 1 /\ r.restart = r0.restart
  BY <1>3 DEF Request
<1>5. h \in Controller /\ (hw.noack => h.bus = "ready")
  BY <1>1 DEF AfterRead, Controller
<1>6. hw.noack \/ r0.restart
  <2>1. /\ Pmsg(r0) = call[r0.who][r0.xfer_msgnum + 1]
        /\ Pmsg(r0) \in Msg /\ Pmsg(r0).len \in Nat \ {0}
    BY <1>1, MsgFacts
  <2>2. Pmsg(r0).nostart \in BOOLEAN
    BY <2>1 DEF Msg
  <2>3. /\ hw.noack = (Pmsg(r0).len = 1 \/ ~Pmsg(r0).nostart)
        /\ Pmsg(r0).nostart /\ Pmsg(r0).len > 1 => r0.restart
    BY <1>1, <1>3, <2>1 DEF UnderWay
  <2>4. CASE Pmsg(r0).len = 1 \/ ~Pmsg(r0).nostart
    BY <2>3, <2>4
  <2>5. CASE Pmsg(r0).len # 1 /\ Pmsg(r0).nostart
    BY <2>1, <2>3, <2>5
  <2> QED
    BY <2>2, <2>4, <2>5
<1>7. /\ moved' = [moved EXCEPT ![r0.who] = mv]
      /\ Launch(r, Tail(fifo), h)
      /\ UNCHANGED <<isr_int_pending, pc, call, tries, ret, refused>>
  BY DEF ReadNextMsg, ReadIrq, Moved
<1> HIDE DEF mv, r, h
<1> QED
  BY <1>1, <1>2, <1>4, <1>5, <1>6, <1>7, NextMsgInv

LEMMA WriteNextMsgInv ==
  ASSUME IInv, SafeUse, WriteNextMsg
  PROVE  IInv'
<1>1. /\ fifo # <<>> /\ hw \in Controller /\ stuck = "no" /\ hw.bus = "busy"
      /\ ~Pmsg(r0).rd
      /\ r0.xfer_length = Pmsg(r0).len /\ ~LastMsg(r0)
  BY IrqFacts DEF WriteNextMsg, WriteIrq
<1> DEFINE m == Pmsg(r0)
           mv == Append(moved[r0.who], hw.cdr)
           r == [r0 EXCEPT !.xfer_msgnum = @ + 1, !.restart = m.nostart]
           h == IF m.nostart THEN [hw EXCEPT !.bus = "held"] ELSE Stopped
<1>2. r0 \in Request /\ UnderWay(r0, call[r0.who], moved[r0.who], hw)
  BY <1>1, HeadFacts
<1>3. /\ m = call[r0.who][r0.xfer_msgnum + 1]
      /\ m \in Msg /\ m.nostart \in BOOLEAN
  BY <1>1, MsgFacts DEF Msg
<1>4. hw.cdr = <<r0.xfer_msgnum, r0.xfer_length - 1>>
  BY <1>1, <1>2, <1>3 DEF UnderWay
<1>5. mv \in Seq(Byte) /\ Sent(mv, call[r0.who], r0.xfer_msgnum, r0.xfer_length)
  BY <1>1, <1>4, ByteMoved
<1>6. /\ moved' = [moved EXCEPT ![r0.who] = mv]
      /\ Launch(r, Tail(fifo), h)
      /\ UNCHANGED <<isr_int_pending, pc, call, tries, ret, refused>>
  BY DEF WriteNextMsg, WriteIrq, Moved
<1>7. /\ r \in Request /\ r.who = r0.who /\ r.non_block = r0.non_block
      /\ r.xfer_msgnum = r0.xfer_msgnum + 1 /\ r.restart = m.nostart
  <2> HIDE DEF m
  <2>1. PICK v \in BOOLEAN : v = m.nostart
    BY <1>3
  <2>2. PICK n \in Nat : n = r0.xfer_msgnum + 1
    BY <1>2 DEF Request
  <2> DEFINE x == [r0 EXCEPT !.xfer_msgnum = n]
             y == [x EXCEPT !.restart = v]
  <2>3. r = y
    BY <2>1, <2>2
  <2>4. /\ x \in Request /\ x.who = r0.who /\ x.non_block = r0.non_block
        /\ x.xfer_msgnum = n
    BY <1>2, <2>2 DEF Request
  <2> HIDE DEF r, x
  <2>5. /\ y \in Request /\ y.who = x.who /\ y.non_block = x.non_block
        /\ y.xfer_msgnum = x.xfer_msgnum /\ y.restart = v
    BY <2>1, <2>4 DEF Request
  <2> HIDE DEF y
  <2> QED
    BY <2>1, <2>2, <2>3, <2>4, <2>5
<1> HIDE DEF m
<1>8. h \in Controller /\ (m.nostart \/ h.bus = "ready")
  BY <1>1, <1>3 DEF Stopped, Controller
<1> HIDE DEF mv, r, h
<1> QED
  BY <1>1, <1>5, <1>6, <1>7, <1>8, NextMsgInv

(* The last byte of a request, on a controller that has let the bus go.    *)
LEMMA LastMsgInv ==
  ASSUME IInv, SafeUse, fifo # <<>>, stuck = "no",
         r0.xfer_length = Pmsg(r0).len, LastMsg(r0),
         NEW mv \in Seq(Byte),
         Sent(mv, call[r0.who], r0.xfer_msgnum, r0.xfer_length),
         moved' = [moved EXCEPT ![r0.who] = mv],
         Complete(r0),
         NEW h \in Controller, h.bus = "ready",
         NEW skip \in Nat, Len(fifo) = 1 \/ skip = 0,
         Dequeue(skip, h),
         UNCHANGED <<call, tries, refused>>
  PROVE  IInv'
<1>1. Sent(mv, call[r0.who], Len(call[r0.who]), 0)
  <2>1. /\ call[r0.who] \in Seq(Msg)
        /\ r0.xfer_msgnum \in Nat /\ r0.xfer_msgnum < Len(call[r0.who])
        /\ Pmsg(r0) = call[r0.who][r0.xfer_msgnum + 1]
        /\ r0.xfer_msgnum + 1 = Len(call[r0.who])
    BY MsgFacts DEF LastMsg
  <2> QED
    BY <2>1, SentMessage
<1>2. /\ fifo \in Seq(Request) /\ Len(fifo) \in Nat /\ Len(fifo) >= 1
      /\ Tail(fifo) \in Seq(Request) /\ Len(Tail(fifo)) = Len(fifo) - 1
      /\ \A k \in 1 .. Len(fifo) - 1 : Tail(fifo)[k] = fifo[k + 1]
  BY HeadFacts DEF IInv, TypeOK
<1>3. isr_nack = FALSE
  BY NoNackYet
<1>4. CASE Tail(fifo) = <<>>
  <2>1. fifo' = <<>> /\ hw' = h /\ isr_nack' = FALSE /\ stuck' = "no"
    BY <1>3, <1>4 DEF Dequeue
  <2>2. /\ Len(fifo') = 0 /\ Len(fifo') = Len(fifo) - 1 /\ fifo' \in Seq(Request)
        /\ ~(Len(fifo') > 0)
        /\ \A k \in 2 .. Len(fifo') : fifo'[k] = fifo[k + 1]
    <3>1. Len(fifo') = 0 /\ fifo' \in Seq(Request)
      BY <2>1
    <3>2. Len(Tail(fifo)) = 0
      <4>1. Len(<<>>) = 0
        OBVIOUS
      <4> QED
        BY <1>4, <4>1, Zenon
    <3> QED
      BY <3>1, <3>2, <1>2
  <2>3. hw' \in Controller /\ hw'.bus = IF fifo' = <<>> THEN "ready" ELSE "busy"
    BY <2>1
  <2> QED
    BY <1>1, <2>1, <2>2, <2>3, HeadIsDone
<1>5. CASE Tail(fifo) # <<>>
  <2>1. /\ skip = 0 /\ 2 \in 1 .. Len(fifo) /\ 2 \in 2 .. Len(fifo)
        /\ 1 \in 1 .. Len(fifo) - 1 /\ Len(Tail(fifo)) > 0
    BY <1>2, <1>5
  <2> DEFINE p2 == fifo[2].who
             r == [fifo[2] EXCEPT !.xfer_msgnum = @ + skip]
             q == [r EXCEPT !.xfer_length = 1]
             x == StartNext(r, h)
  <2>2. /\ fifo[2] \in Request /\ p2 \in Procs
        /\ fifo[2] = NewRequest(p2)
        /\ pc[p2] # "idle"
    BY <2>1, Owners DEF IInv, FifoOK
  <2>3. call[p2] \in MsgLists
    BY <2>2 DEF IInv, CallOK
  <2>4. /\ r \in Request /\ r.who = p2 /\ r.non_block = fifo[2].non_block
        /\ r.xfer_msgnum = 0
    <3>1. fifo[2].xfer_msgnum = 0
      BY <2>2 DEF NewRequest
    <3> QED
      BY <2>1, <2>2, <3>1 DEF Request
  <2>5. Launch(r, Tail(Tail(fifo)), h)
    BY <1>5 DEF Dequeue
  <2> HIDE DEF p2, r
  <2>6. call[p2] \in Seq(Msg) /\ Len(call[p2]) > 0 /\ Len(call[p2]) \in Nat
    BY <2>3, ListFacts
  <2>7. /\ q \in Request /\ q.who = p2 /\ q.non_block = fifo[2].non_block
        /\ x \in Controller /\ x.bus = "busy"
        /\ UnderWay(q, call[p2], <<>>, x)
    BY <2>3, <2>4, <2>6, SentNone, StartedMsg
  <2>8. /\ fifo' = <<q>> \o Tail(Tail(fifo)) /\ hw' = x
        /\ isr_nack' = FALSE /\ stuck' = "no"
    <3>1. ~Overrun(r)
      BY <2>4, <2>6 DEF Overrun, MsgNum
    <3>2. ~Spins(h.bus)
      BY DEF Spins
    <3> QED
      BY <2>5, <3>1, <3>2, Zenon DEF Launch
  <2> HIDE DEF q, x
  <2>9. /\ fifo' \in Seq(Request)
        /\ Len(fifo') = Len(fifo) - 1
        /\ fifo'[1] = q
        /\ \A k \in 2 .. Len(Tail(fifo)) : fifo'[k] = Tail(fifo)[k]
    BY <1>2, <1>5, <2>7, <2>8, NewHead
  <2>10. /\ fifo' # <<>>
         /\ \A k \in 2 .. Len(fifo') : fifo'[k] = fifo[k + 1]
    BY <1>2, <2>1, <2>9
  <2>11. /\ fifo'[1].who = fifo[2].who
         /\ fifo'[1].non_block = fifo[2].non_block
         /\ UnderWay(fifo'[1], call[fifo[2].who], <<>>, hw')
    BY <2>7, <2>8, <2>9 DEF p2
  <2>12. hw' \in Controller /\ hw'.bus = IF fifo' = <<>> THEN "ready" ELSE "busy"
    BY <2>7, <2>8, <2>10
  <2> QED
    BY <1>1, <2>8, <2>9, <2>10, <2>11, <2>12, HeadIsDone
<1> QED
  BY <1>4, <1>5


(* The message under way is the last one of the call.                      *)
LEMMA AtLastMsg ==
  ASSUME IInv, SafeUse, fifo # <<>>, LastMsg(r0)
  PROVE  Pmsg(r0) = call[r0.who][Len(call[r0.who])]
<1>1. /\ r0.xfer_msgnum \in Nat /\ r0.xfer_msgnum < Len(call[r0.who])
      /\ Len(call[r0.who]) \in Nat
      /\ Pmsg(r0) = call[r0.who][r0.xfer_msgnum + 1]
      /\ MsgNum(r0) = Len(call[r0.who])
  BY MsgFacts
<1>2. r0.xfer_msgnum + 1 = Len(call[r0.who])
  BY <1>1 DEF LastMsg
<1> QED
  BY <1>1, <1>2

LEMMA ReadDoneInv ==
  ASSUME IInv, SafeUse, ReadDone
  PROVE  IInv'
<1>1. /\ fifo # <<>> /\ hw \in Controller /\ stuck = "no" /\ hw.bus = "busy"
      /\ Pmsg(r0).rd
      /\ r0.xfer_length = Pmsg(r0).len /\ LastMsg(r0)
  BY IrqFacts DEF ReadDone, ReadIrq
<1> DEFINE m == Pmsg(r0)
           b == <<r0.xfer_msgnum, r0.xfer_length - 1>>
           mv == Append(moved[r0.who], b)
           h == AfterRead
<1>2. mv \in Seq(Byte) /\ Sent(mv, call[r0.who], r0.xfer_msgnum, r0.xfer_length)
  BY <1>1, ByteMoved
<1>3. /\ call[r0.who] \in MsgLists
      /\ m = call[r0.who][r0.xfer_msgnum + 1]
      /\ m \in Msg /\ m.nostart \in BOOLEAN
      /\ m = call[r0.who][Len(call[r0.who])]
  BY <1>1, MsgFacts, AtLastMsg DEF Msg
<1>4. hw.noack
  <2>1. UnderWay(r0, call[r0.who], moved[r0.who], hw)
    BY <1>1, HeadFacts
  <2>2. hw.noack = (m.len = 1 \/ ~m.nostart)
    BY <1>1, <1>3, <2>1 DEF UnderWay
  <2>3. m.nostart => m.len = 1
    BY <1>1, <1>3 DEF SafeUse, WellFormed
  <2> QED
    BY <1>3, <2>2, <2>3
<1>5. h \in Controller /\ h.bus = "ready"
  BY <1>1, <1>4 DEF AfterRead, Controller
<1>6. /\ moved' = [moved EXCEPT ![r0.who] = mv]
      /\ Complete(r0)
      /\ Dequeue(0, h)
      /\ UNCHANGED <<call, tries, refused>>
  BY DEF ReadDone, ReadIrq, Moved
<1> HIDE DEF mv, h
<1> QED
  BY <1>1, <1>2, <1>5, <1>6, LastMsgInv

LEMMA WriteDoneInv ==
  ASSUME IInv, SafeUse, WriteDone
  PROVE  IInv'
<1>1. /\ fifo # <<>> /\ hw \in Controller /\ stuck = "no" /\ hw.bus = "busy"
      /\ ~Pmsg(r0).rd
      /\ r0.xfer_length = Pmsg(r0).len /\ LastMsg(r0)
  BY IrqFacts DEF WriteDone, WriteIrq
<1> DEFINE mv == Append(moved[r0.who], hw.cdr)
           h == Stopped
<1>2. /\ call[r0.who] \in MsgLists
      /\ Pmsg(r0) = call[r0.who][r0.xfer_msgnum + 1]
      /\ Pmsg(r0) = call[r0.who][Len(call[r0.who])]
  BY <1>1, MsgFacts, AtLastMsg
<1>3. hw.cdr = <<r0.xfer_msgnum, r0.xfer_length - 1>>
  <2>1. UnderWay(r0, call[r0.who], moved[r0.who], hw)
    BY <1>1, HeadFacts
  <2> QED
    BY <1>1, <1>2, <2>1 DEF UnderWay
<1>4. mv \in Seq(Byte) /\ Sent(mv, call[r0.who], r0.xfer_msgnum, r0.xfer_length)
  BY <1>1, <1>3, ByteMoved
<1>5. h \in Controller /\ h.bus = "ready"
  BY <1>1 DEF Stopped, Controller
<1>6. Len(fifo) = 1
  <2>1. BlockingOnly \/ Alone
    BY <1>1, <1>2 DEF SafeUse, ClientsServed
  <2> QED
    BY <1>1, <2>1, OneTaskQueued, OneSenderQueued
<1>7. /\ moved' = [moved EXCEPT ![r0.who] = mv]
      /\ Complete(r0)
      /\ Dequeue(1, h)
      /\ UNCHANGED <<call, tries, refused>>
  BY DEF WriteDone, WriteIrq, Moved
<1> HIDE DEF mv, h
<1> QED
  BY <1>1, <1>4, <1>5, <1>6, <1>7, LastMsgInv

(* A refused address ends the only request there is; its sender is woken   *)
(* and will find isr_nack set.                                             *)
LEMMA NackIrqInv ==
  ASSUME IInv, SafeUse, NackIrq
  PROVE  IInv'
<1>1. fifo # <<>> /\ hw \in Controller /\ stuck = "no" /\ AddrNack
  BY IrqFacts DEF NackIrq
<1>2. BlockingOnly
  BY <1>1 DEF SafeUse, ClientsServed
<1>3. /\ Len(fifo) = 1 /\ fifo \in Seq(Request) /\ TypeOK
      /\ isr_nack = FALSE
  BY <1>1, <1>2, OneTaskQueued, NoNackYet DEF IInv, TypeOK
<1>4. PICK p0 \in Procs : p0 = r0.who
  BY <1>1, HeadFacts
<1>5. /\ r0 = fifo[1]
      /\ p0 \in Tasks /\ pc[p0] = "wait" /\ ret[p0] = "none"
      /\ Clients = {} /\ Procs = Tasks
  BY <1>1, <1>2, <1>4, HeadFacts DEF BlockingOnly, Procs
<1>6. Queued(p0)
  BY <1>3, <1>4, <1>5 DEF Queued
<1>7. fifo' = <<>> /\ fifo' \in Seq(Request) /\ Len(fifo') = 0
  <2>1. fifo' = Tail(fifo)
    BY DEF NackIrq
  <2>2. Tail(fifo) \in Seq(Request) /\ Len(Tail(fifo)) = 0
    BY <1>1, <1>3
  <2>3. fifo' \in Seq(Request) /\ Len(fifo') = 0
    BY <2>1, <2>2, Zenon
  <2> QED
    BY <2>3
<1>8. /\ hw' \in Controller /\ hw'.bus = "ready"
      /\ isr_nack' = TRUE /\ isr_int_pending' = TRUE
      /\ refused' \in [Procs -> Nat]
      /\ refused'[p0] = refused[p0] + 1
      /\ \A p \in Procs \ {p0} : refused'[p] = refused[p]
      /\ UNCHANGED <<pc, call, tries, ret, moved, stuck>>
  <2>1. /\ hw' = [hw EXCEPT !.bus = "ready"]
        /\ isr_nack' = TRUE /\ isr_int_pending' = TRUE
        /\ refused' = [refused EXCEPT ![p0] = @ + 1]
        /\ UNCHANGED <<pc, call, tries, ret, moved, stuck>>
    BY <1>4 DEF NackIrq
  <2>2. hw' \in Controller /\ hw'.bus = "ready"
    BY <1>1, <2>1 DEF Controller
  <2>3. refused \in [Procs -> Nat]
    BY <1>3 DEF TypeOK
  <2> QED
    BY <2>1, <2>2, <2>3
<1>9. TypeOK'
  BY <1>3, <1>7, <1>8 DEF TypeOK
<1>10. FifoOK'
  BY <1>7 DEF FifoOK
<1>11. ASSUME NEW p \in Procs PROVE CallOK(p)'
  <2>1. CallOK(p) /\ Whole(p)' = Whole(p)
    BY <1>8 DEF IInv, Whole
  <2> QED
    BY <2>1, <1>8 DEF CallOK
<1>12. \A p : ~Queued(p)'
  BY <1>7 DEF Queued
<1>13. ASSUME NEW t \in Tasks PROVE TaskOK(t)'
  <2>1. TaskOK(t) /\ t \in Procs /\ tries \in Nat /\ Retries \in Nat
    BY <1>3, <1>5, I2cAssumption DEF IInv, TypeOK
  <2>2. CASE t = p0
    BY <2>1, <2>2, <1>3, <1>5, <1>6, <1>8, <1>12 DEF TaskOK, Refusals
  <2>3. CASE t # p0
    <3>1. pc[t] = "idle"
      BY <2>3, <1>5 DEF IInv
    <3> QED
      BY <2>1, <2>3, <3>1, <1>8 DEF TaskOK
  <2> QED
    BY <2>2, <2>3
<1> QED
  BY <1>1, <1>5, <1>7, <1>8, <1>9, <1>10, <1>11, <1>13 DEF IInv


-----------------------------------------------------------------------------
(* Senders                                                                 *)

(* A call begins: the flags that it clears belong to nobody else.          *)
LEMMA NewCallInv ==
  ASSUME IInv, SafeUse,
         NEW p \in Procs, NEW msgs \in MsgLists, pc[p] = "idle",
         ClearFlags(p), NewCall(p, msgs),
         p \in Tasks => tries' = Retries /\ \A u \in Tasks : pc[u] = "idle",
         p \in Clients => tries' = tries
  PROVE  IInv'
<1>1. TypeOK /\ FifoOK /\ stuck = "no" /\ fifo \in Seq(Request) /\ isr_nack \in BOOLEAN
  BY DEF IInv, TypeOK
<1>2. /\ call' = [call EXCEPT ![p] = msgs] /\ ret' = [ret EXCEPT ![p] = "none"]
      /\ moved' = [moved EXCEPT ![p] = <<>>] /\ refused' = [refused EXCEPT ![p] = 0]
      /\ pc' = [pc EXCEPT ![p] = "queue"]
      /\ fifo' = fifo /\ hw' = hw /\ stuck' = stuck
  BY DEF NewCall
<1>3. /\ call'[p] = msgs /\ ret'[p] = "none" /\ moved'[p] = <<>> /\ refused'[p] = 0
      /\ pc'[p] = "queue"
      /\ \A q \in Procs \ {p} : /\ call'[q] = call[q] /\ ret'[q] = ret[q]
                                /\ moved'[q] = moved[q] /\ refused'[q] = refused[q]
                                /\ pc'[q] = pc[q]
  BY <1>1, <1>2 DEF TypeOK
<1>4. /\ isr_nack' = FALSE
      /\ isr_int_pending' = (isr_int_pending /\ p \in Clients /\ ~ClearsForAll)
  BY DEF ClearFlags
<1>5. TypeOK'
  <2>1. /\ call' \in [Procs -> MsgLists \cup {<<>>}]
        /\ ret' \in [Procs -> {"none", "ok", "EIO"}]
        /\ moved' \in [Procs -> Seq({None} \cup (Nat \X Nat))]
        /\ refused' \in [Procs -> Nat]
        /\ pc' \in [Procs -> {"idle", "queue", "wait", "woken", "retry", "out"}]
    BY <1>1, <1>2 DEF TypeOK
  <2>2. tries' \in 0 .. Retries
    BY <1>1, I2cAssumption DEF TypeOK, Procs
  <2>3. isr_int_pending' \in BOOLEAN
    BY <1>4
  <2> QED
    BY <1>1, <1>2, <1>4, <2>1, <2>2, <2>3 DEF TypeOK
<1>6. \A k \in 1 .. Len(fifo) : fifo[k].who \in Procs \ {p}
  BY <1>1, Owners DEF FifoOK
<1>7. FifoOK'
  <2>1. \A k \in 1 .. Len(fifo) :
          /\ fifo[k].non_block = (fifo[k].who \in Clients)
          /\ pc'[fifo[k].who] = IF fifo[k].who \in Clients THEN "out" ELSE "wait"
    BY <1>1, <1>3, <1>6 DEF FifoOK
  <2>2. ASSUME NEW k \in 2 .. Len(fifo)
        PROVE  fifo[k] = NewRequest(fifo[k].who) /\ moved'[fifo[k].who] = <<>>
    <3>1. k \in 1 .. Len(fifo)
      OBVIOUS
    <3> QED
      BY <1>1, <1>3, <1>6, <3>1 DEF FifoOK
  <2>3. ASSUME fifo # <<>>
        PROVE  UnderWay(fifo[1], call'[fifo[1].who], moved'[fifo[1].who], hw)
    <3>1. 1 \in 1 .. Len(fifo)
      BY <1>1, <2>3
    <3>2. call'[fifo[1].who] = call[fifo[1].who] /\ moved'[fifo[1].who] = moved[fifo[1].who]
      BY <1>3, <1>6, <3>1
    <3> QED
      BY <1>1, <2>3, <3>2 DEF FifoOK
  <2> QED
    BY <1>1, <1>2, <2>1, <2>2, <2>3 DEF FifoOK, NewRequest
<1>8. \A q : Queued(q)' <=> Queued(q)
  BY <1>2 DEF Queued
<1>9. ASSUME NEW q \in Procs, q # p PROVE Whole(q)' <=> Whole(q)
  <2>1. call'[q] = call[q] /\ moved'[q] = moved[q]
    BY <1>3, <1>9
  <2> QED
    BY <2>1 DEF Whole
<1>10. ASSUME NEW q \in Procs PROVE CallOK(q)'
  <2>1. CASE q = p
    BY <1>3, <2>1 DEF CallOK
  <2>2. CASE q # p
    BY <1>3, <1>9, <2>2 DEF IInv, CallOK
  <2> QED
    BY <2>1, <2>2
<1>11. ASSUME NEW c \in Clients PROVE ClientOK(c)'
  <2>1. c \in Procs /\ ClientOK(c)
    BY DEF IInv, Procs
  <2> QED
    BY <1>3, <1>8, <2>1 DEF ClientOK
<1>12. CASE p \in Tasks
  <2>1. p \notin Clients /\ tries' = Retries /\ \A u \in Tasks : pc[u] = "idle"
    BY <1>12, I2cAssumption
  <2>2. isr_int_pending' = FALSE
    BY <1>4, <2>1
  <2>3. ASSUME NEW u \in Tasks PROVE TaskOK(u)'
    <3>1. TaskOK(u) /\ u \in Procs /\ pc[u] = "idle" /\ Retries \in Nat
      BY <2>1, I2cAssumption DEF IInv, Procs
    <3>2. CASE u = p
      BY <1>3, <1>4, <2>1, <2>2, <3>1, <3>2 DEF TaskOK, Refusals
    <3>3. CASE u # p
      BY <1>3, <3>1, <3>3 DEF TaskOK
    <3> QED
      BY <3>2, <3>3
  <2>4. \A t, u \in Tasks : pc'[t] # "idle" /\ pc'[u] # "idle" => t = u
    BY <1>3, <2>1 DEF Procs
  <2> QED
    BY <1>1, <1>2, <1>4, <1>5, <1>7, <1>10, <1>11, <2>3, <2>4 DEF IInv
<1>13. CASE p \in Clients
  <2>1. /\ ClientsServed /\ p \notin Tasks /\ tries' = tries
    BY <1>13, I2cAssumption DEF SafeUse, BlockingOnly
  <2>2. isr_nack = FALSE /\ isr_int_pending \in BOOLEAN
    BY <1>1, <2>1 DEF IInv, ClientsServed, TypeOK
  <2>3. Tasks = {} \/ isr_int_pending' = isr_int_pending
    BY <1>4, <1>13, <2>1, <2>2 DEF ClientsServed
  <2>4. ASSUME NEW u \in Tasks PROVE TaskOK(u)'
    <3>1. TaskOK(u) /\ u \in Procs /\ u # p
      BY <2>1 DEF IInv, Procs
    <3> QED
      BY <1>3, <1>4, <1>8, <1>9, <2>1, <2>2, <2>3, <3>1 DEF TaskOK, Refusals
  <2>5. \A t, u \in Tasks : pc'[t] # "idle" /\ pc'[u] # "idle" => t = u
    BY <1>3, <2>1 DEF Procs, IInv
  <2> QED
    BY <1>1, <1>2, <1>4, <1>5, <1>7, <1>10, <1>11, <2>4, <2>5 DEF IInv
<1> QED
  BY <1>12, <1>13 DEF Procs


(* A request joins the queue, started if the queue was empty.              *)
LEMMA JoinedInv ==
  ASSUME IInv, SafeUse, NEW p \in Procs, pc[p] = "queue",
         pc' = [pc EXCEPT ![p] = IF p \in Clients THEN "out" ELSE "wait"],
         NEW q \in Request, q.who = p, q.non_block = (p \in Clients),
         fifo' = Append(fifo, q),
         hw' \in Controller, hw'.bus = "busy",
         fifo # <<>> => q = NewRequest(p) /\ hw' = hw,
         fifo = <<>> => UnderWay(q, call[p], <<>>, hw'),
         isr_nack = FALSE, isr_nack' = FALSE, stuck' = "no",
         UNCHANGED <<isr_int_pending, call, tries, ret, moved, refused>>
  PROVE  IInv'
<1>1. /\ TypeOK /\ FifoOK /\ fifo \in Seq(Request) /\ CallOK(p)
      /\ Len(fifo) \in Nat
  BY DEF IInv, TypeOK
<1>2. /\ fifo' \in Seq(Request) /\ Len(fifo') = Len(fifo) + 1
      /\ \A k \in 1 .. Len(fifo) : fifo'[k] = fifo[k]
      /\ fifo'[Len(fifo) + 1] = q
  BY <1>1
<1>3. /\ pc'[p] = IF p \in Clients THEN "out" ELSE "wait"
      /\ \A u \in Procs \ {p} : pc'[u] = pc[u]
      /\ pc' \in [Procs -> {"idle", "queue", "wait", "woken", "retry", "out"}]
  BY <1>1 DEF TypeOK
<1>4. TypeOK'
  BY <1>1, <1>2, <1>3 DEF TypeOK
<1>5. \A k \in 1 .. Len(fifo) : fifo[k].who \in Procs \ {p}
  BY <1>1, Owners DEF FifoOK
<1>6. moved[p] = <<>>
  BY <1>1 DEF CallOK
<1>7. FifoOK'
  <2>1. ASSUME NEW k \in 1 .. Len(fifo')
        PROVE  /\ fifo'[k].non_block = (fifo'[k].who \in Clients)
               /\ pc'[fifo'[k].who] = IF fifo'[k].who \in Clients THEN "out" ELSE "wait"
    <3>1. CASE k \in 1 .. Len(fifo)
      BY <1>1, <1>2, <1>3, <1>5, <3>1 DEF FifoOK
    <3>2. CASE k = Len(fifo) + 1
      BY <1>2, <1>3, <3>2
    <3> QED
      BY <1>1, <1>2, <3>1, <3>2
  <2>2. ASSUME NEW j \in 1 .. Len(fifo'), NEW k \in 1 .. Len(fifo'),
               fifo'[j].who = fifo'[k].who
        PROVE  j = k
    <3>1. CASE j \in 1 .. Len(fifo) /\ k \in 1 .. Len(fifo)
      BY <1>1, <1>2, <2>2, <3>1 DEF FifoOK
    <3>2. CASE j \in 1 .. Len(fifo) /\ k = Len(fifo) + 1
      BY <1>2, <1>5, <2>2, <3>2
    <3>3. CASE j = Len(fifo) + 1 /\ k \in 1 .. Len(fifo)
      BY <1>2, <1>5, <2>2, <3>3
    <3> QED
      BY <1>1, <1>2, <3>1, <3>2, <3>3
  <2>3. ASSUME NEW k \in 2 .. Len(fifo')
        PROVE  fifo'[k] = NewRequest(fifo'[k].who) /\ moved'[fifo'[k].who] = <<>>
    <3>1. CASE k \in 2 .. Len(fifo)
      <4>1. fifo'[k] = fifo[k]
        BY <1>1, <1>2, <3>1
      <4>2. fifo[k] = NewRequest(fifo[k].who) /\ moved[fifo[k].who] = <<>>
        BY <1>1, <3>1 DEF FifoOK
      <4> QED
        BY <4>1, <4>2
    <3>2. CASE k = Len(fifo) + 1
      <4>1. fifo # <<>>
        BY <1>1, <3>2
      <4> QED
        BY <1>2, <1>6, <3>2, <4>1
    <3> QED
      BY <1>1, <1>2, <3>1, <3>2
  <2>4. UnderWay(fifo'[1], call'[fifo'[1].who], moved'[fifo'[1].who], hw')
    <3>1. CASE fifo = <<>>
      <4>1. Len(fifo) + 1 = 1
        BY <3>1
      <4>2. fifo'[1] = q
        BY <1>2, <4>1
      <4> QED
        BY <3>1, <4>2, <1>6
    <3>2. CASE fifo # <<>>
      <4>1. 1 \in 1 .. Len(fifo)
        BY <1>1, <3>2
      <4>2. fifo'[1] = fifo[1]
        BY <1>2, <4>1
      <4>3. UnderWay(fifo[1], call[fifo[1].who], moved[fifo[1].who], hw)
        BY <1>1, <3>2 DEF FifoOK
      <4> QED
        BY <3>2, <4>2, <4>3
    <3> QED
      BY <3>1, <3>2
  <2> QED
    BY <2>1, <2>2, <2>3, <2>4 DEF FifoOK, NewRequest
<1>8. ASSUME NEW u \in Procs
      PROVE  Queued(u)' <=> Queued(u) \/ u = p
  <2>1. ASSUME Queued(u)' PROVE Queued(u) \/ u = p
    <3>1. PICK k \in 1 .. Len(fifo') : fifo'[k].who = u
      BY <2>1 DEF Queued
    <3>2. CASE k \in 1 .. Len(fifo)
      BY <1>2, <3>1, <3>2 DEF Queued
    <3>3. CASE k = Len(fifo) + 1
      BY <1>2, <3>1, <3>3
    <3> QED
      BY <1>1, <1>2, <3>2, <3>3
  <2>2. ASSUME Queued(u) PROVE Queued(u)'
    <3>1. PICK k \in 1 .. Len(fifo) : fifo[k].who = u
      BY <2>2 DEF Queued
    <3>2. k \in 1 .. Len(fifo') /\ fifo'[k] = fifo[k]
      BY <1>1, <1>2
    <3> QED
      BY <3>1, <3>2 DEF Queued
  <2>3. ASSUME u = p PROVE Queued(u)'
    <3>1. Len(fifo) + 1 \in 1 .. Len(fifo')
      BY <1>1, <1>2
    <3> QED
      BY <1>2, <2>3, <3>1 DEF Queued
  <2> QED
    BY <2>1, <2>2, <2>3
<1>9. ASSUME NEW u \in Procs PROVE CallOK(u)'
  <2>1. CallOK(u) /\ Whole(u)' = Whole(u)
    BY DEF IInv, Whole
  <2>2. CASE u = p
    BY <1>3, <2>1, <2>2 DEF CallOK
  <2>3. CASE u # p
    BY <1>3, <2>1, <2>3 DEF CallOK
  <2> QED
    BY <2>2, <2>3
<1>10. ASSUME NEW c \in Clients PROVE ClientOK(c)'
  <2>1. c \in Procs /\ ClientOK(c)
    BY DEF IInv, Procs
  <2> QED
    BY <1>3, <1>8, <2>1 DEF ClientOK
<1>11. ASSUME NEW t \in Tasks PROVE TaskOK(t)'
  <2>1. TaskOK(t) /\ t \in Procs /\ t \notin Clients
    BY I2cAssumption DEF IInv, Procs
  <2>2. Whole(t)' = Whole(t)
    BY DEF Whole
  <2>3. CASE t = p
    <3>1. pc'[t] = "wait" /\ Queued(t)' /\ isr_int_pending = FALSE
      BY <1>1, <1>3, <1>8, <2>1, <2>3 DEF TaskOK, TypeOK
    <3> QED
      BY <2>1, <2>3, <3>1 DEF TaskOK, Refusals
  <2>4. CASE t # p
    BY <1>3, <1>8, <2>1, <2>2, <2>4 DEF TaskOK, Refusals
  <2> QED
    BY <2>3, <2>4
<1>12. \A t, u \in Tasks : pc'[t] # "idle" /\ pc'[u] # "idle" => t = u
  <2>1. \A t \in Tasks : pc'[t] # "idle" => pc[t] # "idle"
    BY <1>3 DEF Procs
  <2> QED
    BY <2>1 DEF IInv
<1>13. fifo' # <<>>
  BY <1>1, <1>2
<1> QED
  BY <1>4, <1>7, <1>9, <1>10, <1>11, <1>12, <1>13 DEF IInv

(* i2c_wmt_read_buf and i2c_wmt_write_buf start a request's first message. *)
LEMMA StartedFirst ==
  ASSUME SafeUse, NEW p \in Procs, call[p] \in MsgLists,
         NEW r, r = NewRequest(p),
         NEW q, q = [r EXCEPT !.xfer_length = 1,
                              !.restart = ~Pmsg(r).rd /\ Pmsg(r).nostart]
  PROVE  /\ q \in Request /\ q.who = p /\ q.non_block = (p \in Clients)
         /\ ~Refused(r)
         /\ StartFirst(r) \in Controller /\ StartFirst(r).bus = "busy"
         /\ UnderWay(q, call[p], <<>>, StartFirst(r))
<1> DEFINE m == call[p][1]
           x == StartFirst(r)
<1>1. /\ r.who = p /\ r.non_block = (p \in Clients) /\ r.xfer_msgnum = 0
      /\ r \in Request
  BY DEF NewRequest, Request
<1>2. call[p] \in Seq(Msg) /\ Len(call[p]) \in Nat \ {0} /\ 1 \in 1 .. Len(call[p])
  BY ListFacts
<1>3. /\ m \in Msg /\ m.len \in Nat /\ m.len > 0
      /\ m.rd \in BOOLEAN /\ m.nostart \in BOOLEAN
  BY <1>2, MsgLength DEF Msg, SafeUse, WellFormed
<1>4. Pmsg(r) = m
  BY <1>1 DEF Pmsg
<1> HIDE DEF m
<1>5. ~Refused(r)
  BY <1>3, <1>4 DEF Refused
<1>6. /\ FirstByte(r) \in {None} \cup (Nat \X Nat)
      /\ ~m.rd => FirstByte(r) = <<0, 0>>
  BY <1>1, <1>3, <1>4 DEF FirstByte
<1>7. /\ x.bus = "busy" /\ x.addr = TRUE
      /\ x.noack = (m.rd /\ m.len = 1)
      /\ x.cdr = FirstByte(r)
      /\ x = [bus |-> x.bus, addr |-> x.addr, noack |-> x.noack, cdr |-> x.cdr]
  BY <1>4 DEF StartFirst
<1>8. /\ q \in Request /\ q.who = p /\ q.non_block = (p \in Clients)
      /\ q.xfer_msgnum = 0 /\ q.xfer_length = 1
  <2>1. PICK v \in BOOLEAN : v = (~m.rd /\ m.nostart)
    OBVIOUS
  <2> DEFINE y == [r EXCEPT !.xfer_length = 1]
             z == [y EXCEPT !.restart = v]
  <2>2. q = z
    BY <1>4, <2>1
  <2>3. /\ y \in Request /\ y.who = p /\ y.non_block = (p \in Clients)
        /\ y.xfer_msgnum = 0 /\ y.xfer_length = 1
    BY <1>1 DEF Request
  <2> HIDE DEF y
  <2>4. /\ z \in Request /\ z.who = y.who /\ z.non_block = y.non_block
        /\ z.xfer_msgnum = y.xfer_msgnum /\ z.xfer_length = y.xfer_length
    BY <2>1, <2>3 DEF Request
  <2> HIDE DEF z
  <2> QED
    BY <2>2, <2>3, <2>4
<1> HIDE DEF x
<1>9. x \in Controller
  BY <1>6, <1>7 DEF Controller
<1>10. UnderWay(q, call[p], <<>>, x)
  <2>1. /\ q.xfer_length \in 1 .. m.len /\ q.xfer_length - 1 = 0
        /\ q.xfer_msgnum + 1 = 1
    BY <1>3, <1>8
  <2>2. m.rd => x.noack = (m.len = 1 \/ (q.xfer_length = m.len /\ ~m.nostart))
    BY <1>3, <1>7, <1>8
  <2>3. Sent(<<>>, call[p], 0, 0)
    BY <1>2, SentNone
  <2>4. m.len > 1 => q.xfer_length # m.len
    BY <1>3, <1>8
  <2> QED
    BY <1>2, <1>6, <1>7, <1>8, <2>1, <2>2, <2>3, <2>4 DEF UnderWay, m
<1> QED
  BY <1>5, <1>7, <1>8, <1>9, <1>10 DEF x

LEMMA SendRequestInv ==
  ASSUME IInv, SafeUse, NEW p \in Procs, i2c_send_request(p)
  PROVE  IInv'
<1>1. /\ pc[p] = "queue" /\ stuck = "no" /\ Enqueue(p)
      /\ pc' = [pc EXCEPT ![p] = IF p \in Clients THEN "out" ELSE "wait"]
      /\ UNCHANGED <<isr_int_pending, call, tries, ret, moved, refused>>
  BY DEF i2c_send_request
<1>2. call[p] \in MsgLists /\ isr_nack \in BOOLEAN /\ hw \in Controller
  BY <1>1 DEF IInv, CallOK, TypeOK
<1>3. isr_nack = FALSE
  <2>1. CASE BlockingOnly
    BY <1>1, <1>2, <2>1 DEF BlockingOnly, Procs, IInv, TaskOK
  <2>2. CASE ClientsServed
    BY <1>2, <2>2 DEF ClientsServed, IInv
  <2> QED
    BY <2>1, <2>2 DEF SafeUse
<1> DEFINE r == NewRequest(p)
           q == [r EXCEPT !.xfer_length = 1,
                          !.restart = ~Pmsg(r).rd /\ Pmsg(r).nostart]
<1>4. CASE fifo # <<>>
  <2>1. /\ fifo' = Append(fifo, r) /\ hw' = hw /\ isr_nack' = FALSE /\ stuck' = "no"
    BY <1>1, <1>3, <1>4 DEF Enqueue
  <2>2. r \in Request /\ r.who = p /\ r.non_block = (p \in Clients)
    BY DEF NewRequest, Request
  <2>3. hw'.bus = "busy" /\ hw' \in Controller
    BY <1>2, <1>4, <2>1 DEF IInv
  <2> HIDE DEF r
  <2> QED
    BY <1>1, <1>3, <1>4, <2>1, <2>2, <2>3, JoinedInv DEF r
<1>5. CASE fifo = <<>>
  <2>1. hw.bus = "ready" /\ ~Spins(hw.bus)
    BY <1>5 DEF IInv, Spins
  <2>2. /\ q \in Request /\ q.who = p /\ q.non_block = (p \in Clients)
        /\ ~Refused(r)
        /\ StartFirst(r) \in Controller /\ StartFirst(r).bus = "busy"
        /\ UnderWay(q, call[p], <<>>, StartFirst(r))
    BY <1>2, StartedFirst
  <2>3. /\ fifo' = <<q>> /\ isr_nack' = FALSE /\ stuck' = "no"
        /\ hw' = IF Refused(r) THEN hw ELSE StartFirst(r)
    BY <1>1, <1>3, <1>5, <2>1 DEF Enqueue
  <2> HIDE DEF q, r
  <2>4. hw' = StartFirst(r)
    BY <2>2, <2>3
  <2>5. fifo' = Append(fifo, q)
    BY <1>5, <2>3
  <2> QED
    BY <1>1, <1>3, <1>5, <2>2, <2>3, <2>4, <2>5, JoinedInv
<1> QED
  BY <1>4, <1>5


(* A step of the task that owns the adapter, with no request of its own in *)
(* the queue: it concerns nobody else.                                     *)
LEMMA OwnerStep ==
  ASSUME IInv, NEW t \in Tasks, pc[t] # "idle", ~Queued(t),
         TypeOK', TaskOK(t)', CallOK(t)', ~AddrNack => ~isr_nack',
         \A u \in Procs \ {t} : pc'[u] = pc[u] /\ ret'[u] = ret[u] /\ moved'[u] = moved[u],
         UNCHANGED <<fifo, hw, call, refused, stuck>>
  PROVE  IInv'
<1>1. t \in Procs /\ t \notin Clients /\ FifoOK
  BY I2cAssumption DEF Procs, IInv
<1>2. \A k \in 1 .. Len(fifo) : fifo[k].who \in Procs \ {t}
  BY Owners DEF Queued
<1>3. FifoOK'
  <2>1. \A k \in 1 .. Len(fifo) :
          /\ fifo[k].non_block = (fifo[k].who \in Clients)
          /\ pc'[fifo[k].who] = IF fifo[k].who \in Clients THEN "out" ELSE "wait"
    BY <1>1, <1>2 DEF FifoOK
  <2>2. ASSUME NEW k \in 2 .. Len(fifo)
        PROVE  fifo[k] = NewRequest(fifo[k].who) /\ moved'[fifo[k].who] = <<>>
    <3>1. k \in 1 .. Len(fifo)
      OBVIOUS
    <3> QED
      BY <1>1, <1>2, <3>1 DEF FifoOK
  <2>3. ASSUME fifo # <<>>
        PROVE  UnderWay(fifo[1], call[fifo[1].who], moved'[fifo[1].who], hw)
    <3>1. fifo \in Seq(Request)
      BY DEF IInv, TypeOK
    <3>2. 1 \in 1 .. Len(fifo)
      BY <2>3, <3>1
    <3>3. moved'[fifo[1].who] = moved[fifo[1].who]
      BY <1>2, <3>2
    <3> QED
      BY <1>1, <2>3, <3>3 DEF FifoOK
  <2> QED
    BY <1>1, <2>1, <2>2, <2>3 DEF FifoOK, NewRequest
<1>4. \A u : Queued(u)' <=> Queued(u)
  BY DEF Queued
<1>5. ASSUME NEW u \in Procs PROVE CallOK(u)'
  <2>1. CASE u # t
    <3>1. moved'[u] = moved[u] /\ call'[u] = call[u]
      BY <2>1
    <3>2. Whole(u)' <=> Whole(u)
      BY <3>1 DEF Whole
    <3> QED
      BY <2>1, <3>2 DEF IInv, CallOK
  <2> QED
    BY <2>1
<1>6. ASSUME NEW c \in Clients PROVE ClientOK(c)'
  <2>1. c \in Procs \ {t}
    BY <1>1 DEF Procs
  <2> QED
    BY <1>4, <2>1 DEF IInv, ClientOK
<1>7. ASSUME NEW u \in Tasks PROVE TaskOK(u)'
  <2>1. CASE u # t
    <3>1. pc[u] = "idle" /\ TaskOK(u) /\ u \in Procs \ {t}
      BY <2>1 DEF IInv, Procs
    <3> QED
      BY <3>1 DEF TaskOK
  <2> QED
    BY <2>1
<1>8. \A u, v \in Tasks : pc'[u] # "idle" /\ pc'[v] # "idle" => u = v
  BY DEF IInv, Procs
<1> QED
  BY <1>3, <1>5, <1>6, <1>7, <1>8 DEF IInv

LEMMA WaitEventInv ==
  ASSUME IInv, NEW t \in Tasks, WaitEvent(t)
  PROVE  IInv'
<1>1. /\ pc[t] = "wait" /\ isr_int_pending
      /\ pc' = [pc EXCEPT ![t] = "woken"]
      /\ UNCHANGED <<fifo, isr_nack, isr_int_pending, hw, call, tries, ret, moved,
                     refused, stuck>>
  BY DEF WaitEvent
<1>2. TypeOK /\ t \in Procs /\ TaskOK(t) /\ CallOK(t)
  BY DEF IInv, Procs
<1>3. ~Queued(t) /\ (Queued(t)' <=> Queued(t)) /\ (Whole(t)' <=> Whole(t))
  BY <1>1, <1>2 DEF TaskOK, Queued, Whole
<1>4. pc'[t] = "woken" /\ \A u \in Procs \ {t} : pc'[u] = pc[u]
  BY <1>1, <1>2 DEF TypeOK
<1>5. TypeOK'
  BY <1>1, <1>2 DEF TypeOK
<1>6. TaskOK(t)'
  BY <1>1, <1>2, <1>3, <1>4 DEF TaskOK, Refusals
<1>7. CallOK(t)'
  BY <1>1, <1>2, <1>3, <1>4 DEF CallOK
<1> QED
  BY <1>1, <1>3, <1>4, <1>5, <1>6, <1>7, OwnerStep DEF IInv

(* The outcome of an attempt: a NACK the slave gave to it, or a transfer   *)
(* that is whole.                                                          *)
LEMMA ResultInv ==
  ASSUME IInv, NEW t \in Tasks, Result(t)
  PROVE  IInv'
<1>1. /\ pc[t] = "woken"
      /\ UNCHANGED <<fifo, isr_nack, isr_int_pending, hw, call, moved, refused, stuck>>
  BY DEF Result
<1>2. /\ TypeOK /\ t \in Procs /\ TaskOK(t) /\ CallOK(t)
      /\ isr_nack \in BOOLEAN /\ isr_int_pending /\ ret[t] = "none"
      /\ tries \in 0 .. Retries /\ Retries \in Nat
  BY <1>1, I2cAssumption DEF IInv, Procs, TypeOK, TaskOK, CallOK
<1>3. ~Queued(t)
  <2>1. \A k \in 1 .. Len(fifo) : fifo[k].who # t
    BY <1>1 DEF IInv, FifoOK
  <2> QED
    BY <2>1 DEF Queued
<1>4. (Queued(t)' <=> Queued(t)) /\ (Whole(t)' <=> Whole(t))
  BY <1>1 DEF Queued, Whole
<1>5. CASE ~isr_nack
  <2>1. ret' = [ret EXCEPT ![t] = "ok"] /\ pc' = [pc EXCEPT ![t] = "idle"] /\ tries' = tries
    BY <1>5 DEF Result
  <2>2. /\ ret'[t] = "ok" /\ pc'[t] = "idle" /\ TypeOK'
        /\ \A u \in Procs \ {t} : pc'[u] = pc[u] /\ ret'[u] = ret[u]
    BY <1>1, <1>2, <2>1 DEF TypeOK
  <2>3. Whole(t)
    BY <1>1, <1>2, <1>5 DEF TaskOK
  <2>4. TaskOK(t)'
    BY <2>2 DEF TaskOK
  <2>5. CallOK(t)'
    BY <1>4, <2>2, <2>3 DEF CallOK
  <2> QED
    BY <1>1, <1>3, <2>2, <2>4, <2>5, OwnerStep DEF IInv
<1>6. CASE isr_nack /\ NoMoreTries
  <2>1. ret' = [ret EXCEPT ![t] = "EIO"] /\ pc' = [pc EXCEPT ![t] = "idle"] /\ tries' = tries
    BY <1>6 DEF Result
  <2>2. /\ ret'[t] = "EIO" /\ pc'[t] = "idle" /\ TypeOK'
        /\ \A u \in Procs \ {t} : pc'[u] = pc[u] /\ ret'[u] = ret[u]
    BY <1>1, <1>2, <2>1 DEF TypeOK
  <2>3. refused[t] = Retries + 1
    BY <1>1, <1>2, <1>6 DEF TaskOK, Refusals, NoMoreTries
  <2>4. TaskOK(t)'
    BY <1>1, <2>2, <2>3 DEF TaskOK
  <2>5. CallOK(t)'
    BY <2>2 DEF CallOK
  <2> QED
    BY <1>1, <1>3, <2>2, <2>4, <2>5, OwnerStep DEF IInv
<1>7. CASE isr_nack /\ ~NoMoreTries
  <2>1. tries' = tries - 1 /\ pc' = [pc EXCEPT ![t] = "retry"] /\ ret' = ret
    BY <1>7 DEF Result
  <2>2. tries' \in 0 .. Retries
    BY <1>2, <1>7, <2>1 DEF NoMoreTries
  <2>3. /\ pc'[t] = "retry" /\ TypeOK'
        /\ \A u \in Procs \ {t} : pc'[u] = pc[u] /\ ret'[u] = ret[u]
    BY <1>1, <1>2, <2>1, <2>2 DEF TypeOK
  <2>4. refused[t] = Retries - tries'
    BY <1>1, <1>2, <1>7, <2>1 DEF TaskOK, Refusals
  <2>5. TaskOK(t)'
    BY <1>1, <1>2, <2>1, <2>3, <2>4 DEF TaskOK, Refusals
  <2>6. CallOK(t)'
    BY <1>1, <1>2, <2>1, <2>3 DEF CallOK
  <2> QED
    BY <1>1, <1>3, <2>1, <2>3, <2>5, <2>6, OwnerStep DEF IInv
<1> QED
  BY <1>2, <1>5, <1>6, <1>7

(* A new attempt starts with its flags and its bytes cleared.              *)
LEMMA RetryInv ==
  ASSUME IInv, NEW t \in Tasks, Retry(t)
  PROVE  IInv'
<1>1. /\ pc[t] = "retry" /\ t \notin Clients
      /\ pc' = [pc EXCEPT ![t] = "queue"]
      /\ moved' = [moved EXCEPT ![t] = <<>>]
      /\ isr_nack' = FALSE /\ isr_int_pending' = FALSE
      /\ UNCHANGED <<fifo, hw, call, tries, ret, refused, stuck>>
  BY I2cAssumption DEF Retry, ClearFlags
<1>2. TypeOK /\ t \in Procs /\ TaskOK(t) /\ CallOK(t)
  BY DEF IInv, Procs
<1>3. ~Queued(t)
  <2>1. \A k \in 1 .. Len(fifo) : fifo[k].who # t
    BY <1>1 DEF IInv, FifoOK
  <2> QED
    BY <2>1 DEF Queued
<1>4. /\ pc'[t] = "queue" /\ moved'[t] = <<>> /\ TypeOK'
      /\ \A u \in Procs \ {t} : pc'[u] = pc[u] /\ moved'[u] = moved[u]
  <2>1. /\ pc' \in [Procs -> {"idle", "queue", "wait", "woken", "retry", "out"}]
        /\ moved' \in [Procs -> Seq({None} \cup (Nat \X Nat))]
        /\ pc'[t] = "queue" /\ moved'[t] = <<>>
        /\ \A u \in Procs \ {t} : pc'[u] = pc[u] /\ moved'[u] = moved[u]
    BY <1>1, <1>2 DEF TypeOK
  <2> QED
    BY <1>1, <1>2, <2>1 DEF TypeOK
<1>5. ret[t] = "none" /\ call[t] \in MsgLists
  BY <1>1, <1>2 DEF CallOK
<1>6. TaskOK(t)'
  BY <1>1, <1>2, <1>4, <1>5 DEF TaskOK, Refusals
<1>7. CallOK(t)'
  BY <1>1, <1>4, <1>5 DEF CallOK
<1> QED
  BY <1>1, <1>3, <1>4, <1>6, <1>7, OwnerStep


-----------------------------------------------------------------------------
(* The theorems                                                            *)

LEMMA InitInv ==
  ASSUME Init
  PROVE  IInv
<1>1. /\ fifo \in Seq(Request) /\ Len(fifo) = 0
      /\ hw \in Controller /\ hw.bus = "ready"
      /\ tries \in 0 .. Retries
      /\ \A p \in Procs : moved[p] \in Seq({None} \cup (Nat \X Nat))
  BY I2cAssumption DEF Init, Controller
<1>2. TypeOK
  BY <1>1 DEF Init, TypeOK
<1>3. FifoOK
  BY <1>1 DEF Init, FifoOK
<1>4. \A p \in Procs : pc[p] = "idle" /\ ret[p] = "none"
  BY DEF Init
<1>5. \A p \in Procs : CallOK(p)
  BY <1>4 DEF CallOK
<1>6. \A c \in Clients : ClientOK(c)
  BY <1>4 DEF ClientOK, Procs
<1>7. \A t \in Tasks : TaskOK(t)
  BY <1>4 DEF TaskOK, Procs
<1> QED
  BY <1>1, <1>2, <1>3, <1>4, <1>5, <1>6, <1>7 DEF Init, IInv, Procs

LEMMA StepInv ==
  ASSUME IInv, SafeUse, [Next]_vars
  PROVE  IInv'
<1>1. ASSUME NEW t \in Tasks, NEW s \in MsgLists, i2c_transfer(t, s)
      PROVE  IInv'
  <2>1. t \in Procs /\ t \notin Clients /\ pc[t] = "idle"
    BY <1>1, I2cAssumption DEF i2c_transfer, Procs
  <2> QED
    BY <1>1, <2>1, NewCallInv DEF i2c_transfer
<1>2. ASSUME NEW c \in Clients, NEW s \in MsgLists, wmt_i2c_transfer(c, s)
      PROVE  IInv'
  <2>1. c \in Procs /\ c \notin Tasks
    BY I2cAssumption DEF Procs
  <2> QED
    BY <1>2, <2>1, NewCallInv DEF wmt_i2c_transfer
<1>3. ASSUME NEW t \in Tasks, TaskStep(t)
      PROVE  IInv'
  <2>1. t \in Procs
    BY DEF Procs
  <2> QED
    BY <1>3, <2>1, SendRequestInv, WaitEventInv, ResultInv, RetryInv DEF TaskStep
<1>4. ASSUME NEW c \in Clients, i2c_send_request(c)
      PROVE  IInv'
  <2>1. c \in Procs
    BY DEF Procs
  <2> QED
    BY <1>4, <2>1, SendRequestInv
<1>5. CASE NackIrq
  BY <1>5, NackIrqInv
<1>6. CASE ByteIrq
  BY <1>6, ReadDataInv, ReadNextMsgInv, ReadDoneInv, WriteDataInv,
     WriteNextMsgInv, WriteDoneInv DEF ByteIrq
<1>7. CASE UNCHANGED vars
  <2>1. \A p : (Queued(p)' <=> Queued(p)) /\ (Whole(p)' <=> Whole(p))
    BY <1>7 DEF vars, Queued, Whole
  <2>2. TypeOK' /\ FifoOK'
    BY <1>7 DEF vars, IInv, TypeOK, FifoOK, NewRequest
  <2>3. ASSUME NEW p \in Procs PROVE CallOK(p)'
    BY <1>7, <2>1 DEF vars, IInv, CallOK
  <2>4. ASSUME NEW c \in Clients PROVE ClientOK(c)'
    BY <1>7, <2>1 DEF vars, IInv, ClientOK
  <2>5. ASSUME NEW t \in Tasks PROVE TaskOK(t)'
    BY <1>7, <2>1 DEF vars, IInv, TaskOK, Refusals
  <2> QED
    BY <1>7, <2>2, <2>3, <2>4, <2>5 DEF vars, IInv
<1> QED
  BY <1>1, <1>2, <1>3, <1>4, <1>5, <1>6, <1>7 DEF Next, Halted

(* In both safe uses of a bus the invariant holds in every state.          *)
THEOREM Invariant ==
  ASSUME SafeUse
  PROVE  Spec => []IInv
<1>1. Init => IInv
  BY InitInv
<1>2. IInv /\ [Next]_vars => IInv'
  BY StepInv
<1> QED
  BY <1>1, <1>2, PTL DEF Spec

(* Queue, flags, controller and counters keep their types.                 *)
THEOREM TypeCorrect ==
  ASSUME SafeUse
  PROVE  Spec => []TypeOK
<1>1. IInv => TypeOK
  BY DEF IInv
<1> QED
  BY <1>1, Invariant, PTL

(* In the safe uses, i2c_transfer returns the number of messages, and      *)
(* wmt_i2c_transfer calls back, only when i2c_wmt_handler has moved every  *)
(* byte once, in order.  (SafeUse leaves out messages without bytes and,   *)
(* with clients, refusals and requests queued behind a list that ends with *)
(* a write: such a request loses its first message.)                       *)
THEOREM ReportedMeansWhole ==
  ASSUME SafeUse
  PROVE  Spec => []TransferComplete
<1>1. IInv => TransferComplete
  BY DEF IInv, CallOK, TransferComplete
<1> QED
  BY <1>1, Invariant, PTL

(* wmt_i2c_xfer fails only after Retries + 1 attempts, each refused by a   *)
(* slave of its own.                                                       *)
THEOREM FailureWasRefused ==
  ASSUME SafeUse
  PROVE  Spec => []FailureIsRefusal
<1>1. IInv => FailureIsRefusal
  BY DEF IInv, TaskOK, FailureIsRefusal
<1> QED
  BY <1>1, Invariant, PTL

(* The queue never points to the messages of a caller that has gone.       *)
THEOREM QueueHoldsLiveCalls ==
  ASSUME SafeUse
  PROVE  Spec => []MsgsNotInUse
<1>1. IInv => MsgsNotInUse
  <2> SUFFICES ASSUME IInv, NEW p \in Procs, pc[p] = "idle", Queued(p)
               PROVE  FALSE
    BY DEF MsgsNotInUse
  <2>1. PICK k \in 1 .. Len(fifo) : fifo[k].who = p
    BY DEF Queued
  <2> QED
    BY <2>1 DEF IInv, FifoOK
<1> QED
  BY <1>1, Invariant, PTL

(* A task in wait_event is still queued or has been woken.                 *)
THEOREM WakeupNotLost ==
  ASSUME SafeUse
  PROVE  Spec => []NoLostWakeup
<1>1. IInv => NoLostWakeup
  BY DEF IInv, TaskOK, NoLostWakeup
<1> QED
  BY <1>1, Invariant, PTL

(* In the safe uses, whenever the queue is not empty an interrupt for its  *)
(* head is due.  (With several requests queued SafeUse has no refusals:    *)
(* the handler unlinks a refused request without starting the next one.)   *)
THEOREM HeadIsServed ==
  ASSUME SafeUse
  PROVE  Spec => []QueueRuns
<1>1. IInv => QueueRuns
  BY DEF IInv, QueueRuns
<1> QED
  BY <1>1, Invariant, PTL

(* i2c_wmt_handler stays inside the message list and all buffers, for      *)
(* lists whose messages all have bytes: the exception that InBounds makes  *)
(* for the write of none, which i2c_wmt_write_buf allows, is the only one. *)
THEOREM HandlerInBounds ==
  ASSUME SafeUse
  PROVE  Spec => [](InBounds /\ stuck # "wild")
<1>1. IInv => InBounds /\ stuck # "wild"
  BY DEF IInv, InBounds
<1> QED
  BY <1>1, Invariant, PTL

(* i2c_wmt_wait_bus_not_busy always finds the bus ready.                   *)
THEOREM NeverSpins ==
  ASSUME SafeUse
  PROVE  Spec => []NoSpin
<1>1. IInv => NoSpin
  BY DEF IInv, NoSpin
<1> QED
  BY <1>1, Invariant, PTL


-----------------------------------------------------------------------------
(* The service                                                             *)

(* The bytes of the sender's attempt that have been moved.                 *)
Got(p) == {moved[p][k] : k \in 1 .. Len(moved[p])}

(* The senders in the queue, in order.                                     *)
Line(q) == [k \in 1 .. Len(q) |-> q[k].who]

(* An attempt that ended with a NACK has bytes left, and it was not the    *)
(* last one if there is to be another.                                     *)
Cut(t) ==
  /\ pc[t] \in {"wait", "woken"} /\ isr_nack => Got(t) # Bytes(call[t])
  /\ pc[t] = "retry" => Got(t) # Bytes(call[t]) /\ tries < Retries

CutInv == \A t \in Tasks : Cut(t)

(* The lines of a queue that has lost its head, has got another head of    *)
(* the same sender, or a new last request.                                 *)
LEMMA LineFacts ==
  ASSUME NEW q \in Seq(Request)
  PROVE  /\ Line(q) \in Seq(Procs)
         /\ Len(Line(q)) = Len(q)
         /\ \A k \in 1 .. Len(q) : Line(q)[k] = q[k].who
<1>1. \A k \in 1 .. Len(q) : q[k].who \in Procs
  <2> SUFFICES ASSUME NEW k \in 1 .. Len(q)
               PROVE  q[k].who \in Procs
    OBVIOUS
  <2>1. q[k] \in Request
    OBVIOUS
  <2> QED
    BY <2>1 DEF Request
<1>2. Len(q) \in Nat
  OBVIOUS
<1> QED
  BY <1>1, <1>2 DEF Line

LEMMA LineTail ==
  ASSUME NEW q \in Seq(Request), q # <<>>
  PROVE  /\ Line(q) # <<>> /\ Head(Line(q)) = Head(q).who
         /\ Line(Tail(q)) = Tail(Line(q))
<1>1. /\ Tail(q) \in Seq(Request) /\ Len(Tail(q)) = Len(q) - 1
      /\ \A k \in 1 .. Len(q) - 1 : Tail(q)[k] = q[k + 1]
      /\ Len(q) \in Nat \ {0} /\ Head(q) = q[1]
  OBVIOUS
<1> DEFINE x == Line(q)
           y == Line(Tail(q))
<1>2. /\ x \in Seq(Procs) /\ Len(x) = Len(q)
      /\ \A k \in 1 .. Len(q) : x[k] = q[k].who
  BY LineFacts
<1>3. /\ y \in Seq(Procs) /\ Len(y) = Len(q) - 1
      /\ \A k \in 1 .. Len(q) - 1 : y[k] = Tail(q)[k].who
  BY <1>1, LineFacts
<1> HIDE DEF x, y
<1>4. x # <<>> /\ Head(x) = Head(q).who
  BY <1>1, <1>2
<1>5. \A k \in 1 .. Len(q) - 1 : y[k] = x[k + 1]
  BY <1>1, <1>2, <1>3
<1>6. y = Tail(x)
  BY <1>1, <1>2, <1>3, <1>4, <1>5
<1> QED
  BY <1>4, <1>6 DEF x, y

LEMMA LineAppend ==
  ASSUME NEW q \in Seq(Request), NEW r \in Request
  PROVE  Line(Append(q, r)) = Append(Line(q), r.who)
<1> DEFINE z == Append(q, r)
           x == Line(q)
           y == Line(z)
<1>1. /\ z \in Seq(Request) /\ Len(z) = Len(q) + 1 /\ z[Len(q) + 1] = r
      /\ \A k \in 1 .. Len(q) : z[k] = q[k]
      /\ Len(q) \in Nat
  OBVIOUS
<1>2. r.who \in Procs
  BY DEF Request
<1> HIDE DEF z
<1>3. /\ x \in Seq(Procs) /\ Len(x) = Len(q)
      /\ \A k \in 1 .. Len(q) : x[k] = q[k].who
  BY LineFacts
<1>4. /\ y \in Seq(Procs) /\ Len(y) = Len(q) + 1
      /\ \A k \in 1 .. Len(q) + 1 : y[k] = z[k].who
  BY <1>1, LineFacts
<1> HIDE DEF x, y
<1>5. y[Len(q) + 1] = r.who /\ \A k \in 1 .. Len(q) : y[k] = x[k]
  BY <1>1, <1>3, <1>4
<1>6. y = Append(x, r.who)
  BY <1>1, <1>2, <1>3, <1>4, <1>5
<1> QED
  BY <1>6 DEF x, y, z

(* The byte of an interrupt is the first one that has not been moved.      *)
LEMMA NextByte ==
  ASSUME IInv, SafeUse, fifo # <<>>,
         NEW b, b = <<r0.xfer_msgnum, r0.xfer_length - 1>>
  PROVE  /\ b \in Bytes(call[r0.who])
         /\ Got(r0.who) = {c \in Bytes(call[r0.who]) : Before(c, b)}
         /\ Got(r0.who) # Bytes(call[r0.who])
<1> DEFINE s == call[r0.who]
           n == r0.xfer_msgnum
           i == r0.xfer_length - 1
           mv == moved[r0.who]
<1>1. /\ s \in Seq(Msg) /\ mv \in Seq(Byte)
      /\ n \in Nat /\ n < Len(s)
      /\ i \in Nat /\ i < s[n + 1].len
      /\ Sent(mv, s, n, i)
  BY MsgFacts
<1> HIDE DEF s, n, i, mv
<1>2. <<n, i>> \in Bytes(s)
  BY <1>1, ByteOfList
<1>3. ~Before(<<n, i>>, <<n, i>>)
  BY <1>1 DEF Before
<1>4. {mv[k] : k \in 1 .. Len(mv)} = {c \in Bytes(s) : Before(c, <<n, i>>)}
  BY <1>1 DEF Sent
<1> QED
  BY <1>2, <1>3, <1>4 DEF s, n, i, mv, Got

(* An interrupt in the middle of a request: its sender stays at the head   *)
(* of the line, with bytes to come.                                        *)
HeadStays ==
  LET b == <<r0.xfer_msgnum, r0.xfer_length - 1>>
  IN  /\ fifo # <<>>
      /\ moved' = [moved EXCEPT ![r0.who] = Append(moved[r0.who], b)]
      /\ Line(fifo') = Line(fifo)
      /\ isr_nack' = FALSE
      /\ \E c \in Bytes(call[r0.who]) : ~(c = b \/ Before(c, b))
      /\ UNCHANGED <<pc, call, tries, ret, refused>>

(* The interrupt that ends a request.                                      *)
HeadLeaves ==
  LET b == <<r0.xfer_msgnum, r0.xfer_length - 1>>
  IN  /\ fifo # <<>>
      /\ moved' = [moved EXCEPT ![r0.who] = Append(moved[r0.who], b)]
      /\ Line(fifo') = Tail(Line(fifo))
      /\ isr_nack' = FALSE
      /\ \A c \in Bytes(call[r0.who]) : c = b \/ Before(c, b)
      /\ Complete(r0)
      /\ UNCHANGED <<call, tries, refused>>

(* The byte a write interrupt reports is the one that was put in the       *)
(* register.                                                               *)
LEMMA WrittenByte ==
  ASSUME IInv, SafeUse, WriteIrq
  PROVE  hw.cdr = <<r0.xfer_msgnum, r0.xfer_length - 1>>
<1>1. fifo # <<>> /\ ~Pmsg(r0).rd
  BY IrqFacts DEF WriteIrq
<1>2. Pmsg(r0) = call[r0.who][r0.xfer_msgnum + 1]
  BY <1>1, MsgFacts
<1>3. UnderWay(r0, call[r0.who], moved[r0.who], hw)
  BY <1>1, HeadFacts
<1> QED
  BY <1>1, <1>2, <1>3 DEF UnderWay

(* Another byte of the message, or another message, follows.               *)
LEMMA MoreInMsg ==
  ASSUME IInv, SafeUse, fifo # <<>>, r0.xfer_length # Pmsg(r0).len
  PROVE  \E c \in Bytes(call[r0.who]) :
           LET b == <<r0.xfer_msgnum, r0.xfer_length - 1>>
           IN  ~(c = b \/ Before(c, b))
<1> DEFINE n == r0.xfer_msgnum
           l == r0.xfer_length
           s == call[r0.who]
<1>1. /\ s \in Seq(Msg) /\ n \in Nat /\ n < Len(s)
      /\ l \in Nat \ {0} /\ l < s[n + 1].len
  BY MsgFacts
<1> HIDE DEF n, l, s
<1>2. <<n, l>> \in Bytes(s)
  BY <1>1, ByteOfList
<1>3. ~(<<n, l>> = <<n, l - 1>> \/ Before(<<n, l>>, <<n, l - 1>>))
  BY <1>1 DEF Before
<1> QED
  BY <1>2, <1>3 DEF n, l, s

LEMMA MoreMsgs ==
  ASSUME IInv, SafeUse, fifo # <<>>, ~LastMsg(r0)
  PROVE  \E c \in Bytes(call[r0.who]) :
           LET b == <<r0.xfer_msgnum, r0.xfer_length - 1>>
           IN  ~(c = b \/ Before(c, b))
<1> DEFINE n == r0.xfer_msgnum
           l == r0.xfer_length
           s == call[r0.who]
<1>1. /\ s \in MsgLists /\ s \in Seq(Msg) /\ Len(s) \in Nat
      /\ n \in Nat /\ n + 1 < Len(s) /\ l \in Nat \ {0}
  BY MsgFacts DEF LastMsg
<1> HIDE DEF n, l, s
<1>2. n + 1 \in Nat /\ n + 2 \in 1 .. Len(s) /\ (n + 1) + 1 = n + 2
  BY <1>1
<1>3. s[n + 2].len > 0
  BY <1>1, <1>2 DEF SafeUse, WellFormed
<1>4. <<n + 1, 0>> \in Bytes(s)
  BY <1>1, <1>2, <1>3, ByteOfList
<1>5. ~(<<n + 1, 0>> = <<n, l - 1>> \/ Before(<<n + 1, 0>>, <<n, l - 1>>))
  BY <1>1 DEF Before
<1> QED
  BY <1>4, <1>5 DEF n, l, s

(* The last byte of the last message.                                      *)
LEMMA NoMoreBytes ==
  ASSUME IInv, SafeUse, fifo # <<>>, LastMsg(r0), r0.xfer_length = Pmsg(r0).len,
         NEW c \in Bytes(call[r0.who]),
         NEW b, b = <<r0.xfer_msgnum, r0.xfer_length - 1>>
  PROVE  c = b \/ Before(c, b)
<1> DEFINE n == r0.xfer_msgnum
           l == r0.xfer_length
           s == call[r0.who]
<1>1. /\ s \in Seq(Msg) /\ Len(s) \in Nat /\ c \in Bytes(s)
      /\ n \in Nat /\ n + 1 = Len(s) /\ l \in Nat \ {0} /\ l = s[n + 1].len
      /\ b = <<n, l - 1>>
  BY MsgFacts DEF LastMsg
<1> HIDE DEF n, l, s
<1>2. PICK m \in 1 .. Len(s), i \in Nat : i < s[m].len /\ c = <<m - 1, i>>
  BY <1>1, BytesElements
<1>3. s[m].len \in Nat
  BY <1>1, MsgLength
<1>4. CASE m = Len(s)
  BY <1>1, <1>2, <1>3, <1>4 DEF Before
<1>5. CASE m < Len(s)
  BY <1>1, <1>2, <1>3, <1>5 DEF Before
<1> QED
  BY <1>1, <1>4, <1>5

(* A request that goes on, in whatever message, keeps its sender's place.  *)
LEMMA SamePlace ==
  ASSUME NEW q \in Seq(Request), q # <<>>, NEW r, r.who = Head(q).who
  PROVE  Line(<<r>> \o Tail(q)) = Line(q)
<1> DEFINE S == Request \cup {r}
           z == <<r>> \o Tail(q)
<1>1. q \in Seq(S)
  <2>1. Len(q) \in Nat /\ q \in [1 .. Len(q) -> Request]
    OBVIOUS
  <2>2. q \in [1 .. Len(q) -> S]
    BY <2>1
  <2> HIDE DEF S
  <2> QED
    BY <2>1, <2>2
<1>2. /\ Len(z) = Len(q) /\ z[1] = r
      /\ \A k \in 2 .. Len(q) : z[k] = q[k]
  BY <1>1, NewHead
<1>3. Head(q) = q[1]
  OBVIOUS
<1> HIDE DEF z
<1>4. \A k \in 1 .. Len(q) : z[k].who = q[k].who
  BY <1>2, <1>3
<1> QED
  BY <1>2, <1>4 DEF Line, z

LEMMA LaunchStays ==
  ASSUME IInv, fifo # <<>>, stuck' = "no", NEW r, r.who = r0.who, NEW h,
         Launch(r, Tail(fifo), h)
  PROVE  Line(fifo') = Line(fifo) /\ isr_nack' = FALSE
<1> DEFINE q == [r EXCEPT !.xfer_length = 1]
<1>1. fifo' = <<q>> \o Tail(fifo) /\ isr_nack' = FALSE
  BY DEF Launch
<1>2. q.who = r0.who
  OBVIOUS
<1>3. fifo \in Seq(Request)
  BY DEF IInv, TypeOK
<1> HIDE DEF q
<1> QED
  BY <1>1, <1>2, <1>3, SamePlace DEF r0

LEMMA ReadDataStays ==
  ASSUME IInv, SafeUse, IInv', ReadData
  PROVE  HeadStays
<1>1. fifo # <<>> /\ fifo \in Seq(Request) /\ r0 \in Request
  BY IrqFacts, HeadFacts DEF ReadData, ReadIrq, IInv, TypeOK
<1> DEFINE more == [r0 EXCEPT !.xfer_length = @ + 1]
           r == IF r0.xfer_length = Pmsg(r0).len - 1
                THEN [more EXCEPT !.restart = Pmsg(r0).nostart] ELSE more
<1>2. /\ fifo' = <<r>> \o Tail(fifo)
      /\ moved' = [moved EXCEPT ![r0.who] =
                     Append(moved[r0.who], <<r0.xfer_msgnum, r0.xfer_length - 1>>)]
      /\ r0.xfer_length # Pmsg(r0).len
      /\ UNCHANGED <<isr_nack, pc, call, tries, ret, refused>>
  BY DEF ReadData, ReadIrq, Moved
<1>3. r.who = r0.who
  <2>1. more.who = r0.who /\ [more EXCEPT !.restart = Pmsg(r0).nostart].who = r0.who
    BY <1>1 DEF Request
  <2> QED
    BY <2>1
<1> HIDE DEF r
<1>4. Line(fifo') = Line(fifo)
  BY <1>1, <1>2, <1>3, SamePlace DEF r0
<1>5. isr_nack' = FALSE
  BY <1>1, <1>2, NoNackYet
<1> QED
  BY <1>1, <1>2, <1>4, <1>5, MoreInMsg DEF HeadStays

LEMMA WriteDataStays ==
  ASSUME IInv, SafeUse, IInv', WriteData
  PROVE  HeadStays
<1>1. fifo # <<>> /\ fifo \in Seq(Request) /\ r0 \in Request
  BY IrqFacts, HeadFacts DEF WriteData, WriteIrq, IInv, TypeOK
<1> DEFINE r == [r0 EXCEPT !.xfer_length = @ + 1]
<1>2. /\ fifo' = <<r>> \o Tail(fifo)
      /\ moved' = [moved EXCEPT ![r0.who] = Append(moved[r0.who], hw.cdr)]
      /\ r0.xfer_length # Pmsg(r0).len
      /\ UNCHANGED <<isr_nack, pc, call, tries, ret, refused>>
  BY DEF WriteData, WriteIrq, Moved
<1>3. r.who = r0.who
  BY <1>1 DEF Request
<1> HIDE DEF r
<1>4. Line(fifo') = Line(fifo)
  BY <1>1, <1>2, <1>3, SamePlace DEF r0
<1>5. isr_nack' = FALSE
  BY <1>1, <1>2, NoNackYet
<1>6. hw.cdr = <<r0.xfer_msgnum, r0.xfer_length - 1>>
  BY WrittenByte DEF WriteData
<1> QED
  BY <1>1, <1>2, <1>4, <1>5, <1>6, MoreInMsg DEF HeadStays

LEMMA ReadNextMsgStays ==
  ASSUME IInv, SafeUse, IInv', ReadNextMsg
  PROVE  HeadStays
<1>1. fifo # <<>> /\ r0 \in Request /\ stuck' = "no"
  BY IrqFacts, HeadFacts DEF ReadNextMsg, ReadIrq, IInv
<1> DEFINE r == [r0 EXCEPT !.xfer_msgnum = @ + 1]
<1>2. /\ Launch(r, Tail(fifo), AfterRead)
      /\ moved' = [moved EXCEPT ![r0.who] =
                     Append(moved[r0.who], <<r0.xfer_msgnum, r0.xfer_length - 1>>)]
      /\ ~LastMsg(r0)
      /\ UNCHANGED <<pc, call, tries, ret, refused>>
  BY DEF ReadNextMsg, ReadIrq, Moved
<1>3. r.who = r0.who
  BY <1>1 DEF Request
<1> HIDE DEF r
<1>4. Line(fifo') = Line(fifo) /\ isr_nack' = FALSE
  BY <1>1, <1>2, <1>3, LaunchStays
<1> QED
  BY <1>1, <1>2, <1>4, MoreMsgs DEF HeadStays

LEMMA WriteNextMsgStays ==
  ASSUME IInv, SafeUse, IInv', WriteNextMsg
  PROVE  HeadStays
<1>1. fifo # <<>> /\ r0 \in Request /\ stuck' = "no"
  BY IrqFacts, HeadFacts DEF WriteNextMsg, WriteIrq, IInv
<1> DEFINE r == [r0 EXCEPT !.xfer_msgnum = @ + 1, !.restart = Pmsg(r0).nostart]
           h == IF Pmsg(r0).nostart THEN [hw EXCEPT !.bus = "held"] ELSE Stopped
<1>2. /\ Launch(r, Tail(fifo), h)
      /\ moved' = [moved EXCEPT ![r0.who] = Append(moved[r0.who], hw.cdr)]
      /\ ~LastMsg(r0)
      /\ UNCHANGED <<pc, call, tries, ret, refused>>
  BY DEF WriteNextMsg, WriteIrq, Moved
<1>3. r.who = r0.who
  BY <1>1 DEF Request
<1> HIDE DEF r, h
<1>4. Line(fifo') = Line(fifo) /\ isr_nack' = FALSE
  BY <1>1, <1>2, <1>3, LaunchStays
<1>5. hw.cdr = <<r0.xfer_msgnum, r0.xfer_length - 1>>
  BY WrittenByte DEF WriteNextMsg
<1> QED
  BY <1>1, <1>2, <1>4, <1>5, MoreMsgs DEF HeadStays

(* The next request, if there is one, takes the place of the head.         *)
LEMMA DequeueLeaves ==
  ASSUME IInv, SafeUse, fifo # <<>>, stuck' = "no", NEW skip, NEW h, Dequeue(skip, h)
  PROVE  Line(fifo') = Tail(Line(fifo)) /\ isr_nack' = FALSE
<1>1. /\ fifo \in Seq(Request) /\ Tail(fifo) \in Seq(Request)
      /\ Line(Tail(fifo)) = Tail(Line(fifo))
  BY LineTail DEF IInv, TypeOK
<1>2. isr_nack = FALSE
  BY NoNackYet
<1>3. CASE Tail(fifo) = <<>>
  BY <1>1, <1>2, <1>3 DEF Dequeue
<1>4. CASE Tail(fifo) # <<>>
  <2> DEFINE r == [fifo[2] EXCEPT !.xfer_msgnum = @ + skip]
             q == [r EXCEPT !.xfer_length = 1]
  <2>1. Launch(r, Tail(Tail(fifo)), h)
    BY <1>4 DEF Dequeue
  <2>2. fifo[2] \in Request /\ Head(Tail(fifo)) = fifo[2]
    BY <1>1, <1>4
  <2>3. r.who = fifo[2].who /\ q.who = r.who
    BY <2>2 DEF Request
  <2>4. fifo' = <<q>> \o Tail(Tail(fifo)) /\ isr_nack' = FALSE
    BY <2>1 DEF Launch
  <2> HIDE DEF q, r
  <2>5. Line(fifo') = Line(Tail(fifo))
    BY <1>1, <1>4, <2>2, <2>3, <2>4, SamePlace
  <2> QED
    BY <1>1, <2>4, <2>5
<1> QED
  BY <1>3, <1>4

LEMMA ReadDoneLeaves ==
  ASSUME IInv, SafeUse, IInv', ReadDone
  PROVE  HeadLeaves
<1>1. fifo # <<>> /\ stuck' = "no"
  BY IrqFacts DEF ReadDone, ReadIrq, IInv
<1>2. /\ Dequeue(0, AfterRead) /\ Complete(r0)
      /\ moved' = [moved EXCEPT ![r0.who] =
                     Append(moved[r0.who], <<r0.xfer_msgnum, r0.xfer_length - 1>>)]
      /\ LastMsg(r0) /\ r0.xfer_length = Pmsg(r0).len
      /\ UNCHANGED <<call, tries, refused>>
  BY DEF ReadDone, ReadIrq, Moved
<1>3. Line(fifo') = Tail(Line(fifo)) /\ isr_nack' = FALSE
  BY <1>1, <1>2, DequeueLeaves
<1> QED
  BY <1>1, <1>2, <1>3, NoMoreBytes DEF HeadLeaves

LEMMA WriteDoneLeaves ==
  ASSUME IInv, SafeUse, IInv', WriteDone
  PROVE  HeadLeaves
<1>1. fifo # <<>> /\ stuck' = "no"
  BY IrqFacts DEF WriteDone, WriteIrq, IInv
<1>2. /\ Dequeue(1, Stopped) /\ Complete(r0)
      /\ moved' = [moved EXCEPT ![r0.who] = Append(moved[r0.who], hw.cdr)]
      /\ LastMsg(r0) /\ r0.xfer_length = Pmsg(r0).len
      /\ UNCHANGED <<call, tries, refused>>
  BY DEF WriteDone, WriteIrq, Moved
<1>3. Line(fifo') = Tail(Line(fifo)) /\ isr_nack' = FALSE
  BY <1>1, <1>2, DequeueLeaves
<1>4. hw.cdr = <<r0.xfer_msgnum, r0.xfer_length - 1>>
  BY WrittenByte DEF WriteDone
<1> QED
  BY <1>1, <1>2, <1>3, <1>4, NoMoreBytes DEF HeadLeaves

(* i2c_send_request puts the sender at the end of the line.                *)
LEMMA SendRequestJoins ==
  ASSUME IInv, SafeUse, IInv', NEW p \in Procs, i2c_send_request(p)
  PROVE  /\ pc[p] = "queue" /\ moved[p] = <<>> /\ ~Queued(p)
         /\ pc' = [pc EXCEPT ![p] = IF p \in Clients THEN "out" ELSE "wait"]
         /\ Line(fifo') = Append(Line(fifo), p)
         /\ isr_nack' => isr_nack
         /\ UNCHANGED <<call, tries, ret, moved, refused>>
<1>1. /\ pc[p] = "queue" /\ Enqueue(p) /\ stuck' = "no"
      /\ pc' = [pc EXCEPT ![p] = IF p \in Clients THEN "out" ELSE "wait"]
      /\ UNCHANGED <<call, tries, ret, moved, refused>>
  BY DEF i2c_send_request, IInv
<1>2. moved[p] = <<>>
  BY <1>1 DEF IInv, CallOK
<1>3. ~Queued(p)
  BY <1>1 DEF IInv, FifoOK, Queued
<1>4. fifo \in Seq(Request) /\ fifo' \in Seq(Request)
  BY DEF IInv, TypeOK
<1> DEFINE r == NewRequest(p)
           q == [r EXCEPT !.xfer_length = 1,
                          !.restart = ~Pmsg(r).rd /\ Pmsg(r).nostart]
<1>5. r \in Request /\ r.who = p /\ q.who = p
  BY DEF NewRequest, Request
<1>6. CASE fifo # <<>>
  <2>1. fifo' = Append(fifo, r) /\ isr_nack' = isr_nack
    BY <1>1, <1>6 DEF Enqueue
  <2> HIDE DEF r
  <2>2. Line(fifo') = Append(Line(fifo), p)
    BY <1>4, <1>5, <2>1, LineAppend
  <2> QED
    BY <1>1, <1>2, <1>3, <2>1, <2>2
<1>7. CASE fifo = <<>>
  <2>1. fifo' = <<q>> /\ (isr_nack' => isr_nack)
    BY <1>1, <1>7 DEF Enqueue
  <2> HIDE DEF q, r
  <2>2. fifo' = Append(fifo, q)
    BY <1>7, <2>1
  <2>3. q \in Request
    <3>1. fifo'[1] = q /\ 1 \in 1 .. Len(fifo')
      BY <2>1
    <3>2. \A k \in 1 .. Len(fifo') : fifo'[k] \in Request
      BY <1>4
    <3> QED
      BY <3>1, <3>2
  <2>4. Line(fifo') = Append(Line(fifo), p)
    BY <1>4, <1>5, <2>2, <2>3, LineAppend
  <2> QED
    BY <1>1, <1>2, <1>3, <2>1, <2>4
<1> QED
  BY <1>6, <1>7

(* A refused address: the only request there is leaves the line, with a    *)
(* byte to come.                                                           *)
LEMMA NackLeaves ==
  ASSUME IInv, SafeUse, NackIrq
  PROVE  /\ fifo # <<>> /\ Line(fifo') = Tail(Line(fifo))
         /\ r0.who \in Tasks /\ pc[r0.who] = "wait"
         /\ Got(r0.who) # Bytes(call[r0.who])
         /\ refused' = [refused EXCEPT ![r0.who] = @ + 1]
         /\ UNCHANGED <<pc, call, tries, ret, moved>>
<1>1. fifo # <<>> /\ AddrNack
  BY IrqFacts DEF NackIrq
<1>2. BlockingOnly
  BY <1>1 DEF SafeUse, ClientsServed
<1>3. r0.who \in Tasks /\ pc[r0.who] = "wait"
  BY <1>1, <1>2, HeadFacts DEF BlockingOnly, Procs
<1>4. Got(r0.who) # Bytes(call[r0.who])
  BY <1>1, NextByte
<1>5. fifo \in Seq(Request) /\ fifo' = Tail(fifo)
  BY DEF NackIrq, IInv, TypeOK
<1>6. Line(fifo') = Tail(Line(fifo))
  BY <1>1, <1>5, LineTail
<1> QED
  BY <1>1, <1>3, <1>4, <1>6 DEF NackIrq

(* A byte goes over the bus: nothing changes for a task that waits to try  *)
(* again.                                                                  *)
LEMMA ByteIrqEffect ==
  ASSUME IInv, SafeUse, IInv', ByteIrq
  PROVE  HeadStays \/ HeadLeaves
  BY ReadDataStays, WriteDataStays, ReadNextMsgStays, WriteNextMsgStays,
     ReadDoneLeaves, WriteDoneLeaves DEF ByteIrq

LEMMA ByteIrqCut ==
  ASSUME IInv, SafeUse, IInv', ByteIrq, CutInv
  PROVE  CutInv'
<1> SUFFICES ASSUME NEW t \in Tasks
             PROVE  Cut(t)'
  BY DEF CutInv
<1>1. HeadStays \/ HeadLeaves
  BY ByteIrqEffect
<1>2. fifo # <<>> /\ isr_nack' = FALSE /\ UNCHANGED <<call, tries>>
  BY <1>1 DEF HeadStays, HeadLeaves
<1>3. /\ r0.who \in Procs /\ r0.non_block = (r0.who \in Clients)
      /\ pc[r0.who] = IF r0.who \in Clients THEN "out" ELSE "wait"
  BY <1>2, HeadFacts
<1>4. /\ t \in Procs /\ t \notin Clients
      /\ pc \in [Procs -> {"idle", "queue", "wait", "woken", "retry", "out"}]
      /\ moved \in [Procs -> Seq(Byte)]
  BY I2cAssumption DEF Procs, IInv, TypeOK, Byte
<1>5. pc'[t] = pc[t]
  BY <1>1, <1>3, <1>4 DEF HeadStays, HeadLeaves, Complete
<1>6. CASE pc[t] = "retry"
  <2>1. t # r0.who
    BY <1>3, <1>6
  <2>2. moved'[t] = moved[t]
    BY <1>1, <1>4, <2>1 DEF HeadStays, HeadLeaves
  <2> QED
    BY <1>2, <1>5, <1>6, <2>2 DEF CutInv, Cut, Got
<1>7. CASE pc[t] # "retry"
  BY <1>2, <1>5, <1>7 DEF Cut
<1> QED
  BY <1>6, <1>7

LEMMA CutStep ==
  ASSUME IInv, SafeUse, IInv', [Next]_vars, CutInv
  PROVE  CutInv'
<1>1. /\ \A t \in Tasks : Cut(t) /\ TaskOK(t)
      /\ \A t, u \in Tasks : pc[t] # "idle" /\ pc[u] # "idle" => t = u
      /\ Tasks \cap Clients = {} /\ Tasks \subseteq Procs
      /\ pc \in [Procs -> {"idle", "queue", "wait", "woken", "retry", "out"}]
      /\ tries \in 0 .. Retries /\ Retries \in Nat
      /\ isr_nack \in BOOLEAN
  BY I2cAssumption DEF CutInv, IInv, TypeOK, Procs
<1>2. ASSUME NEW p \in Procs, NEW s \in MsgLists, ClearFlags(p), NewCall(p, s),
             p \in Tasks => \A u \in Tasks : pc[u] = "idle",
             p \in Clients => tries' = tries
      PROVE  CutInv'
  <2> SUFFICES ASSUME NEW t \in Tasks
               PROVE  Cut(t)'
    BY DEF CutInv
  <2>1. isr_nack' = FALSE /\ pc' = [pc EXCEPT ![p] = "queue"]
    BY <1>2 DEF ClearFlags, NewCall
  <2>2. CASE pc'[t] = "retry"
    <3>1. t # p /\ pc[t] = "retry"
      BY <1>1, <1>2, <2>1, <2>2
    <3>2. tries' = tries
      BY <1>2, <3>1 DEF Procs
    <3>3. call'[t] = call[t] /\ moved'[t] = moved[t]
      BY <1>1, <1>2, <3>1 DEF NewCall, IInv, TypeOK
    <3> QED
      BY <1>1, <2>1, <3>1, <3>2, <3>3 DEF Cut, Got
  <2>3. CASE pc'[t] # "retry"
    BY <2>1, <2>3 DEF Cut
  <2> QED
    BY <2>2, <2>3
<1>3. ASSUME NEW t \in Tasks, NEW s \in MsgLists, i2c_transfer(t, s)
      PROVE  CutInv'
  BY <1>1, <1>2, <1>3 DEF i2c_transfer
<1>4. ASSUME NEW c \in Clients, NEW s \in MsgLists, wmt_i2c_transfer(c, s)
      PROVE  CutInv'
  <2>1. c \in Procs /\ c \notin Tasks
    BY <1>1 DEF Procs
  <2> QED
    BY <1>2, <1>4, <2>1 DEF wmt_i2c_transfer
<1>5. ASSUME NEW p \in Procs, i2c_send_request(p)
      PROVE  CutInv'
  <2> SUFFICES ASSUME NEW t \in Tasks
               PROVE  Cut(t)'
    BY DEF CutInv
  <2>1. /\ pc[p] = "queue" /\ (isr_nack' => isr_nack)
        /\ pc' = [pc EXCEPT ![p] = IF p \in Clients THEN "out" ELSE "wait"]
        /\ UNCHANGED <<call, tries, moved>>
    BY <1>5, SendRequestJoins
  <2>2. CASE t = p
    <3>1. ~isr_nack /\ pc'[t] = "wait"
      BY <1>1, <2>1, <2>2 DEF TaskOK
    <3> QED
      BY <2>1, <3>1 DEF Cut
  <2>3. CASE t # p
    <3>1. pc'[t] = pc[t]
      BY <1>1, <2>1, <2>3
    <3> QED
      BY <1>1, <2>1, <3>1 DEF Cut, Got
  <2> QED
    BY <2>2, <2>3
<1>6. ASSUME NEW t \in Tasks, WaitEvent(t) \/ Result(t) \/ Retry(t)
      PROVE  CutInv'
  <2>1. pc[t] \in {"wait", "woken", "retry"} /\ t \in Procs /\ t \notin Clients
    BY <1>1, <1>6 DEF WaitEvent, Result, Retry
  <2>2. ASSUME NEW u \in Tasks, u # t
        PROVE  Cut(u)'
    <3>1. pc[u] = "idle" /\ u \in Procs
      BY <1>1, <2>1, <2>2
    <3>2. pc'[u] = "idle"
      BY <1>1, <1>6, <2>2, <3>1 DEF WaitEvent, Result, Retry
    <3> QED
      BY <3>2 DEF Cut
  <2>3. Cut(t)'
    <3>1. CASE WaitEvent(t)
      BY <1>1, <2>1, <3>1 DEF WaitEvent, Cut, Got
    <3>2. CASE Result(t)
      <4>1. /\ pc[t] = "woken" /\ UNCHANGED <<isr_nack, call, moved>>
            /\ \/ pc' = [pc EXCEPT ![t] = "idle"]
               \/ /\ isr_nack /\ pc' = [pc EXCEPT ![t] = "retry"]
                  /\ tries' = tries - 1
        BY <3>2 DEF Result
      <4>2. CASE pc' = [pc EXCEPT ![t] = "idle"]
        BY <1>1, <2>1, <4>2 DEF Cut
      <4>3. CASE /\ isr_nack /\ pc' = [pc EXCEPT ![t] = "retry"]
                 /\ tries' = tries - 1
        <5>1. pc'[t] = "retry" /\ tries' < Retries
          BY <1>1, <2>1, <4>3
        <5> QED
          BY <1>1, <4>1, <4>3, <5>1 DEF Cut, Got
      <4> QED
        BY <4>1, <4>2, <4>3
    <3>3. CASE Retry(t)
      BY <1>1, <2>1, <3>3 DEF Retry, Cut
    <3> QED
      BY <1>6, <3>1, <3>2, <3>3
  <2> QED
    BY <2>2, <2>3 DEF CutInv
<1>7. CASE NackIrq
  <2> SUFFICES ASSUME NEW t \in Tasks
               PROVE  Cut(t)'
    BY DEF CutInv
  <2>1. /\ r0.who \in Tasks /\ pc[r0.who] = "wait"
        /\ Got(r0.who) # Bytes(call[r0.who])
        /\ UNCHANGED <<pc, call, tries, moved>>
    BY <1>7, NackLeaves
  <2>2. CASE t = r0.who
    BY <2>1, <2>2 DEF Cut, Got
  <2>3. CASE t # r0.who
    BY <1>1, <2>1, <2>3 DEF Cut
  <2> QED
    BY <2>2, <2>3
<1>8. CASE ByteIrq
  BY <1>8, ByteIrqCut
<1>9. CASE UNCHANGED vars
  BY <1>9 DEF vars, CutInv, Cut, Got
<1> QED
  BY <1>1, <1>3, <1>4, <1>5, <1>6, <1>7, <1>8, <1>9 DEF Next, Halted, TaskStep, Procs

(* The state of the service, in the words of this module.                  *)
Active == {p \in Procs : pc[p] # "idle"}

LEMMA InService ==
  ASSUME IInv, NEW p \in Procs
  PROVE  /\ Service!InLine(p) <=> Queued(p)
         /\ Service!Carried(p) = Got(p)
         /\ Service!Whole(p) <=> Got(p) = Bytes(call[p])
<1>1. fifo \in Seq(Request)
  BY DEF IInv, TypeOK
<1>2. /\ Len(Line(fifo)) = Len(fifo)
      /\ \A k \in 1 .. Len(fifo) : Line(fifo)[k] = fifo[k].who
  BY <1>1, LineFacts
<1>3. Service!InLine(p) <=> \E k \in 1 .. Len(Line(fifo)) : Line(fifo)[k] = p
  BY DEF Service!InLine, Line
<1>4. Service!InLine(p) <=> Queued(p)
  BY <1>2, <1>3 DEF Queued
<1>5. Service!Carried(p) = Got(p)
  BY DEF Service!Carried, Got
<1>6. Service!Bytes(call[p]) = Bytes(call[p])
  BY DEF Service!Bytes, Bytes
<1> QED
  BY <1>4, <1>5, <1>6 DEF Service!Whole

LEMMA NewCallAsks ==
  ASSUME IInv, NEW p \in Procs, NEW s \in MsgLists, pc[p] = "idle", NewCall(p, s)
  PROVE  Service!Ask(p, s)
<1>1. pc \in [Procs -> {"idle", "queue", "wait", "woken", "retry", "out"}]
  BY DEF IInv, TypeOK
<1>2. pc' = [pc EXCEPT ![p] = "queue"]
  BY DEF NewCall
<1>3. p \notin Active /\ Active' = Active \cup {p}
  BY <1>1, <1>2 DEF Active
<1>4. /\ call' = [call EXCEPT ![p] = s]
      /\ moved' = [moved EXCEPT ![p] = <<>>]
      /\ refused' = [refused EXCEPT ![p] = 0]
      /\ ret' = [ret EXCEPT ![p] = "none"]
      /\ fifo' = fifo
  BY DEF NewCall
<1> QED
  BY <1>3, <1>4 DEF Service!Ask, Active

LEMMA RequestJoins ==
  ASSUME IInv, SafeUse, IInv', NEW p \in Procs, i2c_send_request(p)
  PROVE  Service!Join(p)
<1>1. pc \in [Procs -> {"idle", "queue", "wait", "woken", "retry", "out"}]
  BY DEF IInv, TypeOK
<1>2. /\ pc[p] = "queue" /\ moved[p] = <<>> /\ ~Queued(p)
      /\ pc' = [pc EXCEPT ![p] = IF p \in Clients THEN "out" ELSE "wait"]
      /\ Line(fifo') = Append(Line(fifo), p)
      /\ UNCHANGED <<call, tries, ret, moved, refused>>
  BY SendRequestJoins
<1>3. p \in Active /\ Active' = Active
  BY <1>1, <1>2 DEF Active
<1>4. ~Service!InLine(p)
  BY <1>2, InService
<1> QED
  BY <1>2, <1>3, <1>4 DEF Service!Join, Active, Line

(* The byte of an interrupt is the next one of the first call in line.     *)
LEMMA HeadIsNext ==
  ASSUME IInv, SafeUse, fifo # <<>>,
         NEW b, b = <<r0.xfer_msgnum, r0.xfer_length - 1>>
  PROVE  /\ r0.who \in Procs /\ Line(fifo) # <<>> /\ r0.who = Head(Line(fifo))
         /\ b \in Service!Bytes(call[r0.who])
         /\ Service!IsNext(r0.who, b)
         /\ Service!IsLast(r0.who, b) <=>
              \A c \in Bytes(call[r0.who]) : c = b \/ Before(c, b)
<1>1. fifo \in Seq(Request) /\ r0.who \in Procs
  BY HeadFacts DEF IInv, TypeOK
<1>2. Line(fifo) # <<>> /\ r0.who = Head(Line(fifo))
  BY <1>1, LineTail DEF r0
<1>3. Service!Bytes(call[r0.who]) = Bytes(call[r0.who])
  BY DEF Service!Bytes, Bytes
<1>4. \A c, d : Service!Before(c, d) <=> Before(c, d)
  BY DEF Service!Before, Before
<1>5. /\ b \in Bytes(call[r0.who])
      /\ Got(r0.who) = {c \in Bytes(call[r0.who]) : Before(c, b)}
  BY NextByte
<1>6. Service!Carried(r0.who) = Got(r0.who)
  BY <1>1, InService
<1>7. Service!IsNext(r0.who, b)
  BY <1>3, <1>4, <1>5, <1>6 DEF Service!IsNext
<1>8. Service!IsLast(r0.who, b) <=>
        \A c \in Bytes(call[r0.who]) : c = b \/ Before(c, b)
  BY <1>3, <1>4 DEF Service!IsLast
<1> QED
  BY <1>1, <1>2, <1>3, <1>5, <1>7, <1>8

LEMMA ByteIsCarried ==
  ASSUME IInv, SafeUse, IInv', ByteIrq
  PROVE  \E p \in Procs : \E b \in Service!Bytes(call[p]) : Service!Carry(p, b)
<1>1. HeadStays \/ HeadLeaves
  BY ByteIrqEffect
<1>2. fifo # <<>>
  BY <1>1 DEF HeadStays, HeadLeaves
<1> PICK p \in Procs : p = r0.who
  BY <1>2, HeadFacts
<1> PICK b : b = <<r0.xfer_msgnum, r0.xfer_length - 1>>
  OBVIOUS
<1>3. /\ p \in Procs /\ Line(fifo) # <<>> /\ p = Head(Line(fifo))
      /\ b \in Service!Bytes(call[p])
      /\ Service!IsNext(p, b)
      /\ Service!IsLast(p, b) <=> \A c \in Bytes(call[p]) : c = b \/ Before(c, b)
  BY <1>2, HeadIsNext
<1>4. /\ moved' = [moved EXCEPT ![p] = Append(moved[p], b)]
      /\ UNCHANGED <<call, refused>>
  BY <1>1 DEF HeadStays, HeadLeaves
<1>5. CASE HeadStays
  <2>1. /\ Line(fifo') = Line(fifo) /\ UNCHANGED <<pc, ret>>
        /\ \E c \in Bytes(call[p]) : ~(c = b \/ Before(c, b))
    BY <1>5 DEF HeadStays
  <2>2. Active' = Active
    BY <2>1 DEF Active
  <2>3. Service!Carry(p, b)
    BY <1>3, <1>4, <2>1, <2>2 DEF Service!Carry, Line, Active
  <2> QED
    BY <1>3, <2>3
<1>6. CASE HeadLeaves
  <2>1. /\ Line(fifo') = Tail(Line(fifo)) /\ Complete(r0)
        /\ \A c \in Bytes(call[p]) : c = b \/ Before(c, b)
    BY <1>6 DEF HeadLeaves
  <2>2. pc \in [Procs -> {"idle", "queue", "wait", "woken", "retry", "out"}]
    BY DEF IInv, TypeOK
  <2>3. \/ UNCHANGED <<pc, ret>>
        \/ pc' = [pc EXCEPT ![p] = "idle"] /\ ret' = [ret EXCEPT ![p] = "ok"]
    BY <2>1 DEF Complete
  <2>4. \/ UNCHANGED <<Active, ret>>
        \/ Active' = Active \ {p} /\ ret' = [ret EXCEPT ![p] = "ok"]
    BY <1>3, <2>2, <2>3 DEF Active
  <2>5. Service!Carry(p, b)
    BY <1>3, <1>4, <2>1, <2>4 DEF Service!Carry, Line, Active
  <2> QED
    BY <1>3, <2>5
<1> QED
  BY <1>1, <1>5, <1>6

LEMMA NackRefuses ==
  ASSUME IInv, SafeUse, NackIrq
  PROVE  \E p \in Procs : Service!Refuse(p)
<1>1. /\ fifo # <<>> /\ Line(fifo') = Tail(Line(fifo))
      /\ Got(r0.who) # Bytes(call[r0.who])
      /\ refused' = [refused EXCEPT ![r0.who] = @ + 1]
      /\ UNCHANGED <<pc, call, tries, ret, moved>>
  BY NackLeaves
<1>2. fifo \in Seq(Request) /\ r0.who \in Procs
  BY <1>1, HeadFacts DEF IInv, TypeOK
<1>3. Line(fifo) # <<>> /\ r0.who = Head(Line(fifo))
  BY <1>1, <1>2, LineTail DEF r0
<1>4. ~Service!Whole(r0.who)
  BY <1>1, <1>2, InService
<1>5. Active' = Active
  BY <1>1 DEF Active
<1>6. PICK p \in Procs : p = r0.who
  BY <1>2
<1>7. Service!Refuse(p)
  BY <1>1, <1>3, <1>4, <1>5, <1>6 DEF Service!Refuse, Line, Active
<1> QED
  BY <1>7

LEMMA RetryTriesAgain ==
  ASSUME IInv, CutInv, NEW t \in Tasks, Retry(t)
  PROVE  Service!Again(t)
<1>1. /\ pc[t] = "retry"
      /\ pc' = [pc EXCEPT ![t] = "queue"]
      /\ moved' = [moved EXCEPT ![t] = <<>>]
      /\ UNCHANGED <<fifo, call, tries, ret, refused>>
  BY DEF Retry
<1>2. /\ t \in Procs /\ TaskOK(t) /\ Cut(t)
      /\ pc \in [Procs -> {"idle", "queue", "wait", "woken", "retry", "out"}]
      /\ tries \in 0 .. Retries /\ Retries \in Nat
  BY I2cAssumption DEF Procs, IInv, TypeOK, CutInv
<1>3. ~Queued(t)
  BY <1>1 DEF IInv, FifoOK, Queued
<1>4. ~Service!InLine(t) /\ ~Service!Whole(t)
  BY <1>1, <1>2, <1>3, InService DEF Cut
<1>5. refused[t] \in 1 .. (Retries + 1) - 1
  BY <1>1, <1>2 DEF TaskOK, Refusals, Cut
<1>6. t \in Active /\ Active' = Active
  BY <1>1, <1>2 DEF Active
<1> QED
  BY <1>1, <1>4, <1>5, <1>6 DEF Service!Again, Active

(* i2c_transfer returns what became of its own bytes, or goes on.          *)
LEMMA ResultAnswers ==
  ASSUME IInv, CutInv, NEW t \in Tasks, Result(t)
  PROVE  \/ \E a \in {"ok", "EIO"} : Service!Answer(t, a)
         \/ UNCHANGED Service!vars
<1>1. /\ pc[t] = "woken"
      /\ UNCHANGED <<fifo, isr_nack, call, moved, refused>>
  BY DEF Result
<1>2. /\ t \in Procs /\ TaskOK(t) /\ Cut(t)
      /\ pc \in [Procs -> {"idle", "queue", "wait", "woken", "retry", "out"}]
      /\ tries \in 0 .. Retries /\ Retries \in Nat
  BY I2cAssumption DEF Procs, IInv, TypeOK, CutInv
<1>3. ~Queued(t)
  BY <1>1 DEF IInv, FifoOK, Queued
<1>4. t \in Active /\ ~Service!InLine(t)
  BY <1>1, <1>2, <1>3, InService DEF Active
<1>5. pc' = [pc EXCEPT ![t] = "idle"] => Active' = Active \ {t}
  BY <1>2 DEF Active
<1>6. CASE ~isr_nack
  <2>1. ret' = [ret EXCEPT ![t] = "ok"] /\ pc' = [pc EXCEPT ![t] = "idle"]
    BY <1>6 DEF Result
  <2>2. Whole(t)
    BY <1>1, <1>2, <1>6 DEF TaskOK
  <2>3. Service!Whole(t)
    BY <1>2, <2>2, InService DEF Whole, Got
  <2>4. Service!Answer(t, "ok")
    BY <1>1, <1>4, <1>5, <2>1, <2>3 DEF Service!Answer, Active
  <2> QED
    BY <2>4
<1>7. CASE isr_nack /\ NoMoreTries
  <2>1. ret' = [ret EXCEPT ![t] = "EIO"] /\ pc' = [pc EXCEPT ![t] = "idle"]
    BY <1>7 DEF Result
  <2>2. refused[t] = Retries + 1
    BY <1>1, <1>2, <1>7 DEF TaskOK, Refusals, NoMoreTries
  <2>3. ~Service!Whole(t)
    BY <1>1, <1>2, <1>7, InService DEF Cut
  <2>4. Service!Answer(t, "EIO")
    BY <1>1, <1>4, <1>5, <2>1, <2>2, <2>3 DEF Service!Answer, Active
  <2> QED
    BY <2>4
<1>8. CASE isr_nack /\ ~NoMoreTries
  <2>1. pc' = [pc EXCEPT ![t] = "retry"] /\ ret' = ret
    BY <1>8 DEF Result
  <2>2. Active' = Active
    BY <1>1, <1>2, <2>1 DEF Active
  <2> QED
    BY <1>1, <2>1, <2>2 DEF Service!vars, Active
<1> QED
  BY <1>6, <1>7, <1>8

LEMMA WaitEventUnseen ==
  ASSUME IInv, NEW t \in Tasks, WaitEvent(t)
  PROVE  UNCHANGED Service!vars
<1>1. /\ pc[t] = "wait" /\ pc' = [pc EXCEPT ![t] = "woken"]
      /\ UNCHANGED <<fifo, call, ret, moved, refused>>
  BY DEF WaitEvent
<1>2. /\ t \in Procs
      /\ pc \in [Procs -> {"idle", "queue", "wait", "woken", "retry", "out"}]
  BY DEF Procs, IInv, TypeOK
<1>3. Active' = Active
  BY <1>1, <1>2 DEF Active
<1> QED
  BY <1>1, <1>3 DEF Service!vars, Active

LEMMA ServiceStep ==
  ASSUME IInv, SafeUse, IInv', CutInv, [Next]_vars
  PROVE  [Service!Next]_(Service!vars)
<1>0. Tasks \subseteq Procs /\ Clients \subseteq Procs
  BY DEF Procs
<1>1. ASSUME NEW t \in Tasks, NEW s \in MsgLists, i2c_transfer(t, s)
      PROVE  Service!Next
  <2>1. Service!Ask(t, s)
    BY <1>0, <1>1, NewCallAsks DEF i2c_transfer
  <2> QED
    BY <1>0, <2>1 DEF Service!Next
<1>2. ASSUME NEW c \in Clients, NEW s \in MsgLists, wmt_i2c_transfer(c, s)
      PROVE  Service!Next
  <2>1. Service!Ask(c, s)
    BY <1>0, <1>2, NewCallAsks DEF wmt_i2c_transfer
  <2> QED
    BY <1>0, <2>1 DEF Service!Next
<1>3. ASSUME NEW p \in Procs, i2c_send_request(p)
      PROVE  Service!Next
  BY <1>3, RequestJoins DEF Service!Next
<1>4. ASSUME NEW t \in Tasks, WaitEvent(t)
      PROVE  UNCHANGED Service!vars
  BY <1>4, WaitEventUnseen
<1>5. ASSUME NEW t \in Tasks, Result(t)
      PROVE  Service!Next \/ UNCHANGED Service!vars
  BY <1>0, <1>5, ResultAnswers DEF Service!Next
<1>6. ASSUME NEW t \in Tasks, Retry(t)
      PROVE  Service!Next
  BY <1>0, <1>6, RetryTriesAgain DEF Service!Next
<1>7. CASE NackIrq
  BY <1>7, NackRefuses DEF Service!Next
<1>8. CASE ByteIrq
  BY <1>8, ByteIsCarried DEF Service!Next
<1>9. CASE UNCHANGED vars
  BY <1>9 DEF vars, Service!vars
<1> QED
  BY <1>0, <1>1, <1>2, <1>3, <1>4, <1>5, <1>6, <1>7, <1>8, <1>9 DEF Next, Halted, TaskStep

(* In every safe use of a bus, i2c_send_request, wmt_i2c_xfer and          *)
(* i2c_wmt_handler together implement a service that carries the bytes of  *)
(* one call at a time, in the order the calls were queued, and answers     *)
(* each from what became of its own bytes.                                 *)
THEOREM ImplementsService ==
  ASSUME SafeUse
  PROVE  Spec => ServesInLine
<1>1. Init => IInv
  BY InitInv
<1>2. Init => CutInv
  BY DEF Init, CutInv, Cut, Procs
<1>3. IInv /\ CutInv /\ [Next]_vars => IInv' /\ CutInv'
  BY StepInv, CutStep
<1>4. Init => Service!Init
  <2> SUFFICES ASSUME Init
               PROVE  Service!Init
    OBVIOUS
  <2>1. Active = {}
    BY DEF Init, Active
  <2>2. Line(fifo) = <<>>
    <3>1. fifo \in Seq(Request) /\ Len(fifo) = 0
      BY DEF Init
    <3>2. Line(fifo) \in Seq(Procs) /\ Len(Line(fifo)) = 0
      BY <3>1, LineFacts
    <3> QED
      BY <3>2
  <2> QED
    BY <2>1, <2>2 DEF Init, Service!Init, Active, Line
<1>5. IInv /\ IInv' /\ CutInv /\ [Next]_vars => [Service!Next]_(Service!vars)
  BY ServiceStep
<1> QED
  BY <1>1, <1>2, <1>3, <1>4, <1>5, PTL DEF Spec, ServesInLine, Service!Spec

=============================================================================
