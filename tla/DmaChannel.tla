----------------------------- MODULE DmaChannel -----------------------------
(***************************************************************************)
(* One channel of the DMA controller, arch/arm/mach-wmt/dma.c: a ring of   *)
(* descriptors in memory that the driver fills and the engine walks.  The  *)
(* functions of the driver run with interrupts off and are operators from  *)
(* the channel's state to the next one; the engine (the last section) is   *)
(* hardware, modelled from what the driver relies on.                      *)
(*                                                                         *)
(* A buffer is Units units long and takes one descriptor, as every buffer  *)
(* of at most 32 KB does.                                                  *)
(***************************************************************************)
EXTENDS Integers

CONSTANTS
  max_des0cnt,  \* descriptors of the ring; the last one branches to the first
  Units         \* units of a buffer

(* wmt_request_dma makes room for (1024 - DMA_DES1_SIZE) / DMA_DES0_SIZE   *)
(* descriptors and one more, far more than two.                            *)
ASSUME ChannelAssumption ==
  max_des0cnt \in Nat /\ max_des0cnt > 2 /\ Units \in Nat \ {0}

Slots == 0 .. max_des0cnt - 1
Unused == [unit |-> 0, left |-> 0, end |-> FALSE]

(* dma_info_s, the ring, and the registers of the channel.  isr is its bit *)
(* in DMA_ISR together with the event in its CCR; rbr and dar are what is  *)
(* left of the descriptor at cpr and where.  queued is history: buffers    *)
(* handed over and not finished.                                           *)
Channel ==
  [ring : [Slots -> [unit : Nat, left : 0 .. Units, end : BOOLEAN]],
   des0cnt : Slots, residue : Slots, run : BOOLEAN,
   isr : {"none", "success", "error"},
   eng : {"off", "fetch", "xfer", "parked", "halted"},
   cpr : Slots, rbr : 0 .. Units, dar : Nat, queued : Nat]

(* wmt_request_dma, its bookkeeping of the channel it found.               *)
wmt_request_dma ==
  [ring |-> [i \in Slots |-> Unused], des0cnt |-> 0, residue |-> 0,
   run |-> FALSE, isr |-> "none", eng |-> "off", cpr |-> 0, rbr |-> 0,
   dar |-> 0, queued |-> 0]

-----------------------------------------------------------------------------
(* A mistake: the slot before the first one is the first one.              *)
LastSlot_NoWrap(c) == IF c.des0cnt - 1 >= 0 THEN c.des0cnt - 1 ELSE 0

(* The slot clear_last_descript looks at.                                  *)
LastSlot(c) == IF c.des0cnt - 1 >= 0 THEN c.des0cnt - 1 ELSE max_des0cnt - 1

(* A mistake: the slot that branches back is one too far.                  *)
NextSlot_TooFar(i) == IF i < max_des0cnt THEN i + 1 ELSE 0

(* create_fmt0_descript counts up, create_fmt1_descript writes the last    *)
(* slot, with a branch to the first, and starts again.                     *)
NextSlot(i) == IF i < max_des0cnt - 1 THEN i + 1 ELSE 0

Full(c) == max_des0cnt - c.residue < 1

(* The END bit moves from the descriptor queued last to the new one.       *)
add_descript(c, u) ==
  [c EXCEPT !.ring = [@ EXCEPT
                        ![LastSlot(c)].end = FALSE,
                        ![c.des0cnt] = [unit |-> u, left |-> Units,
                                        end |-> TRUE]],
            !.des0cnt = NextSlot(@),
            !.queued = @ + 1]

Advance(c) == [c EXCEPT !.cpr = NextSlot(@), !.eng = "fetch"]

(* A mistake: the engine is not told of the new descriptor.                *)
Wake_Missing(c) == c

(* DMA_WAKE: an engine that stopped at an END bit looks at it again.       *)
Wake(c) ==
  IF c.eng = "parked" /\ ~c.ring[c.cpr].end THEN Advance(c) ELSE c

Clamp(n) == IF n > max_des0cnt - 1 THEN max_des0cnt - 1 ELSE n

(* When the ring is full the call returns -EBUSY and changes nothing.      *)
wmt_start_dma(c, u) ==
  IF Full(c) THEN c
  ELSE LET d == [add_descript(c, u) EXCEPT !.residue = Clamp(@ + 1)]
       IN  IF d.run THEN Wake(d)
           ELSE [d EXCEPT !.cpr = 0, !.run = TRUE, !.eng = "fetch"]

wmt_stop_dma(c) == [c EXCEPT !.run = FALSE, !.eng = "off"]

(* Buffers in flight are discarded.  (What rbr and dar hold is not read    *)
(* again before the next Fetch.)                                           *)
wmt_clear_dma(c) ==
  [c EXCEPT !.run = FALSE, !.eng = "off", !.isr = "none",
            !.des0cnt = 0, !.residue = 0, !.queued = 0,
            !.rbr = 0, !.dar = 0]

(* The CCR is set to the device's default, in which the channel is off.    *)
wmt_setup_dma(c) ==
  [c EXCEPT !.run = FALSE, !.eng = "off", !.isr = "none"]

(* A mistake: the descriptor is left as it was queued.                     *)
revise_descript_Not(c) == c

(* The descriptor at cpr becomes what is left of it.  (When nothing is,    *)
(* the CPR that is moved on is that of the argument, a copy.)              *)
revise_descript(c) ==
  IF c.rbr > 0
  THEN [c EXCEPT !.ring[c.cpr].left = c.rbr, !.ring[c.cpr].unit = c.dar]
  ELSE c

wmt_resume_dma(c) ==
  [revise_descript(c) EXCEPT !.run = TRUE, !.eng = "fetch"]

(* The part of dma_irq_handler before the callback, for a transfer that    *)
(* ended; the event may already be gone from the CCR.                      *)
Finished(c) ==
  LET done(d) == [d EXCEPT !.isr = "none",
                           !.residue = IF @ > 0 THEN @ - 1 ELSE @]
  IN  {done(c), done(revise_descript(c))}

(* And for an error: the channel is resumed, nobody is called.             *)
Recovered(c) == wmt_resume_dma([c EXCEPT !.isr = "none"])

-----------------------------------------------------------------------------
(* The engine.                                                             *)

Fetch(c) == [c EXCEPT !.eng = "xfer", !.rbr = c.ring[c.cpr].left,
                      !.dar = c.ring[c.cpr].unit]

Move(c) == [c EXCEPT !.rbr = @ - 1, !.dar = @ + 1]

(* The interrupt of a descriptor joins one that is still pending.          *)
Complete(c) ==
  LET d == [c EXCEPT !.isr = "success", !.queued = @ - 1]
  IN  IF c.ring[c.cpr].end THEN [d EXCEPT !.eng = "parked"] ELSE Advance(d)

Fail(c) == [c EXCEPT !.eng = "halted", !.isr = "error"]
=============================================================================
