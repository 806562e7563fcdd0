-------------------------- MODULE PcmStreamProofs ---------------------------
(***************************************************************************)
(* A stream that queues one buffer per period (every stream but mono       *)
(* playback of 16 bit samples), for every size of the ring, of the periods *)
(* and of the buffer and any number of transfer errors.                    *)
(***************************************************************************)
EXTENDS PcmStream, TLAPS

Descriptor == [unit : Nat, left : 0 .. Units, end : BOOLEAN]
PeriodSet == 0 .. Periods - 1

(* The slot and the period before one, and the period after one, around    *)
(* their rings.                                                            *)
PrevSlot(i) == IF i = 0 THEN max_des0cnt - 1 ELSE i - 1
PrevPeriod(p) == IF p = 0 THEN Periods - 1 ELSE p - 1
NextPeriod(p) == IF p = Periods - 1 THEN 0 ELSE p + 1
UnitOf(p) == Units * p

(* The engine is inside the descriptor of period p, at cpr, and the unit   *)
(* it will move next is d.  When the channel is fetched again, after an    *)
(* error, the descriptor says what is left of it, or, when nothing was,    *)
(* what it said before.                                                    *)
HeadAt(c, p, d) ==
  /\ c.eng \in {"fetch", "xfer", "halted"} =>
       /\ c.ring[c.cpr].unit + c.ring[c.cpr].left = UnitOf(p) + Units
       /\ c.ring[c.cpr].left > 0
  /\ c.eng = "fetch" =>
       /\ d = c.ring[c.cpr].unit
       /\ c.rbr > 0 => c.ring[c.cpr].left = c.rbr /\ c.ring[c.cpr].unit = c.dar
  /\ c.eng \in {"xfer", "halted"} => c.dar + c.rbr = UnitOf(p) + Units
  /\ c.eng = "xfer" => d = IF c.rbr > 0 THEN c.dar ELSE UnitOf(NextPeriod(p))
  /\ c.eng = "halted" => d = IF c.rbr > 0 THEN c.dar ELSE c.ring[c.cpr].unit

(* A channel that runs, with the periods before p queued on it: the ring   *)
(* and the engine agree on which, and where the last one is.               *)
Running(c, p, d) ==
  /\ c \in Channel /\ c.run /\ c.queued <= 2
  /\ c.ring[LastSlot(c)].end
  /\ c.queued = 0 => c.eng = "parked" /\ c.rbr = 0 /\ d = UnitOf(p)
  /\ c.queued # 0 => c.eng \in {"fetch", "xfer", "halted"}
  /\ c.queued \in {0, 1} => c.cpr = LastSlot(c)
  /\ c.queued = 1 => HeadAt(c, PrevPeriod(p), d)
  /\ c.queued = 2 => /\ c.cpr = PrevSlot(LastSlot(c)) /\ ~c.ring[c.cpr].end
                     /\ c.ring[LastSlot(c)].unit = UnitOf(PrevPeriod(p))
                     /\ c.ring[LastSlot(c)].left = Units
                     /\ HeadAt(c, PrevPeriod(PrevPeriod(p)), d)

(* What the driver counts covers it, and somebody will go on.              *)
Playing(c, t, d) ==
  /\ Running(c, t.period, d)
  /\ t.active /\ t.periods \in 1 .. 2 /\ c.residue = t.periods
  /\ c.queued <= t.periods
  /\ c.isr = "success" => c.queued < t.periods
  /\ c.queued = 0 => c.isr = "success"
  /\ c.isr = "error" <=> c.eng = "halted"

Cleared(c) ==
  /\ c \in Channel /\ ~c.run /\ c.eng = "off" /\ c.isr = "none"
  /\ c.des0cnt = 0 /\ c.residue = 0 /\ c.queued = 0 /\ c.rbr = 0

(* The unit d the engine will move next, on a channel with the periods     *)
(* before p, and the history: it is the one that is due (w), unless the    *)
(* engine was made to go back (g) and has not moved a unit since.  The     *)
(* descriptor it repeats ends where it had got.                            *)
Follows(c, p, d, w, g) ==
  /\ g = "no" => d = w
  /\ g = "stopped" => d = 0
  /\ g = "failed" => w = UnitOf(IF c.queued = 1 THEN p ELSE PrevPeriod(p))
  /\ g # "no" => c.queued # 0 /\ (c.eng = "xfer" => c.rbr > 0)

(* The inductive invariant.                                                *)
IInv ==
  /\ TypeOK
  /\ s.active <=> pcm = "running"
  /\ s.active => \E d : Playing(dma, s, d)
                         /\ Follows(dma, s.period, d, due, again)
  /\ ~s.active => /\ s = Idle /\ Cleared(dma)
                  /\ again = "stopped" \/ (again = "no" /\ due = 0)

-----------------------------------------------------------------------------
(* Arithmetic on the rings.                                                *)

LEMMA SlotFacts ==
  ASSUME NEW i \in Slots
  PROVE  /\ PrevSlot(i) \in Slots /\ NextSlot(i) \in Slots
         /\ PrevSlot(NextSlot(i)) = i /\ NextSlot(PrevSlot(i)) = i
         /\ PrevSlot(i) # i /\ PrevSlot(PrevSlot(i)) # i
BY ChannelAssumption DEF Slots, PrevSlot, NextSlot

LEMMA PeriodFacts ==
  ASSUME NEW p \in PeriodSet
  PROVE  /\ PrevPeriod(p) \in PeriodSet /\ NextPeriod(p) \in PeriodSet
         /\ PrevPeriod(NextPeriod(p)) = p /\ NextPeriod(PrevPeriod(p)) = p
         /\ (p + 1) % Periods = NextPeriod(p)
<1>1. (p + 1) % Periods = NextPeriod(p)
  <2>1. CASE p = Periods - 1
    BY <2>1, StreamAssumption DEF NextPeriod, PeriodSet
  <2>2. CASE p # Periods - 1
    BY <2>2, StreamAssumption DEF NextPeriod, PeriodSet
  <2> QED BY <2>1, <2>2
<1> QED BY <1>1, StreamAssumption DEF PrevPeriod, NextPeriod, PeriodSet

(* The units of period p, and the first one after them.                    *)
LEMMA UnitFacts ==
  ASSUME NEW p \in PeriodSet
  PROVE  /\ UnitOf(p) \in Nat /\ BufferUnits \in Nat
         /\ UnitOf(p) + Units <= BufferUnits
         /\ UnitOf(NextPeriod(p)) = IF UnitOf(p) + Units = BufferUnits THEN 0
                                    ELSE UnitOf(p) + Units
<1>1. p \in Nat /\ Periods \in Nat /\ Units \in Nat /\ Units > 0 /\ p < Periods
  BY StreamAssumption, ChannelAssumption DEF PeriodSet
<1>2. UnitOf(p) \in Nat /\ BufferUnits \in Nat
  BY <1>1 DEF UnitOf, BufferUnits
<1>3. Units * (p + 1) = UnitOf(p) + Units
  BY <1>1 DEF UnitOf
<1>4. CASE p = Periods - 1
  <2>1. UnitOf(p) + Units = BufferUnits
    BY <1>1, <1>3, <1>4 DEF BufferUnits
  <2>2. UnitOf(NextPeriod(p)) = 0
    BY <1>1, <1>4 DEF NextPeriod, UnitOf
  <2> QED BY <2>1, <2>2, <1>2, <1>1
<1>5. CASE p # Periods - 1
  <2>1. UnitOf(NextPeriod(p)) = UnitOf(p) + Units
    BY <1>3, <1>5 DEF NextPeriod, UnitOf
  <2>2. PICK k \in Nat : Periods = (p + 1) + k /\ k > 0
    <3>1. Periods - (p + 1) \in Nat /\ Periods - (p + 1) > 0
      BY <1>1, <1>5
    <3> QED BY <3>1, <1>1
  <2>3. BufferUnits = Units * (p + 1) + Units * k
    BY <2>2, <1>1 DEF BufferUnits
  <2>4. Units * k > 0
    BY <2>2, <1>1
  <2> QED BY <2>1, <2>3, <2>4, <1>1, <1>2, <1>3
<1> QED BY <1>4, <1>5

LEMMA WrapFacts ==
  ASSUME NEW u \in Nat, BufferUnits \in Nat, u < BufferUnits
  PROVE  (u + 1) % BufferUnits = IF u + 1 = BufferUnits THEN 0 ELSE u + 1
<1>1. CASE u + 1 = BufferUnits
  BY <1>1
<1>2. CASE u + 1 # BufferUnits
  BY <1>2
<1> QED BY <1>1, <1>2

-----------------------------------------------------------------------------
(* The functions of the channel.                                           *)

LEMMA ChannelTypes ==
  ASSUME NEW c \in Channel
  PROVE  /\ c.ring \in [Slots -> Descriptor]
         /\ \A i \in Slots : /\ c.ring[i] \in Descriptor
                             /\ c.ring[i].unit \in Nat
                             /\ c.ring[i].left \in 0 .. Units
                             /\ c.ring[i].left \in Nat
                             /\ c.ring[i].end \in BOOLEAN
         /\ c.des0cnt \in Slots /\ c.residue \in Slots /\ c.residue \in Nat
         /\ c.cpr \in Slots /\ c.rbr \in 0 .. Units /\ c.rbr \in Nat
         /\ c.dar \in Nat /\ c.queued \in Nat
         /\ LastSlot(c) \in Slots /\ LastSlot(c) = PrevSlot(c.des0cnt)
<1>1. c.ring \in [Slots -> Descriptor]
  BY DEF Channel, Descriptor
<1>2. /\ c.des0cnt \in Slots /\ c.residue \in Slots
      /\ c.cpr \in Slots /\ c.rbr \in 0 .. Units
      /\ c.dar \in Nat /\ c.queued \in Nat
  BY DEF Channel
<1>3. c.residue \in Nat /\ c.rbr \in Nat
  BY <1>2, ChannelAssumption DEF Slots
<1>4. LastSlot(c) = PrevSlot(c.des0cnt)
  BY <1>2, ChannelAssumption DEF LastSlot, PrevSlot, Slots
<1>5. LastSlot(c) \in Slots
  BY <1>2, <1>4, SlotFacts
<1> QED BY <1>1, <1>2, <1>3, <1>4, <1>5, ChannelAssumption DEF Descriptor

(* The update of one field.                                                *)
LEMMA SetField ==
  ASSUME NEW c \in Channel
  PROVE  /\ \A v \in [Slots -> Descriptor] : [c EXCEPT !.ring = v] \in Channel
         /\ \A v \in Slots : [c EXCEPT !.des0cnt = v] \in Channel
         /\ \A v \in Slots : [c EXCEPT !.residue = v] \in Channel
         /\ \A v \in BOOLEAN : [c EXCEPT !.run = v] \in Channel
         /\ \A v \in {"none", "success", "error"} :
              [c EXCEPT !.isr = v] \in Channel
         /\ \A v \in {"off", "fetch", "xfer", "parked", "halted"} :
              [c EXCEPT !.eng = v] \in Channel
         /\ \A v \in Slots : [c EXCEPT !.cpr = v] \in Channel
         /\ \A v \in 0 .. Units : [c EXCEPT !.rbr = v] \in Channel
         /\ \A v \in Nat : [c EXCEPT !.dar = v] \in Channel
         /\ \A v \in Nat : [c EXCEPT !.queued = v] \in Channel
<1>1. \A v \in [Slots -> Descriptor] : [c EXCEPT !.ring = v] \in Channel
  BY DEF Channel, Descriptor
<1>2. /\ \A v \in Slots : [c EXCEPT !.des0cnt = v] \in Channel
      /\ \A v \in Slots : [c EXCEPT !.residue = v] \in Channel
      /\ \A v \in Slots : [c EXCEPT !.cpr = v] \in Channel
  BY DEF Channel
<1>3. /\ \A v \in BOOLEAN : [c EXCEPT !.run = v] \in Channel
      /\ \A v \in {"none", "success", "error"} :
           [c EXCEPT !.isr = v] \in Channel
      /\ \A v \in {"off", "fetch", "xfer", "parked", "halted"} :
           [c EXCEPT !.eng = v] \in Channel
  BY DEF Channel
<1>4. /\ \A v \in 0 .. Units : [c EXCEPT !.rbr = v] \in Channel
      /\ \A v \in Nat : [c EXCEPT !.dar = v] \in Channel
      /\ \A v \in Nat : [c EXCEPT !.queued = v] \in Channel
  BY DEF Channel
<1> QED BY <1>1, <1>2, <1>3, <1>4

(* Two channels with the same engine.                                      *)
SameEngine(y, x) ==
  /\ y.eng = x.eng /\ y.cpr = x.cpr /\ y.rbr = x.rbr /\ y.dar = x.dar
  /\ y.run = x.run /\ y.isr = x.isr

(* A descriptor is added at the tail and takes over the END bit.           *)
LEMMA AddFacts ==
  ASSUME NEW c \in Channel, NEW u \in Nat
  PROVE  LET y == add_descript(c, u)
         IN  /\ y \in Channel /\ y.queued = c.queued + 1
             /\ LastSlot(y) = c.des0cnt /\ y.residue = c.residue
             /\ y.ring[c.des0cnt].unit = u /\ y.ring[c.des0cnt].left = Units
             /\ y.ring[c.des0cnt].end
             /\ y.ring[LastSlot(c)].unit = c.ring[LastSlot(c)].unit
             /\ y.ring[LastSlot(c)].left = c.ring[LastSlot(c)].left
             /\ ~y.ring[LastSlot(c)].end
             /\ SameEngine(y, c)
<1> DEFINE i == LastSlot(c)
           j == c.des0cnt
           e == [unit |-> u, left |-> Units, end |-> TRUE]
           r1 == [c.ring EXCEPT ![i] = [@ EXCEPT !.end = FALSE]]
           r == [r1 EXCEPT ![j] = e]
           y == add_descript(c, u)
<1>1. /\ i \in Slots /\ j \in Slots /\ i # j /\ c.ring \in [Slots -> Descriptor]
      /\ c.ring[i] \in Descriptor /\ c.queued \in Nat
  BY ChannelTypes, SlotFacts
<1>2. e \in Descriptor
  BY ChannelAssumption DEF Descriptor
<1>3. /\ [c.ring[i] EXCEPT !.end = FALSE] \in Descriptor
      /\ [c.ring[i] EXCEPT !.end = FALSE].unit = c.ring[i].unit
      /\ [c.ring[i] EXCEPT !.end = FALSE].left = c.ring[i].left
      /\ ~[c.ring[i] EXCEPT !.end = FALSE].end
  BY <1>1 DEF Descriptor
<1>4. /\ r1 \in [Slots -> Descriptor]
      /\ r1[i] = [c.ring[i] EXCEPT !.end = FALSE]
  BY <1>1, <1>3
<1>5. r \in [Slots -> Descriptor] /\ r[j] = e /\ r[i] = r1[i]
  BY <1>1, <1>2, <1>4
<1>6. y = [c EXCEPT !.ring = r, !.des0cnt = NextSlot(j),
                    !.queued = c.queued + 1]
  BY <1>1 DEF add_descript, Channel
<1>7. NextSlot(j) \in Slots /\ PrevSlot(NextSlot(j)) = j
  BY <1>1, SlotFacts
<1> HIDE DEF r, y, i
<1>8. y \in Channel
  <2>1. c.queued + 1 \in Nat
    BY <1>1
  <2> QED BY <2>1, <1>5, <1>6, <1>7, SetField
<1>9. /\ y.ring = r /\ y.des0cnt = NextSlot(j) /\ y.queued = c.queued + 1
      /\ y.residue = c.residue /\ SameEngine(y, c)
  BY <1>6 DEF Channel, SameEngine
<1>10. LastSlot(y) = j
  BY <1>7, <1>8, <1>9, ChannelTypes
<1> HIDE DEF r1
<1>11. y.ring[j] = e /\ y.ring[i] = [c.ring[i] EXCEPT !.end = FALSE]
  BY <1>4, <1>5, <1>9 DEF r1
<1> HIDE DEF j
<1> QED BY <1>3, <1>8, <1>9, <1>10, <1>11 DEF y, i, j

(* wmt_start_dma on a channel that runs and has room.                      *)
LEMMA QueueFacts ==
  ASSUME NEW c, NEW p \in PeriodSet, NEW d, Running(c, p, d),
         c.queued <= 1, c.residue <= 1
  PROVE  LET y == wmt_start_dma(c, UnitOf(p))
         IN  /\ Running(y, NextPeriod(p), d)
             /\ y.queued = c.queued + 1 /\ y.residue = c.residue + 1
             /\ y.isr = c.isr /\ (y.eng = "halted" <=> c.eng = "halted")
             /\ c.queued # 0 => y.eng = c.eng /\ y.rbr = c.rbr
<1> DEFINE u == UnitOf(p)
           a == add_descript(c, u)
           b == [a EXCEPT !.residue = Clamp(@ + 1)]
           y == wmt_start_dma(c, u)
           q == NextPeriod(p)
<1>1. /\ c \in Channel /\ c.run /\ c.queued \in 0 .. 1 /\ c.residue \in 0 .. 1
      /\ c.des0cnt \in Slots /\ c.cpr = LastSlot(c) /\ LastSlot(c) \in Slots
      /\ LastSlot(c) = PrevSlot(c.des0cnt)
  <2>1. /\ c \in Channel /\ c.run
        /\ c.queued \in {0, 1} => c.cpr = LastSlot(c)
    BY DEF Running
  <2>2. /\ c.queued \in Nat /\ c.residue \in Nat /\ c.des0cnt \in Slots
        /\ LastSlot(c) \in Slots /\ LastSlot(c) = PrevSlot(c.des0cnt)
    BY <2>1, ChannelTypes
  <2> QED BY <2>1, <2>2
<1>2. u \in Nat /\ q \in PeriodSet /\ PrevPeriod(q) = p
  BY UnitFacts, PeriodFacts
<1>3. /\ a \in Channel /\ a.queued = c.queued + 1
      /\ LastSlot(a) = c.des0cnt /\ a.residue = c.residue
      /\ a.ring[c.des0cnt].unit = u /\ a.ring[c.des0cnt].left = Units
      /\ a.ring[c.des0cnt].end
      /\ a.ring[LastSlot(c)].unit = c.ring[LastSlot(c)].unit
      /\ a.ring[LastSlot(c)].left = c.ring[LastSlot(c)].left
      /\ ~a.ring[LastSlot(c)].end
      /\ SameEngine(a, c)
  BY <1>1, <1>2, AddFacts
<1>4. y = Wake(b)
  <2>1. ~Full(c)
    BY <1>1, ChannelAssumption DEF Full
  <2>2. b.run
    BY <1>1, <1>3 DEF Channel, SameEngine
  <2> QED BY <2>1, <2>2 DEF wmt_start_dma
<1> HIDE DEF u, a, y, q
<1>5. /\ b \in Channel /\ b.residue = c.residue + 1 /\ b.queued = a.queued
      /\ b.ring = a.ring /\ b.des0cnt = a.des0cnt /\ SameEngine(b, a)
  <2>1. Clamp(a.residue + 1) = c.residue + 1 /\ c.residue + 1 \in Slots
    BY <1>1, <1>3, ChannelAssumption DEF Clamp, Slots
  <2>2. b = [a EXCEPT !.residue = c.residue + 1]
    BY <2>1, <1>3
  <2> HIDE DEF b
  <2> QED BY <2>1, <2>2, <1>3 DEF Channel, SameEngine
<1> HIDE DEF b
<1>6. LastSlot(b) = c.des0cnt
  BY <1>3, <1>5 DEF LastSlot
<1>7. CASE c.queued = 0
  <2>1. c.eng = "parked" /\ c.rbr = 0 /\ d = u
    BY <1>7 DEF Running, u
  <2>2. y = [b EXCEPT !.cpr = NextSlot(@), !.eng = "fetch"]
    BY <1>1, <1>3, <1>4, <1>5, <2>1 DEF Wake, Advance, SameEngine
  <2>3. NextSlot(b.cpr) = c.des0cnt
    BY <1>1, <1>3, <1>5, SlotFacts DEF SameEngine
  <2>4. /\ y \in Channel /\ y.residue = b.residue /\ y.queued = b.queued
        /\ y.ring = b.ring /\ y.des0cnt = b.des0cnt /\ y.eng = "fetch"
        /\ y.cpr = c.des0cnt /\ y.rbr = b.rbr /\ y.run = b.run /\ y.isr = b.isr
    BY <1>1, <1>5, <2>2, <2>3 DEF Channel
  <2>5. y.rbr = 0 /\ y.run /\ y.isr = c.isr /\ y.queued = 1
    BY <1>1, <1>3, <1>5, <1>7, <2>1, <2>4 DEF SameEngine
  <2>6. LastSlot(y) = c.des0cnt
    BY <1>6, <2>4 DEF LastSlot
  <2>7. HeadAt(y, p, d)
    BY <1>2, <1>3, <1>5, <2>1, <2>4, <2>5, ChannelAssumption DEF HeadAt, u
  <2>8. Running(y, q, d)
    BY <1>2, <1>3, <1>5, <2>4, <2>5, <2>6, <2>7 DEF Running
  <2> QED BY <1>3, <1>5, <1>7, <2>1, <2>4, <2>5, <2>8 DEF y, q, u
<1>8. CASE c.queued = 1
  <2>1. /\ c.eng \in {"fetch", "xfer", "halted"} /\ HeadAt(c, PrevPeriod(p), d)
    BY <1>8 DEF Running
  <2>2. y = b
    BY <1>3, <1>4, <1>5, <2>1 DEF Wake, SameEngine
  <2>3. /\ y.eng = c.eng /\ y.cpr = c.cpr /\ y.rbr = c.rbr /\ y.dar = c.dar
        /\ y.run = c.run /\ y.isr = c.isr
    BY <1>3, <1>5, <2>2 DEF SameEngine
  <2>4. y.queued = 2 /\ y.run
    BY <1>1, <1>3, <1>5, <1>8, <2>2, <2>3
  <2>5. HeadAt(y, PrevPeriod(p), d)
    BY <1>1, <1>3, <1>5, <2>1, <2>2, <2>3 DEF HeadAt
  <2>6. Running(y, q, d)
    BY <1>1, <1>2, <1>3, <1>5, <1>6, <2>1, <2>2, <2>3, <2>4, <2>5 DEF Running, u
  <2> QED BY <1>3, <1>5, <1>8, <2>2, <2>3, <2>4, <2>6 DEF y, q, u
<1> QED BY <1>1, <1>7, <1>8

(* wmt_start_dma on a channel that was cleared.                            *)
LEMMA FirstFacts ==
  ASSUME NEW c, Cleared(c)
  PROVE  LET y == wmt_start_dma(c, UnitOf(0))
         IN  /\ Running(y, NextPeriod(0), 0)
             /\ y.queued = 1 /\ y.residue = 1
             /\ y.isr = "none" /\ y.eng = "fetch"
<1> DEFINE u == UnitOf(0)
           a == add_descript(c, u)
           b == [a EXCEPT !.residue = Clamp(@ + 1)]
           y == wmt_start_dma(c, u)
<1>1. /\ c \in Channel /\ ~c.run /\ c.queued = 0 /\ c.residue = 0
      /\ c.des0cnt = 0 /\ c.rbr = 0 /\ c.isr = "none"
  BY DEF Cleared
<1>2. u = 0 /\ 0 \in PeriodSet /\ PrevPeriod(NextPeriod(0)) = 0
  <2>1. 0 \in PeriodSet /\ u = 0
    BY StreamAssumption, ChannelAssumption DEF PeriodSet, UnitOf
  <2> QED BY <2>1, PeriodFacts
<1>3. /\ a \in Channel /\ a.queued = 1
      /\ LastSlot(a) = 0 /\ a.residue = 0
      /\ a.ring[0].unit = u /\ a.ring[0].left = Units /\ a.ring[0].end
      /\ SameEngine(a, c)
  <2>1. u \in Nat
    BY <1>2
  <2>2. /\ a \in Channel /\ a.queued = c.queued + 1
        /\ LastSlot(a) = c.des0cnt /\ a.residue = c.residue
        /\ a.ring[c.des0cnt].unit = u /\ a.ring[c.des0cnt].left = Units
        /\ a.ring[c.des0cnt].end
        /\ SameEngine(a, c)
    BY <1>1, <2>1, AddFacts
  <2> HIDE DEF a, u
  <2> QED BY <2>2, <1>1
<1>4. y = [b EXCEPT !.cpr = 0, !.run = TRUE, !.eng = "fetch"]
  <2>1. ~Full(c)
    BY <1>1, ChannelAssumption DEF Full
  <2>2. ~b.run
    BY <1>1, <1>3 DEF Channel, SameEngine
  <2> QED BY <2>1, <2>2 DEF wmt_start_dma
<1> HIDE DEF u, a, y
<1>5. Clamp(a.residue + 1) = 1 /\ 1 \in Slots /\ 0 \in Slots
  BY <1>3, ChannelAssumption DEF Clamp, Slots
<1>6. b = [a EXCEPT !.residue = 1]
  BY <1>3, <1>5
<1> HIDE DEF b
<1>7. /\ b \in Channel /\ b.residue = 1 /\ b.queued = a.queued
      /\ b.ring = a.ring /\ b.des0cnt = a.des0cnt /\ SameEngine(b, a)
  BY <1>3, <1>5, <1>6 DEF Channel, SameEngine
<1>8. /\ y \in Channel /\ y.residue = 1 /\ y.queued = b.queued
      /\ y.ring = b.ring /\ y.des0cnt = b.des0cnt /\ y.eng = "fetch"
      /\ y.cpr = 0 /\ y.rbr = b.rbr /\ y.run /\ y.isr = b.isr
  BY <1>4, <1>5, <1>7 DEF Channel
<1>9. /\ y.queued = 1 /\ LastSlot(y) = 0 /\ y.rbr = 0 /\ y.isr = "none"
      /\ y.ring[0].unit = 0 /\ y.ring[0].left = Units /\ y.ring[0].end
  BY <1>1, <1>2, <1>3, <1>7, <1>8 DEF SameEngine, LastSlot
<1>10. HeadAt(y, 0, 0)
  BY <1>2, <1>8, <1>9, ChannelAssumption DEF HeadAt, u
<1>11. Running(y, NextPeriod(0), 0)
  BY <1>2, <1>8, <1>9, <1>10 DEF Running
<1> QED BY <1>8, <1>9, <1>11 DEF y, u

(* The descriptor at cpr is rewritten to what the engine has left of it:   *)
(* nothing else changes, and the engine goes on where it was.              *)
LEMMA ReviseFacts ==
  ASSUME NEW c, NEW p, NEW d, Running(c, p, d)
  PROVE  LET y == revise_descript(c)
         IN  /\ Running(y, p, d) /\ SameEngine(y, c)
             /\ y.queued = c.queued /\ y.residue = c.residue
             /\ c.rbr > 0 => /\ y.ring[c.cpr].left = c.rbr
                             /\ y.ring[c.cpr].unit = c.dar
<1> DEFINE y == revise_descript(c)
           e == [c.ring[c.cpr] EXCEPT !.left = c.rbr, !.unit = c.dar]
           r == [c.ring EXCEPT ![c.cpr] = e]
<1>1. c \in Channel
  BY DEF Running
<1>2. /\ c.ring \in [Slots -> Descriptor] /\ c.cpr \in Slots
      /\ c.ring[c.cpr] \in Descriptor /\ c.rbr \in 0 .. Units /\ c.dar \in Nat
      /\ c.rbr \in Nat /\ LastSlot(c) \in Slots /\ c.queued \in Nat
      /\ PrevSlot(LastSlot(c)) # LastSlot(c)
  BY <1>1, ChannelTypes, SlotFacts
<1>3. CASE ~(c.rbr > 0)
  <2>1. y = c
    BY <1>3 DEF revise_descript
  <2> HIDE DEF y
  <2> QED BY <2>1, <1>3 DEF SameEngine, y
<1>4. CASE c.rbr > 0
  <2>1. /\ e \in Descriptor /\ e.left = c.rbr /\ e.unit = c.dar
        /\ e.end = c.ring[c.cpr].end
    BY <1>2 DEF Descriptor
  <2>2. y = [c EXCEPT !.ring = r]
    BY <1>1, <1>2, <1>4 DEF revise_descript, Channel, Descriptor
  <2> HIDE DEF e
  <2>3. /\ r \in [Slots -> Descriptor] /\ r[c.cpr] = e
        /\ \A i \in Slots : i # c.cpr => r[i] = c.ring[i]
    BY <1>2, <2>1
  <2> HIDE DEF r, y
  <2>4. y \in Channel
    BY <1>1, <2>2, <2>3, SetField
  <2>5. /\ y.ring = r /\ SameEngine(y, c) /\ y.queued = c.queued
        /\ y.residue = c.residue /\ y.des0cnt = c.des0cnt
    BY <1>1, <2>2 DEF Channel, SameEngine
  <2>6. LastSlot(y) = LastSlot(c)
    BY <2>5 DEF LastSlot
  <2>7. ASSUME NEW k, HeadAt(c, k, d) PROVE HeadAt(y, k, d)
    <3>1. c.eng = "fetch" => /\ c.ring[c.cpr].left = c.rbr
                             /\ c.ring[c.cpr].unit = c.dar
      BY <2>7, <1>4 DEF HeadAt
    <3> QED BY <1>2, <1>4, <2>1, <2>3, <2>5, <2>7, <3>1 DEF HeadAt, SameEngine
  <2>8. c.queued # 0
    BY <1>2, <1>4 DEF Running
  <2>9. CASE c.queued = 1
    BY <1>2, <2>1, <2>3, <2>4, <2>5, <2>6, <2>7, <2>9
    DEF Running, SameEngine, y
  <2>10. CASE c.queued = 2
    BY <1>2, <2>1, <2>3, <2>4, <2>5, <2>6, <2>7, <2>10
    DEF Running, SameEngine, y
  <2>11. c.queued \in {1, 2}
    BY <1>2, <2>8 DEF Running
  <2> QED BY <2>9, <2>10, <2>11
<1> QED BY <1>3, <1>4

(* A change of isr and residue does not concern the engine.                *)
SetIrq(c, v, n) == [c EXCEPT !.isr = v, !.residue = n]

LEMMA IrqFacts ==
  ASSUME NEW c, NEW p, NEW d, Running(c, p, d),
         NEW v \in {"none", "success", "error"}, NEW n \in Slots
  PROVE  LET y == SetIrq(c, v, n)
         IN  /\ Running(y, p, d) /\ y.queued = c.queued /\ y.residue = n
             /\ y.isr = v /\ y.eng = c.eng /\ y.rbr = c.rbr
<1> DEFINE y == SetIrq(c, v, n)
<1>1. c \in Channel
  BY DEF Running
<1>2. y \in Channel
  BY <1>1, SetField DEF SetIrq
<1>3. /\ y.ring = c.ring /\ y.des0cnt = c.des0cnt /\ y.run = c.run
      /\ y.eng = c.eng /\ y.cpr = c.cpr /\ y.rbr = c.rbr /\ y.dar = c.dar
      /\ y.queued = c.queued /\ y.isr = v /\ y.residue = n
  BY <1>1 DEF Channel, SetIrq
<1> HIDE DEF y
<1>4. LastSlot(y) = LastSlot(c)
  BY <1>3 DEF LastSlot
<1>5. \A k : HeadAt(c, k, d) => HeadAt(y, k, d)
  BY <1>3 DEF HeadAt
<1>6. Running(y, p, d)
  BY <1>2, <1>3, <1>4, <1>5 DEF Running
<1> QED BY <1>3, <1>6 DEF y

(* What dma_irq_handler does before the callback.                          *)
LEMMA FinishedFacts ==
  ASSUME NEW c, NEW p, NEW d, Running(c, p, d), c.residue > 0,
         NEW y \in Finished(c)
  PROVE  /\ Running(y, p, d) /\ y.queued = c.queued
         /\ y.residue = c.residue - 1 /\ y.isr = "none" /\ y.eng = c.eng
         /\ y.rbr = c.rbr
<1>1. ASSUME NEW a, Running(a, p, d), a.residue = c.residue,
             y = [a EXCEPT !.isr = "none",
                           !.residue = IF @ > 0 THEN @ - 1 ELSE @]
      PROVE  /\ Running(y, p, d) /\ y.queued = a.queued
             /\ y.residue = c.residue - 1 /\ y.isr = "none" /\ y.eng = a.eng
             /\ y.rbr = a.rbr
  <2>1. a \in Channel /\ a.residue \in Slots
    BY <1>1, ChannelTypes DEF Running
  <2>2. a.residue - 1 \in Slots
    BY <1>1, <2>1, ChannelAssumption DEF Slots
  <2>3. y = SetIrq(a, "none", a.residue - 1)
    BY <1>1, <2>1 DEF Channel, SetIrq
  <2>4. Running(a, p, d) /\ a.residue = c.residue
    BY <1>1
  <2>5. /\ Running(y, p, d) /\ y.queued = a.queued
        /\ y.residue = a.residue - 1 /\ y.isr = "none" /\ y.eng = a.eng
        /\ y.rbr = a.rbr
    BY <2>2, <2>3, <2>4, IrqFacts
  <2> QED BY <2>4, <2>5
<1>2. /\ Running(revise_descript(c), p, d)
      /\ revise_descript(c).residue = c.residue
      /\ revise_descript(c).queued = c.queued
      /\ revise_descript(c).eng = c.eng /\ revise_descript(c).rbr = c.rbr
  BY ReviseFacts DEF SameEngine
<1>3. CASE y = [c EXCEPT !.isr = "none",
                         !.residue = IF @ > 0 THEN @ - 1 ELSE @]
  BY <1>1, <1>3
<1>4. CASE y = [revise_descript(c) EXCEPT
                  !.isr = "none", !.residue = IF @ > 0 THEN @ - 1 ELSE @]
  BY <1>1, <1>2, <1>4
<1> QED BY <1>3, <1>4 DEF Finished

-----------------------------------------------------------------------------
(* The functions of the stream.                                            *)

Stream == [active : BOOLEAN, period : PeriodSet, periods : Nat]

LEMMA ProcessFacts ==
  ASSUME Submits = 1, NEW c, NEW t \in Stream, NEW d,
         Running(c, t.period, d), t.active, c.queued <= 1, c.residue <= 1
  PROVE  LET x == audio_process_dma(c, t)
         IN  /\ Running(x[1], x[2].period, d)
             /\ x[1].queued = c.queued + 1 /\ x[1].residue = c.residue + 1
             /\ x[1].isr = c.isr /\ (x[1].eng = "halted" <=> c.eng = "halted")
             /\ x[2] \in Stream /\ x[2].active /\ x[2].periods = t.periods + 1
             /\ \A w, g : Follows(c, t.period, d, w, g)
                            => Follows(x[1], x[2].period, d, w, g)
<1> DEFINE p == t.period
           y == wmt_start_dma(c, UnitOf(p))
           n == [t EXCEPT !.period = (@ + 1) % Periods, !.periods = @ + 1]
<1>1. p \in PeriodSet /\ t.periods \in Nat
  BY DEF Stream
<1>2. c.residue \in Nat
  BY ChannelTypes DEF Running
<1>3. audio_process_dma(c, t) = <<y, n>>
  BY <1>2, ChannelAssumption DEF audio_process_dma, Full, UnitOf
<1>4. /\ n \in Stream /\ n.period = NextPeriod(p) /\ n.active
      /\ n.periods = t.periods + 1
  <2>1. (p + 1) % Periods = NextPeriod(p) /\ NextPeriod(p) \in PeriodSet
    BY <1>1, PeriodFacts
  <2>2. n = [t EXCEPT !.period = NextPeriod(p), !.periods = t.periods + 1]
    BY <2>1 DEF Stream
  <2> HIDE DEF n
  <2>3. NextPeriod(p) \in PeriodSet /\ t.periods + 1 \in Nat /\ t \in Stream
    BY <2>1, <1>1
  <2>4. n \in Stream
    BY <2>2, <2>3 DEF Stream
  <2> QED BY <2>2, <2>3, <2>4 DEF Stream
<1>5. /\ Running(y, NextPeriod(p), d)
      /\ y.queued = c.queued + 1 /\ y.residue = c.residue + 1
      /\ y.isr = c.isr /\ (y.eng = "halted" <=> c.eng = "halted")
      /\ c.queued # 0 => y.eng = c.eng /\ y.rbr = c.rbr
  BY <1>1, QueueFacts
<1> HIDE DEF y, n
<1>6. ASSUME NEW w, NEW g, Follows(c, p, d, w, g)
      PROVE  Follows(y, n.period, d, w, g)
  <2>1. c.queued \in Nat
    BY ChannelTypes DEF Running
  <2>2. PrevPeriod(n.period) = p
    BY <1>1, <1>4, PeriodFacts
  <2>3. CASE g = "no"
    BY <1>6, <2>3 DEF Follows
  <2>4. CASE g # "no"
    BY <1>5, <1>6, <2>1, <2>2, <2>4 DEF Follows
  <2> QED BY <2>3, <2>4
<1> QED BY <1>3, <1>4, <1>5, <1>6

(* A stream that has played at least one interrupt's worth: the callback   *)
(* leaves it playing, or stops it.                                         *)
LEMMA CallbackFacts ==
  ASSUME Submits = 1, NEW c, NEW t \in Stream, NEW d,
         Running(c, t.period, d), t.active, t.periods \in 1 .. 2,
         c.residue = t.periods - 1, c.queued <= c.residue, c.isr = "none",
         c.eng # "halted", NEW avail \in BOOLEAN
  PROVE  LET x == audio_dma_callback(c, t, avail, FALSE)
         IN  /\ x[2] \in Stream /\ Playing(x[1], x[2], d)
             /\ \A w, g : Follows(c, t.period, d, w, g)
                            => Follows(x[1], x[2].period, d, w, g)
<1> DEFINE x0 == wmt_pcm_pointer(c, t, avail)
           t1 == [x0[2] EXCEPT !.periods = IF @ > 0 THEN @ - 1 ELSE @]
           x == audio_dma_callback(c, t, avail, FALSE)
<1>1. c.queued \in Nat /\ c.residue \in Nat /\ t.period \in PeriodSet
  BY ChannelTypes DEF Running, Stream
<1>2. x = audio_process_dma(x0[1], t1)
  BY DEF audio_dma_callback, snd_pcm_period_elapsed
<1>3. /\ Running(x0[1], x0[2].period, d) /\ x0[2] \in Stream /\ x0[2].active
      /\ x0[1].isr = "none" /\ x0[1].eng # "halted"
      /\ x0[2].periods \in 1 .. 2 /\ x0[1].residue = x0[2].periods - 1
      /\ x0[1].queued <= x0[1].residue
      /\ \A w, g : Follows(c, t.period, d, w, g)
                     => Follows(x0[1], x0[2].period, d, w, g)
  <2>1. CASE t.periods = 1 /\ avail
    <3>1. x0 = audio_process_dma(c, t)
      BY <2>1 DEF wmt_pcm_pointer
    <3> HIDE DEF x0
    <3>2. c.queued = 0 /\ c.residue = 0
      BY <2>1, <1>1
    <3> QED BY <3>1, <3>2, <2>1, ProcessFacts
  <2>2. CASE ~(t.periods = 1 /\ avail)
    <3>1. x0 = <<c, t>>
      BY <2>2 DEF wmt_pcm_pointer
    <3> QED BY <3>1
  <2> QED BY <2>1, <2>2
<1> HIDE DEF x0
<1>4. /\ t1 \in Stream /\ t1.active /\ t1.period = x0[2].period
      /\ t1.periods = x0[1].residue /\ x0[1].residue \in 0 .. 1
  BY <1>3 DEF Stream
<1>5. x0[1].queued \in Nat
  BY <1>3, ChannelTypes DEF Running
<1> HIDE DEF t1, x
<1>6. /\ Running(x[1], x[2].period, d)
      /\ x[1].queued = x0[1].queued + 1 /\ x[1].residue = x0[1].residue + 1
      /\ x[1].isr = "none" /\ x[1].eng # "halted"
      /\ x[2] \in Stream /\ x[2].active /\ x[2].periods = t1.periods + 1
      /\ \A w, g : Follows(x0[1], t1.period, d, w, g)
                     => Follows(x[1], x[2].period, d, w, g)
  <2>1. x0[1].queued <= 1 /\ x0[1].residue <= 1
    BY <1>3, <1>4, <1>5
  <2> QED BY <2>1, <1>2, <1>3, <1>4, ProcessFacts
<1>7. Playing(x[1], x[2], d)
  BY <1>3, <1>4, <1>5, <1>6 DEF Playing
<1>8. ASSUME NEW w, NEW g, Follows(c, t.period, d, w, g)
      PROVE  Follows(x[1], x[2].period, d, w, g)
  BY <1>3, <1>4, <1>6, <1>8
<1> QED BY <1>6, <1>7, <1>8 DEF x

-----------------------------------------------------------------------------
(* Channels without a stream.                                              *)

LEMMA ClearFacts ==
  ASSUME NEW c \in Channel
  PROVE  Cleared(wmt_clear_dma(c)) /\ Cleared(wmt_clear_dma(wmt_stop_dma(c)))
<1>1. ASSUME NEW a \in Channel PROVE Cleared(wmt_clear_dma(a))
  <2>1. /\ 0 \in Slots /\ 0 \in 0 .. Units /\ 0 \in Nat
    BY ChannelAssumption DEF Slots
  <2>2. wmt_clear_dma(a) \in Channel
    BY <2>1, SetField DEF wmt_clear_dma
  <2> QED BY <2>2 DEF Channel, Cleared, wmt_clear_dma
<1>2. wmt_stop_dma(c) \in Channel
  BY SetField DEF wmt_stop_dma
<1> QED BY <1>1, <1>2

LEMMA SetupFacts ==
  ASSUME NEW c, Cleared(c)
  PROVE  Cleared(wmt_setup_dma(c))
<1>1. c \in Channel
  BY DEF Cleared
<1>2. wmt_setup_dma(c) \in Channel
  BY <1>1, SetField DEF wmt_setup_dma
<1> QED BY <1>1, <1>2 DEF Channel, Cleared, wmt_setup_dma

LEMMA RequestedFacts == Cleared(wmt_request_dma)
<1>1. /\ 0 \in Slots /\ 0 \in 0 .. Units
      /\ [i \in Slots |-> Unused] \in [Slots -> Descriptor]
  BY ChannelAssumption DEF Slots, Unused, Descriptor
<1>2. wmt_request_dma \in Channel
  BY <1>1 DEF wmt_request_dma, Channel, Descriptor
<1> QED BY <1>2 DEF wmt_request_dma, Cleared

LEMMA IdleFacts ==
  /\ Idle \in Stream /\ ~Idle.active /\ Idle.period = 0 /\ Idle.periods = 0
  /\ 0 \in 0 .. BufferUnits - 1 /\ BufferUnits \in Nat /\ BufferUnits > 0
<1>1. 0 \in PeriodSet
  BY StreamAssumption DEF PeriodSet
<1>2. BufferUnits \in Nat /\ BufferUnits > 0
  BY <1>1, UnitFacts, ChannelAssumption
<1> QED BY <1>1, <1>2 DEF Idle, Stream

(* The parts of the types that the steps have in common.                   *)
PcmStates == {"closed", "setup", "prepared", "running", "paused",
              "suspended", "resumed"}
Reasons == {"no", "stopped", "failed"}

LEMMA Silent ==
  ASSUME Cleared(dma'), s' = Idle, pcm' \in PcmStates \ {"running"},
         due' \in 0 .. BufferUnits - 1, errors' \in 0 .. MaxErrors,
         again' = "stopped" \/ (again' = "no" /\ due' = 0)
  PROVE  IInv'
<1>1. TypeOK'
  BY IdleFacts DEF TypeOK, Cleared, PcmStates, Stream, PeriodSet
<1> QED BY <1>1, IdleFacts DEF IInv, PcmStates

LEMMA Sounds ==
  ASSUME NEW d, Playing(dma', s', d), Follows(dma', s'.period, d, due', again'),
         s' \in Stream, pcm' = "running", due' \in 0 .. BufferUnits - 1,
         again' \in Reasons, errors' \in 0 .. MaxErrors
  PROVE  IInv'
<1>1. dma' \in Channel /\ s'.active
  BY DEF Playing, Running
<1>2. TypeOK'
  BY <1>1 DEF TypeOK, Stream, PeriodSet, Reasons
<1> QED BY <1>1, <1>2 DEF IInv

(* What the invariant says of the state a step starts in.                  *)
LEMMA Before ==
  ASSUME IInv
  PROVE  /\ s \in Stream /\ pcm \in PcmStates /\ due \in 0 .. BufferUnits - 1
         /\ errors \in 0 .. MaxErrors /\ dma \in Channel /\ again \in Reasons
         /\ s.active <=> pcm = "running"
         /\ s.active => \E d : Playing(dma, s, d)
                               /\ Follows(dma, s.period, d, due, again)
         /\ ~s.active => /\ s = Idle /\ Cleared(dma)
                         /\ again = "stopped" \/ (again = "no" /\ due = 0)
BY DEF IInv, TypeOK, Stream, PeriodSet, PcmStates, Reasons

-----------------------------------------------------------------------------
LEMMA InitInv == Init => IInv
<1> SUFFICES ASSUME Init PROVE IInv
  OBVIOUS
<1>1. /\ Cleared(dma) /\ s = Idle /\ pcm = "closed" /\ due = 0 /\ errors = 0
      /\ again = "no"
  BY RequestedFacts DEF Init
<1>2. TypeOK
  BY <1>1, IdleFacts, StreamAssumption
  DEF TypeOK, Cleared, Stream, PeriodSet
<1> QED BY <1>1, <1>2, IdleFacts DEF IInv

LEMMA SetupInv ==
  ASSUME IInv, wmt_pcm_open \/ wmt_pcm_close \/ wmt_pcm_prepare \/ wmt_pcm_resume
  PROVE  IInv'
<1>1. /\ pcm # "running" /\ pcm' \in PcmStates \ {"running"}
      /\ \/ UNCHANGED <<due, again>>
         \/ due' = 0 /\ again' = "no"
      /\ errors' = errors
  BY DEF wmt_pcm_open, wmt_pcm_close, wmt_pcm_prepare, wmt_pcm_resume, Stopped,
         PcmStates
<1>2. /\ s = Idle /\ Cleared(dma) /\ errors' \in 0 .. MaxErrors
      /\ due' \in 0 .. BufferUnits - 1
      /\ again' = "stopped" \/ (again' = "no" /\ due' = 0)
  BY <1>1, Before, IdleFacts
<1>3. dma \in Channel
  BY Before
<1>4. CASE wmt_pcm_open
  <2>1. s' = s /\ (dma' = dma \/ dma' = wmt_request_dma)
    BY <1>4 DEF wmt_pcm_open, Becomes
  <2>2. Cleared(dma')
    BY <2>1, <1>2, RequestedFacts
  <2> QED BY <2>1, <2>2, <1>1, <1>2, Silent
<1>5. CASE wmt_pcm_close
  <2>1. s' = s /\ (dma' = dma \/ dma' = wmt_clear_dma(dma))
    BY <1>5 DEF wmt_pcm_close, Becomes
  <2>2. Cleared(dma')
    BY <2>1, <1>2, <1>3, ClearFacts
  <2> QED BY <2>1, <2>2, <1>1, <1>2, Silent
<1>6. CASE wmt_pcm_prepare
  <2>1. dma' = wmt_setup_dma(dma) /\ s' = [s EXCEPT !.period = 0, !.periods = 0]
    BY <1>6 DEF wmt_pcm_prepare, Becomes
  <2>2. Cleared(dma') /\ s' = Idle
    BY <2>1, <1>2, SetupFacts DEF Idle
  <2> QED BY <2>2, <1>1, <1>2, Silent
<1>7. CASE wmt_pcm_resume
  <2>1. dma' = wmt_setup_dma(dma) /\ s' = s
    BY <1>7 DEF wmt_pcm_resume, Becomes
  <2>2. Cleared(dma')
    BY <2>1, <1>2, SetupFacts
  <2> QED BY <2>1, <2>2, <1>1, <1>2, Silent
<1> QED BY <1>4, <1>5, <1>6, <1>7

LEMMA StartInv == ASSUME Submits = 1, IInv, Start PROVE IInv'
<1> DEFINE y == wmt_start_dma(dma, UnitOf(0))
           a == [s EXCEPT !.active = TRUE]
           t == [a EXCEPT !.period = (@ + 1) % Periods, !.periods = @ + 1]
<1>1. /\ pcm \in {"prepared", "paused", "resumed"} /\ pcm' = "running"
      /\ UNCHANGED <<due, again, errors>> /\ Becomes(TriggerStart(dma, s))
  BY DEF Start
<1>2. /\ s = Idle /\ Cleared(dma) /\ errors \in 0 .. MaxErrors
      /\ due \in 0 .. BufferUnits - 1 /\ again \in Reasons
      /\ again = "stopped" \/ (again = "no" /\ due = 0)
  BY <1>1, Before
<1>3. /\ Running(y, NextPeriod(0), 0) /\ y.queued = 1 /\ y.residue = 1
      /\ y.isr = "none" /\ y.eng = "fetch"
  BY <1>2, FirstFacts
<1>4. 0 \in PeriodSet /\ NextPeriod(0) \in PeriodSet /\ (0 + 1) % Periods = NextPeriod(0)
  <2>1. 0 \in PeriodSet
    BY StreamAssumption DEF PeriodSet
  <2> QED BY <2>1, PeriodFacts
<1>5. a \in Stream /\ a.active /\ a.period = 0 /\ a.periods = 0
  BY <1>2, IdleFacts DEF Stream
<1>6. dma' = y /\ s' = t
  <2>1. ~Full(dma)
    BY <1>2, ChannelAssumption DEF Full, Cleared
  <2>2. TriggerStart(dma, s) = audio_process_dma(dma, a)
    BY DEF TriggerStart
  <2> HIDE DEF a
  <2>3. audio_process_dma(dma, a) = <<y, t>>
    BY <2>1, <1>5 DEF audio_process_dma, UnitOf
  <2> QED BY <2>2, <2>3, <1>1 DEF Becomes
<1> HIDE DEF a
<1>7. t \in Stream /\ t.active /\ t.period = NextPeriod(0) /\ t.periods = 1
  <2>0. (a.period + 1) % Periods = NextPeriod(0) /\ a.periods + 1 = 1
    BY <1>4, <1>5
  <2>1. t = [a EXCEPT !.period = NextPeriod(0), !.periods = 1]
    BY <2>0, <1>5 DEF Stream
  <2> HIDE DEF t
  <2> QED BY <2>1, <1>4, <1>5 DEF Stream
<1> HIDE DEF y, t
<1>8. Playing(y, t, 0)
  BY <1>3, <1>7 DEF Playing
<1>9. Follows(y, t.period, 0, due, again)
  BY <1>2, <1>3 DEF Follows
<1> QED BY <1>1, <1>2, <1>6, <1>7, <1>8, <1>9, Sounds

LEMMA StopInv == ASSUME IInv, Stop PROVE IInv'
<1>1. /\ dma' = wmt_clear_dma(wmt_stop_dma(dma)) /\ s' = Idle
      /\ pcm' \in {"setup", "paused", "suspended"}
      /\ errors' = errors /\ due' = due
      /\ again' = IF s'.active THEN again ELSE "stopped"
  BY DEF Stop, Becomes, audio_stop_dma, StopForgets
<1>2. Cleared(dma')
  BY <1>1, Before, ClearFacts
<1>3. errors' \in 0 .. MaxErrors /\ due' \in 0 .. BufferUnits - 1
  BY <1>1, Before
<1>5. again' = "stopped"
  <2>1. s'.active = FALSE
    BY <1>1 DEF Idle
  <2> QED BY <1>1, <2>1
<1>6. again' = "stopped" \/ (again' = "no" /\ due' = 0)
  BY <1>5
<1>4. pcm' \in PcmStates \ {"running"}
  BY <1>1 DEF PcmStates
<1> QED BY <1>1, <1>2, <1>3, <1>4, <1>6, Silent

LEMMA PointerInv == ASSUME Submits = 1, IInv, Pointer PROVE IInv'
<1>1. PICK avail \in BOOLEAN : Becomes(wmt_pcm_pointer(dma, s, avail))
  BY DEF Pointer
<1>2. pcm = "running" /\ UNCHANGED <<pcm, due, again, errors>>
  BY DEF Pointer
<1>0. PICK d : Playing(dma, s, d) /\ Follows(dma, s.period, d, due, again)
  BY <1>2, Before
<1>3. /\ s \in Stream /\ s.active /\ Playing(dma, s, d) /\ again \in Reasons
      /\ due \in 0 .. BufferUnits - 1 /\ errors \in 0 .. MaxErrors
  BY <1>0, <1>2, Before
<1>4. CASE s.periods = 1 /\ avail
  <2> DEFINE x == audio_process_dma(dma, s)
  <2>1. wmt_pcm_pointer(dma, s, avail) = x
    BY <1>4 DEF wmt_pcm_pointer
  <2>2. dma' = x[1] /\ s' = x[2]
    BY <1>1, <2>1 DEF Becomes
  <2>3. /\ Running(dma, s.period, d) /\ dma.residue = 1 /\ dma.queued <= 1
        /\ dma.queued \in Nat
    <3>1. Running(dma, s.period, d) /\ dma.residue = 1 /\ dma.queued <= 1
      BY <1>3, <1>4 DEF Playing
    <3> QED BY <3>1, ChannelTypes DEF Running
  <2>4. /\ Running(x[1], x[2].period, d)
        /\ x[1].queued = dma.queued + 1 /\ x[1].residue = 2
        /\ x[1].isr = dma.isr /\ (x[1].eng = "halted" <=> dma.eng = "halted")
        /\ x[2] \in Stream /\ x[2].active /\ x[2].periods = 2
        /\ Follows(x[1], x[2].period, d, due, again)
    <3>1. dma.residue <= 1 /\ dma.residue + 1 = 2 /\ s.periods + 1 = 2
      BY <1>4, <2>3
    <3> QED BY <1>0, <1>3, <2>3, <3>1, ProcessFacts
  <2> HIDE DEF x
  <2>5. Playing(x[1], x[2], d)
    BY <1>3, <1>4, <2>3, <2>4 DEF Playing
  <2> QED BY <1>2, <1>3, <2>2, <2>4, <2>5, Sounds
<1>5. CASE ~(s.periods = 1 /\ avail)
  <2>1. wmt_pcm_pointer(dma, s, avail) = <<dma, s>>
    BY <1>3, <1>5 DEF wmt_pcm_pointer, Playing
  <2>2. dma' = dma /\ s' = s
    BY <1>1, <2>1 DEF Becomes
  <2> QED BY <1>0, <1>2, <1>3, <2>2, Sounds
<1> QED BY <1>4, <1>5

-----------------------------------------------------------------------------
(* The interrupts.                                                         *)

LEMMA TransferDoneInv == ASSUME Submits = 1, IInv, TransferDone PROVE IInv'
<1>1. PICK avail \in BOOLEAN, xrun \in BOOLEAN, c \in Finished(dma) :
        /\ Becomes(audio_dma_callback(c, s, avail, xrun))
        /\ pcm' = IF s.active /\ xrun THEN "setup" ELSE pcm
  BY DEF TransferDone
<1>2. /\ dma.isr = "success" /\ errors' = errors /\ due' = due
      /\ again' = IF s'.active THEN again ELSE "stopped"
  BY DEF TransferDone, StopForgets
<1>3. s.active
  BY <1>2, Before DEF Cleared
<1>0. PICK d : Playing(dma, s, d) /\ Follows(dma, s.period, d, due, again)
  BY <1>3, Before
<1>4. /\ s \in Stream /\ Playing(dma, s, d) /\ pcm = "running"
      /\ due \in 0 .. BufferUnits - 1 /\ errors \in 0 .. MaxErrors
      /\ again \in Reasons
  BY <1>0, <1>3, Before
<1>5. /\ Running(dma, s.period, d) /\ dma.residue = s.periods
      /\ s.periods \in 1 .. 2 /\ dma.queued < s.periods /\ dma.eng # "halted"
  BY <1>2, <1>4 DEF Playing
<1>6. /\ Running(c, s.period, d) /\ c.queued = dma.queued
      /\ c.residue = s.periods - 1 /\ c.isr = "none" /\ c.eng # "halted"
      /\ c.eng = dma.eng /\ c.rbr = dma.rbr
  BY <1>5, FinishedFacts
<1>7. c.queued <= c.residue /\ c.queued \in Nat
  <2>1. dma.queued \in Nat
    BY <1>5, ChannelTypes DEF Running
  <2> QED BY <2>1, <1>5, <1>6
<1>8. CASE xrun
  <2> DEFINE x == wmt_pcm_pointer(c, s, avail)
  <2>1. snd_pcm_period_elapsed(c, s, avail, xrun) = audio_stop_dma(x[1], x[2])
    BY <1>3, <1>8 DEF snd_pcm_period_elapsed
  <2>2. x[1] \in Channel
    <3>1. CASE s.periods = 1 /\ avail
      <4>1. x = audio_process_dma(c, s)
        BY <3>1 DEF wmt_pcm_pointer
      <4>2. c.queued <= 1 /\ c.residue <= 1
        BY <1>5, <1>6, <1>7
      <4>3. Running(audio_process_dma(c, s)[1], audio_process_dma(c, s)[2].period, d)
        BY <4>2, <1>3, <1>4, <1>6, ProcessFacts
      <4> QED BY <4>1, <4>3 DEF Running
    <3>2. CASE ~(s.periods = 1 /\ avail)
      <4>1. x = <<c, s>>
        BY <3>2, <1>5 DEF wmt_pcm_pointer
      <4> QED BY <4>1, <1>6 DEF Running
    <3> QED BY <3>1, <3>2
  <2> HIDE DEF x
  <2> DEFINE y == wmt_clear_dma(wmt_stop_dma(x[1]))
             t == [Idle EXCEPT !.periods = IF @ > 0 THEN @ - 1 ELSE @]
  <2>3. t = Idle /\ ~Idle.active
    BY DEF Idle
  <2>4. audio_dma_callback(c, s, avail, xrun) = audio_process_dma(y, t)
    BY <2>1 DEF audio_dma_callback, audio_stop_dma
  <2> HIDE DEF y, t
  <2>5. audio_process_dma(y, t) = <<y, Idle>>
    BY <2>3 DEF audio_process_dma
  <2>6. dma' = y /\ s' = Idle
    BY <1>1, <2>4, <2>5 DEF Becomes
  <2>7. Cleared(y)
    BY <2>2, ClearFacts DEF y
  <2>8. due' \in 0 .. BufferUnits - 1 /\ errors' \in 0 .. MaxErrors
    BY <1>2, <1>4
  <2>10. again' = "stopped"
    <3>1. s'.active = FALSE
      BY <2>6 DEF Idle
    <3> QED BY <1>2, <3>1
  <2>11. again' = "stopped" \/ (again' = "no" /\ due' = 0)
    BY <2>10
  <2>9. pcm' \in PcmStates \ {"running"}
    BY <1>1, <1>3, <1>8 DEF PcmStates
  <2> QED BY <2>6, <2>7, <2>8, <2>9, <2>11, Silent
<1>9. CASE ~xrun
  <2> DEFINE x == audio_dma_callback(c, s, avail, FALSE)
  <2>0. Follows(c, s.period, d, due, again)
    BY <1>0, <1>6 DEF Follows
  <2>1. /\ x[2] \in Stream /\ Playing(x[1], x[2], d)
        /\ Follows(x[1], x[2].period, d, due, again)
    BY <2>0, <1>3, <1>4, <1>5, <1>6, <1>7, CallbackFacts
  <2> HIDE DEF x
  <2>2. dma' = x[1] /\ s' = x[2] /\ pcm' = pcm
    BY <1>1, <1>9 DEF Becomes, x
  <2>3. s'.active
    BY <2>1, <2>2 DEF Playing
  <2> QED BY <1>2, <1>4, <2>1, <2>2, <2>3, Sounds
<1> QED BY <1>8, <1>9

(* After an error the engine reads again what is left of the descriptor.   *)
LEMMA TransferErrorInv == ASSUME IInv, TransferError PROVE IInv'
<1> DEFINE a == SetIrq(dma, "none", dma.residue)
           b == revise_descript(a)
           y == dma'
<1>1. /\ dma.isr = "error" /\ s' = s /\ UNCHANGED <<pcm, due, again, errors>>
      /\ y = Recovered(dma)
  BY DEF TransferError, Becomes
<1>2. s.active
  BY <1>1, Before DEF Cleared
<1>0. PICK d : Playing(dma, s, d) /\ Follows(dma, s.period, d, due, again)
  BY <1>2, Before
<1>3. /\ s \in Stream /\ Playing(dma, s, d) /\ pcm = "running"
      /\ due \in 0 .. BufferUnits - 1 /\ errors \in 0 .. MaxErrors
      /\ dma \in Channel /\ again \in Reasons
  BY <1>0, <1>2, Before
<1>4. Running(dma, s.period, d) /\ dma.eng = "halted" /\ dma.residue \in Slots
  BY <1>1, <1>3, ChannelTypes DEF Playing
<1>5. a = [dma EXCEPT !.isr = "none"]
  BY <1>3 DEF SetIrq, Channel
<1>6. /\ Running(a, s.period, d) /\ a.queued = dma.queued
      /\ a.residue = dma.residue /\ a.isr = "none" /\ a.eng = "halted"
      /\ a.rbr = dma.rbr
  BY <1>4, IrqFacts
<1>7. y = [b EXCEPT !.run = TRUE, !.eng = "fetch"]
  BY <1>1, <1>5 DEF Recovered, wmt_resume_dma
<1> HIDE DEF a, y
<1>8. /\ Running(b, s.period, d) /\ SameEngine(b, a)
      /\ b.queued = a.queued /\ b.residue = a.residue
      /\ a.rbr > 0 => /\ b.ring[a.cpr].left = a.rbr
                      /\ b.ring[a.cpr].unit = a.dar
  BY <1>6, ReviseFacts
<1> HIDE DEF b
<1>9. /\ y \in Channel /\ y.ring = b.ring /\ y.des0cnt = b.des0cnt
      /\ y.residue = b.residue /\ y.queued = b.queued /\ y.isr = b.isr
      /\ y.cpr = b.cpr /\ y.rbr = b.rbr /\ y.dar = b.dar
      /\ y.run /\ y.eng = "fetch"
  <2>1. b \in Channel
    BY <1>8 DEF Running
  <2>2. y \in Channel
    BY <1>7, <2>1, SetField
  <2> QED BY <1>7, <2>1, <2>2 DEF Channel
<1>10. LastSlot(y) = LastSlot(b)
  BY <1>9 DEF LastSlot
<1>11. b.queued # 0 /\ b.eng = "halted"
  BY <1>6, <1>8 DEF Running, SameEngine
<1>12. ASSUME NEW k, HeadAt(b, k, d) PROVE HeadAt(y, k, d)
  <2>1. /\ b.dar + b.rbr = UnitOf(k) + Units
        /\ d = IF b.rbr > 0 THEN b.dar ELSE b.ring[b.cpr].unit
        /\ b.ring[b.cpr].unit + b.ring[b.cpr].left = UnitOf(k) + Units
        /\ b.ring[b.cpr].left > 0
    BY <1>11, <1>12 DEF HeadAt
  <2>2. b.rbr > 0 => /\ b.ring[b.cpr].left = b.rbr
                     /\ b.ring[b.cpr].unit = b.dar
    BY <1>8 DEF SameEngine
  <2> QED BY <1>9, <2>1, <2>2 DEF HeadAt
<1>13. Running(y, s.period, d)
  BY <1>8, <1>9, <1>10, <1>11, <1>12 DEF Running
<1>14. Playing(y, s, d)
  BY <1>3, <1>6, <1>8, <1>9, <1>11, <1>13 DEF Playing, SameEngine
<1>15. Follows(y, s.period, d, due, again)
  BY <1>0, <1>6, <1>8, <1>9 DEF Follows
<1> QED BY <1>1, <1>3, <1>14, <1>15, Sounds DEF y

-----------------------------------------------------------------------------
(* The engine: it works only for an active stream, on the first of the     *)
(* queued periods.                                                         *)

LEMMA EngineAt ==
  ASSUME IInv, dma.eng \in {"fetch", "xfer"}
  PROVE  /\ s \in Stream /\ pcm = "running" /\ again \in Reasons
         /\ due \in 0 .. BufferUnits - 1 /\ errors \in 0 .. MaxErrors
         /\ dma \in Channel /\ dma.queued \in {1, 2} /\ dma.isr # "error"
         /\ \E d : \E p \in PeriodSet :
              /\ Playing(dma, s, d) /\ Follows(dma, s.period, d, due, again)
              /\ HeadAt(dma, p, d)
              /\ dma.queued = 1 => p = PrevPeriod(s.period)
              /\ dma.queued = 2 => p = PrevPeriod(PrevPeriod(s.period))
<1>1. s.active
  BY Before DEF Cleared
<1>2. /\ s \in Stream /\ pcm = "running" /\ again \in Reasons
      /\ due \in 0 .. BufferUnits - 1 /\ errors \in 0 .. MaxErrors
      /\ dma \in Channel /\ s.period \in PeriodSet
  BY <1>1, Before DEF Stream
<1>3. PICK d : Playing(dma, s, d) /\ Follows(dma, s.period, d, due, again)
  BY <1>1, Before
<1>4. Running(dma, s.period, d) /\ dma.isr # "error"
  BY <1>3 DEF Playing
<1>5. dma.queued \in {1, 2}
  <2>1. dma.queued \in Nat
    BY <1>2, ChannelTypes
  <2> QED BY <1>4, <2>1 DEF Running
<1>6. /\ PrevPeriod(s.period) \in PeriodSet
      /\ PrevPeriod(PrevPeriod(s.period)) \in PeriodSet
  BY <1>2, PeriodFacts
<1>7. \E p \in PeriodSet :
        /\ HeadAt(dma, p, d)
        /\ dma.queued = 1 => p = PrevPeriod(s.period)
        /\ dma.queued = 2 => p = PrevPeriod(PrevPeriod(s.period))
  <2>1. CASE dma.queued = 1
    BY <1>4, <1>6, <2>1 DEF Running
  <2>2. CASE dma.queued = 2
    BY <1>4, <1>6, <2>2 DEF Running
  <2> QED BY <1>5, <2>1, <2>2
<1> QED BY <1>2, <1>3, <1>4, <1>5, <1>7

(* A step of the engine within a descriptor: it was about to move d, and   *)
(* is about to move e.                                                     *)
LEMMA WithinInv ==
  ASSUME IInv, dma.eng \in {"fetch", "xfer"}, dma' \in Channel,
         dma'.ring = dma.ring, dma'.des0cnt = dma.des0cnt,
         dma'.residue = dma.residue, dma'.queued = dma.queued,
         dma'.run = dma.run, dma'.cpr = dma.cpr,
         dma'.eng \in {"xfer", "halted"},
         \/ dma'.eng = "halted" /\ dma'.isr = "error"
         \/ dma'.eng = "xfer" /\ dma'.isr = dma.isr,
         UNCHANGED <<s, pcm>>, due' \in 0 .. BufferUnits - 1,
         errors' \in 0 .. MaxErrors, again' \in Reasons,
         NEW d, NEW e, NEW p \in PeriodSet, Playing(dma, s, d),
         dma.queued = 1 => p = PrevPeriod(s.period),
         dma.queued = 2 => p = PrevPeriod(PrevPeriod(s.period)),
         HeadAt(dma', p, e), Follows(dma', s.period, e, due', again')
  PROVE  IInv'
<1> DEFINE y == dma'
<1>1. /\ s \in Stream /\ pcm = "running" /\ Running(dma, s.period, d)
      /\ dma.queued \in {1, 2} /\ dma.isr # "error"
  BY EngineAt DEF Playing
<1>4. /\ y \in Channel /\ y.ring = dma.ring /\ y.des0cnt = dma.des0cnt
      /\ y.residue = dma.residue /\ y.queued = dma.queued
      /\ y.run = dma.run /\ y.cpr = dma.cpr /\ y.eng \in {"xfer", "halted"}
      /\ \/ y.eng = "halted" /\ y.isr = "error"
         \/ y.eng = "xfer" /\ y.isr = dma.isr
      /\ HeadAt(y, p, e)
  OBVIOUS
<1> HIDE DEF y
<1>5. LastSlot(y) = LastSlot(dma)
  BY <1>4 DEF LastSlot
<1>6. Running(y, s.period, e)
  <2>1. CASE dma.queued = 1
    BY <1>1, <1>4, <1>5, <2>1 DEF Running
  <2>2. CASE dma.queued = 2
    BY <1>1, <1>4, <1>5, <2>2 DEF Running
  <2> QED BY <1>1, <2>1, <2>2
<1>7. Playing(y, s, e)
  BY <1>1, <1>4, <1>6 DEF Playing
<1> QED BY <1>1, <1>7, Sounds DEF y

LEMMA TransferInv == ASSUME IInv, Transfer PROVE IInv'
<1> DEFINE y == dma'
           e == due'
<1>1. /\ dma.eng = "xfer" /\ dma.rbr > 0 /\ UNCHANGED <<s, pcm, errors>>
      /\ y = [dma EXCEPT !.rbr = @ - 1, !.dar = @ + 1]
      /\ e = (dma.dar + 1) % BufferUnits /\ again' = "no"
  BY DEF Transfer, Move
<1>2. /\ dma \in Channel /\ dma.rbr \in 0 .. Units /\ dma.dar \in Nat
      /\ errors \in 0 .. MaxErrors
  BY Before, ChannelTypes
<1>3. BufferUnits \in Nat /\ BufferUnits > 0
  BY IdleFacts
<1>4. e \in 0 .. BufferUnits - 1
  BY <1>1, <1>2, <1>3
<1>5. dma.rbr - 1 \in 0 .. Units /\ dma.dar + 1 \in Nat
  BY <1>1, <1>2, ChannelAssumption
<1> HIDE DEF y
<1>6. y = [dma EXCEPT !.rbr = dma.rbr - 1, !.dar = dma.dar + 1]
  BY <1>1, <1>2 DEF Channel
<1>7. y \in Channel
  BY <1>2, <1>5, <1>6, SetField
<1>8. /\ y.ring = dma.ring /\ y.des0cnt = dma.des0cnt
      /\ y.residue = dma.residue /\ y.queued = dma.queued
      /\ y.run = dma.run /\ y.cpr = dma.cpr /\ y.eng = dma.eng
      /\ y.isr = dma.isr /\ y.rbr = dma.rbr - 1 /\ y.dar = dma.dar + 1
  BY <1>2, <1>6 DEF Channel
<1>9. PICK d : \E p \in PeriodSet :
        /\ Playing(dma, s, d) /\ HeadAt(dma, p, d)
        /\ dma.queued = 1 => p = PrevPeriod(s.period)
        /\ dma.queued = 2 => p = PrevPeriod(PrevPeriod(s.period))
  BY <1>1, EngineAt
<1>10. PICK p \in PeriodSet :
        /\ Playing(dma, s, d) /\ HeadAt(dma, p, d)
        /\ dma.queued = 1 => p = PrevPeriod(s.period)
        /\ dma.queued = 2 => p = PrevPeriod(PrevPeriod(s.period))
  BY <1>9
<1>11. HeadAt(y, p, e)
  <2>1. /\ dma.dar + dma.rbr = UnitOf(p) + Units
        /\ dma.ring[dma.cpr].unit + dma.ring[dma.cpr].left = UnitOf(p) + Units
        /\ dma.ring[dma.cpr].left > 0
    BY <1>1, <1>10 DEF HeadAt
  <2>2. /\ UnitOf(p) \in Nat /\ UnitOf(p) + Units <= BufferUnits
        /\ UnitOf(NextPeriod(p)) = IF UnitOf(p) + Units = BufferUnits THEN 0
                                   ELSE UnitOf(p) + Units
    BY UnitFacts
  <2>3. dma.dar < BufferUnits
    BY <1>1, <1>2, <1>3, <2>1, <2>2, ChannelAssumption
  <2>4. e = IF dma.dar + 1 = BufferUnits THEN 0 ELSE dma.dar + 1
    BY <1>1, <1>2, <1>3, <2>3, WrapFacts
  <2> HIDE DEF e
  <2>5. e = IF y.rbr > 0 THEN y.dar ELSE UnitOf(NextPeriod(p))
    BY <1>1, <1>2, <1>3, <1>8, <2>1, <2>2, <2>4, ChannelAssumption
  <2>6. y.dar + y.rbr = UnitOf(p) + Units
    BY <1>2, <1>8, <2>1
  <2> QED BY <1>1, <1>8, <2>1, <2>5, <2>6 DEF HeadAt
<1>12. Follows(y, s.period, e, due', again')
  BY <1>1 DEF Follows
<1> HIDE DEF e
<1>13. /\ dma.eng \in {"fetch", "xfer"} /\ y.eng = "xfer"
       /\ UNCHANGED <<s, pcm>> /\ errors' \in 0 .. MaxErrors
       /\ again' \in Reasons
  BY <1>1, <1>2, <1>8 DEF Reasons
<1> QED BY <1>4, <1>7, <1>8, <1>10, <1>11, <1>12, <1>13, WithinInv DEF y, e

LEMMA FetchInv ==
  ASSUME IInv, dma.eng = "fetch", dma' = Fetch(dma),
         UNCHANGED <<s, pcm, due, again, errors>>
  PROVE  IInv'
<1> DEFINE y == dma'
           r == dma.ring[dma.cpr]
<1>1. dma \in Channel /\ r.left \in 0 .. Units /\ r.unit \in Nat
  BY Before, ChannelTypes
<1>2. y = [dma EXCEPT !.eng = "xfer", !.rbr = r.left, !.dar = r.unit]
  BY DEF Fetch
<1> HIDE DEF y, r
<1>3. y \in Channel
  BY <1>1, <1>2, SetField
<1>4. /\ y.ring = dma.ring /\ y.des0cnt = dma.des0cnt
      /\ y.residue = dma.residue /\ y.queued = dma.queued
      /\ y.run = dma.run /\ y.cpr = dma.cpr /\ y.eng = "xfer"
      /\ y.isr = dma.isr /\ y.rbr = r.left /\ y.dar = r.unit
  BY <1>1, <1>2 DEF Channel
<1>5. /\ due \in 0 .. BufferUnits - 1 /\ errors \in 0 .. MaxErrors
      /\ again \in Reasons
  BY Before
<1>6. PICK d : \E p \in PeriodSet :
        /\ Playing(dma, s, d) /\ Follows(dma, s.period, d, due, again)
        /\ HeadAt(dma, p, d)
        /\ dma.queued = 1 => p = PrevPeriod(s.period)
        /\ dma.queued = 2 => p = PrevPeriod(PrevPeriod(s.period))
  BY EngineAt
<1>7. PICK p \in PeriodSet :
        /\ Playing(dma, s, d) /\ Follows(dma, s.period, d, due, again)
        /\ HeadAt(dma, p, d)
        /\ dma.queued = 1 => p = PrevPeriod(s.period)
        /\ dma.queued = 2 => p = PrevPeriod(PrevPeriod(s.period))
  BY <1>6
<1>8. HeadAt(y, p, d) /\ y.rbr > 0
  BY <1>1, <1>4, <1>7 DEF HeadAt, r
<1>9. Follows(y, s.period, d, due, again)
  BY <1>4, <1>7, <1>8 DEF Follows
<1> QED BY <1>3, <1>4, <1>5, <1>7, <1>8, <1>9, WithinInv DEF y

LEMMA EngineFailsInv == ASSUME IInv, EngineFails PROVE IInv'
<1> DEFINE y == dma'
           r == dma.ring[dma.cpr]
<1>1. /\ dma.eng = "xfer" /\ UNCHANGED <<s, pcm, due>>
      /\ errors < MaxErrors /\ errors' = errors + 1
      /\ y = [dma EXCEPT !.eng = "halted", !.isr = "error"]
      /\ again' = IF dma.rbr = 0 THEN "failed" ELSE again
  BY DEF EngineFails, Fail
<1>2. /\ dma \in Channel /\ errors \in 0 .. MaxErrors
      /\ due \in 0 .. BufferUnits - 1 /\ again \in Reasons /\ dma.rbr \in Nat
      /\ s.period \in PeriodSet
  BY Before, ChannelTypes DEF Stream
<1> HIDE DEF y, r
<1>3. y \in Channel
  BY <1>1, <1>2, SetField
<1>4. /\ y.ring = dma.ring /\ y.des0cnt = dma.des0cnt
      /\ y.residue = dma.residue /\ y.queued = dma.queued
      /\ y.run = dma.run /\ y.cpr = dma.cpr /\ y.eng = "halted"
      /\ y.isr = "error" /\ y.rbr = dma.rbr /\ y.dar = dma.dar
  BY <1>1, <1>2 DEF Channel
<1>5. errors' \in 0 .. MaxErrors /\ again' \in Reasons
  BY <1>1, <1>2, StreamAssumption DEF Reasons
<1>6. PICK d : \E p \in PeriodSet :
        /\ Playing(dma, s, d) /\ Follows(dma, s.period, d, due, again)
        /\ HeadAt(dma, p, d)
        /\ dma.queued = 1 => p = PrevPeriod(s.period)
        /\ dma.queued = 2 => p = PrevPeriod(PrevPeriod(s.period))
  BY <1>1, EngineAt
<1>7. PICK p \in PeriodSet :
        /\ Playing(dma, s, d) /\ Follows(dma, s.period, d, due, again)
        /\ HeadAt(dma, p, d)
        /\ dma.queued = 1 => p = PrevPeriod(s.period)
        /\ dma.queued = 2 => p = PrevPeriod(PrevPeriod(s.period))
  BY <1>6
<1>8. CASE dma.rbr > 0
  <2>1. HeadAt(y, p, d)
    BY <1>1, <1>4, <1>7, <1>8 DEF HeadAt
  <2>2. Follows(y, s.period, d, due, again')
    BY <1>1, <1>4, <1>7, <1>8 DEF Follows
  <2> QED BY <1>1, <1>2, <1>3, <1>4, <1>5, <1>7, <2>1, <2>2, WithinInv DEF y
<1>9. CASE dma.rbr = 0
  <2>1. HeadAt(y, p, r.unit)
    BY <1>1, <1>4, <1>7, <1>9 DEF HeadAt, r
  <2>2. dma.queued \in {1, 2}
    BY <1>1, EngineAt
  <2>3. due = UnitOf(NextPeriod(p))
    BY <1>1, <1>7, <1>9 DEF HeadAt, Follows
  <2>4. NextPeriod(p) = IF dma.queued = 1 THEN s.period ELSE PrevPeriod(s.period)
    BY <1>2, <1>7, <2>2, PeriodFacts
  <2>5. Follows(y, s.period, r.unit, due, again')
    BY <1>1, <1>4, <1>9, <2>2, <2>3, <2>4 DEF Follows
  <2> QED BY <1>1, <1>2, <1>3, <1>4, <1>5, <1>7, <2>1, <2>5, WithinInv DEF y
<1> QED BY <1>2, <1>8, <1>9

(* The end of a descriptor: the engine stops at the last one, and goes on  *)
(* with the next period otherwise.                                         *)
LEMMA CompleteInv ==
  ASSUME IInv, dma.eng = "xfer", dma.rbr = 0, dma' = Complete(dma),
         UNCHANGED <<s, pcm, due, again, errors>>
  PROVE  IInv'
<1> DEFINE y == dma'
           p == s.period
           x == [dma EXCEPT !.isr = "success", !.queued = @ - 1]
<1>0. PICK d : /\ Playing(dma, s, d)
               /\ Follows(dma, s.period, d, due, again)
  BY EngineAt
<1>1. /\ s \in Stream /\ Playing(dma, s, d) /\ pcm = "running"
      /\ due \in 0 .. BufferUnits - 1 /\ errors \in 0 .. MaxErrors
      /\ dma \in Channel /\ Running(dma, p, d)
      /\ dma.queued \in {1, 2} /\ p \in PeriodSet
  BY <1>0, EngineAt DEF Stream, Playing
<1>8. again = "no" /\ again \in Reasons /\ d = due
  BY <1>0 DEF Follows, Reasons
<1>9. Follows(y, p, d, due, again)
  BY <1>8 DEF Follows
<1>2. y = IF dma.ring[dma.cpr].end THEN [x EXCEPT !.eng = "parked"]
          ELSE [x EXCEPT !.cpr = NextSlot(@), !.eng = "fetch"]
  BY DEF Complete, Advance
<1>3. x = [dma EXCEPT !.isr = "success", !.queued = dma.queued - 1]
  BY <1>1 DEF Channel
<1> HIDE DEF x, y
<1>4. /\ x \in Channel /\ x.ring = dma.ring /\ x.des0cnt = dma.des0cnt
      /\ x.residue = dma.residue /\ x.run = dma.run /\ x.cpr = dma.cpr
      /\ x.eng = dma.eng /\ x.rbr = dma.rbr /\ x.isr = "success"
      /\ x.queued = dma.queued - 1
  <2>1. dma.queued - 1 \in Nat
    BY <1>1
  <2>2. x \in Channel
    BY <1>1, <1>3, <2>1, SetField
  <2> QED BY <1>1, <1>3, <2>2 DEF Channel
<1>5. /\ PrevPeriod(p) \in PeriodSet /\ NextPeriod(PrevPeriod(p)) = p
      /\ NextPeriod(PrevPeriod(PrevPeriod(p))) = PrevPeriod(p)
  BY <1>1, PeriodFacts
<1>6. CASE dma.queued = 1
  <2>1. /\ dma.cpr = LastSlot(dma) /\ dma.ring[dma.cpr].end
        /\ HeadAt(dma, PrevPeriod(p), d)
    BY <1>1, <1>6 DEF Running
  <2>2. d = UnitOf(p)
    BY <1>5, <2>1 DEF HeadAt
  <2>3. y = [x EXCEPT !.eng = "parked"]
    BY <1>2, <2>1
  <2>4. y \in Channel
    BY <1>4, <2>3, SetField
  <2>5. /\ y.ring = x.ring /\ y.des0cnt = x.des0cnt /\ y.residue = x.residue
        /\ y.run = x.run /\ y.cpr = x.cpr /\ y.eng = "parked"
        /\ y.rbr = x.rbr /\ y.isr = "success" /\ y.queued = x.queued
    BY <1>4, <2>3 DEF Channel
  <2>6. LastSlot(y) = LastSlot(dma)
    BY <1>4, <2>5 DEF LastSlot
  <2>7. Running(y, p, d)
    BY <1>1, <1>4, <1>6, <2>1, <2>2, <2>4, <2>5, <2>6 DEF Running
  <2>8. Playing(y, s, d)
    BY <1>1, <1>4, <1>6, <2>5, <2>7 DEF Playing
  <2> QED BY <1>1, <1>8, <1>9, <2>8, Sounds DEF y
<1>7. CASE dma.queued = 2
  <2>1. /\ dma.cpr = PrevSlot(LastSlot(dma)) /\ ~dma.ring[dma.cpr].end
        /\ dma.ring[LastSlot(dma)].unit = UnitOf(PrevPeriod(p))
        /\ dma.ring[LastSlot(dma)].left = Units
        /\ dma.ring[LastSlot(dma)].end
        /\ HeadAt(dma, PrevPeriod(PrevPeriod(p)), d)
    BY <1>1, <1>7 DEF Running
  <2>2. d = UnitOf(PrevPeriod(p))
    BY <1>5, <2>1 DEF HeadAt
  <2>3. LastSlot(dma) \in Slots /\ NextSlot(dma.cpr) = LastSlot(dma)
    BY <1>1, <2>1, ChannelTypes, SlotFacts
  <2>4. y = [x EXCEPT !.cpr = LastSlot(dma), !.eng = "fetch"]
    BY <1>2, <1>4, <2>1, <2>3 DEF Channel
  <2>5. y \in Channel
    BY <1>4, <2>3, <2>4, SetField
  <2>6. /\ y.ring = x.ring /\ y.des0cnt = x.des0cnt /\ y.residue = x.residue
        /\ y.run = x.run /\ y.cpr = LastSlot(dma) /\ y.eng = "fetch"
        /\ y.rbr = x.rbr /\ y.isr = "success" /\ y.queued = x.queued
    BY <1>4, <2>4 DEF Channel
  <2>7. LastSlot(y) = LastSlot(dma)
    BY <1>4, <2>6 DEF LastSlot
  <2>8. HeadAt(y, PrevPeriod(p), d)
    BY <1>4, <2>1, <2>2, <2>6, ChannelAssumption DEF HeadAt
  <2>9. Running(y, p, d)
    BY <1>1, <1>4, <1>7, <2>1, <2>5, <2>6, <2>7, <2>8 DEF Running
  <2>10. Playing(y, s, d)
    BY <1>1, <1>4, <1>7, <2>6, <2>9 DEF Playing
  <2> QED BY <1>1, <1>8, <1>9, <2>10, Sounds DEF y
<1> QED BY <1>1, <1>6, <1>7

-----------------------------------------------------------------------------
LEMMA NextInv == ASSUME Submits = 1 PROVE IInv /\ [Next]_vars => IInv'
<1> SUFFICES ASSUME IInv, [Next]_vars PROVE IInv'
  OBVIOUS
<1>1. CASE wmt_pcm_open \/ wmt_pcm_close \/ wmt_pcm_prepare \/ wmt_pcm_resume
  BY <1>1, SetupInv
<1>2. CASE Start \/ Stop \/ Pointer
  BY <1>2, StartInv, StopInv, PointerInv
<1>3. CASE Irq
  BY <1>3, TransferDoneInv, TransferErrorInv DEF Irq
<1>4. CASE Engine
  BY <1>4, TransferInv, FetchInv, CompleteInv DEF Engine
<1>5. CASE EngineFails
  BY <1>5, EngineFailsInv
<1>6. CASE UNCHANGED vars
  <2>1. /\ dma' = dma /\ s' = s /\ pcm' = pcm /\ due' = due
        /\ again' = again /\ errors' = errors
    BY <1>6 DEF vars
  <2>2. CASE s.active
    BY <2>1, <2>2, Before, Sounds
  <2>3. CASE ~s.active
    BY <2>1, <2>3, Before, Silent
  <2> QED BY <2>2, <2>3
<1> QED BY <1>1, <1>2, <1>3, <1>4, <1>5, <1>6 DEF Next

(* The inductive invariant holds of every stream with one buffer per       *)
(* period.                                                                 *)
THEOREM Invariant == ASSUME Submits = 1 PROVE Spec => []IInv
<1>1. IInv /\ [Next]_vars => IInv'
  BY NextInv
<1> QED BY <1>1, InitInv, PTL DEF Spec

(* The counters of the driver and of the channel keep their types.         *)
THEOREM TypeCorrect == ASSUME Submits = 1 PROVE Spec => []TypeOK
<1>1. Spec => []IInv
  BY Invariant
<1>2. IInv => TypeOK
  BY DEF IInv
<1> QED BY <1>1, <1>2, PTL

(* A stream that queues each period once never makes wmt_start_dma's third *)
(* call, through joined interrupts, errors, pointer calls and restarts.    *)
(* (Mono playback of 16 bit samples queues each period twice and does.)    *)
THEOREM NeverMoreThanTwo == ASSUME Submits = 1 PROVE Spec => []AtMostTwo
<1>1. Spec => []IInv
  BY Invariant
<1>2. IInv => AtMostTwo
  BY Before DEF AtMostTwo, Cleared, Playing, Running
<1> QED BY <1>1, <1>2, PTL

(* residue_des0cnt and the driver's count of periods cover what the engine *)
(* still has to do, also after joined interrupts and errors.               *)
THEOREM CountsCoverQueue == ASSUME Submits = 1 PROVE Spec => []CountsCover
<1>1. Spec => []IInv
  BY Invariant
<1>2. IInv => CountsCover
  <2> SUFFICES ASSUME IInv PROVE CountsCover
    OBVIOUS
  <2>1. CASE s.active
    BY <2>1, Before DEF CountsCover, Playing
  <2>2. CASE ~s.active
    BY <2>2, Before, IdleFacts DEF CountsCover, Cleared
  <2> QED BY <2>1, <2>2
<1> QED BY <1>1, <1>2, PTL

(* clear_last_descript and add_descript keep the END bit on the last       *)
(* queued descriptor and on no other, also across the end of the ring.     *)
THEOREM EndBitIsLast == ASSUME Submits = 1 PROVE Spec => []EndIsLast
<1>1. Spec => []IInv
  BY Invariant
<1>2. IInv => EndIsLast
  <2> SUFFICES ASSUME IInv, NEW k \in 1 .. dma.queued
               PROVE  dma.ring[SlotBack(k)].end = (k = 1)
    BY DEF EndIsLast
  <2>1. dma \in Channel /\ dma.queued \in Nat /\ dma.queued > 0
    BY Before, ChannelTypes
  <2>2. PICK d : Running(dma, s.period, d)
    BY <2>1, Before DEF Cleared, Playing
  <2>3. /\ dma.des0cnt \in Slots /\ LastSlot(dma) = PrevSlot(dma.des0cnt)
        /\ PrevSlot(dma.des0cnt) \in Slots
        /\ PrevSlot(PrevSlot(dma.des0cnt)) \in Slots
        /\ \A i \in Slots : dma.ring[i].end \in BOOLEAN
    BY <2>1, ChannelTypes, SlotFacts
  <2>4. SlotBack(1) = PrevSlot(dma.des0cnt)
    <3>1. CASE dma.des0cnt = 0
      BY <3>1, ChannelAssumption DEF SlotBack, PrevSlot
    <3>2. CASE dma.des0cnt # 0
      BY <3>2, <2>3, ChannelAssumption DEF SlotBack, PrevSlot, Slots
    <3> QED BY <3>1, <3>2
  <2>5. SlotBack(2) = PrevSlot(PrevSlot(dma.des0cnt))
    <3>1. CASE dma.des0cnt \in {0, 1}
      BY <3>1, ChannelAssumption DEF SlotBack, PrevSlot
    <3>2. CASE dma.des0cnt \notin {0, 1}
      BY <3>2, <2>3, ChannelAssumption DEF SlotBack, PrevSlot, Slots
    <3> QED BY <3>1, <3>2
  <2>6. CASE k = 1
    BY <2>2, <2>3, <2>4, <2>6 DEF Running
  <2>7. CASE k = 2
    <3>1. dma.queued = 2
      BY <2>1, <2>2, <2>7 DEF Running
    <3>2. ~dma.ring[SlotBack(2)].end
      BY <2>2, <2>3, <2>5, <3>1 DEF Running
    <3> QED BY <2>3, <2>5, <2>7, <3>2
  <2> QED BY <2>1, <2>2, <2>6, <2>7 DEF Running
<1> QED BY <1>1, <1>2, PTL

(* An active stream is never left with an engine that has stopped and no   *)
(* interrupt whose callback would queue the next period.                   *)
THEOREM StreamNeverStalls == ASSUME Submits = 1 PROVE Spec => []NoStall
<1>1. Spec => []IInv
  BY Invariant
<1>2. IInv => NoStall
  <2> SUFFICES ASSUME IInv, s.active, dma.isr = "none"
               PROVE  dma.eng \notin {"off", "parked"}
    BY DEF NoStall
  <2> QED BY Before DEF Playing, Running
<1> QED BY <1>1, <1>2, PTL

(* The units of the buffer are moved in the order of the buffer, none      *)
(* twice and none left out: after an error within a descriptor it is taken *)
(* up where the engine left it, and period follows period around both      *)
(* rings.  The engine goes back only after a pause or a suspension, to the *)
(* first unit, and after an error with nothing left, within the            *)
(* descriptor.                                                             *)
THEOREM UnitsMoveInOrder == ASSUME Submits = 1 PROVE Spec => InOrder
<1> DEFINE Ordered == Transfer => \/ dma.dar = due
                                  \/ again = "stopped" /\ dma.dar = 0
                                  \/ /\ again = "failed"
                                     /\ (dma.dar + dma.rbr) % BufferUnits = due
<1>1. Spec => []IInv
  BY Invariant
<1>2. IInv => Ordered
  <2> SUFFICES ASSUME IInv, Transfer
               PROVE  \/ dma.dar = due
                      \/ again = "stopped" /\ dma.dar = 0
                      \/ /\ again = "failed"
                         /\ (dma.dar + dma.rbr) % BufferUnits = due
    OBVIOUS
  <2>1. dma.eng = "xfer" /\ dma.rbr > 0
    BY DEF Transfer
  <2>2. PICK d : \E p \in PeriodSet :
          /\ Follows(dma, s.period, d, due, again) /\ HeadAt(dma, p, d)
          /\ dma.queued = 1 => p = PrevPeriod(s.period)
          /\ dma.queued = 2 => p = PrevPeriod(PrevPeriod(s.period))
    BY <2>1, EngineAt
  <2>3. PICK p \in PeriodSet :
          /\ Follows(dma, s.period, d, due, again) /\ HeadAt(dma, p, d)
          /\ dma.queued = 1 => p = PrevPeriod(s.period)
          /\ dma.queued = 2 => p = PrevPeriod(PrevPeriod(s.period))
    BY <2>2
  <2>4. d = dma.dar /\ dma.dar + dma.rbr = UnitOf(p) + Units
    BY <2>1, <2>3 DEF HeadAt
  <2>5. CASE again = "no"
    BY <2>3, <2>4, <2>5 DEF Follows
  <2>6. CASE again = "stopped"
    BY <2>3, <2>4, <2>6 DEF Follows
  <2>7. CASE again = "failed"
    <3>1. s.period \in PeriodSet /\ dma.queued \in {1, 2}
      BY <2>1, EngineAt DEF Stream
    <3>2. due = UnitOf(NextPeriod(p))
      BY <2>3, <2>7, <3>1, PeriodFacts DEF Follows
    <3>3. /\ UnitOf(p) \in Nat /\ BufferUnits \in Nat
          /\ UnitOf(p) + Units <= BufferUnits
          /\ due = IF UnitOf(p) + Units = BufferUnits THEN 0
                   ELSE UnitOf(p) + Units
      BY <3>2, UnitFacts
    <3>4. (UnitOf(p) + Units) % BufferUnits = due
      <4>1. CASE UnitOf(p) + Units = BufferUnits
        BY <3>3, <4>1, IdleFacts
      <4>2. CASE UnitOf(p) + Units # BufferUnits
        BY <3>3, <4>2, ChannelAssumption
      <4> QED BY <4>1, <4>2
    <3> QED BY <2>4, <2>7, <3>4
  <2>8. again \in Reasons
    BY Before
  <2> QED BY <2>5, <2>6, <2>7, <2>8 DEF Reasons
<1>3. IInv /\ [Next]_vars => [Ordered]_vars
  BY <1>2
<1> QED BY <1>1, <1>3, PTL DEF Spec, InOrder
=============================================================================
