----------------------------- MODULE I2cService -----------------------------
(***************************************************************************)
(* What an I2C master promises its callers, without queue entries, flags   *)
(* and registers: calls stand in one line, the bus carries the bytes of    *)
(* the first call in it, one after the other, and a call is answered with  *)
(* what became of its own bytes.                                           *)
(***************************************************************************)
EXTENDS Integers, Sequences

CONSTANTS
  Callers,   \* who may call
  Lists,     \* the message lists they may pass
  Attempts   \* how often a call is tried

VARIABLES
  active,    \* the callers whose call has not been answered
  asked,     \* caller -> the message list of its last call
  line,      \* the callers that wait for the bus, in order
  carried,   \* caller -> the bytes of this attempt carried so far
  refusals,  \* caller -> attempts of this call that a slave refused
  answer     \* caller -> what its last call came to

vars == <<active, asked, line, carried, refusals, answer>>

(* Byte i of message m is <<m, i>>, both from 0.                           *)
Bytes(s) == UNION {{m - 1} \X (0 .. s[m].len - 1) : m \in 1 .. Len(s)}
Before(a, b) == a[1] < b[1] \/ (a[1] = b[1] /\ a[2] < b[2])

InLine(p) == \E k \in 1 .. Len(line) : line[k] = p
Carried(p) == {carried[p][k] : k \in 1 .. Len(carried[p])}
Whole(p) == Carried(p) = Bytes(asked[p])

Init ==
  /\ active = {}
  /\ asked = [p \in Callers |-> <<>>]
  /\ line = <<>>
  /\ carried = [p \in Callers |-> <<>>]
  /\ refusals = [p \in Callers |-> 0]
  /\ answer = [p \in Callers |-> "none"]

Ask(p, s) ==
  /\ p \notin active
  /\ active' = active \cup {p}
  /\ asked' = [asked EXCEPT ![p] = s]
  /\ carried' = [carried EXCEPT ![p] = <<>>]
  /\ refusals' = [refusals EXCEPT ![p] = 0]
  /\ answer' = [answer EXCEPT ![p] = "none"]
  /\ UNCHANGED line

Join(p) ==
  /\ p \in active /\ ~InLine(p)
  /\ carried[p] = <<>>
  /\ line' = Append(line, p)
  /\ UNCHANGED <<active, asked, carried, refusals, answer>>

(* All bytes before b have been carried and no other.                      *)
IsNext(p, b) ==
  /\ b \in Bytes(asked[p])
  /\ Carried(p) = {c \in Bytes(asked[p]) : Before(c, b)}

IsLast(p, b) == \A c \in Bytes(asked[p]) : c = b \/ Before(c, b)

(* The first call in line, and no other, has its next byte carried; with   *)
(* its last byte it leaves the line, and may be answered at once.          *)
Carry(p, b) ==
  /\ line # <<>> /\ p = Head(line)
  /\ IsNext(p, b)
  /\ carried' = [carried EXCEPT ![p] = Append(@, b)]
  /\ line' = IF IsLast(p, b) THEN Tail(line) ELSE line
  /\ \/ UNCHANGED <<active, answer>>
     \/ /\ IsLast(p, b)
        /\ active' = active \ {p}
        /\ answer' = [answer EXCEPT ![p] = "ok"]
  /\ UNCHANGED <<asked, refusals>>

(* A slave refuses the first call in line, which leaves it unfinished.     *)
Refuse(p) ==
  /\ line # <<>> /\ p = Head(line)
  /\ ~Whole(p)
  /\ line' = Tail(line)
  /\ refusals' = [refusals EXCEPT ![p] = @ + 1]
  /\ UNCHANGED <<active, asked, carried, answer>>

(* A refused call is tried again from its first byte.                      *)
Again(p) ==
  /\ p \in active /\ ~InLine(p)
  /\ ~Whole(p) /\ refusals[p] \in 1 .. Attempts - 1
  /\ carried' = [carried EXCEPT ![p] = <<>>]
  /\ UNCHANGED <<active, asked, line, refusals, answer>>

Answer(p, a) ==
  /\ p \in active /\ ~InLine(p)
  /\ \/ a = "ok" /\ Whole(p)
     \/ a = "EIO" /\ ~Whole(p) /\ refusals[p] = Attempts
  /\ active' = active \ {p}
  /\ answer' = [answer EXCEPT ![p] = a]
  /\ UNCHANGED <<asked, line, carried, refusals>>

Next ==
  \E p \in Callers :
    \/ \E s \in Lists : Ask(p, s)
    \/ Join(p)
    \/ \E b \in Bytes(asked[p]) : Carry(p, b)
    \/ Refuse(p)
    \/ Again(p)
    \/ \E a \in {"ok", "EIO"} : Answer(p, a)

Spec == Init /\ [][Next]_vars
=============================================================================
