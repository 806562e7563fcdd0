----------------------------- MODULE ListLemmas -----------------------------
(***************************************************************************)
(* What the list operations of the models do, position by position:        *)
(* list_del is RemoveAt, list_add_tail(new, entry) is InsertAt.  And the   *)
(* existence of extrema, on which every "first entry that ..." and every   *)
(* running max() of the code rests.                                        *)
(***************************************************************************)
EXTENDS Integers, SequencesExt, TLAPS, SequenceTheorems, WellFoundedInduction

(* Removing position i closes the gap and keeps the order of the rest.     *)
LEMMA RemoveAtFacts ==
  ASSUME NEW S, NEW s \in Seq(S), NEW i \in 1 .. Len(s)
  PROVE  /\ RemoveAt(s, i) \in Seq(S)
         /\ Len(RemoveAt(s, i)) = Len(s) - 1
         /\ \A j \in 1 .. Len(s) - 1 :
              RemoveAt(s, i)[j] = IF j < i THEN s[j] ELSE s[j + 1]
<1> DEFINE a == SubSeq(s, 1, i - 1)
           c == SubSeq(s, i + 1, Len(s))
<1>0. Len(s) \in Nat /\ i \in Int /\ \A j \in 1 .. Len(s) : s[j] \in S
  BY LenProperties, ElementOfSeq
<1>1. /\ a \in Seq(S) /\ Len(a) = i - 1
      /\ \A j \in 1 .. i - 1 : a[j] = s[j]
  BY <1>0, SubSeqProperties
<1>2. /\ c \in Seq(S) /\ Len(c) = Len(s) - i
      /\ \A j \in 1 .. Len(s) - i : c[j] = s[i + j]
  BY <1>0, SubSeqProperties
<1> HIDE DEF a, c
<1>3. /\ a \o c \in Seq(S)
      /\ Len(a \o c) = Len(a) + Len(c)
      /\ \A j \in 1 .. Len(a) + Len(c) :
           (a \o c)[j] = IF j <= Len(a) THEN a[j] ELSE c[j - Len(a)]
  BY <1>1, <1>2, ConcatProperties, Zenon
<1> DEFINE ac == a \o c
<1>4. RemoveAt(s, i) = ac
  BY DEF RemoveAt, a, c
<1> HIDE DEF ac
<1>5. Len(ac) = Len(s) - 1
  BY <1>0, <1>1, <1>2, <1>3 DEF ac
<1>6. ASSUME NEW j \in 1 .. Len(s) - 1
      PROVE  ac[j] = IF j < i THEN s[j] ELSE s[j + 1]
  <2>1. ac[j] = IF j <= i - 1 THEN a[j] ELSE c[j - (i - 1)]
    BY <1>0, <1>1, <1>2, <1>3 DEF ac
  <2>2. CASE j < i
    BY <2>1, <2>2, <1>0, <1>1
  <2>3. CASE ~(j < i)
    <3>1. j - (i - 1) \in 1 .. Len(s) - i /\ i + (j - (i - 1)) = j + 1
      BY <2>3, <1>0
    <3> QED BY <3>1, <2>1, <2>3, <1>0, <1>2
  <2> QED BY <2>2, <2>3
<1> QED BY <1>3, <1>4, <1>5, <1>6 DEF ac

(* Inserting at position i shifts the entries from i on.                   *)
LEMMA InsertAtFacts ==
  ASSUME NEW S, NEW s \in Seq(S), NEW i \in 1 .. Len(s) + 1, NEW e \in S
  PROVE  /\ InsertAt(s, i, e) \in Seq(S)
         /\ Len(InsertAt(s, i, e)) = Len(s) + 1
         /\ \A j \in 1 .. i - 1 : InsertAt(s, i, e)[j] = s[j]
         /\ InsertAt(s, i, e)[i] = e
         /\ \A j \in i + 1 .. Len(s) + 1 : InsertAt(s, i, e)[j] = s[j - 1]
<1> DEFINE a == SubSeq(s, 1, i - 1)
           c == SubSeq(s, i, Len(s))
           ae == a \o <<e>>
<1>0. Len(s) \in Nat /\ i \in Int /\ \A j \in 1 .. Len(s) : s[j] \in S
  BY LenProperties, ElementOfSeq
<1>1. /\ a \in Seq(S) /\ Len(a) = i - 1
      /\ \A j \in 1 .. i - 1 : a[j] = s[j]
  BY <1>0, SubSeqProperties
<1>2. /\ c \in Seq(S) /\ Len(c) = Len(s) - i + 1
      /\ \A j \in 1 .. Len(s) - i + 1 : c[j] = s[i + j - 1]
  BY <1>0, SubSeqProperties
<1> HIDE DEF a, c
<1>3. <<e>> \in Seq(S) /\ Len(<<e>>) = 1 /\ <<e>>[1] = e
  OBVIOUS
<1>4. /\ ae \in Seq(S) /\ Len(ae) = i
      /\ \A j \in 1 .. i : ae[j] = IF j < i THEN s[j] ELSE e
  BY <1>0, <1>1, <1>3, ConcatProperties
<1> HIDE DEF ae
<1>5. /\ ae \o c \in Seq(S)
      /\ Len(ae \o c) = Len(ae) + Len(c)
      /\ \A j \in 1 .. Len(ae) + Len(c) :
           (ae \o c)[j] = IF j <= Len(ae) THEN ae[j] ELSE c[j - Len(ae)]
  BY <1>2, <1>4, ConcatProperties, Zenon
<1> DEFINE r == ae \o c
<1>6. InsertAt(s, i, e) = r
  BY DEF InsertAt, a, c, ae
<1> HIDE DEF r
<1>7. Len(r) = Len(s) + 1
  BY <1>0, <1>2, <1>4, <1>5 DEF r
<1>8. ASSUME NEW j \in 1 .. Len(s) + 1
      PROVE  r[j] = IF j < i THEN s[j] ELSE IF j = i THEN e ELSE s[j - 1]
  <2>1. r[j] = IF j <= i THEN ae[j] ELSE c[j - i]
    BY <1>0, <1>2, <1>4, <1>5 DEF r
  <2>2. CASE j <= i
    BY <2>1, <2>2, <1>0, <1>4
  <2>3. CASE ~(j <= i)
    <3>1. j - i \in 1 .. Len(s) - i + 1 /\ i + (j - i) - 1 = j - 1
      BY <2>3, <1>0
    <3> QED BY <3>1, <2>1, <2>3, <1>0, <1>2
  <2> QED BY <2>2, <2>3
<1>9. /\ \A j \in 1 .. i - 1 : r[j] = s[j]
      /\ r[i] = e
      /\ \A j \in i + 1 .. Len(s) + 1 : r[j] = s[j - 1]
  BY <1>0, <1>8
<1> QED BY <1>5, <1>6, <1>7, <1>9 DEF r

(* A set of naturals has a least element, a bounded one has a largest.     *)
LEMMA LeastNat ==
  ASSUME NEW T, T \subseteq Nat, T # {}
  PROVE  \E x \in T : \A y \in T : x <= y
<1>1. PICK x \in T : \A y \in T : ~ (<<y, x>> \in OpToRel(<, Nat))
  BY NatLessThanWellFounded, WFMin, Zenon
<1>2. \A y \in T : ~ (y < x)
  BY <1>1 DEF OpToRel
<1> QED BY <1>2

(* Max(T) is in T and bounds it.                                           *)
LEMMA MaxFacts ==
  ASSUME NEW n \in Nat, NEW T, T \subseteq 0 .. n, T # {}
  PROVE  Max(T) \in T /\ \A y \in T : y <= Max(T)
<1> DEFINE U == {n - y : y \in T}
<1>0. \A y \in T : y \in 0 .. n /\ n - y \in Nat
  OBVIOUS
<1>1. U \subseteq Nat /\ U # {}
  BY <1>0, Zenon
<1>2. PICK u \in U : \A v \in U : u <= v
  BY <1>1, LeastNat, Zenon
<1>3. PICK x \in T : u = n - x
  BY <1>2
<1>4. ASSUME NEW y \in T PROVE x >= y
  <2>1. n - y \in U
    OBVIOUS
  <2>2. n - x <= n - y
    BY <2>1, <1>2, <1>3
  <2> QED BY <2>2, <1>0
<1>5. \A y \in T : y <= x
  BY <1>0, <1>4
<1> QED BY <1>0, <1>3, <1>4, <1>5 DEF Max
=============================================================================
