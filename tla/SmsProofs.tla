----------------------------- MODULE SmsProofs -----------------------------
(***************************************************************************)
(* The conversions of short messages are inverse to each other, and the       *)
(* messages of a device: what their senders are told, what is passed on and    *)
(* deleted of those that come, and what holds back a restart; for every set    *)
(* of messages, places and identities of tasks, and whatever fails.            *)
(***************************************************************************)
EXTENDS Sms, AtQueueProofs

(* The conversions of module Pdu, for texts and numbers of any length. *)

(* The bits of septet a, from where its octet and the octet before have them,  *)
(* for each offset s of a septet.                                              *)
LEMMA LowSeptet ==
  ASSUME NEW a \in Septet, NEW b \in Septet
  PROVE  ((Joined(a, b, 0) * Pow2(1)) % 256) \div 2 = a
  BY SMT DEF Joined, Pow2, Septet

LEMMA MidSeptet ==
  ASSUME NEW z \in Septet, NEW a \in Septet, NEW b \in Septet, NEW s \in 1..6
  PROVE  ((Joined(a, b, s) * Pow2(s + 1)) % 256) \div 2 + Carried(Joined(z, a, s - 1), s) = a
<1>1. CASE s = 1
  BY <1>1, SMT DEF Joined, Carried, Pow2, Septet
<1>2. CASE s = 2
  BY <1>2, SMT DEF Joined, Carried, Pow2, Septet
<1>3. CASE s = 3
  BY <1>3, SMT DEF Joined, Carried, Pow2, Septet
<1>4. CASE s = 4
  BY <1>4, SMT DEF Joined, Carried, Pow2, Septet
<1>5. CASE s = 5
  BY <1>5, SMT DEF Joined, Carried, Pow2, Septet
<1>6. CASE s = 6
  BY <1>6, SMT DEF Joined, Carried, Pow2, Septet
<1> QED  BY <1>1, <1>2, <1>3, <1>4, <1>5, <1>6

LEMMA HighSeptet ==
  ASSUME NEW a \in Septet, NEW b \in Septet
  PROVE  Carried(Joined(a, b, 6), 7) = b
  BY SMT DEF Joined, Carried, Pow2, Septet

-----------------------------------------------------------------------------
(* The septet after the i-th one, of zeros after the last.                     *)
NextSeptet(t, i) == IF i < Len(t) THEN t[i + 1] ELSE 0

LEMMA NextSeptetType ==
  ASSUME NEW t \in Seq(Septet), NEW i \in 1..Len(t)
  PROVE  t[i] \in Septet /\ NextSeptet(t, i) \in Septet
<1>1. t[i] \in Septet /\ (i < Len(t) => t[i + 1] \in Septet)
  OBVIOUS
<1>2. 0 \in Septet
  BY DEF Septet
<1> QED  BY <1>1, <1>2 DEF NextSeptet

LEMMA JoinedLast ==
  ASSUME NEW a \in Septet, NEW r \in 0..6
  PROVE  Joined(a, 0, r) = a \div Pow2(r)
<1>1. Pow2(r) \in Nat \ {0} /\ Pow2(7 - r) \in Nat
  <2>1. r \in {0, 1, 2, 3, 4, 5, 6}
    OBVIOUS
  <2> QED  BY <2>1, SMT DEF Pow2
<1>2. (0 * Pow2(7 - r)) % 256 = 0
  BY <1>1, SMT
<1>3. a \div Pow2(r) \in Int
  BY <1>1, SMT DEF Septet
<1> QED  BY <1>2, <1>3 DEF Joined

(* Where the octet of the septet with offset r in its group of eight is.        *)
LEMMA OctetPlace ==
  ASSUME NEW w \in Nat, NEW r \in 0..6, NEW n \in Nat, 8 * w + r + 1 <= n
  PROVE  /\ 7 * w + r + 1 \in 1..PackedLen(n)
         /\ 7 * w + r + 1 = PackedLen(n) => n = 8 * w + r + 1
         /\ n = 8 * w + r + 1 => 7 * w + r + 1 = PackedLen(n)
         /\ (7 * w + r) \div 7 = w /\ (7 * w + r) % 7 = r /\ (8 * w + r) % 8 = r
<1>1. (7 * w + r) \div 7 = w /\ (7 * w + r) % 7 = r /\ (8 * w + r) % 8 = r
  BY SMT
<1>2. PackedLen(n) = n - (n - 1) \div 8 /\ n \in Nat \ {0}
  BY DEF PackedLen
<1>3. PICK d \in Nat : n = 8 * w + r + 1 + d
  <2>1. n - (8 * w + r + 1) \in Nat
    OBVIOUS
  <2> QED  BY <2>1
<1>4. (n - 1) \div 8 = w + (r + d) \div 8
  BY <1>3, SMT
<1>5. (r + d) \div 8 <= d /\ ((r + d) \div 8 = d => d = 0) /\ (d = 0 => (r + d) \div 8 = 0)
  BY <1>3, SMT
<1>6. PackedLen(n) = 7 * w + r + 1 + (d - (r + d) \div 8)
  BY <1>2, <1>3, <1>4
<1> QED  BY <1>1, <1>3, <1>5, <1>6, SMT

(* What Pack puts there.                                                         *)
LEMMA PackedAt ==
  ASSUME NEW t \in Seq(Septet), NEW w \in Nat, NEW r \in 0..6, 8 * w + r + 1 <= Len(t)
  PROVE  /\ 7 * w + r + 1 \in 1..Len(Pack(t))
         /\ Pack(t)[7 * w + r + 1] = Joined(t[8 * w + r + 1], NextSeptet(t, 8 * w + r + 1), r)
<1> DEFINE k == 7 * w + r + 1
           i == 8 * w + r + 1
<1>1. k \in 1..PackedLen(Len(t)) /\ (k = PackedLen(Len(t)) <=> Len(t) = i)
  <2>1. Len(t) \in Nat
    OBVIOUS
  <2> DEFINE n == Len(t)
  <2>2. n \in Nat /\ 8 * w + r + 1 <= n
    BY <2>1
  <2> HIDE DEF n
  <2>3. k \in 1..PackedLen(n) /\ (k = PackedLen(n) <=> n = i)
    BY <2>2, OctetPlace
  <2> QED  BY <2>3 DEF n
<1>2. (k - 1) \div 7 = w /\ (k - 1) % 7 = r /\ (i - 1) % 8 = r /\ k + (k - 1) \div 7 = i
  <2>1. (7 * w + r) \div 7 = w /\ (7 * w + r) % 7 = r /\ (8 * w + r) % 8 = r
    BY OctetPlace, Len(t) \in Nat
  <2>2. k - 1 = 7 * w + r /\ i - 1 = 8 * w + r /\ k + w = i
    OBVIOUS
  <2> HIDE DEF k, i
  <2> QED  BY <2>1, <2>2
<1>3. PackedLen(Len(t)) \in Nat
  BY SMT DEF PackedLen
<1>4. Len(Pack(t)) = PackedLen(Len(t)) /\ Pack(t)[k] = PackedOctet(t, k)
  BY <1>1, <1>3 DEF Pack
<1>5. CASE Len(t) = i
  <2>1. PackedOctet(t, k) = t[i] \div Pow2(r)
    BY <1>1, <1>2, <1>5 DEF PackedOctet
  <2>2. NextSeptet(t, i) = 0
    BY <1>5 DEF NextSeptet
  <2>3. Joined(t[i], 0, r) = t[i] \div Pow2(r)
    BY <1>5, JoinedLast, NextSeptetType
  <2> QED  BY <1>1, <1>4, <2>1, <2>2, <2>3
<1>6. CASE Len(t) # i
  <2>1. PackedOctet(t, k) = Joined(t[i], t[i + 1], r)
    BY <1>1, <1>2, <1>6 DEF PackedOctet
  <2>2. NextSeptet(t, i) = t[i + 1]
    BY <1>6 DEF NextSeptet
  <2> QED  BY <1>1, <1>4, <2>1, <2>2
<1> QED  BY <1>5, <1>6

-----------------------------------------------------------------------------
LEMMA GroupOf ==
  ASSUME NEW j \in Nat \ {0}
  PROVE  /\ (j - 1) \div 8 \in Nat /\ (j - 1) % 8 \in 0..7
         /\ j = 8 * ((j - 1) \div 8) + ((j - 1) % 8) + 1
  BY SMT

LEMMA SeptetNat == \A a \in Septet : a \in Nat
  BY DEF Septet

(* What is unpacked where a septet was packed is that septet.                     *)
LEMMA UnpackedAt ==
  ASSUME NEW t \in Seq(Septet), NEW o, NEW j \in 1..Len(t),
         \A w \in Nat, r \in 0..6 : 8 * w + r + 1 \in 1..Len(t) =>
           o[7 * w + r + 1] = Joined(t[8 * w + r + 1], NextSeptet(t, 8 * w + r + 1), r)
  PROVE  UnpackedSeptet(o, j) = t[j]
<1> DEFINE w == (j - 1) \div 8
           s == (j - 1) % 8
           k == 7 * w + s + 1
<1>0. Len(t) \in Nat /\ j \in Nat \ {0} /\ j <= Len(t)
  OBVIOUS
<1>1. w \in Nat /\ s \in 0..7 /\ j = 8 * w + s + 1
  BY <1>0, GroupOf
<1>2. t[j] \in Septet /\ NextSeptet(t, j) \in Septet
  BY NextSeptetType
<1>3. s # 7 => o[k] = Joined(t[j], NextSeptet(t, j), s)
  <2>1. ASSUME s # 7 PROVE s \in 0..6
    BY <1>1, <2>1
  <2> HIDE DEF w, s
  <2> QED  BY <1>1, <2>1
<1>4. s # 0 => /\ t[j - 1] \in Septet
               /\ o[k - 1] = Joined(t[j - 1], t[j], s - 1)
  <2> SUFFICES ASSUME s # 0 PROVE t[j - 1] \in Septet /\ o[k - 1] = Joined(t[j - 1], t[j], s - 1)
    OBVIOUS
  <2>1. s - 1 \in 0..6 /\ j - 1 = 8 * w + (s - 1) + 1 /\ k - 1 = 7 * w + (s - 1) + 1
    BY <1>1
  <2>2. j - 1 \in 1..Len(t) /\ j - 1 < Len(t)
    <3>1. j # 1
      BY <1>1
    <3> HIDE DEF w, s, k
    <3> QED  BY <1>0, <3>1
  <2>3. NextSeptet(t, j - 1) = t[j]
    BY <2>2 DEF NextSeptet
  <2>4. t[j - 1] \in Septet
    BY <2>2
  <2>5. o[7 * w + (s - 1) + 1]
          = Joined(t[8 * w + (s - 1) + 1], NextSeptet(t, 8 * w + (s - 1) + 1), s - 1)
    <3> HIDE DEF w, s, k
    <3> QED  BY <1>1, <2>1, <2>2
  <2> QED  BY <2>1, <2>3, <2>4, <2>5
<1>5. UnpackedSeptet(o, j) =
        IF s = 7 THEN Carried(o[k - 1], 7)
        ELSE ((o[k] * Pow2(s + 1)) % 256) \div 2 + (IF s = 0 THEN 0 ELSE Carried(o[k - 1], s))
  BY DEF UnpackedSeptet
<1> HIDE DEF w, s, k
<1>6. CASE s = 7
  BY <1>2, <1>4, <1>5, <1>6, HighSeptet
<1>7. CASE s = 0
  <2>1. ((Joined(t[j], NextSeptet(t, j), 0) * Pow2(1)) % 256) \div 2 = t[j]
    BY <1>2, LowSeptet
  <2>2. t[j] \in Nat
    BY <1>2, SeptetNat
  <2> QED  BY <1>3, <1>5, <1>7, <2>1, <2>2
<1>8. CASE s \in 1..6
  <2>1. ((Joined(t[j], NextSeptet(t, j), s) * Pow2(s + 1)) % 256) \div 2
          + Carried(Joined(t[j - 1], t[j], s - 1), s) = t[j]
    BY <1>2, <1>4, <1>8, MidSeptet
  <2> QED  BY <1>3, <1>4, <1>5, <1>8, <2>1
<1> QED  BY <1>1, <1>6, <1>7, <1>8

(* The sequence unpacked from octets that were packed is the text, and after one   *)
(* that leaves room for another septet in its last octet, a zero.                   *)
LEMMA Lengths ==
  ASSUME NEW n \in Nat
  PROVE  /\ PackedLen(n) \in Nat
         /\ ((n + 1) * 7) \div 8 \in 0..PackedLen(n)
         /\ UnpackedLen(((n + 1) * 7) \div 8) = IF n % 8 = 7 THEN n + 1 ELSE n
<1>1. PICK g \in Nat, e \in 0..7 : n = 8 * g + e
  <2>1. n \div 8 \in Nat /\ n % 8 \in 0..7 /\ n = 8 * (n \div 8) + (n % 8)
    BY SMT
  <2> QED  BY <2>1
<1>2. CASE e = 0
  <2>1. ((n + 1) * 7) \div 8 = 7 * g /\ n % 8 = 0 /\ (7 * g) \div 7 = g
    BY <1>1, <1>2, SMT
  <2>2. n = 0 \/ (n # 0 /\ (n - 1) \div 8 = g - 1)
    BY <1>1, <1>2, SMT
  <2> QED  BY <1>1, <1>2, <2>1, <2>2 DEF PackedLen, UnpackedLen
<1>3. CASE e \in 1..6
  <2>1. ((n + 1) * 7) \div 8 = 7 * g + e /\ n % 8 = e /\ (7 * g + e) \div 7 = g
    BY <1>1, <1>3, SMT
  <2>2. n # 0 /\ (n - 1) \div 8 = g
    BY <1>1, <1>3, SMT
  <2> QED  BY <1>1, <1>3, <2>1, <2>2 DEF PackedLen, UnpackedLen
<1>4. CASE e = 7
  <2>1. ((n + 1) * 7) \div 8 = 7 * g + 7 /\ n % 8 = 7 /\ (7 * g + 7) \div 7 = g + 1
    BY <1>1, <1>4, SMT
  <2>2. n # 0 /\ (n - 1) \div 8 = g
    BY <1>1, <1>4, SMT
  <2> QED  BY <1>1, <1>4, <2>1, <2>2 DEF PackedLen, UnpackedLen
<1> QED  BY <1>2, <1>3, <1>4

LEMMA PlaceKept ==
  ASSUME NEW n \in Nat, NEW w \in Nat, NEW r \in 0..6, 8 * w + r + 1 <= n
  PROVE  7 * w + r + 1 <= ((n + 1) * 7) \div 8
  BY SMT

LEMMA AppendedAs ==
  ASSUME NEW S, NEW t \in Seq(S), NEW x
  PROVE  Append(t, x) = [j \in 1..Len(t) + 1 |-> IF j = Len(t) + 1 THEN x ELSE t[j]]
<1>1. t \in Seq(S \cup {x}) /\ x \in S \cup {x}
  OBVIOUS
<1>2. /\ Append(t, x) \in Seq(S \cup {x})
      /\ Len(Append(t, x)) = Len(t) + 1
      /\ \A i \in 1..Len(t) : Append(t, x)[i] = t[i]
      /\ Append(t, x)[Len(t) + 1] = x
  BY <1>1, AppendProperties
<1>3. Append(t, x) = [j \in 1..Len(t) + 1 |-> Append(t, x)[j]]
  <2> DEFINE a == Append(t, x)
  <2>1. a \in Seq(S \cup {x}) /\ Len(a) = Len(t) + 1
    BY <1>2
  <2> HIDE DEF a
  <2>2. a = [j \in 1..Len(t) + 1 |-> a[j]]
    BY <2>1
  <2> QED  BY <2>2 DEF a
<1>4. \A j \in 1..Len(t) + 1 : j = Len(t) + 1 \/ j \in 1..Len(t)
  OBVIOUS
<1> QED  BY <1>2, <1>3, <1>4

(* Septets of every number come back out of the octets a network keeps of them:     *)
(* hexstr_7bit_to_char undoes char_to_hexstr_7bit, but for a zero it may add.        *)
THEOREM SeptetsRoundTrip ==
  ASSUME NEW t \in Seq(Septet)
  PROVE  LET kept == SubSeq(Pack(t), 1, ((Len(t) + 1) * 7) \div 8)
         IN  Unpack(kept) = IF Len(t) % 8 = 7 THEN Append(t, 0) ELSE t
<1> DEFINE n == Len(t)
           m == ((n + 1) * 7) \div 8
           kept == SubSeq(Pack(t), 1, m)
<1>0. SUFFICES Unpack(kept) = IF n % 8 = 7 THEN Append(t, 0) ELSE t
  OBVIOUS
<1>1. n \in Nat /\ m \in 0..PackedLen(n) /\ PackedLen(n) \in Nat
      /\ UnpackedLen(m) = IF n % 8 = 7 THEN n + 1 ELSE n
  <2>1. n \in Nat
    OBVIOUS
  <2> HIDE DEF n
  <2> QED  BY <2>1, Lengths
<1>2. Len(kept) = m /\ \A k \in 1..m : kept[k] = Pack(t)[k]
  <2>1. DOMAIN Pack(t) = 1..PackedLen(n) /\ Len(Pack(t)) = PackedLen(n)
    BY <1>1 DEF Pack
  <2>2. kept = [k \in 1..m |-> Pack(t)[k]]
    <3> HIDE DEF m, n
    <3> QED  BY <1>1
  <2> HIDE DEF kept, m, n
  <2> QED  BY <1>1, <2>2
<1>3. \A w \in Nat, r \in 0..6 : 8 * w + r + 1 \in 1..n =>
        kept[7 * w + r + 1] = Joined(t[8 * w + r + 1], NextSeptet(t, 8 * w + r + 1), r)
  <2> SUFFICES ASSUME NEW w \in Nat, NEW r \in 0..6, 8 * w + r + 1 \in 1..n
               PROVE  kept[7 * w + r + 1] = Joined(t[8 * w + r + 1], NextSeptet(t, 8 * w + r + 1), r)
    OBVIOUS
  <2>1. 7 * w + r + 1 <= m
    BY <1>1, PlaceKept
  <2>2. Pack(t)[7 * w + r + 1] = Joined(t[8 * w + r + 1], NextSeptet(t, 8 * w + r + 1), r)
    <3>1. 8 * w + r + 1 <= n
      OBVIOUS
    <3> QED  BY <3>1, PackedAt
  <2>3. 7 * w + r + 1 \in 1..m
    <3> HIDE DEF m
    <3> QED  BY <1>1, <2>1
  <2> QED  BY <1>2, <2>2, <2>3
<1>4. \A j \in 1..n : UnpackedSeptet(kept, j) = t[j]
  <2> HIDE DEF kept
  <2> QED  BY <1>3, UnpackedAt
<1>5. n % 8 = 7 => UnpackedSeptet(kept, n + 1) = 0
  <2> SUFFICES ASSUME n % 8 = 7 PROVE UnpackedSeptet(kept, n + 1) = 0
    OBVIOUS
  <2> DEFINE g == n \div 8
  <2>1. g \in Nat /\ n = 8 * g + 6 + 1 /\ n \in 1..n
    BY <1>1, SMT
  <2>2. t[n] \in Septet /\ NextSeptet(t, n) = 0 /\ 0 \in Septet
    BY <2>1 DEF NextSeptet, Septet
  <2>3. kept[7 * g + 6 + 1] = Joined(t[8 * g + 6 + 1], NextSeptet(t, 8 * g + 6 + 1), 6)
    <3> HIDE DEF g, n, kept
    <3> QED  BY <1>3, <2>1
  <2>4. Carried(Joined(t[n], 0, 6), 7) = 0
    BY <2>2, HighSeptet
  <2>5. (n + 1) - 1 = n /\ (7 * g + 7 + 1) - 1 = 7 * g + 6 + 1
    BY <1>1, <2>1
  <2>6. UnpackedSeptet(kept, n + 1) = Carried(kept[7 * g + 6 + 1], 7)
    <3> HIDE DEF n, kept
    <3> QED  BY <2>5 DEF UnpackedSeptet
  <2> HIDE DEF g, n, kept
  <2> QED  BY <2>1, <2>2, <2>3, <2>4, <2>6
<1>6. Unpack(kept) = [j \in 1..UnpackedLen(m) |-> UnpackedSeptet(kept, j)]
  BY <1>2 DEF Unpack
<1>7. CASE n % 8 = 7
  <2>1. Unpack(kept) = [j \in 1..n + 1 |-> IF j = n + 1 THEN 0 ELSE t[j]]
    <3> HIDE DEF kept, m
    <3> QED  BY <1>1, <1>4, <1>5, <1>6, <1>7
  <2>2. Append(t, 0) = [j \in 1..n + 1 |-> IF j = n + 1 THEN 0 ELSE t[j]]
    BY AppendedAs
  <2> HIDE DEF kept, m, n
  <2> QED  BY <1>7, <2>1, <2>2
<1>8. CASE n % 8 # 7
  <2>1. Unpack(kept) = [j \in 1..n |-> t[j]]
    <3> HIDE DEF kept, m
    <3> QED  BY <1>1, <1>4, <1>6, <1>8
  <2>2. t = [j \in 1..n |-> t[j]]
    OBVIOUS
  <2> HIDE DEF kept, m, n
  <2> QED  BY <1>8, <2>1, <2>2
<1> QED  BY <1>7, <1>8

-----------------------------------------------------------------------------
LEMMA CharacterNat == \A c \in BasicPlane : c \in Nat
  BY DEF BasicPlane, CodePoint

LEMMA CharacterOctets ==
  ASSUME NEW c \in Nat
  PROVE  256 * (c \div 256) + (c % 256) = c
  BY SMT

LEMMA OctetPair ==
  ASSUME NEW n \in Nat, NEW j \in 1..n
  PROVE  /\ 2 * j - 1 \in 1..2 * n /\ (2 * j - 1) % 2 = 1 /\ ((2 * j - 1) + 1) \div 2 = j
         /\ 2 * j \in 1..2 * n /\ (2 * j) % 2 = 0 /\ (2 * j + 1) \div 2 = j
  BY SMT

LEMMA HalfOf == \A n \in Nat : (2 * n) \div 2 = n
  BY SMT

(* A text of the basic plane, sent as UCS-2, is read back as it was:               *)
(* hexstr_ucs2_to_utf8 undoes utf8_to_hexstr_ucs2.                                  *)
THEOREM Ucs2RoundTrip ==
  ASSUME NEW t \in Seq(BasicPlane)
  PROVE  FromUcs2(Ucs2(t)) = t
<1> DEFINE n == Len(t)
           o == Ucs2(t)
<1>1. n \in Nat /\ t = [j \in 1..n |-> t[j]] /\ \A j \in 1..n : t[j] \in Nat
  BY CharacterNat
<1>2. /\ Len(o) = 2 * n
      /\ \A k \in 1..2 * n : o[k] = IF k % 2 = 1 THEN t[(k + 1) \div 2] \div 256
                                                 ELSE t[(k + 1) \div 2] % 256
  BY <1>1 DEF Ucs2
<1>3. \A j \in 1..n : o[2 * j - 1] = t[j] \div 256 /\ o[2 * j] = t[j] % 256
  <2> SUFFICES ASSUME NEW j \in 1..n
               PROVE  o[2 * j - 1] = t[j] \div 256 /\ o[2 * j] = t[j] % 256
    OBVIOUS
  <2>1. /\ 2 * j - 1 \in 1..2 * n /\ (2 * j - 1) % 2 = 1 /\ ((2 * j - 1) + 1) \div 2 = j
        /\ 2 * j \in 1..2 * n /\ (2 * j) % 2 = 0 /\ (2 * j + 1) \div 2 = j
    <3>1. n \in Nat
      BY <1>1
    <3> HIDE DEF n
    <3> QED  BY <3>1, OctetPair
  <2> HIDE DEF n, o
  <2> DEFINE k == 2 * j - 1
             l == 2 * j
  <2>2. /\ k \in 1..2 * n /\ k % 2 = 1 /\ (k + 1) \div 2 = j
        /\ l \in 1..2 * n /\ l % 2 = 0 /\ (l + 1) \div 2 = j
    BY <2>1
  <2> HIDE DEF k, l
  <2>3. o[k] = t[j] \div 256
    BY <1>2, <2>2
  <2>4. o[l] = t[j] % 256
    BY <1>2, <2>2
  <2> QED  BY <2>3, <2>4 DEF k, l
<1>4. \A c \in Nat : 256 * (c \div 256) + (c % 256) = c
  BY CharacterOctets
<1>5. (2 * n) \div 2 = n
  BY <1>1, HalfOf
<1>6. FromUcs2(o) = [j \in 1..n |-> t[j]]
  <2>1. FromUcs2(o) = [j \in 1..n |-> 256 * o[2 * j - 1] + o[2 * j]]
    <3> HIDE DEF n, o
    <3> QED  BY <1>2, <1>5 DEF FromUcs2
  <2>2. \A j \in 1..n : 256 * o[2 * j - 1] + o[2 * j] = t[j]
    <3> SUFFICES ASSUME NEW j \in 1..n PROVE 256 * o[2 * j - 1] + o[2 * j] = t[j]
      OBVIOUS
    <3>1. t[j] \in Nat
      BY <1>1
    <3>2. o[2 * j - 1] = t[j] \div 256 /\ o[2 * j] = t[j] % 256
      BY <1>3
    <3>3. 256 * (t[j] \div 256) + (t[j] % 256) = t[j]
      BY <1>4, <3>1
    <3> HIDE DEF n, o
    <3> QED  BY <3>2, <3>3
  <2> HIDE DEF n, o
  <2> QED  BY <2>1, <2>2
<1> QED  BY <1>1, <1>6

-----------------------------------------------------------------------------
(* The digit as the code has it, where the letters are capitals.                   *)
Capital(d) == IF d = "a" THEN "A" ELSE IF d = "b" THEN "B" ELSE IF d = "c" THEN "C" ELSE d

LEMMA DigitRoundTrip ==
  ASSUME NEW d \in Digit
  PROVE  Code2Digit(Digit2Code(d)) = Capital(d) /\ Digit2Code(d) # "F"
  BY DEF Digit, Code2Digit, Digit2Code, Capital

LEMMA SwappedPlace ==
  ASSUME NEW n \in Nat, NEW i \in 1..RoundUp2(n)
  PROVE  /\ Swapped(i) \in 1..RoundUp2(n) /\ Swapped(Swapped(i)) = i
         /\ Swapped(i) > n => n % 2 = 1 /\ i = n /\ i = RoundUp2(n) - 1
         /\ RoundUp2(n) \in Nat /\ n <= RoundUp2(n)
         /\ n % 2 = 1 => RoundUp2(n) = n + 1
         /\ n % 2 # 1 => RoundUp2(n) = n
  BY SMT DEF RoundUp2, Swapped

(* A number of digits is read back as it was written, but for the letters, which   *)
(* become capitals: pdu_parse_number undoes pdu_store_number for every length.      *)
THEOREM NumberRoundTrip ==
  ASSUME NEW d \in Seq(Digit), d # << >>
  PROVE  /\ NumberReadable(StoreNumber(d), Len(d))
         /\ ParsedDigits(StoreNumber(d), Len(d)) = [i \in 1..Len(d) |-> Capital(d[i])]
<1> DEFINE n == Len(d)
           r == RoundUp2(n)
           c == StoreNumber(d)
<1>1. n \in Nat \ {0} /\ \A i \in 1..n : d[i] \in Digit
  OBVIOUS
<1>2. /\ r \in Nat /\ n <= r /\ (n % 2 = 1 => r = n + 1) /\ (n % 2 # 1 => r = n)
      /\ \A i \in 1..r : /\ Swapped(i) \in 1..r /\ Swapped(Swapped(i)) = i
                         /\ Swapped(i) > n => n % 2 = 1 /\ i = n /\ i = r - 1
  <2>1. 1 \in 1..r
    <3>1. 1 <= RoundUp2(n)
      BY <1>1, SMT DEF RoundUp2
    <3>2. RoundUp2(n) \in Nat
      BY <1>1, SMT DEF RoundUp2
    <3> QED  BY <3>1, <3>2
  <2>2. n \in Nat
    BY <1>1
  <2> HIDE DEF n
  <2> QED  BY <2>1, <2>2, SwappedPlace
<1>3. Len(c) = r /\ DOMAIN c = 1..r
      /\ \A i \in 1..r : c[i] = IF Swapped(i) > n THEN "F" ELSE Digit2Code(d[Swapped(i)])
  <2> HIDE DEF r
  <2> QED  BY <1>2 DEF StoreNumber, r
<1> HIDE DEF n, r, c
<1>4. \A i \in 1..r : Swapped(i) <= n => Swapped(i) \in 1..n /\ c[i] # "F"
  <2> SUFFICES ASSUME NEW i \in 1..r, Swapped(i) <= n
               PROVE  Swapped(i) \in 1..n /\ c[i] # "F"
    OBVIOUS
  <2>1. Swapped(i) \in 1..n
    BY <1>1, <1>2
  <2>2. c[i] = Digit2Code(d[Swapped(i)])
    BY <1>1, <1>3, <2>1
  <2> QED  BY <1>1, <2>1, <2>2, DigitRoundTrip
<1>5. NumberReadable(c, n)
  <2> SUFFICES ASSUME NEW i \in 1..r, c[i] = "F"
               PROVE  n % 2 = 1 /\ i = r - 1
    BY <1>3 DEF NumberReadable, r
  <2>1. Swapped(i) > n
    BY <1>1, <1>2, <1>4
  <2> QED  BY <1>2, <2>1
<1>6. n % 2 = 1 => c[r - 1] = "F"
  <2> SUFFICES ASSUME n % 2 = 1 PROVE c[r - 1] = "F"
    OBVIOUS
  <2>1. r - 1 = n /\ n \in 1..r /\ Swapped(n) = n + 1
    BY <1>1, <1>2 DEF Swapped
  <2> QED  BY <1>1, <1>3, <2>1
<1>7. \A i \in 1..n : Code2Digit(c[Swapped(i)]) = Capital(d[i])
  <2> SUFFICES ASSUME NEW i \in 1..n PROVE Code2Digit(c[Swapped(i)]) = Capital(d[i])
    OBVIOUS
  <2>1. i \in 1..r
    BY <1>1, <1>2
  <2>2. Swapped(i) \in 1..r /\ Swapped(Swapped(i)) = i /\ ~ i > n
    BY <1>1, <1>2, <2>1
  <2>3. c[Swapped(i)] = Digit2Code(d[i])
    BY <1>3, <2>2
  <2> QED  BY <1>1, <2>3, DigitRoundTrip
<1>8. ParsedDigits(c, n) = [i \in 1..n |-> Code2Digit(c[Swapped(i)])]
  BY <1>2, <1>3, <1>6 DEF ParsedDigits, r
<1>9. ParsedDigits(c, n) = [i \in 1..n |-> Capital(d[i])]
  BY <1>7, <1>8
<1> QED  BY <1>5, <1>9 DEF c, n

-----------------------------------------------------------------------------
(* The validity period that is sent is the shortest the table has that is not      *)
(* shorter than the minutes asked for, from 1 minute to 63 weeks.                    *)
THEOREM ValidityCovers ==
  ASSUME NEW m \in Nat, 1 <= m, m <= 635040
  PROVE  LET vp == RelativeValidity(m)
         IN  /\ vp \in Octet
             /\ ValidityMinutes(vp) >= m
             /\ vp = 0 \/ ValidityMinutes(vp - 1) < m
<1> DEFINE vp == RelativeValidity(m)
<1>1. CASE m <= 720
  <2>1. vp = (m + 4) \div 5 - 1 /\ vp \in 0..143
    BY <1>1, SMT DEF RelativeValidity, DivUp
  <2> QED  BY <1>1, <2>1, SMT DEF ValidityMinutes, Octet
<1>2. CASE 720 < m /\ m <= 1440
  <2>1. vp = (m + 29) \div 30 + 119 /\ vp \in 144..167
    BY <1>2, SMT DEF RelativeValidity, DivUp
  <2> QED  BY <1>2, <2>1, SMT DEF ValidityMinutes, Octet
<1>3. CASE 1440 < m /\ m <= 43200
  <2>1. vp = (m + 1439) \div 1440 + 166 /\ vp \in 168..196
    BY <1>3, SMT DEF RelativeValidity, DivUp
  <2> QED  BY <1>3, <2>1, SMT DEF ValidityMinutes, Octet
<1>4. CASE 43200 < m
  <2>1. vp = (m + 10079) \div 10080 + 192 /\ vp \in 197..255
    BY <1>4, SMT DEF RelativeValidity, DivUp
  <2> QED  BY <1>4, <2>1, SMT DEF ValidityMinutes, Octet
<1> QED  BY <1>1, <1>2, <1>3, <1>4, SMT

-----------------------------------------------------------------------------
(* A task still has to read its message. *)
Unread(t)  == Reading(t.kind) /\ t.idx = 1
Pending(x) == \E i \in 1..Len(x.tasks) : Unread(x.tasks[i])

HeadWritten(x) == NonEmpty(x) => Head(x.tasks).sent

(* The inductive invariant: at the end of every lock region the head command   *)
(* is written, so that the one a failed write removes is always one that was   *)
(* just queued, and the queue is as QueueOK has it.                             *)
IInv ==
  /\ connected \in BOOLEAN /\ incoming \in BOOLEAN /\ plain \in BOOLEAN
  /\ QueueOK(q)
  /\ HeadWritten(q)
  /\ incoming => plain \/ Pending(q)

-----------------------------------------------------------------------------
LEMMA UnreadHead ==
  ASSUME NEW t \in Task, Unread(t)
  PROVE  CmdOf(t) = "CMGR"
  BY DEF Unread, Reading, CmdOf, Script, Scripts

(* The tasks behind the head stay when it goes or moves on.                     *)
LEMMA RestPending ==
  ASSUME NEW s \in Seq(Task), s # << >>, NEW i \in 1..Len(s), Unread(s[i]), ~Unread(Head(s)),
         NEW v
  PROVE  /\ \E j \in 1..Len(Tail(s)) : Unread(Tail(s)[j])
         /\ \E j \in 1..Len(<< v >> \o Tail(s)) : Unread((<< v >> \o Tail(s))[j])
<1>1. /\ Len(s) \in Nat \ {0} /\ Tail(s) \in Seq(Task) /\ Len(Tail(s)) = Len(s) - 1
      /\ Head(s) = s[1] /\ \A j \in 1..Len(Tail(s)) : Tail(s)[j] = s[j + 1]
  BY EmptySeq, HeadTailProperties
<1>2. i # 1 /\ i - 1 \in 1..Len(Tail(s)) /\ Tail(s)[i - 1] = s[i]
  <2>1. i # 1
    BY <1>1
  <2>2. i - 1 \in 1..Len(Tail(s)) /\ (i - 1) + 1 = i
    BY <1>1, <2>1
  <2> QED  BY <1>1, <2>1, <2>2
<1>3. /\ << v >> \in Seq({v}) /\ Len(<< v >>) = 1
  OBVIOUS
<1>4. << v >> \in Seq({v} \cup Task) /\ Tail(s) \in Seq({v} \cup Task)
  BY <1>1, <1>3, SeqMonotonic
<1>5. /\ Len(<< v >> \o Tail(s)) = 1 + Len(Tail(s))
      /\ \A j \in 1..1 + Len(Tail(s)) :
           (<< v >> \o Tail(s))[j] = IF j <= 1 THEN << v >>[j] ELSE Tail(s)[j - 1]
  BY <1>3, <1>4, ConcatProperties
<1>6. i \in 1..1 + Len(Tail(s)) /\ ~(i <= 1)
  BY <1>1, <1>2
<1> QED  BY <1>2, <1>5, <1>6

LEMMA RemoveCmdKeepsPending ==
  ASSUME NEW x, QueueOK(x), NEW res, Pending(x), HeadCmd(x) # "CMGR"
  PROVE  Pending(AtQueueRemoveCmd(x, res))
<1> DEFINE t == Head(x.tasks)
           over == \/ t.idx >= Len(Script(t.kind))
                   \/ Expect(CmdOf(t)) # res /\ CmdOf(t) \notin Ignore
<1>1. /\ x.tasks \in Seq(Task) /\ NonEmpty(x) /\ t \in Task
  BY QueueFields, EmptySeq DEF Pending, NonEmpty
<1>2. ~Unread(t)
  BY <1>1, UnreadHead DEF HeadCmd
<1>3. PICK i \in 1..Len(x.tasks) : Unread(x.tasks[i])
  BY DEF Pending
<1>4. CASE over
  <2>1. AtQueueRemoveCmd(x, res) = AtQueueRemove(x)
    BY <1>1, <1>4, RemoveOfNext, Zenon DEF AtQueueRemoveCmd
  <2>2. AtQueueRemove(x).tasks = Tail(x.tasks)
    BY DEF AtQueueRemove
  <2> QED  BY <1>1, <1>2, <1>3, <2>1, <2>2, RestPending DEF NonEmpty, Pending
<1>5. CASE ~over
  <2> DEFINE v == [t EXCEPT !.idx = @ + 1, !.sent = FALSE]
  <2>1. AtQueueRemoveCmd(x, res) = AtQueueNext(x)
    BY <1>1, <1>5, Zenon DEF AtQueueRemoveCmd
  <2>2. AtQueueNext(x).tasks = << v >> \o Tail(x.tasks)
    BY DEF AtQueueNext
  <2> HIDE DEF v
  <2> QED  BY <1>1, <1>2, <1>3, <2>1, <2>2, RestPending DEF NonEmpty, Pending
<1> QED  BY <1>4, <1>5

LEMMA AddKeepsPending ==
  ASSUME NEW x, QueueOK(x), NEW id \in TaskIds, id \notin Queued(x), NEW k \in Kind
  PROVE  /\ Pending(x) => Pending(AtQueueAdd(x, id, k))
         /\ Reading(k) => Pending(AtQueueAdd(x, id, k))
<1> DEFINE s == x.tasks
           t == NewTask(id, k)
           u == AtQueueAdd(x, id, k).tasks
<1>1. s \in Seq(Task) /\ Len(s) \in Nat /\ t \in Task /\ (Reading(k) => Unread(t))
  BY QueueFields, NewTaskType DEF Unread, Untouched
<1>2. CASE k \in Prio /\ NonEmpty(x)
  <2>1. u = << Head(s), t >> \o Tail(s) /\ ~Reading(k)
    BY <1>2 DEF AtQueueAdd, Prio, Reading
  <2>2. /\ Len(s) \in Nat \ {0} /\ Tail(s) \in Seq(Task) /\ Len(Tail(s)) = Len(s) - 1
        /\ Head(s) = s[1] /\ Head(s) \in Task /\ \A j \in 1..Len(Tail(s)) : Tail(s)[j] = s[j + 1]
    BY <1>1, <1>2, EmptySeq, HeadTailProperties DEF NonEmpty
  <2>3. << Head(s), t >> \in Seq(Task) /\ Len(<< Head(s), t >>) = 2
    BY <1>1, <2>2
  <2>4. /\ Len(u) = 2 + Len(Tail(s))
        /\ \A j \in 1..2 + Len(Tail(s)) :
             u[j] = IF j <= 2 THEN << Head(s), t >>[j] ELSE Tail(s)[j - 2]
    BY <2>1, <2>2, <2>3, ConcatProperties
  <2> HIDE DEF u, t
  <2>5. ASSUME NEW i \in 1..Len(s), Unread(s[i]) PROVE \E j \in 1..Len(u) : Unread(u[j])
    <3>1. CASE i = 1
      <4>1. 1 \in 1..Len(u) /\ u[1] = s[1]
        BY <2>2, <2>4
      <4> QED  BY <2>5, <3>1, <4>1
    <3>2. CASE i # 1
      <4>1. i + 1 \in 1..2 + Len(Tail(s)) /\ ~(i + 1 <= 2) /\ (i + 1) - 2 = i - 1
            /\ i - 1 \in 1..Len(Tail(s)) /\ (i - 1) + 1 = i
        BY <2>2, <3>2
      <4>2. u[i + 1] = s[i]
        BY <2>2, <2>4, <4>1
      <4> QED  BY <2>4, <2>5, <4>1, <4>2
    <3> QED  BY <3>1, <3>2
  <2> QED  BY <2>1, <2>5 DEF Pending, u
<1>3. CASE ~(k \in Prio /\ NonEmpty(x))
  <2>1. u = Append(s, t)
    BY <1>3 DEF AtQueueAdd
  <2>2. /\ Len(u) = Len(s) + 1 /\ (\A j \in 1..Len(s) : u[j] = s[j]) /\ u[Len(s) + 1] = t
    BY <1>1, <2>1, AppendProperties
  <2>3. Len(s) + 1 \in 1..Len(u) /\ \A j \in 1..Len(s) : j \in 1..Len(u)
    BY <1>1, <2>2
  <2> HIDE DEF u, t
  <2> QED  BY <1>1, <2>2, <2>3 DEF Pending, u
<1> QED  BY <1>2, <1>3

LEMMA RunKeepsPending ==
  ASSUME NEW x, QueueOK(x), NEW ok \in BOOLEAN, ~RunFails(x, ok)
  PROVE  /\ HeadWritten(AtQueueRun(x, ok))
         /\ Pending(x) => Pending(AtQueueRun(x, ok))
<1>1. CASE ~MustWrite(x)
  BY <1>1 DEF AtQueueRun, MustWrite, HeadWritten
<1>2. CASE MustWrite(x) /\ ok
  <2> DEFINE s == x.tasks
             v == [s[1] EXCEPT !.sent = TRUE]
             y == [x EXCEPT !.tasks[1].sent = TRUE]
  <2>1. AtQueueRun(x, ok) = y /\ NonEmpty(x)
    BY <1>2 DEF AtQueueRun, MustWrite
  <2>2. s \in Seq(Task) /\ Len(s) \in Nat \ {0} /\ x \in [tasks : Seq(Task), ntasks : Nat, ncmds : Int]
    BY <2>1, QueueFields DEF QueueOK, Queue
  <2>3. y.tasks = [s EXCEPT ![1] = v]
    BY <2>2
  <2>4. s[1] \in [id : TaskIds, kind : Kind, idx : Nat \ {0}, sent : BOOLEAN]
    BY <2>2 DEF Task
  <2>5. v.kind = s[1].kind /\ v.idx = s[1].idx
    BY <2>4
  <2>a. v \in Task
    <3>1. v \in [id : TaskIds, kind : Kind, idx : Nat \ {0}, sent : BOOLEAN]
      BY <2>4
    <3>2. s[1].idx <= Len(Script(s[1].kind))
      BY <2>2 DEF Task
    <3> QED  BY <2>5, <3>1, <3>2 DEF Task
  <2> HIDE DEF v
  <2>6. Len(y.tasks) = Len(s) /\ \A i \in 1..Len(s) : y.tasks[i] = IF i = 1 THEN v ELSE s[i]
    <3>1. /\ [s EXCEPT ![1] = v] \in Seq(Task) /\ Len([s EXCEPT ![1] = v]) = Len(s)
          /\ \A i \in 1..Len(s) : [s EXCEPT ![1] = v][i] = IF i = 1 THEN v ELSE s[i]
      BY <2>2, <2>a, ExceptSeq
    <3> HIDE DEF s, y
    <3> QED  BY <2>3, <3>1
  <2>7. HeadSent(y)
    BY <2>1, SentKeepsOK
  <2> HIDE DEF y
  <2>8. Pending(x) => Pending(y)
    BY <2>5, <2>6 DEF Pending, Unread
  <2> QED  BY <2>1, <2>7, <2>8 DEF HeadSent, HeadWritten
<1> QED  BY <1>1, <1>2 DEF RunFails

-----------------------------------------------------------------------------
LEMMA WriteOutcomeType == WriteOutcome \subseteq BOOLEAN
  BY DEF WriteOutcome

LEMMA NewIdType ==
  ASSUME UnusedIds # {}
  PROVE  NewId \in TaskIds /\ NewId \notin Queued(q)
  BY DEF UnusedIds, NewId

LEMMA EmptyOK == QueueOK(EmptyQueue) /\ HeadWritten(EmptyQueue)
  BY EmptyQueueOK DEF HeadWritten, NonEmpty, EmptyQueue

(* The end of a connection.                                                     *)
LEMMA DisconnectKeeps ==
  ASSUME NEW x, QueueOK(x), Disconnect(x), plain' \in BOOLEAN
  PROVE  IInv'
  BY FlushEmpties, EmptyOK DEF Disconnect, IInv

(* A handler's end: the queue y has a message to be read if the flag is set.     *)
LEMMA FinishKeeps ==
  ASSUME IInv, connected, NEW y, QueueOK(y), NEW a, NEW inc \in BOOLEAN, NEW rep, NEW look,
         NEW p \in BOOLEAN, plain' = (connected' /\ p), inc => p \/ Pending(y),
         Finish(y, a, inc, rep, look)
  PROVE  IInv'
<1>1. PICK ok \in BOOLEAN :
        IF RunFails(y, ok)
        THEN Disconnect(AtQueueRun(y, ok))
        ELSE Run(y, a, ok) /\ incoming' = inc /\ UNCHANGED connected
  BY WriteOutcomeType DEF Finish
<1>2. CASE RunFails(y, ok)
  <2>1. QueueOK(AtQueueRun(y, ok)) /\ Disconnect(AtQueueRun(y, ok))
    BY <1>1, <1>2, RunKeepsOK
  <2>2. plain' \in BOOLEAN
    BY <2>1 DEF Disconnect
  <2> QED  BY <2>1, <2>2, DisconnectKeeps
<1>3. CASE ~RunFails(y, ok)
  <2>1. q' = AtQueueRun(y, ok) /\ incoming' = inc /\ connected' = connected
    BY <1>1, <1>3 DEF Run
  <2>2. QueueOK(q') /\ HeadWritten(q') /\ (Pending(y) => Pending(q'))
    BY <1>3, <2>1, RunKeepsOK, RunKeepsPending
  <2>3. plain' = p
    BY <2>1
  <2> QED  BY <2>1, <2>2, <2>3 DEF IInv
<1> QED  BY <1>2, <1>3

(* A task queued by a caller: where it could not be written it is gone again,     *)
(* for no other task was queued.                                                  *)
LEMMA QueuedKeeps ==
  ASSUME IInv, UnusedIds # {}, NEW k \in {"sms", "user"}, NEW a, NEW ok \in BOOLEAN,
         Run(AtQueueAdd(q, NewId, k), a, ok), UNCHANGED << connected, incoming, plain >>
  PROVE  IInv'
<1> DEFINE x == AtQueueAdd(q, NewId, k)
<1>1. /\ QueueOK(q) /\ HeadWritten(q) /\ NewId \in TaskIds /\ NewId \notin Queued(q) /\ k \in Kind
  BY NewIdType DEF IInv, Kind
<1>2. /\ QueueOK(x) /\ NonEmpty(x) /\ (Pending(q) => Pending(x))
      /\ NonEmpty(q) => Head(x.tasks) = Head(q.tasks)
  BY <1>1, AddKeepsOK, AddKeepsPending
<1>3. q' = AtQueueRun(x, ok)
  BY DEF Run
<1>4. QueueOK(q')
  BY <1>2, <1>3, RunKeepsOK
<1>5. CASE ~RunFails(x, ok)
  <2>1. HeadWritten(q') /\ (Pending(x) => Pending(q'))
    BY <1>2, <1>3, <1>5, RunKeepsPending
  <2> QED  BY <1>2, <1>4, <2>1 DEF IInv
<1>6. CASE RunFails(x, ok)
  <2>1. ~NonEmpty(q)
    BY <1>1, <1>2, <1>6 DEF RunFails, MustWrite, HeadWritten
  <2>2. ~Pending(q)
    <3>1. q.tasks = << >> /\ Len(<< >>) = 0
      BY <2>1, EmptySeq DEF NonEmpty
    <3> QED  BY <3>1 DEF Pending
  <2>3. x.tasks = << NewTask(NewId, k) >>
    <3>1. q.tasks = << >> /\ x.tasks = Append(q.tasks, NewTask(NewId, k))
      BY <2>1 DEF AtQueueAdd, NonEmpty
    <3> DEFINE t == NewTask(NewId, k)
    <3>2. Append(<< >>, t) = << t >>
      OBVIOUS
    <3> QED  BY <3>1, <3>2
  <2>4. AtQueueRun(x, ok) = AtQueueRemoveCmd(x, "unwritten")
    BY <1>6 DEF AtQueueRun, RunFails
  <2>5. AtQueueRemoveCmd(x, "unwritten") = AtQueueRemove(x)
    <3> DEFINE t == Head(x.tasks)
    <3>1. t = NewTask(NewId, k)
      BY <2>3
    <3>2. \/ t.idx >= Len(Script(t.kind))
          \/ Expect(CmdOf(t)) # "unwritten" /\ CmdOf(t) \notin Ignore
      <4>1. CASE k = "sms"
        <5>1. CmdOf(t) = "CMGS"
          BY <3>1, <4>1 DEF NewTask, CmdOf, Script, Scripts
        <5>2. Expect("CMGS") # "unwritten" /\ "CMGS" \notin Ignore
          BY DEF Expect, Ignore
        <5> QED  BY <5>1, <5>2
      <4>2. CASE k = "user"
        <5>1. t.idx = 1 /\ t.kind = "user"
          BY <3>1, <4>2 DEF NewTask
        <5>2. Script("user") = << "USER" >> /\ Len(<< "USER" >>) = 1
          BY DEF Script, Scripts
        <5>3. t.idx >= Len(Script(t.kind))
          <6> DEFINE n == t.idx
                     l == Len(Script(t.kind))
          <6>1. n = 1 /\ l = 1
            BY <5>1, <5>2
          <6> HIDE DEF n, l
          <6>2. n >= l
            BY <6>1, SMT
          <6> QED  BY <6>2 DEF n, l
        <5> QED  BY <5>3
      <4> QED  BY <4>1, <4>2
    <3>3. AtQueueRemove(AtQueueNext(x)) = AtQueueRemove(x)
      BY <1>2, RemoveOfNext
    <3> QED  BY <1>2, <3>2, <3>3, Zenon DEF AtQueueRemoveCmd
  <2>6. AtQueueRemove(x).tasks = << >>
    BY <2>3 DEF AtQueueRemove
  <2>7. HeadWritten(q')
    BY <1>3, <2>4, <2>5, <2>6 DEF HeadWritten, NonEmpty
  <2> QED  BY <1>4, <2>2, <2>7 DEF IInv
<1> QED  BY <1>5, <1>6

-----------------------------------------------------------------------------
LEMMA HandleKeeps ==
  ASSUME IInv, Monitor
  PROVE  IInv'
<1>0. /\ QueueOK(q) /\ plain \in BOOLEAN /\ incoming \in BOOLEAN /\ (incoming => plain \/ Pending(q))
      /\ \A res : QueueOK(AtQueueRemoveCmd(q, res))
      /\ \A res : HeadCmd(q) # "CMGR" /\ Pending(q) => Pending(AtQueueRemoveCmd(q, res))
  BY RemoveCmdKeepsOK, RemoveCmdKeepsPending DEF IInv
<1>1. CASE HandleOk
  <2> DEFINE y   == IF HeadExpects({"OK", "CMGR"}) THEN AtQueueRemoveCmd(q, "OK") ELSE q
             p   == plain \/ HeadIs({"CMGR"})
             rep == IF HeadIs({"SMSTEXT"}) THEN [reports EXCEPT ![HeadAbout] = Append(@, "Sent")]
                    ELSE reports
  <2>1. connected /\ plain' = (connected' /\ p) /\ Finish(y, arg, incoming, rep, HeadIs({"SMSTEXT"}))
    BY <1>1 DEF HandleOk, Taken
  <2>2. QueueOK(y) /\ p \in BOOLEAN
    BY <1>0
  <2>3. incoming => p \/ Pending(y)
    <3>1. Pending(q) => NonEmpty(q)
      BY EmptySeq DEF Pending, NonEmpty
    <3> QED  BY <1>0, <3>1 DEF HeadIs
  <2> HIDE DEF y, p, rep
  <2> QED  BY <1>0, <2>1, <2>2, <2>3, FinishKeeps
<1>2. CASE HandleError
  <2> DEFINE y   == AtQueueRemoveCmd(q, "ERROR")
             sending == HeadIs({"CMGS", "SMSTEXT"})
             reading == HeadIs({"CMGR", "CMGD"})
             rep == IF sending THEN [reports EXCEPT ![HeadAbout] = Append(@, "NotSent")]
                    ELSE reports
             inc == incoming /\ ~reading
  <2>1. connected /\ plain' = (connected' /\ plain) /\ Finish(y, arg, inc, rep, sending \/ reading)
    BY <1>2 DEF HandleError, Taken
  <2>2. QueueOK(y) /\ inc \in BOOLEAN
    BY <1>0
  <2>3. inc => plain \/ Pending(y)
    <3>1. Pending(q) => NonEmpty(q)
      BY EmptySeq DEF Pending, NonEmpty
    <3> QED  BY <1>0, <3>1 DEF HeadIs
  <2> HIDE DEF y, rep, inc, sending, reading
  <2> QED  BY <1>0, <2>1, <2>2, <2>3, FinishKeeps
<1>3. CASE HandlePrompt
  <2> DEFINE y == IF HeadExpects({"PROMPT"}) THEN AtQueueRemoveCmd(q, "PROMPT") ELSE q
  <2>1. connected /\ plain' = (connected' /\ plain) /\ Finish(y, arg, incoming, reports, FALSE)
    BY <1>3 DEF HandlePrompt, Taken
  <2>2. QueueOK(y)
    BY <1>0
  <2>3. incoming => plain \/ Pending(y)
    <3>1. HeadExpects({"PROMPT"}) => HeadCmd(q) # "CMGR"
      BY DEF HeadExpects, Expect
    <3> QED  BY <1>0, <3>1
  <2> HIDE DEF y
  <2> QED  BY <1>0, <2>1, <2>2, <2>3, FinishKeeps
<1>4. CASE HandleCmgr
  <2> DEFINE taken == HeadExpects({"CMGR"}) \/ HeadIs({"USER"})
             y     == IF taken THEN AtQueueRemoveCmd(q, "CMGR") ELSE q
             inc   == incoming /\ ~taken
  <2>1. connected /\ plain' = (connected' /\ plain) /\ Finish(y, arg, inc, reports, taken)
    BY <1>4 DEF HandleCmgr, Taken
  <2>2. QueueOK(y) /\ inc \in BOOLEAN
    BY <1>0
  <2>3. inc => plain \/ Pending(y)
    BY <1>0
  <2> HIDE DEF taken, y, inc
  <2> QED  BY <1>0, <2>1, <2>2, <2>3, FinishKeeps
<1>5. CASE HandleCmti
  <2>1. connected /\ plain' = (connected' /\ plain)
    BY <1>5 DEF HandleCmti, Taken
  <2>2. CASE DisableSms \/ ~Enabled
    <3>1. Finish(q, arg, incoming, reports, FALSE)
      BY <1>5, <2>2 DEF HandleCmti
    <3> QED  BY <1>0, <2>1, <3>1, FinishKeeps
  <2>3. CASE ~(DisableSms \/ ~Enabled)
    <3>1. PICK delete \in AutoDelete :
            Finish(AtQueueAdd(q, NewId, IF delete THEN "retrieve" ELSE "read"),
                   With(NewId, Head(tty).slot), TRUE, reports, FALSE)
      BY <1>5, <2>3 DEF HandleCmti
    <3> DEFINE k == IF delete THEN "retrieve" ELSE "read"
               y == AtQueueAdd(q, NewId, k)
               a == With(NewId, Head(tty).slot)
    <3>2. k \in Kind /\ Reading(k)
      BY DEF Kind, Reading
    <3>3. UnusedIds # {}
      BY <1>5, <2>3 DEF HandleCmti
    <3>4. QueueOK(y) /\ Pending(y)
      <4>1. NewId \in TaskIds /\ NewId \notin Queued(q)
        BY <3>3, NewIdType
      <4> HIDE DEF k
      <4> QED  BY <1>0, <3>2, <4>1, AddKeepsOK, AddKeepsPending
    <3>5. Finish(y, a, TRUE, reports, FALSE)
      BY <3>1
    <3> HIDE DEF k, y, a
    <3> QED  BY <1>0, <2>1, <3>4, <3>5, FinishKeeps
  <2> QED  BY <2>2, <2>3
<1> QED  BY <1>1, <1>2, <1>3, <1>4, <1>5 DEF Monitor

LEMMA InitEstablishes == Init => IInv
  BY EmptyOK DEF Init, IInv

LEMMA StepKeeps == IInv /\ [Next]_vars => IInv'
<1> SUFFICES ASSUME IInv, [Next]_vars PROVE IInv'
  OBVIOUS
<1>1. CASE \E m \in Own : SendSms(m)
  <2>1. PICK m \in Own : SendSms(m)
    BY <1>1
  <2>2. UNCHANGED << connected, incoming, plain >>
    BY <2>1 DEF SendSms
  <2>3. CASE ~Sendable(Content[m].number, Content[m].text)
    BY <2>1, <2>2, <2>3 DEF SendSms, IInv
  <2>4. CASE Sendable(Content[m].number, Content[m].text)
    <3>1. PICK ok \in BOOLEAN : /\ UnusedIds # {}
                                /\ Run(AtQueueAdd(q, NewId, "sms"), With(NewId, m), ok)
      BY <2>1, <2>4, WriteOutcomeType DEF SendSms
    <3> QED  BY <2>2, <3>1, QueuedKeeps
  <2> QED  BY <2>3, <2>4
<1>2. CASE \E s \in Slots : UserDeletes(s)
  <2>1. PICK s \in Slots : UserDeletes(s)
    BY <1>2
  <2>2. PICK ok \in BOOLEAN : Run(AtQueueAdd(q, NewId, "user"), With(NewId, s), ok)
    BY <2>1, WriteOutcomeType DEF UserDeletes
  <2>3. UNCHANGED << connected, incoming, plain >> /\ UnusedIds # {}
    BY <2>1 DEF UserDeletes
  <2> QED  BY <2>2, <2>3, QueuedKeeps
<1>3. CASE \E when \in Whens : Restart(when)
  BY <1>3 DEF Restart, IInv
<1>4. CASE DiscoveryStops \/ Lose
  <2>1. Disconnect(q) /\ plain' = FALSE
    BY <1>4 DEF DiscoveryStops, Lose
  <2> QED  BY <2>1, DisconnectKeeps DEF IInv
<1>5. CASE Connect
  BY <1>5 DEF Connect, IInv
<1>6. CASE Monitor
  BY <1>6, HandleKeeps
<1>7. CASE Modem
  BY <1>7 DEF Modem, driverVars, historyVars, IInv
<1>8. CASE \E m \in Messages, s \in Slots : Arrive(m, s)
  BY <1>8 DEF Arrive, driverVars, historyVars, IInv
<1>9. CASE UNCHANGED vars
  BY <1>9 DEF vars, IInv
<1> QED  BY <1>1, <1>2, <1>3, <1>4, <1>5, <1>6, <1>7, <1>8, <1>9 DEF Next

(* incoming_sms, which holds back a graceful restart, is set for a reason: a        *)
(* message is still to be read, or the reading of one was answered by a plain OK.     *)
THEOREM FlagReason == Spec => []FlagHasReason
<1>1. IInv => FlagHasReason
  <2> SUFFICES ASSUME IInv PROVE FlagHasReason
    OBVIOUS
  <2>1. q.tasks \in Seq(Task) /\ DOMAIN q.tasks = 1..Len(q.tasks)
    BY QueueFields DEF IInv
  <2> QED  BY <2>1 DEF IInv, FlagHasReason, Pending, Unread
<1> QED  BY <1>1, InitEstablishes, StepKeeps, PTL DEF Spec

-----------------------------------------------------------------------------
(* The line and its answers.  What the properties below rest on: the modem    *)
(* runs what the head of the queue has written, and what it answered, if       *)
(* anything, is an answer to that.                                            *)
TtyResult == [res : {"OK", "ERROR", "PROMPT"}]
             \cup [res : {"CMGR"}, msg : Messages] \cup [res : {"CMTI"}, slot : Slots]
Line      == [cmd : Cmd, arg : Own \cup Slots]
Replies   == { i \in 1..Len(tty) : tty[i].res # "CMTI" }
Heard     == { Passed[m] : m \in ReadableOnes }

(* The results the modem may give to a command. *)
Answers(cmd, res) ==
  \/ res = "ERROR"
  \/ res = "PROMPT" /\ cmd = "CMGS"
  \/ res = "CMGR" /\ cmd = "CMGR"
  \/ res = "OK" /\ cmd # "CMGS"

Types ==
  /\ want \in Want
  /\ line \in {NoCmd} \cup Line
  /\ tty \in Seq(TtyResult)
  /\ store \in [Slots -> Messages \cup {NoMessage}]
  /\ net \subseteq Messages /\ accepted \subseteq Own /\ erased \subseteq Messages
  /\ reports \in [Own -> Seq(Report)]
  /\ heard \in [Messages -> Seq(Heard)]
  /\ counts \in Counts

Tasks ==
  /\ arg \in [Queued(q) -> Own \cup Slots]
  /\ \A j \in Jobs(q) : /\ j.kind \in {"sms", "user", "retrieve", "read"}
                        /\ arg[j.id] \in IF j.kind = "sms" THEN Own ELSE Slots

InStep ==
  /\ ~connected => Jobs(q) = {} /\ line = NoCmd /\ tty = << >>
  /\ \A i, k \in Replies : i = k
  /\ line # NoCmd => /\ Jobs(q) # {}
                     /\ line.cmd = CmdOf(HeadJob(q)) /\ line.arg = arg[HeadJob(q).id]
                     /\ Replies = {}
  /\ \A i \in Replies : Jobs(q) # {} /\ Answers(CmdOf(HeadJob(q)), tty[i].res)

Base == IInv /\ Types /\ Tasks /\ InStep

LEMMA ResultType ==
  ASSUME NEW r \in TtyResult
  PROVE  /\ r.res \in {"OK", "ERROR", "PROMPT", "CMGR", "CMTI"}
         /\ r.res = "CMGR" => r.msg \in Messages
         /\ r.res = "CMTI" => r.slot \in Slots
  BY DEF TtyResult

LEMMA LineNotNone == \A c, a : [cmd |-> c, arg |-> a] # NoCmd
<1>1. DOMAIN << >> = {}
  OBVIOUS
<1>2. \A c, a : DOMAIN [cmd |-> c, arg |-> a] = {"cmd", "arg"}
  OBVIOUS
<1>3. QED  BY <1>1, <1>2 DEF NoCmd

(* Which command each of the tasks is at. *)
LEMMA JobCommands ==
  ASSUME Base, NEW j \in Jobs(q)
  PROVE  /\ j.kind \in {"sms", "user", "retrieve", "read"} /\ j.idx \in {1, 2}
         /\ j.kind \in {"user", "read"} => j.idx = 1
         /\ Len(Script(j.kind)) = IF j.kind \in {"user", "read"} THEN 1 ELSE 2
         /\ CmdOf(j) = IF j.kind = "sms" THEN IF j.idx = 1 THEN "CMGS" ELSE "SMSTEXT"
                       ELSE IF j.kind = "user" THEN "USER"
                       ELSE IF j.idx = 1 THEN "CMGR" ELSE "CMGD"
<1>1. j.kind \in {"sms", "user", "retrieve", "read"}
  BY DEF Base, Tasks
<1>2. j.idx \in Nat \ {0} /\ j.idx <= Len(Script(j.kind))
  BY JobsFacts DEF Base, IInv
<1>3. /\ Script("sms") = << "CMGS", "SMSTEXT" >> /\ Script("user") = << "USER" >>
      /\ Script("retrieve") = << "CMGR", "CMGD" >> /\ Script("read") = << "CMGR" >>
  BY DEF Script, Scripts
<1>4. /\ Len(<< "CMGS", "SMSTEXT" >>) = 2 /\ Len(<< "USER" >>) = 1
      /\ Len(<< "CMGR", "CMGD" >>) = 2 /\ Len(<< "CMGR" >>) = 1
  OBVIOUS
<1>5. /\ << "CMGS", "SMSTEXT" >>[1] = "CMGS" /\ << "CMGS", "SMSTEXT" >>[2] = "SMSTEXT"
      /\ << "CMGR", "CMGD" >>[1] = "CMGR" /\ << "CMGR", "CMGD" >>[2] = "CMGD"
      /\ << "USER" >>[1] = "USER" /\ << "CMGR" >>[1] = "CMGR"
  OBVIOUS
<1>6. Len(Script(j.kind)) = IF j.kind \in {"user", "read"} THEN 1 ELSE 2
  BY <1>1, <1>3, <1>4
<1>7. j.idx \in {1, 2} /\ (j.kind \in {"user", "read"} => j.idx = 1)
  BY <1>2, <1>6
<1>8. CmdOf(j) = Script(j.kind)[j.idx]
  BY DEF CmdOf
<1>9. QED  BY <1>1, <1>3, <1>5, <1>6, <1>7, <1>8

(* The head as a job. *)
LEMMA HeadFacts ==
  ASSUME Base
  PROVE  /\ NonEmpty(q) <=> Jobs(q) # {}
         /\ NonEmpty(q) => /\ HeadJob(q) \in Jobs(q) /\ HeadCmd(q) = CmdOf(HeadJob(q))
                           /\ HeadAbout = arg[HeadJob(q).id]
                           /\ \A j \in Jobs(q) : j # HeadJob(q) => j.idx = 1
                           /\ Head(q.tasks).sent
         /\ Queued(q) = { j.id : j \in Jobs(q) }
         /\ \A j, k \in Jobs(q) : j.id = k.id => j = k
         /\ ~MustWrite(q)
  BY JobsFacts DEF Base, IInv, HeadWritten, MustWrite, HeadAbout

LEMMA SendingJobs ==
  ASSUME NEW x, QueueOK(x)
  PROVE  Sending(x) = { arg[j.id] : j \in { k \in Jobs(x) : k.kind = "sms" } }
<1>1. DOMAIN x.tasks = 1..Len(x.tasks)
  BY QueueFields
<1>2. \A t : Job(t).id = t.id /\ Job(t).kind = t.kind
  BY DEF Job
<1>3. ASSUME NEW m \in Sending(x)
      PROVE  \E j \in Jobs(x) : j.kind = "sms" /\ m = arg[j.id]
  <2>1. PICK i \in 1..Len(x.tasks) : x.tasks[i].kind = "sms" /\ m = arg[x.tasks[i].id]
    BY <1>1 DEF Sending
  <2>2. Job(x.tasks[i]) \in Jobs(x)
    BY DEF Jobs, JobsIn
  <2>3. QED  BY <1>2, <2>1, <2>2
<1>4. ASSUME NEW j \in Jobs(x), j.kind = "sms"
      PROVE  arg[j.id] \in Sending(x)
  <2>1. PICK i \in 1..Len(x.tasks) : j = Job(x.tasks[i])
    BY DEF Jobs, JobsIn
  <2>2. QED  BY <1>1, <1>2, <1>4, <2>1 DEF Sending
<1>5. QED  BY <1>3, <1>4

(* A result taken off the tty, and one that comes. *)
LEMMA TtyTail ==
  ASSUME Types, tty # << >>
  PROVE  /\ Head(tty) \in TtyResult /\ Tail(tty) \in Seq(TtyResult)
         /\ 1 \in 1..Len(tty) /\ Head(tty) = tty[1]
         /\ \A i \in 1..Len(Tail(tty)) :
              i + 1 \in 1..Len(tty) /\ i + 1 # 1 /\ Tail(tty)[i] = tty[i + 1]
<1>1. tty \in Seq(TtyResult)
  BY DEF Types
<1>2. /\ Len(tty) \in Nat \ {0} /\ Head(tty) = tty[1] /\ Tail(tty) \in Seq(TtyResult)
      /\ Len(Tail(tty)) = Len(tty) - 1
      /\ \A i \in 1..Len(Tail(tty)) : Tail(tty)[i] = tty[i + 1]
  BY <1>1, EmptySeq, HeadTailProperties
<1>3. QED  BY <1>1, <1>2

LEMMA TtyAppend ==
  ASSUME Types, NEW r \in TtyResult
  PROVE  /\ Append(tty, r) \in Seq(TtyResult) /\ Len(tty) \in Nat
         /\ Len(Append(tty, r)) = Len(tty) + 1
         /\ \A i \in 1..Len(tty) : Append(tty, r)[i] = tty[i]
         /\ Append(tty, r)[Len(tty) + 1] = r
  BY AppendProperties DEF Types

-----------------------------------------------------------------------------
(* What the steps do to the queue, the line and the tty.                     *)
Gone ==
  /\ connected' = FALSE /\ q' = EmptyQueue /\ arg' = << >>
  /\ line' = NoCmd /\ tty' = << >>

(* The tasks keep what they are about. *)
KeepArgs(S) == \A j \in S : arg'[j.id] = arg[j.id]

(* A task of the kind k about a is queued, and runs if it is alone. *)
Queues(k, a) ==
  \E id \in TaskIds \ Queued(q) :
    LET n == [id |-> id, kind |-> k, idx |-> 1]
    IN  /\ Jobs(q') = Jobs(q) \cup {n}
        /\ arg'[id] = a /\ KeepArgs(Jobs(q))
        /\ Jobs(q) # {} => HeadJob(q') = HeadJob(q) /\ line' = line
        /\ Jobs(q) = {} => HeadJob(q') = n /\ line' = [cmd |-> CmdOf(n), arg |-> a]

(* The head goes on to its next command after res. *)
GoesOnAfter(h, res) ==
  /\ h.idx = 1
  /\ \/ h.kind = "sms" /\ res = "PROMPT"
     \/ h.kind = "retrieve" /\ res = "CMGR"

Others == { j \in Jobs(q) : j.id # HeadJob(q).id }

(* What the queue holds after the result res of its head, and what runs then. *)
Leaves(J, res) ==
  IF GoesOnAfter(HeadJob(q), res) THEN J = Others \cup {[HeadJob(q) EXCEPT !.idx = 2]}
  ELSE J = Others

Proceeds(res) ==
  /\ Leaves(Jobs(q'), res)
  /\ KeepArgs(Jobs(q'))
  /\ IF Jobs(q') = {} THEN line' = NoCmd
     ELSE /\ HeadJob(q') \in Jobs(q')
          /\ GoesOnAfter(HeadJob(q), res) => HeadJob(q') = [HeadJob(q) EXCEPT !.idx = 2]
          /\ line' = [cmd |-> CmdOf(HeadJob(q')), arg |-> arg[HeadJob(q').id]]

LEMMA GoneKeepsBase ==
  ASSUME IInv', Types', Gone
  PROVE  Base'
<1>1. Jobs(q') = {} /\ Queued(q') = {}
  BY JobsFacts, JobsInEmpty DEF Gone, Jobs, EmptyQueue, Queued, IInv
<1>2. Tasks'
  BY <1>1 DEF Gone, Tasks
<1>3. Replies' = {}
  BY EmptySeq DEF Gone, Replies
<1>4. InStep'
  BY <1>1, <1>3 DEF Gone, InStep
<1>5. QED  BY <1>2, <1>4 DEF Base

(* at_queue_run after a task was queued. *)
LEMMA RunQueues ==
  ASSUME Base, UnusedIds # {}, NEW k \in {"sms", "user", "retrieve", "read"},
         NEW a \in Own \cup Slots, a \in IF k = "sms" THEN Own ELSE Slots, NEW ok \in BOOLEAN,
         Run(AtQueueAdd(q, NewId, k), With(NewId, a), ok),
         ~RunFails(AtQueueAdd(q, NewId, k), ok)
  PROVE  Queues(k, a) /\ Tasks'
<1> DEFINE id == NewId
           n  == [id |-> id, kind |-> k, idx |-> 1]
           x  == AtQueueAdd(q, id, k)
           w  == With(id, a)
<1>1. id \in TaskIds /\ id \notin Queued(q) /\ k \in Kind /\ QueueOK(q)
  BY NewIdType DEF Kind, Base, IInv
<1>2. /\ QueueOK(x) /\ NonEmpty(x) /\ Jobs(x) = Jobs(q) \cup {n}
      /\ NonEmpty(q) => Head(x.tasks) = Head(q.tasks)
      /\ ~NonEmpty(q) => Head(x.tasks) = NewTask(id, k)
  BY <1>1, AddKeepsOK, JobsOfAdd, AddHead
<1>3. /\ q' = AtQueueRun(x, ok) /\ arg' = [t \in Queued(q') |-> w[t]]
      /\ line' = IF MustWrite(x) /\ ok THEN AboutHead(x, w) ELSE line
  BY DEF Run
<1>4. /\ Jobs(q') = Jobs(q) \cup {n} /\ NonEmpty(q') /\ HeadJob(q') = HeadJob(x) /\ QueueOK(q')
  BY <1>2, <1>3, JobsOfRun, RunKeepsOK
<1>5. Queued(q') = { j.id : j \in Jobs(q') }
  BY <1>4, JobsFacts
<1>6. /\ Queued(q) = { j.id : j \in Jobs(q) } /\ (NonEmpty(q) <=> Jobs(q) # {})
      /\ \A j \in Jobs(q) : j.id # id
  BY <1>1, HeadFacts
<1>7. DOMAIN arg = Queued(q) /\ arg \in [Queued(q) -> Own \cup Slots]
  BY DEF Base, Tasks
<1>8. w[id] = a /\ (\A j \in Jobs(q) : w[j.id] = arg[j.id])
  BY <1>6, <1>7 DEF With
<1>9. n.id = id /\ n.kind = k /\ n.idx = 1
  OBVIOUS
<1> HIDE DEF x, w, n
<1>10. arg'[id] = a /\ KeepArgs(Jobs(q))
  BY <1>3, <1>4, <1>5, <1>8, <1>9 DEF KeepArgs
<1>11. ASSUME NonEmpty(q) PROVE Queues(k, a)
  <2>1. HeadJob(x) = HeadJob(q)
    BY <1>2, <1>11 DEF HeadJob
  <2>2. ~MustWrite(x)
    BY <1>2, <1>11, HeadFacts DEF MustWrite
  <2>3. line' = line
    BY <1>3, <2>2
  <2>4. QED
    BY <1>1, <1>4, <1>6, <1>10, <1>11, <2>1, <2>3 DEF Queues, n
<1>12. ASSUME ~NonEmpty(q) PROVE Queues(k, a)
  <2>1. Head(x.tasks) = NewTask(id, k)
    BY <1>2, <1>12
  <2>2. Job(NewTask(id, k)) = n /\ CmdOf(NewTask(id, k)) = CmdOf(n)
        /\ NewTask(id, k).id = id /\ ~NewTask(id, k).sent
    BY DEF Job, NewTask, CmdOf, n
  <2>3. HeadJob(x) = n /\ MustWrite(x) /\ AboutHead(x, w) = [cmd |-> CmdOf(n), arg |-> a]
    BY <1>2, <1>8, <2>1, <2>2 DEF HeadJob, MustWrite, AboutHead, HeadCmd
  <2>4. ok
    BY <2>3 DEF RunFails, x
  <2>5. line' = [cmd |-> CmdOf(n), arg |-> a]
    BY <1>3, <2>3, <2>4
  <2>6. QED
    BY <1>1, <1>4, <1>6, <1>10, <1>12, <2>3, <2>5 DEF Queues, n
<1>13. Tasks'
  <2>1. \A j \in Jobs(q) : /\ j.kind \in {"sms", "user", "retrieve", "read"}
                           /\ arg[j.id] \in IF j.kind = "sms" THEN Own ELSE Slots
    BY DEF Base, Tasks
  <2>2. \A j \in Jobs(q') : /\ j.kind \in {"sms", "user", "retrieve", "read"}
                            /\ arg'[j.id] \in IF j.kind = "sms" THEN Own ELSE Slots
    BY <1>4, <1>9, <1>10, <2>1 DEF KeepArgs
  <2>3. arg' \in [Queued(q') -> Own \cup Slots]
    <3>1. DOMAIN arg' = Queued(q') /\ arg' = [t \in Queued(q') |-> arg'[t]]
      BY <1>3
    <3>2. \A t \in Queued(q') : arg'[t] \in Own \cup Slots
      BY <1>5, <2>2
    <3>3. QED  BY <3>1, <3>2
  <2>4. QED  BY <2>2, <2>3 DEF Tasks
<1>14. QED  BY <1>11, <1>12, <1>13

(* A caller's task that could not be written was alone, and is gone again.   *)
LEMMA RunFailed ==
  ASSUME Base, UnusedIds # {}, NEW k \in {"sms", "user"}, NEW a, NEW ok \in BOOLEAN,
         Run(AtQueueAdd(q, NewId, k), With(NewId, a), ok),
         RunFails(AtQueueAdd(q, NewId, k), ok)
  PROVE  /\ Jobs(q) = {} /\ Jobs(q') = {} /\ line' = line /\ Queued(q') = {} /\ QueueOK(q')
         /\ Tasks'
<1> DEFINE id == NewId
           n  == [id |-> id, kind |-> k, idx |-> 1]
           x  == AtQueueAdd(q, id, k)
<1>1. id \in TaskIds /\ id \notin Queued(q) /\ k \in Kind /\ QueueOK(q)
  BY NewIdType DEF Kind, Base, IInv
<1>2. /\ QueueOK(x) /\ NonEmpty(x) /\ Jobs(x) = Jobs(q) \cup {n}
      /\ NonEmpty(q) => Head(x.tasks) = Head(q.tasks)
      /\ ~NonEmpty(q) => Head(x.tasks) = NewTask(id, k)
  BY <1>1, AddKeepsOK, JobsOfAdd, AddHead
<1>3. MustWrite(x) /\ ~ok
  BY DEF RunFails
<1>4. ~NonEmpty(q) /\ Jobs(q) = {}
  BY <1>2, <1>3, HeadFacts DEF MustWrite
<1>5. /\ q' = AtQueueRemoveCmd(x, "unwritten") /\ line' = line
      /\ arg' = [t \in Queued(q') |-> With(id, a)[t]]
  BY <1>3 DEF Run, AtQueueRun
<1>6. HeadJob(x) = n
  BY <1>2, <1>4 DEF HeadJob, Job, NewTask
<1>7. /\ Expect(CmdOf(n)) # "unwritten" /\ CmdOf(n) \notin Ignore
  <2>1. CmdOf(n) \in {"CMGS", "USER"}
    BY DEF CmdOf, Script, Scripts
  <2>2. QED  BY <2>1 DEF Expect, Ignore
<1> HIDE DEF x
<1>8. Jobs(q') = { j \in Jobs(x) : j.id # n.id } /\ QueueOK(q')
  BY <1>2, <1>5, <1>6, <1>7, JobsOfRemoveCmd, RemoveCmdKeepsOK
<1>9. Jobs(q') = {}
  BY <1>2, <1>4, <1>8
<1>10. Queued(q') = {}
  BY <1>8, <1>9, JobsFacts
<1>11. Tasks'
  BY <1>5, <1>9, <1>10 DEF Tasks
<1>12. QED  BY <1>4, <1>5, <1>8, <1>9, <1>10, <1>11

(* What the end of a handler leaves. *)
LEMMA FinishOutcome ==
  ASSUME Base, NEW y, QueueOK(y), NEW a, NEW inc, NEW rep, NEW look,
         Finish(y, a, inc, rep, look)
  PROVE  /\ UNCHANGED << store, net, accepted, erased, counts >>
         /\ \/ Gone /\ reports' = Cut(rep, y)
            \/ /\ reports' = rep /\ tty' = Tail(tty) /\ UNCHANGED connected
               /\ Jobs(q') = Jobs(y) /\ QueueOK(q')
               /\ NonEmpty(y) => HeadJob(q') = HeadJob(y)
               /\ arg' = [t \in Queued(q') |-> a[t]]
               /\ line' = IF MustWrite(y) THEN AboutHead(y, a) ELSE line
               /\ \E ok \in BOOLEAN : Run(y, a, ok) /\ ~RunFails(y, ok)
<1>1. PICK ok \in WriteOutcome :
        IF RunFails(y, ok)
        THEN Disconnect(AtQueueRun(y, ok)) /\ reports' = Cut(rep, y)
        ELSE /\ Run(y, a, ok)
             /\ incoming' = inc /\ reports' = rep
             /\ tty' = Tail(tty) /\ UNCHANGED connected
  BY DEF Finish
<1>2. ok \in BOOLEAN
  BY WriteOutcomeType
<1>3. UNCHANGED << store, net, accepted, erased, counts >>
  BY DEF Finish
<1>4. CASE RunFails(y, ok)
  <2>1. QueueOK(AtQueueRun(y, ok))
    BY <1>2, RunKeepsOK
  <2>2. Gone
    BY <1>1, <1>4, <2>1, FlushEmpties DEF Disconnect, Gone
  <2>3. QED  BY <1>1, <1>3, <1>4, <2>2
<1>5. CASE ~RunFails(y, ok)
  <2>1. /\ q' = AtQueueRun(y, ok) /\ arg' = [t \in Queued(q') |-> a[t]]
        /\ line' = IF MustWrite(y) /\ ok THEN AboutHead(y, a) ELSE line
    BY <1>1, <1>5 DEF Run
  <2>2. MustWrite(y) => ok
    BY <1>5 DEF RunFails
  <2>3. /\ Jobs(q') = Jobs(y) /\ QueueOK(q')
        /\ NonEmpty(y) => HeadJob(q') = HeadJob(y)
    BY <1>2, <1>5, <2>1, JobsOfRun, RunKeepsOK
  <2>4. QED  BY <1>1, <1>2, <1>3, <1>5, <2>1, <2>2, <2>3
<1>6. QED  BY <1>4, <1>5

(* A result takes the head off the queue or on to its next command.          *)
LEMMA AfterResult ==
  ASSUME Base, Jobs(q) # {}, NEW res, Answers(CmdOf(HeadJob(q)), res)
  PROVE  LET y == AtQueueRemoveCmd(q, res)
         IN  /\ Leaves(Jobs(y), res) /\ QueueOK(y) /\ ~HeadSent(y)
             /\ GoesOnAfter(HeadJob(q), res) =>
                  NonEmpty(y) /\ HeadJob(y) = [HeadJob(q) EXCEPT !.idx = 2]
<1> DEFINE y == AtQueueRemoveCmd(q, res)
           h == HeadJob(q)
<1>1. QueueOK(q) /\ NonEmpty(q) /\ h \in Jobs(q)
  BY HeadFacts DEF Base, IInv
<1>2. QueueOK(y) /\ ~HeadSent(y)
  BY <1>1, RemoveCmdKeepsOK
<1>3. /\ h.kind \in {"sms", "user", "retrieve", "read"} /\ h.idx \in {1, 2}
      /\ h.kind \in {"user", "read"} => h.idx = 1
      /\ Len(Script(h.kind)) = IF h.kind \in {"user", "read"} THEN 1 ELSE 2
      /\ CmdOf(h) = IF h.kind = "sms" THEN IF h.idx = 1 THEN "CMGS" ELSE "SMSTEXT"
                    ELSE IF h.kind = "user" THEN "USER"
                    ELSE IF h.idx = 1 THEN "CMGR" ELSE "CMGD"
  BY <1>1, JobCommands
<1>4. CmdOf(h) \notin Ignore
  BY <1>3 DEF Ignore
<1>5. \/ /\ \/ h.idx >= Len(Script(h.kind))
            \/ Expect(CmdOf(h)) # res /\ CmdOf(h) \notin Ignore
         /\ Jobs(y) = Others
      \/ /\ h.idx < Len(Script(h.kind))
         /\ Expect(CmdOf(h)) = res \/ CmdOf(h) \in Ignore
         /\ NonEmpty(y) /\ HeadJob(y) = [h EXCEPT !.idx = @ + 1]
         /\ Jobs(y) = Others \cup {HeadJob(y)}
  BY <1>1, JobsOfRemoveCmd DEF Others
<1> HIDE DEF y
<1>6. CASE GoesOnAfter(h, res)
  <2>1. h.idx = 1 /\ Len(Script(h.kind)) = 2 /\ Expect(CmdOf(h)) = res
    BY <1>3, <1>6 DEF GoesOnAfter, Expect
  <2>2. /\ NonEmpty(y) /\ HeadJob(y) = [h EXCEPT !.idx = @ + 1]
        /\ Jobs(y) = Others \cup {HeadJob(y)}
    BY <1>5, <2>1
  <2>3. [h EXCEPT !.idx = @ + 1] = [h EXCEPT !.idx = 2]
    BY <2>1
  <2>4. QED  BY <1>2, <1>6, <2>2, <2>3 DEF Leaves, y
<1>7. CASE ~GoesOnAfter(h, res)
  <2>1. \/ h.idx >= Len(Script(h.kind))
        \/ Expect(CmdOf(h)) # res
    BY <1>3, <1>7 DEF GoesOnAfter, Expect, Answers
  <2>2. Jobs(y) = Others
    BY <1>3, <1>4, <1>5, <2>1
  <2>3. QED  BY <1>2, <1>7, <2>2 DEF Leaves, y
<1>8. QED  BY <1>6, <1>7

(* The monitor handles an answer. *)
LEMMA ReplyOutcome ==
  ASSUME Base, NEW res \in {"OK", "ERROR", "PROMPT", "CMGR"}, Taken(res),
         NEW inc, NEW rep, NEW look,
         Finish(AtQueueRemoveCmd(q, res), arg, inc, rep, look)
  PROVE  /\ Jobs(q) # {} /\ Answers(CmdOf(HeadJob(q)), res) /\ line = NoCmd
         /\ UNCHANGED << store, net, accepted, erased, counts >>
         /\ \/ Gone /\ reports' = Cut(rep, AtQueueRemoveCmd(q, res))
            \/ /\ reports' = rep /\ tty' = Tail(tty) /\ UNCHANGED connected
               /\ Proceeds(res) /\ Tasks' /\ Replies' = {} /\ QueueOK(q')
<1> DEFINE y == AtQueueRemoveCmd(q, res)
           h == HeadJob(q)
<1>1. /\ tty # << >> /\ Head(tty) = tty[1] /\ 1 \in Replies /\ tty[1].res = res
  BY TtyTail DEF Taken, Replies, Base
<1>2. Jobs(q) # {} /\ Answers(CmdOf(h), res) /\ line = NoCmd
  BY <1>1 DEF Base, InStep
<1>3. /\ Leaves(Jobs(y), res) /\ QueueOK(y) /\ ~HeadSent(y)
      /\ GoesOnAfter(h, res) => NonEmpty(y) /\ HeadJob(y) = [h EXCEPT !.idx = 2]
  BY <1>2, AfterResult
<1> HIDE DEF y
<1>4. /\ UNCHANGED << store, net, accepted, erased, counts >>
      /\ \/ Gone /\ reports' = Cut(rep, y)
         \/ /\ reports' = rep /\ tty' = Tail(tty) /\ UNCHANGED connected
            /\ Jobs(q') = Jobs(y) /\ QueueOK(q')
            /\ NonEmpty(y) => HeadJob(q') = HeadJob(y)
            /\ arg' = [t \in Queued(q') |-> arg[t]]
            /\ line' = IF MustWrite(y) THEN AboutHead(y, arg) ELSE line
  BY <1>3, FinishOutcome DEF y
<1>5. ASSUME tty' = Tail(tty), Jobs(q') = Jobs(y), QueueOK(q'),
             NonEmpty(y) => HeadJob(q') = HeadJob(y),
             arg' = [t \in Queued(q') |-> arg[t]],
             line' = IF MustWrite(y) THEN AboutHead(y, arg) ELSE line
      PROVE  Proceeds(res) /\ Tasks' /\ Replies' = {}
  <2>1. /\ NonEmpty(y) <=> Jobs(y) # {}
        /\ NonEmpty(y) => /\ HeadJob(y) \in Jobs(y) /\ HeadJob(y).id = Head(y.tasks).id
                          /\ CmdOf(HeadJob(y)) = HeadCmd(y)
    BY <1>3, JobsFacts
  <2>2. Queued(q') = { j.id : j \in Jobs(q') } /\ Queued(q) = { j.id : j \in Jobs(q) }
    BY <1>5, JobsFacts DEF Base, IInv
  <2>3. KeepArgs(Jobs(q'))
    BY <1>5, <2>2 DEF KeepArgs
  <2>4. NonEmpty(y) => MustWrite(y)
    BY <1>3 DEF MustWrite, HeadSent
  <2>5. Proceeds(res)
    <3>1. Leaves(Jobs(q'), res)
      BY <1>3, <1>5
    <3>2. CASE Jobs(q') = {}
      <4>1. line' = NoCmd
        BY <1>2, <1>5, <2>1, <3>2 DEF MustWrite
      <4>2. QED  BY <2>3, <3>1, <3>2, <4>1 DEF Proceeds
    <3>3. CASE Jobs(q') # {}
      <4>1. /\ NonEmpty(y) /\ HeadJob(q') = HeadJob(y) /\ HeadJob(q') \in Jobs(q')
            /\ line' = [cmd |-> CmdOf(HeadJob(q')), arg |-> arg[HeadJob(q').id]]
        BY <1>5, <2>1, <2>4, <3>3 DEF AboutHead
      <4>2. GoesOnAfter(h, res) => HeadJob(q') = [HeadJob(q) EXCEPT !.idx = 2]
        BY <1>3, <4>1
      <4>3. QED  BY <2>3, <3>1, <3>3, <4>1, <4>2 DEF Proceeds
    <3>4. QED  BY <3>2, <3>3
  <2>6. \A j \in Jobs(q') : \E k \in Jobs(q) : j.id = k.id /\ j.kind = k.kind
    <3>1. h \in Jobs(q) /\ h = [id |-> h.id, kind |-> h.kind, idx |-> h.idx]
      BY <1>2, HeadFacts DEF HeadJob, Job
    <3>2. [h EXCEPT !.idx = 2].id = h.id /\ [h EXCEPT !.idx = 2].kind = h.kind
      BY <3>1
    <3> HIDE DEF h
    <3>3. QED  BY <1>3, <1>5, <3>1, <3>2 DEF Leaves, Others, h
  <2>7. \A k \in Jobs(q) : /\ k.kind \in {"sms", "user", "retrieve", "read"}
                           /\ arg[k.id] \in IF k.kind = "sms" THEN Own ELSE Slots
    BY DEF Base, Tasks
  <2>8. \A j \in Jobs(q') : /\ j.kind \in {"sms", "user", "retrieve", "read"}
                            /\ arg'[j.id] \in IF j.kind = "sms" THEN Own ELSE Slots
    BY <2>3, <2>6, <2>7 DEF KeepArgs
  <2>9. arg' \in [Queued(q') -> Own \cup Slots]
    <3>1. arg' = [t \in Queued(q') |-> arg'[t]]
      BY <1>5
    <3>2. \A t \in Queued(q') : arg'[t] \in Own \cup Slots
      BY <2>2, <2>8
    <3>3. QED  BY <3>1, <3>2
  <2>10. Tasks'
    BY <2>8, <2>9 DEF Tasks
  <2>11. Replies' = {}
    <3>1. ASSUME NEW i \in 1..Len(Tail(tty)) PROVE Tail(tty)[i].res = "CMTI"
      <4>1. i + 1 \in 1..Len(tty) /\ i + 1 # 1 /\ Tail(tty)[i] = tty[i + 1]
        BY <1>1, TtyTail DEF Base
      <4>2. i + 1 \notin Replies
        BY <1>1, <4>1 DEF Base, InStep
      <4>3. QED  BY <4>1, <4>2 DEF Replies
    <3>2. QED  BY <1>5, <3>1 DEF Replies
  <2>12. QED  BY <2>5, <2>10, <2>11
<1>6. QED  BY <1>2, <1>4, <1>5 DEF y

(* The monitor handles the notice of a message. *)
LEMMA CmtiOutcome ==
  ASSUME Base, HandleCmti
  PROVE  /\ connected /\ tty # << >> /\ Head(tty).res = "CMTI"
         /\ UNCHANGED << store, net, accepted, erased, counts, heard >>
         /\ \/ Gone /\ \E y : QueueOK(y) /\ reports' = Cut(reports, y)
                              /\ { j \in Jobs(y) : j.kind = "sms" }
                                   = { j \in Jobs(q) : j.kind = "sms" }
            \/ /\ reports' = reports /\ tty' = Tail(tty) /\ UNCHANGED connected
               /\ \/ UNCHANGED << arg, line >> /\ Jobs(q') = Jobs(q) /\ Tasks'
                     /\ (Jobs(q) # {} => HeadJob(q') = HeadJob(q))
                  \/ \E k \in {"retrieve", "read"} : Queues(k, Head(tty).slot) /\ Tasks'
<1>1. connected /\ tty # << >> /\ Head(tty).res = "CMTI" /\ UNCHANGED heard
  BY DEF HandleCmti, Taken
<1>2. Head(tty).slot \in Slots
  BY <1>1, TtyTail, ResultType DEF Base
<1>3. CASE DisableSms \/ ~Enabled
  <2>1. Finish(q, arg, incoming, reports, FALSE)
    BY <1>3 DEF HandleCmti
  <2>2. QueueOK(q) /\ ~MustWrite(q)
    BY HeadFacts DEF Base, IInv
  <2>3. PICK ok \in BOOLEAN :
          Run(q, arg, ok) /\ reports' = reports /\ tty' = Tail(tty) /\ UNCHANGED connected
    BY <2>1, <2>2, WriteOutcomeType DEF Finish, RunFails
  <2>4. q' = q /\ line' = line /\ arg' = [t \in Queued(q) |-> arg[t]]
    BY <2>2, <2>3 DEF Run, AtQueueRun
  <2>5. arg' = arg
    BY <2>4 DEF Base, Tasks
  <2>6. Tasks'
    BY <2>4, <2>5 DEF Base, Tasks
  <2>7. UNCHANGED << store, net, accepted, erased, counts >>
    BY <2>1 DEF Finish
  <2>8. QED  BY <1>1, <2>3, <2>4, <2>5, <2>6, <2>7
<1>4. CASE ~(DisableSms \/ ~Enabled)
  <2>1. PICK delete \in AutoDelete :
          Finish(AtQueueAdd(q, NewId, IF delete THEN "retrieve" ELSE "read"),
                 With(NewId, Head(tty).slot), TRUE, reports, FALSE)
    BY <1>4 DEF HandleCmti
  <2> DEFINE k == IF delete THEN "retrieve" ELSE "read"
             a == Head(tty).slot
             y == AtQueueAdd(q, NewId, k)
             n == [id |-> NewId, kind |-> k, idx |-> 1]
  <2>2. /\ UnusedIds # {} /\ k \in {"retrieve", "read"} /\ k \in Kind /\ QueueOK(q)
        /\ NewId \in TaskIds /\ NewId \notin Queued(q)
    BY <1>4, NewIdType DEF HandleCmti, Kind, Base, IInv
  <2>3. Finish(y, With(NewId, a), TRUE, reports, FALSE)
    BY <2>1
  <2> HIDE DEF k, a
  <2>4. QueueOK(y) /\ Jobs(y) = Jobs(q) \cup {n}
    BY <2>2, AddKeepsOK, JobsOfAdd
  <2>5. n.kind # "sms"
    BY <2>2
  <2>6. { j \in Jobs(y) : j.kind = "sms" } = { j \in Jobs(q) : j.kind = "sms" }
    BY <2>4, <2>5
  <2>7. UNCHANGED << store, net, accepted, erased, counts >>
    BY <2>3 DEF Finish
  <2> HIDE DEF n
  <2>8. PICK ok \in BOOLEAN :
          IF RunFails(y, ok)
          THEN Disconnect(AtQueueRun(y, ok)) /\ reports' = Cut(reports, y)
          ELSE /\ Run(y, With(NewId, a), ok)
               /\ reports' = reports /\ tty' = Tail(tty) /\ UNCHANGED connected
    BY <2>3, WriteOutcomeType DEF Finish
  <2>9. CASE RunFails(y, ok)
    <3>1. Gone
      BY <2>4, <2>8, <2>9, RunKeepsOK, FlushEmpties DEF Disconnect, Gone
    <3>2. QED  BY <1>1, <2>4, <2>6, <2>7, <2>8, <2>9, <3>1
  <2>10. CASE ~RunFails(y, ok)
    <3>1. Queues(k, a) /\ Tasks'
      BY <1>2, <2>2, <2>8, <2>10, RunQueues DEF a
    <3>2. QED  BY <1>1, <2>2, <2>7, <2>8, <2>10, <3>1 DEF a
  <2>11. QED  BY <2>9, <2>10
<1>5. QED  BY <1>3, <1>4

-----------------------------------------------------------------------------
(* The answers that are under way stay those they were. *)
SameReplies ==
  \E d \in {0, 1} : \A i \in Replies' : i + d \in Replies /\ tty'[i] = tty[i + d]

LEMMA RepliesStay ==
  ASSUME Types
  PROVE  /\ tty' = tty => SameReplies
         /\ tty # << >> /\ Head(tty).res = "CMTI" /\ tty' = Tail(tty) => SameReplies
         /\ \A r \in TtyResult : r.res = "CMTI" /\ tty' = Append(tty, r) => SameReplies
<1>1. ASSUME tty' = tty PROVE SameReplies
  <2>1. \A i \in Replies' : i + 0 \in Replies /\ tty'[i] = tty[i + 0]
    BY <1>1 DEF Replies, Types
  <2>2. QED  BY <2>1 DEF SameReplies
<1>2. ASSUME tty # << >>, Head(tty).res = "CMTI", tty' = Tail(tty) PROVE SameReplies
  <2>1. ASSUME NEW i \in Replies' PROVE i + 1 \in Replies /\ tty'[i] = tty[i + 1]
    <3>1. i \in 1..Len(Tail(tty)) /\ Tail(tty)[i].res # "CMTI"
      BY <1>2, <2>1 DEF Replies
    <3>2. i + 1 \in 1..Len(tty) /\ Tail(tty)[i] = tty[i + 1]
      BY <1>2, <3>1, TtyTail
    <3>3. QED  BY <1>2, <3>1, <3>2 DEF Replies
  <2>2. QED  BY <2>1 DEF SameReplies
<1>3. ASSUME NEW r \in TtyResult, r.res = "CMTI", tty' = Append(tty, r) PROVE SameReplies
  <2>1. ASSUME NEW i \in Replies' PROVE i + 0 \in Replies /\ tty'[i] = tty[i + 0]
    <3>1. i \in 1..Len(Append(tty, r)) /\ Append(tty, r)[i].res # "CMTI"
      BY <1>3, <2>1 DEF Replies
    <3>2. i # Len(tty) + 1
      BY <1>3, <3>1, TtyAppend
    <3>3. i \in 1..Len(tty) /\ Append(tty, r)[i] = tty[i] /\ i + 0 = i
      BY <3>1, <3>2, TtyAppend
    <3>4. QED  BY <1>3, <3>1, <3>3 DEF Replies
  <2>2. QED  BY <2>1 DEF SameReplies
<1>4. QED  BY <1>1, <1>2, <1>3

LEMMA QuietInStep ==
  ASSUME Base, SameReplies, Jobs(q') = Jobs(q), Jobs(q) # {} => HeadJob(q') = HeadJob(q),
         UNCHANGED << arg, line >>, connected' = connected, ~connected => tty' = tty
  PROVE  InStep'
<1>1. PICK d \in {0, 1} : \A i \in Replies' : i + d \in Replies /\ tty'[i] = tty[i + d]
  BY DEF SameReplies
<1>2. \A i \in Replies' : i \in Int
  BY DEF Replies
<1>3. \A i, k \in Replies' : i = k
  <2>1. SUFFICES ASSUME NEW i \in Replies', NEW k \in Replies' PROVE i = k
    OBVIOUS
  <2>2. i + d = k + d
    BY <1>1 DEF Base, InStep
  <2>3. i \in Int /\ k \in Int /\ d \in Int
    BY <1>2
  <2>4. QED  BY <2>2, <2>3
<1>4. QED  BY <1>1, <1>3 DEF Base, InStep

LEMMA QueuedInStep ==
  ASSUME Base, SameReplies, NEW k, NEW a, Queues(k, a), connected, connected' = connected
  PROVE  InStep'
<1>1. PICK d \in {0, 1} : \A i \in Replies' : i + d \in Replies /\ tty'[i] = tty[i + d]
  BY DEF SameReplies
<1>2. \A i \in Replies' : i \in Int
  BY DEF Replies
<1>3. \A i, l \in Replies' : i = l
  <2>1. SUFFICES ASSUME NEW i \in Replies', NEW l \in Replies' PROVE i = l
    OBVIOUS
  <2>2. i + d = l + d
    BY <1>1 DEF Base, InStep
  <2>3. i \in Int /\ l \in Int /\ d \in Int
    BY <1>2
  <2>4. QED  BY <2>2, <2>3
<1> DEFINE n(id) == [id |-> id, kind |-> k, idx |-> 1]
<1>4. PICK id \in TaskIds \ Queued(q) :
        /\ Jobs(q') = Jobs(q) \cup {n(id)}
        /\ arg'[id] = a /\ KeepArgs(Jobs(q))
        /\ Jobs(q) # {} => HeadJob(q') = HeadJob(q) /\ line' = line
        /\ Jobs(q) = {} => HeadJob(q') = n(id) /\ line' = [cmd |-> CmdOf(n(id)), arg |-> a]
  BY DEF Queues
<1>5. n(id).id = id /\ Jobs(q') # {}
  BY <1>4
<1> HIDE DEF n
<1>6. CASE Jobs(q) # {}
  <2>1. HeadJob(q) \in Jobs(q) /\ arg'[HeadJob(q).id] = arg[HeadJob(q).id]
    BY <1>4, <1>6, HeadFacts DEF KeepArgs
  <2>2. QED  BY <1>1, <1>3, <1>4, <1>5, <1>6, <2>1 DEF Base, InStep
<1>7. CASE Jobs(q) = {}
  <2>1. Replies' = {}
    BY <1>1, <1>7 DEF Base, InStep
  <2>2. /\ line'.cmd = CmdOf(HeadJob(q')) /\ line'.arg = arg'[HeadJob(q').id]
    BY <1>4, <1>5, <1>7
  <2>3. QED  BY <1>5, <2>1, <2>2 DEF InStep
<1>8. QED  BY <1>6, <1>7

LEMMA ProceededInStep ==
  ASSUME Base, NEW res, Proceeds(res), Replies' = {}, connected, connected' = connected
  PROVE  InStep'
<1>1. CASE Jobs(q') = {}
  BY <1>1 DEF Proceeds, InStep
<1>2. CASE Jobs(q') # {}
  <2>1. /\ line' = [cmd |-> CmdOf(HeadJob(q')), arg |-> arg[HeadJob(q').id]]
        /\ arg'[HeadJob(q').id] = arg[HeadJob(q').id]
    BY <1>2 DEF Proceeds, KeepArgs
  <2>2. QED  BY <1>2, <2>1 DEF InStep
<1>3. QED  BY <1>1, <1>2

LEMMA AnsweredInStep ==
  ASSUME Base, line # NoCmd, NEW r \in TtyResult, Answer(r), r.res # "CMTI",
         Answers(line.cmd, r.res), UNCHANGED << connected, q, arg >>
  PROVE  InStep'
<1>1. /\ line' = NoCmd /\ tty' = Append(tty, r) /\ Replies = {} /\ Jobs(q) # {} /\ connected
      /\ line.cmd = CmdOf(HeadJob(q))
  BY DEF Answer, Base, InStep
<1>2. \A i \in Replies' : tty'[i] = r /\ i = Len(tty) + 1
  <2>1. SUFFICES ASSUME NEW i \in Replies' PROVE tty'[i] = r /\ i = Len(tty) + 1
    OBVIOUS
  <2>2. i \in 1..Len(Append(tty, r)) /\ Append(tty, r)[i].res # "CMTI"
    BY <1>1, <2>1 DEF Replies
  <2>3. i \notin 1..Len(tty)
    <3>1. ASSUME i \in 1..Len(tty) PROVE FALSE
      <4>1. Append(tty, r)[i] = tty[i]
        BY <3>1, TtyAppend DEF Base
      <4>2. i \in Replies
        BY <2>2, <3>1, <4>1 DEF Replies
      <4>3. QED  BY <1>1, <4>2
    <3>2. QED  BY <3>1
  <2>4. i = Len(tty) + 1
    BY <2>2, <2>3, TtyAppend DEF Base
  <2>5. QED  BY <1>1, <2>4, TtyAppend DEF Base
<1>3. \A i, k \in Replies' : i = k
  BY <1>2
<1>4. QED  BY <1>1, <1>2, <1>3 DEF InStep

-----------------------------------------------------------------------------
(* Base is an invariant.                                                     *)
LEMMA JobCmdType ==
  ASSUME NEW x, QueueOK(x), NEW j \in Jobs(x)
  PROVE  CmdOf(j) \in Cmd
<1>1. PICK i \in 1..Len(x.tasks) : j = Job(x.tasks[i])
  BY DEF Jobs, JobsIn
<1>2. x.tasks[i] \in Task
  BY QueueFields
<1>3. CmdOf(j) = CmdOf(x.tasks[i])
  BY <1>1 DEF CmdOf, Job
<1>4. QED  BY <1>2, <1>3, TaskType

LEMMA LineType ==
  ASSUME Types, QueueOK(q'), Tasks',
         \/ line' = line \/ line' = NoCmd
         \/ /\ HeadJob(q') \in Jobs(q')
            /\ line' = [cmd |-> CmdOf(HeadJob(q')), arg |-> arg'[HeadJob(q').id]]
  PROVE  line' \in {NoCmd} \cup Line
<1>1. CASE line' = line \/ line' = NoCmd
  BY <1>1 DEF Types
<1>2. CASE /\ HeadJob(q') \in Jobs(q')
           /\ line' = [cmd |-> CmdOf(HeadJob(q')), arg |-> arg'[HeadJob(q').id]]
  <2>1. CmdOf(HeadJob(q')) \in Cmd
    BY <1>2, JobCmdType
  <2>2. arg'[HeadJob(q').id] \in Own \cup Slots
    BY <1>2 DEF Tasks
  <2>3. QED  BY <1>2, <2>1, <2>2 DEF Line
<1>3. QED  BY <1>1, <1>2

LEMMA QueuesLine ==
  ASSUME Base, NEW k, NEW a, Queues(k, a)
  PROVE  \/ line' = line
         \/ /\ HeadJob(q') \in Jobs(q')
            /\ line' = [cmd |-> CmdOf(HeadJob(q')), arg |-> arg'[HeadJob(q').id]]
<1> DEFINE n(id) == [id |-> id, kind |-> k, idx |-> 1]
<1>1. PICK id \in TaskIds \ Queued(q) :
        /\ Jobs(q') = Jobs(q) \cup {n(id)}
        /\ arg'[id] = a
        /\ Jobs(q) # {} => line' = line
        /\ Jobs(q) = {} => HeadJob(q') = n(id) /\ line' = [cmd |-> CmdOf(n(id)), arg |-> a]
  BY DEF Queues
<1>2. n(id).id = id
  OBVIOUS
<1> HIDE DEF n
<1>3. QED  BY <1>1, <1>2

LEMMA ProceedsLine ==
  ASSUME NEW res, Proceeds(res)
  PROVE  \/ line' = NoCmd
         \/ /\ HeadJob(q') \in Jobs(q')
            /\ line' = [cmd |-> CmdOf(HeadJob(q')), arg |-> arg'[HeadJob(q').id]]
  BY DEF Proceeds, KeepArgs

LEMMA ReportsType ==
  ASSUME NEW rep \in [Own -> Seq(Report)]
  PROVE  /\ \A x : Cut(rep, x) \in [Own -> Seq(Report)]
         /\ \A m : [rep EXCEPT ![m] = Append(@, "Sent")] \in [Own -> Seq(Report)]
         /\ \A m : [rep EXCEPT ![m] = Append(@, "NotSent")] \in [Own -> Seq(Report)]
         /\ \A m, r \in Report : [rep EXCEPT ![m] = << r >>] \in [Own -> Seq(Report)]
<1>1. {"Sent", "NotSent", "cut"} \subseteq Report
  BY DEF Report
<1>2. \A m \in Own, r \in Report : Append(rep[m], r) \in Seq(Report) /\ << r >> \in Seq(Report)
  BY AppendProperties
<1>3. \A x : Cut(rep, x) \in [Own -> Seq(Report)]
  BY <1>1, <1>2 DEF Cut
<1>4. \A m : [rep EXCEPT ![m] = Append(@, "Sent")] \in [Own -> Seq(Report)]
  BY <1>1, <1>2
<1>5. \A m : [rep EXCEPT ![m] = Append(@, "NotSent")] \in [Own -> Seq(Report)]
  BY <1>1, <1>2
<1>6. \A m, r \in Report : [rep EXCEPT ![m] = << r >>] \in [Own -> Seq(Report)]
  BY <1>2
<1>7. QED  BY <1>3, <1>4, <1>5, <1>6

LEMMA InitBase == Init => Base
<1>1. ASSUME Init PROVE Base
  <2>1. IInv
    BY <1>1, InitEstablishes
  <2>2. Jobs(q) = {} /\ Queued(q) = {}
    BY <1>1, <2>1, JobsFacts, JobsInEmpty DEF Init, Jobs, EmptyQueue, IInv
  <2>3. Replies = {}
    BY <1>1, EmptySeq DEF Init, Replies
  <2>4. << >> \in Seq(Report) /\ << >> \in Seq(Heard) /\ << >> \in Seq(TtyResult)
    BY EmptySeq
  <2>5. MaxUser \in Nat /\ MaxRestarts \in Nat /\ MaxLosses \in Nat
    BY SmsAssumption
  <2>6. Types
    <3>1. counts \in Counts
      BY <1>1, <2>5 DEF Init, Counts
    <3>2. QED  BY <1>1, <2>4, <3>1 DEF Init, Types, Want, Messages
  <2>7. Tasks
    <3>1. arg \in [Queued(q) -> Own \cup Slots]
      BY <1>1, <2>2, EmptySeq DEF Init
    <3>2. QED  BY <2>2, <3>1 DEF Tasks
  <2>8. InStep
    BY <1>1, <2>2, <2>3 DEF Init, InStep
  <2>9. QED  BY <2>1, <2>6, <2>7, <2>8 DEF Base
<1>2. QED  BY <1>1

LEMMA SendBase ==
  ASSUME Base, IInv', NEW m \in Own, SendSms(m)
  PROVE  /\ Base'
         /\ UNCHANGED << connected, tty, store, net, accepted, heard, erased, counts >>
         /\ connected /\ reports[m] = << >>
         /\ \/ /\ UNCHANGED << q, arg, line >>
               /\ reports' = [reports EXCEPT ![m] = << "refused" >>]
               /\ ~Sendable(Content[m].number, Content[m].text)
            \/ /\ Jobs(q) = {} /\ Jobs(q') = {} /\ line' = line
               /\ reports' = [reports EXCEPT ![m] = << "refused" >>]
            \/ /\ Queues("sms", m) /\ Sendable(Content[m].number, Content[m].text)
               /\ reports' = [reports EXCEPT ![m] = << "queued" >>]
<1>1. /\ UNCHANGED << connected, tty, want, store, net, accepted, heard, erased, counts >>
      /\ connected /\ reports[m] = << >>
  BY DEF SendSms
<1>2. reports \in [Own -> Seq(Report)] /\ {"refused", "queued"} \subseteq Report /\ Types
  BY DEF Base, Types, Report
<1>3. ASSUME line' \in {NoCmd} \cup Line, reports' \in [Own -> Seq(Report)] PROVE Types'
  BY <1>1, <1>2, <1>3 DEF Types
<1>4. SameReplies
  BY <1>1, <1>2, RepliesStay
<1>5. CASE ~Sendable(Content[m].number, Content[m].text)
  <2>1. UNCHANGED << q, arg, line >> /\ reports' = [reports EXCEPT ![m] = << "refused" >>]
    BY <1>5 DEF SendSms
  <2>2. Types'
    BY <1>2, <1>3, <2>1, ReportsType DEF Types
  <2>3. Tasks' /\ InStep'
    BY <1>1, <1>4, <2>1, QuietInStep DEF Base, Tasks
  <2>4. QED  BY <1>1, <1>5, <2>1, <2>2, <2>3 DEF Base
<1>6. CASE Sendable(Content[m].number, Content[m].text)
  <2>1. PICK ok \in WriteOutcome :
          LET x == AtQueueAdd(q, NewId, "sms")
          IN  /\ UnusedIds # {}
              /\ Run(x, With(NewId, m), ok)
              /\ reports' = [reports EXCEPT
                               ![m] = << IF RunFails(x, ok) THEN "refused" ELSE "queued" >>]
    BY <1>6 DEF SendSms
  <2>2. ok \in BOOLEAN
    BY WriteOutcomeType
  <2>3. CASE RunFails(AtQueueAdd(q, NewId, "sms"), ok)
    <3>1. /\ Jobs(q) = {} /\ Jobs(q') = {} /\ line' = line /\ Tasks'
      BY <2>1, <2>2, <2>3, RunFailed
    <3>2. reports' = [reports EXCEPT ![m] = << "refused" >>]
      BY <2>1, <2>3
    <3>3. Types'
      BY <1>2, <1>3, <3>1, <3>2, ReportsType DEF Types
    <3>4. line = NoCmd /\ Replies = {}
      BY <3>1 DEF Base, InStep
    <3>5. Replies' = {}
      BY <1>1, <3>4 DEF Replies
    <3>6. InStep'
      BY <1>1, <3>1, <3>4, <3>5 DEF InStep
    <3>7. QED  BY <1>1, <3>1, <3>2, <3>3, <3>6 DEF Base
  <2>4. CASE ~RunFails(AtQueueAdd(q, NewId, "sms"), ok)
    <3>1. Queues("sms", m) /\ Tasks'
      BY <2>1, <2>2, <2>4, RunQueues
    <3>2. reports' = [reports EXCEPT ![m] = << "queued" >>]
      BY <2>1, <2>4
    <3>3. line' \in {NoCmd} \cup Line
      BY <1>2, <3>1, QueuesLine, LineType DEF IInv
    <3>4. Types'
      BY <1>2, <1>3, <3>2, <3>3, ReportsType
    <3>5. InStep'
      BY <1>1, <1>4, <3>1, QueuedInStep
    <3>6. QED  BY <1>1, <1>6, <3>1, <3>2, <3>4, <3>5 DEF Base
  <2>5. QED  BY <2>3, <2>4
<1>7. QED  BY <1>5, <1>6

LEMMA UserBase ==
  ASSUME Base, IInv', NEW s \in Slots, UserDeletes(s)
  PROVE  /\ Base'
         /\ UNCHANGED << connected, tty, store, net, accepted, heard, erased, reports >>
         /\ counts'.user > 0 /\ connected
         /\ \/ Jobs(q) = {} /\ Jobs(q') = {} /\ line' = line
            \/ Queues("user", s)
<1>1. /\ UNCHANGED << connected, tty, want, store, net, accepted, heard, erased, reports >>
      /\ connected /\ counts.user < MaxUser /\ counts' = [counts EXCEPT !.user = @ + 1]
      /\ UnusedIds # {}
  BY DEF UserDeletes
<1>2. counts' \in Counts /\ counts'.user > 0
  <2>1. counts.user \in 0..MaxUser /\ MaxUser \in Nat
    BY SmsAssumption DEF Base, Types, Counts
  <2>2. counts.user + 1 \in 0..MaxUser /\ counts.user + 1 > 0
    BY <1>1, <2>1
  <2>3. counts \in Counts
    BY DEF Base, Types
  <2>4. QED  BY <1>1, <2>2, <2>3 DEF Counts
<1>3. Types /\ SameReplies
  BY <1>1, RepliesStay DEF Base
<1>4. ASSUME line' \in {NoCmd} \cup Line PROVE Types'
  BY <1>1, <1>2, <1>3, <1>4 DEF Types
<1>5. PICK ok \in BOOLEAN : Run(AtQueueAdd(q, NewId, "user"), With(NewId, s), ok)
  BY WriteOutcomeType DEF UserDeletes
<1>6. CASE RunFails(AtQueueAdd(q, NewId, "user"), ok)
  <2>1. /\ Jobs(q) = {} /\ Jobs(q') = {} /\ line' = line /\ Tasks'
    BY <1>1, <1>5, <1>6, RunFailed
  <2>2. line = NoCmd /\ Replies = {}
    BY <2>1 DEF Base, InStep
  <2>3. Replies' = {}
    BY <1>1, <2>2 DEF Replies
  <2>4. InStep'
    BY <1>1, <2>1, <2>2, <2>3 DEF InStep
  <2>5. Types'
    BY <1>3, <1>4, <2>1 DEF Types
  <2>6. QED  BY <1>1, <1>2, <2>1, <2>4, <2>5 DEF Base
<1>7. CASE ~RunFails(AtQueueAdd(q, NewId, "user"), ok)
  <2>1. Queues("user", s) /\ Tasks'
    BY <1>1, <1>5, <1>7, RunQueues
  <2>2. line' \in {NoCmd} \cup Line
    BY <1>3, <2>1, QueuesLine, LineType DEF IInv
  <2>3. InStep'
    BY <1>1, <1>3, <2>1, QueuedInStep
  <2>4. QED  BY <1>1, <1>2, <1>4, <2>1, <2>2, <2>3 DEF Base
<1>8. QED  BY <1>6, <1>7

(* What the reports and the messages passed on are after the answer res. *)
ReportsAfter(res) ==
  LET c == CmdOf(HeadJob(q))
      m == arg[HeadJob(q).id]
  IN  IF res = "OK" /\ c = "SMSTEXT" THEN [reports EXCEPT ![m] = Append(@, "Sent")]
      ELSE IF res = "ERROR" /\ c \in {"CMGS", "SMSTEXT"}
           THEN [reports EXCEPT ![m] = Append(@, "NotSent")]
      ELSE reports

HeardAfter(res) ==
  IF res = "CMGR" /\ Head(tty).msg \in ReadableOnes
  THEN [heard EXCEPT ![Head(tty).msg] = Append(@, Passed[Head(tty).msg])] ELSE heard

(* The monitor handles the answer res; the connection may end with that. *)
Replied(res) ==
  /\ Taken(res) /\ Jobs(q) # {} /\ Answers(CmdOf(HeadJob(q)), res) /\ line = NoCmd
  /\ UNCHANGED << store, net, accepted, erased, counts >>
  /\ heard' = HeardAfter(res)
  /\ \/ /\ Gone
        /\ \E y : QueueOK(y) /\ Leaves(Jobs(y), res) /\ reports' = Cut(ReportsAfter(res), y)
     \/ /\ reports' = ReportsAfter(res) /\ tty' = Tail(tty) /\ UNCHANGED connected
        /\ Proceeds(res) /\ Replies' = {}

LEMMA TakenHead ==
  ASSUME Base, NEW res \in {"OK", "ERROR", "PROMPT", "CMGR"}, Taken(res)
  PROVE  /\ 1 \in Replies /\ Head(tty) = tty[1] /\ tty[1].res = res
         /\ Jobs(q) # {} /\ Answers(CmdOf(HeadJob(q)), res) /\ line = NoCmd
         /\ NonEmpty(q) /\ HeadCmd(q) = CmdOf(HeadJob(q)) /\ HeadAbout = arg[HeadJob(q).id]
         /\ Head(tty) \in TtyResult
<1>1. /\ tty # << >> /\ Head(tty) = tty[1] /\ 1 \in Replies /\ tty[1].res = res
      /\ Head(tty) \in TtyResult
  BY TtyTail DEF Taken, Replies, Base
<1>2. Jobs(q) # {} /\ Answers(CmdOf(HeadJob(q)), res) /\ line = NoCmd
  BY <1>1 DEF Base, InStep
<1>3. QED  BY <1>1, <1>2, HeadFacts

LEMMA HeardType ==
  ASSUME Types, NEW res \in {"OK", "ERROR", "PROMPT", "CMGR"}, Head(tty) \in TtyResult,
         Head(tty).res = res
  PROVE  HeardAfter(res) \in [Messages -> Seq(Heard)]
<1>1. heard \in [Messages -> Seq(Heard)]
  BY DEF Types
<1>2. CASE res = "CMGR" /\ Head(tty).msg \in ReadableOnes
  <2> DEFINE m == Head(tty).msg
  <2>1. m \in Messages /\ Passed[m] \in Heard
    BY <1>2, ResultType DEF Heard
  <2>2. Append(heard[m], Passed[m]) \in Seq(Heard)
    BY <1>1, <2>1, AppendProperties
  <2>3. HeardAfter(res) = [heard EXCEPT ![m] = Append(@, Passed[m])]
    BY <1>2 DEF HeardAfter
  <2> HIDE DEF m
  <2>4. QED  BY <1>1, <2>1, <2>2, <2>3
<1>3. CASE ~(res = "CMGR" /\ Head(tty).msg \in ReadableOnes)
  BY <1>1, <1>3 DEF HeardAfter
<1>4. QED  BY <1>2, <1>3

LEMMA ReportsAfterType ==
  ASSUME Base, NEW res
  PROVE  ReportsAfter(res) \in [Own -> Seq(Report)]
<1>1. reports \in [Own -> Seq(Report)]
  BY DEF Base, Types
<1>2. QED  BY <1>1, ReportsType, Zenon DEF ReportsAfter

LEMMA WantType ==
  ASSUME want \in Want, NEW inc, NEW w \in Whens \cup {want}
  PROVE  TryRestate(w, inc) \in Want
  BY SmsAssumption DEF TryRestate, Want

LEMMA FinishReplied ==
  ASSUME Base, IInv', NEW res \in {"OK", "ERROR", "PROMPT", "CMGR"}, Taken(res),
         NEW inc, NEW look,
         Finish(AtQueueRemoveCmd(q, res), arg, inc, ReportsAfter(res), look),
         heard' = HeardAfter(res)
  PROVE  Base' /\ Replied(res)
<1> DEFINE rep == ReportsAfter(res)
           y   == AtQueueRemoveCmd(q, res)
<1>1. /\ Jobs(q) # {} /\ Answers(CmdOf(HeadJob(q)), res) /\ line = NoCmd
      /\ UNCHANGED << store, net, accepted, erased, counts >>
      /\ \/ Gone /\ reports' = Cut(rep, y)
         \/ /\ reports' = rep /\ tty' = Tail(tty) /\ UNCHANGED connected
            /\ Proceeds(res) /\ Tasks' /\ Replies' = {} /\ QueueOK(q')
  BY ReplyOutcome
<1>2. Leaves(Jobs(y), res) /\ QueueOK(y)
  BY <1>1, AfterResult
<1>3. rep \in [Own -> Seq(Report)] /\ Cut(rep, y) \in [Own -> Seq(Report)]
  <2>1. rep \in [Own -> Seq(Report)]
    BY ReportsAfterType
  <2> HIDE DEF rep, y
  <2>2. QED  BY <2>1, ReportsType
<1>4. want' \in Want
  <2>1. want \in Want
    BY DEF Base, Types
  <2>2. want' = IF look THEN TryRestate(want, inc) ELSE want
    BY DEF Finish
  <2>3. QED  BY <2>1, <2>2, WantType
<1>5. heard' \in [Messages -> Seq(Heard)] /\ Tail(tty) \in Seq(TtyResult)
  BY TakenHead, HeardType, TtyTail DEF Base, Taken
<1> HIDE DEF rep, y
<1>6. Types /\ connected
  BY DEF Base, Taken
<1>7. ASSUME line' \in {NoCmd} \cup Line, tty' \in Seq(TtyResult) PROVE Types'
  BY <1>1, <1>3, <1>4, <1>5, <1>6, <1>7 DEF Types
<1>8. CASE Gone /\ reports' = Cut(rep, y)
  <2>1. line' = NoCmd /\ tty' \in Seq(TtyResult)
    BY <1>8 DEF Gone
  <2>2. Base'
    BY <1>7, <1>8, <2>1, GoneKeepsBase
  <2>3. QED  BY <1>1, <1>2, <1>8, <2>2 DEF Replied, rep
<1>9. CASE /\ reports' = rep /\ tty' = Tail(tty) /\ UNCHANGED connected
           /\ Proceeds(res) /\ Tasks' /\ Replies' = {} /\ QueueOK(q')
  <2>1. line' \in {NoCmd} \cup Line
    BY <1>6, <1>9, ProceedsLine, LineType
  <2>2. InStep'
    BY <1>6, <1>9, ProceededInStep
  <2>3. Types'
    BY <1>5, <1>7, <1>9, <2>1
  <2>4. QED  BY <1>1, <1>9, <2>2, <2>3 DEF Replied, Base, rep
<1>10. QED  BY <1>1, <1>8, <1>9

LEMMA HandleOkReplied ==
  ASSUME Base, IInv', HandleOk
  PROVE  Base' /\ Replied("OK")
<1>1. Taken("OK") /\ UNCHANGED heard
  BY DEF HandleOk
<1>2. /\ Answers(CmdOf(HeadJob(q)), "OK") /\ NonEmpty(q) /\ HeadCmd(q) = CmdOf(HeadJob(q))
      /\ HeadAbout = arg[HeadJob(q).id] /\ HeadJob(q) \in Jobs(q)
  BY <1>1, TakenHead, HeadFacts
<1>3. CmdOf(HeadJob(q)) \in {"SMSTEXT", "USER", "CMGR", "CMGD"}
  BY <1>2, JobCommands DEF Answers
<1>4. HeadExpects({"OK", "CMGR"}) /\ (HeadIs({"SMSTEXT"}) <=> CmdOf(HeadJob(q)) = "SMSTEXT")
  BY <1>2, <1>3 DEF HeadExpects, HeadIs, Expect
<1>5. HeardAfter("OK") = heard
  BY DEF HeardAfter
<1>6. ReportsAfter("OK") = IF HeadIs({"SMSTEXT"})
                           THEN [reports EXCEPT ![HeadAbout] = Append(@, "Sent")] ELSE reports
  BY <1>2, <1>4 DEF ReportsAfter
<1>7. Finish(AtQueueRemoveCmd(q, "OK"), arg, incoming, ReportsAfter("OK"), HeadIs({"SMSTEXT"}))
  BY <1>4, <1>6 DEF HandleOk
<1>8. QED  BY <1>1, <1>5, <1>7, FinishReplied

LEMMA HandleErrorReplied ==
  ASSUME Base, IInv', HandleError
  PROVE  Base' /\ Replied("ERROR")
<1>1. Taken("ERROR") /\ UNCHANGED heard
  BY DEF HandleError
<1>2. /\ NonEmpty(q) /\ HeadCmd(q) = CmdOf(HeadJob(q))
      /\ HeadAbout = arg[HeadJob(q).id] /\ HeadJob(q) \in Jobs(q)
  BY <1>1, TakenHead, HeadFacts
<1>3. HeadIs({"CMGS", "SMSTEXT"}) <=> CmdOf(HeadJob(q)) \in {"CMGS", "SMSTEXT"}
  BY <1>2 DEF HeadIs
<1>4. HeardAfter("ERROR") = heard
  BY DEF HeardAfter
<1>5. ReportsAfter("ERROR") = IF HeadIs({"CMGS", "SMSTEXT"})
                              THEN [reports EXCEPT ![HeadAbout] = Append(@, "NotSent")]
                              ELSE reports
  BY <1>2, <1>3 DEF ReportsAfter
<1> DEFINE inc  == incoming /\ ~HeadIs({"CMGR", "CMGD"})
           look == HeadIs({"CMGS", "SMSTEXT"}) \/ HeadIs({"CMGR", "CMGD"})
<1>6. Finish(AtQueueRemoveCmd(q, "ERROR"), arg, inc, ReportsAfter("ERROR"), look)
  BY <1>5 DEF HandleError
<1> HIDE DEF inc, look
<1>7. QED  BY <1>1, <1>4, <1>6, FinishReplied

LEMMA HandlePromptReplied ==
  ASSUME Base, IInv', HandlePrompt
  PROVE  Base' /\ Replied("PROMPT")
<1>1. Taken("PROMPT") /\ UNCHANGED heard
  BY DEF HandlePrompt
<1>2. /\ Answers(CmdOf(HeadJob(q)), "PROMPT") /\ NonEmpty(q) /\ HeadCmd(q) = CmdOf(HeadJob(q))
  BY <1>1, TakenHead
<1>3. HeadExpects({"PROMPT"})
  BY <1>2 DEF HeadExpects, Expect, Answers
<1>4. HeardAfter("PROMPT") = heard /\ ReportsAfter("PROMPT") = reports
  BY DEF HeardAfter, ReportsAfter
<1>5. Finish(AtQueueRemoveCmd(q, "PROMPT"), arg, incoming, ReportsAfter("PROMPT"), FALSE)
  BY <1>3, <1>4 DEF HandlePrompt
<1>6. QED  BY <1>1, <1>4, <1>5, FinishReplied

LEMMA HandleCmgrReplied ==
  ASSUME Base, IInv', HandleCmgr
  PROVE  Base' /\ Replied("CMGR")
<1>1. Taken("CMGR")
  BY DEF HandleCmgr
<1>2. /\ Answers(CmdOf(HeadJob(q)), "CMGR") /\ NonEmpty(q) /\ HeadCmd(q) = CmdOf(HeadJob(q))
  BY <1>1, TakenHead
<1>3. HeadExpects({"CMGR"})
  BY <1>2 DEF HeadExpects, Expect, Answers
<1>4. heard' = HeardAfter("CMGR") /\ ReportsAfter("CMGR") = reports
  BY <1>3 DEF HeardAfter, ReportsAfter, HandleCmgr
<1> DEFINE taken == HeadExpects({"CMGR"}) \/ HeadIs({"USER"})
           inc   == incoming /\ ~taken
<1>5. Finish(AtQueueRemoveCmd(q, "CMGR"), arg, inc, ReportsAfter("CMGR"), taken)
  BY <1>3, <1>4 DEF HandleCmgr
<1> HIDE DEF taken, inc
<1>6. QED  BY <1>1, <1>4, <1>5, FinishReplied

LEMMA CmtiBase ==
  ASSUME Base, IInv', HandleCmti
  PROVE  Base'
<1>1. /\ connected /\ tty # << >> /\ Head(tty).res = "CMTI"
      /\ UNCHANGED << store, net, accepted, erased, counts, heard >>
      /\ \/ Gone /\ \E y : reports' = Cut(reports, y)
         \/ /\ reports' = reports /\ tty' = Tail(tty) /\ UNCHANGED connected
            /\ \/ UNCHANGED << arg, line >> /\ Jobs(q') = Jobs(q) /\ Tasks'
                  /\ (Jobs(q) # {} => HeadJob(q') = HeadJob(q))
               \/ \E k \in {"retrieve", "read"} : Queues(k, Head(tty).slot) /\ Tasks'
  BY CmtiOutcome
<1>2. want' = want
  BY DEF HandleCmti, Finish
<1>3. Types /\ Tail(tty) \in Seq(TtyResult) /\ reports \in [Own -> Seq(Report)]
  BY <1>1, TtyTail DEF Base, Types
<1>4. ASSUME line' \in {NoCmd} \cup Line, tty' \in Seq(TtyResult),
             reports' \in [Own -> Seq(Report)]
      PROVE  Types'
  BY <1>1, <1>2, <1>3, <1>4 DEF Types
<1>5. CASE Gone /\ \E y : reports' = Cut(reports, y)
  <2>1. line' = NoCmd /\ tty' \in Seq(TtyResult) /\ reports' \in [Own -> Seq(Report)]
    BY <1>3, <1>5, ReportsType DEF Gone
  <2>2. QED  BY <1>4, <1>5, <2>1, GoneKeepsBase
<1>6. CASE /\ reports' = reports /\ tty' = Tail(tty) /\ UNCHANGED connected
           /\ UNCHANGED << arg, line >> /\ Jobs(q') = Jobs(q) /\ Tasks'
           /\ (Jobs(q) # {} => HeadJob(q') = HeadJob(q))
  <2>1. SameReplies
    BY <1>1, <1>3, <1>6, RepliesStay
  <2>2. InStep'
    BY <1>1, <1>6, <2>1, QuietInStep
  <2>3. line' \in {NoCmd} \cup Line
    BY <1>3, <1>6 DEF Types
  <2>4. Types'
    BY <1>3, <1>4, <1>6, <2>3
  <2>5. QED  BY <1>6, <2>2, <2>4 DEF Base
<1>7. CASE /\ reports' = reports /\ tty' = Tail(tty) /\ UNCHANGED connected
           /\ \E k \in {"retrieve", "read"} : Queues(k, Head(tty).slot) /\ Tasks'
  <2>1. PICK k \in {"retrieve", "read"} : Queues(k, Head(tty).slot) /\ Tasks'
    BY <1>7
  <2>2. SameReplies
    BY <1>1, <1>3, <1>7, RepliesStay
  <2>3. InStep'
    BY <1>1, <1>7, <2>1, <2>2, QueuedInStep
  <2>4. line' \in {NoCmd} \cup Line
    BY <1>3, <2>1, QueuesLine, LineType DEF IInv
  <2>5. Types'
    BY <1>3, <1>4, <1>7, <2>4
  <2>6. QED  BY <2>1, <2>3, <2>5 DEF Base
<1>8. QED  BY <1>1, <1>5, <1>6, <1>7

(* The connection ends otherwise. *)
LEMMA EndBase ==
  ASSUME Base, IInv', DiscoveryStops \/ Lose
  PROVE  /\ Base' /\ Gone /\ reports' = Cut(reports, q)
         /\ UNCHANGED << store, net, accepted, heard, erased >> /\ counts'.user = counts.user
<1>1. /\ Disconnect(q) /\ reports' = Cut(reports, q)
      /\ UNCHANGED << want, store, net, accepted, heard, erased >>
      /\ \/ counts' = counts
         \/ counts.losses < MaxLosses /\ counts' = [counts EXCEPT !.losses = @ + 1]
  BY DEF DiscoveryStops, Lose
<1>2. Gone
  BY <1>1, FlushEmpties DEF Disconnect, Gone, Base, IInv
<1>3. counts' \in Counts /\ counts'.user = counts.user
  <2>1. counts \in Counts /\ MaxLosses \in Nat /\ counts.losses \in 0..MaxLosses
    BY SmsAssumption DEF Base, Types, Counts
  <2>2. counts.losses < MaxLosses => counts.losses + 1 \in 0..MaxLosses
    BY <2>1
  <2>3. QED  BY <1>1, <2>1, <2>2 DEF Counts
<1>4. Types'
  BY <1>1, <1>2, <1>3, ReportsType DEF Base, Types, Gone
<1>5. QED  BY <1>1, <1>2, <1>3, <1>4, GoneKeepsBase

(* Restart and Connect change nothing of this. *)
LEMMA WantBase ==
  ASSUME Base, IInv', Connect \/ \E when \in Whens : Restart(when)
  PROVE  /\ Base' /\ counts'.user = counts.user
         /\ UNCHANGED << q, arg, tty, reports, heard, line, store, net, accepted, erased >>
<1>1. /\ UNCHANGED << q, arg, tty, reports, heard, line, store, net, accepted, erased >>
      /\ \/ ~connected /\ want' = "stay" /\ counts' = counts
         \/ /\ connected' = connected
            /\ \E when \in Whens : want' = TryRestate(when, incoming)
            /\ counts.restarts < MaxRestarts /\ counts' = [counts EXCEPT !.restarts = @ + 1]
  BY DEF Connect, Restart, modemVars
<1>2. counts' \in Counts /\ counts'.user = counts.user
  <2>1. counts \in Counts /\ MaxRestarts \in Nat /\ counts.restarts \in 0..MaxRestarts
    BY SmsAssumption DEF Base, Types, Counts
  <2>2. counts.restarts < MaxRestarts => counts.restarts + 1 \in 0..MaxRestarts
    BY <2>1
  <2>3. QED  BY <1>1, <2>1, <2>2 DEF Counts
<1>3. want' \in Want
  <2>1. want \in Want
    BY DEF Base, Types
  <2>2. QED  BY <1>1, <2>1, WantType DEF Want
<1>4. Types' /\ Tasks'
  BY <1>1, <1>2, <1>3 DEF Base, Types, Tasks
<1>5. Replies' = Replies
  BY <1>1 DEF Replies
<1>6. InStep'
  BY <1>1, <1>5 DEF Base, InStep
<1>7. QED  BY <1>1, <1>2, <1>4, <1>6 DEF Base

(* What the modem runs. *)
LEMMA LineFacts ==
  ASSUME Base, line # NoCmd
  PROVE  /\ connected /\ Jobs(q) # {} /\ HeadJob(q) \in Jobs(q)
         /\ line.cmd = CmdOf(HeadJob(q)) /\ line.arg = arg[HeadJob(q).id]
         /\ line.cmd \in {"CMGS", "SMSTEXT", "USER", "CMGR", "CMGD"}
         /\ line.arg \in IF line.cmd \in {"CMGS", "SMSTEXT"} THEN Own ELSE Slots
         /\ Replies = {}
<1>1. /\ connected /\ Jobs(q) # {} /\ HeadJob(q) \in Jobs(q) /\ Replies = {}
      /\ line.cmd = CmdOf(HeadJob(q)) /\ line.arg = arg[HeadJob(q).id]
  BY HeadFacts DEF Base, InStep
<1>2. /\ arg[HeadJob(q).id] \in IF HeadJob(q).kind = "sms" THEN Own ELSE Slots
  BY <1>1 DEF Base, Tasks
<1>3. QED  BY <1>1, <1>2, JobCommands

LEMMA AnswerBase ==
  ASSUME Base, IInv', line # NoCmd, NEW r \in TtyResult, Answer(r), r.res # "CMTI",
         Answers(line.cmd, r.res), UNCHANGED driverVars, UNCHANGED historyVars,
         store' \in [Slots -> Messages \cup {NoMessage}], net' \subseteq Messages,
         accepted' \subseteq Own, erased' \subseteq Messages
  PROVE  Base'
<1>1. UNCHANGED << connected, q, arg, incoming, want, reports, heard, plain, counts >>
  BY DEF driverVars, historyVars
<1>2. Tasks'
  BY <1>1 DEF Base, Tasks
<1>3. InStep'
  BY <1>1, AnsweredInStep
<1>4. tty' \in Seq(TtyResult) /\ line' = NoCmd
  BY TtyAppend DEF Answer, Base
<1>5. Types'
  BY <1>1, <1>4 DEF Base, Types
<1>6. QED  BY <1>2, <1>3, <1>5 DEF Base

LEMMA ModemBase ==
  ASSUME Base, IInv', Modem
  PROVE  Base'
<1>1. UNCHANGED driverVars /\ UNCHANGED historyVars
  BY DEF Modem
<1>2. /\ store \in [Slots -> Messages \cup {NoMessage}] /\ net \subseteq Messages
      /\ accepted \subseteq Own /\ erased \subseteq Messages /\ Own \subseteq Messages
  BY DEF Base, Types, Messages
<1>3. \A s \in {"OK", "ERROR", "PROMPT"} : [res |-> s] \in TtyResult /\ [res |-> s].res = s
  BY DEF TtyResult
<1>4. CASE ModemPrompts
  <2>1. line # NoCmd /\ line.cmd = "CMGS" /\ Answer([res |-> "PROMPT"])
        /\ UNCHANGED << store, net, accepted, erased >>
    BY <1>4 DEF ModemPrompts, Runs
  <2>2. Answers(line.cmd, "PROMPT")
    BY <2>1 DEF Answers
  <2>3. QED  BY <1>1, <1>2, <1>3, <2>1, <2>2, AnswerBase
<1>5. CASE ModemSubmits
  <2>1. line # NoCmd /\ line.cmd = "SMSTEXT" /\ Answer([res |-> "OK"])
        /\ accepted' = accepted \cup {line.arg} /\ net' = net \cup {line.arg}
        /\ UNCHANGED << store, erased >>
    BY <1>5 DEF ModemSubmits, Runs
  <2>2. Answers(line.cmd, "OK") /\ line.arg \in Own
    BY <2>1, LineFacts DEF Answers
  <2>3. /\ store' \in [Slots -> Messages \cup {NoMessage}] /\ net' \subseteq Messages
        /\ accepted' \subseteq Own /\ erased' \subseteq Messages
    BY <1>2, <2>1, <2>2
  <2>4. QED  BY <1>1, <1>3, <2>1, <2>2, <2>3, AnswerBase
<1>6. CASE ModemReads
  <2>1. /\ line # NoCmd /\ line.cmd = "CMGR" /\ UNCHANGED << store, net, accepted, erased >>
        /\ \/ store[line.arg] # NoMessage /\ Answer([res |-> "CMGR", msg |-> store[line.arg]])
           \/ Answer([res |-> "OK"])
    BY <1>6 DEF ModemReads, Runs
  <2>2. line.arg \in Slots /\ Answers(line.cmd, "CMGR") /\ Answers(line.cmd, "OK")
    BY <2>1, LineFacts DEF Answers
  <2>3. CASE store[line.arg] # NoMessage /\ Answer([res |-> "CMGR", msg |-> store[line.arg]])
    <3> DEFINE r == [res |-> "CMGR", msg |-> store[line.arg]]
    <3>1. r \in TtyResult /\ r.res = "CMGR"
      BY <1>2, <2>2, <2>3 DEF TtyResult
    <3>2. Answer(r)
      BY <2>3
    <3> HIDE DEF r
    <3>3. QED  BY <1>1, <1>2, <2>1, <2>2, <3>1, <3>2, AnswerBase
  <2>4. CASE Answer([res |-> "OK"])
    BY <1>1, <1>2, <1>3, <2>1, <2>2, <2>4, AnswerBase
  <2>5. QED  BY <2>1, <2>3, <2>4
<1>7. CASE ModemDeletes
  <2>1. /\ line # NoCmd /\ line.cmd \in {"CMGD", "USER"} /\ Answer([res |-> "OK"])
        /\ store' = [store EXCEPT ![line.arg] = NoMessage]
        /\ erased' = IF line.cmd = "USER" THEN erased \cup ({store[line.arg]} \ {NoMessage})
                     ELSE erased
        /\ UNCHANGED << net, accepted >>
    BY <1>7 DEF ModemDeletes, Runs
  <2>2. line.arg \in Slots /\ Answers(line.cmd, "OK")
    BY <2>1, LineFacts DEF Answers
  <2>3. /\ store' \in [Slots -> Messages \cup {NoMessage}] /\ net' \subseteq Messages
        /\ accepted' \subseteq Own /\ erased' \subseteq Messages
    BY <1>2, <2>1, <2>2
  <2>4. QED  BY <1>1, <1>3, <2>1, <2>2, <2>3, AnswerBase
<1>8. CASE ModemRefuses
  <2>1. line # NoCmd /\ Answer([res |-> "ERROR"]) /\ UNCHANGED << store, net, accepted, erased >>
    BY <1>8 DEF ModemRefuses
  <2>2. Answers(line.cmd, "ERROR")
    BY DEF Answers
  <2>3. QED  BY <1>1, <1>2, <1>3, <2>1, <2>2, AnswerBase
<1>9. QED  BY <1>4, <1>5, <1>6, <1>7, <1>8 DEF Modem

LEMMA ArriveBase ==
  ASSUME Base, IInv', NEW m \in Messages, NEW s \in Slots, Arrive(m, s)
  PROVE  Base' /\ SameReplies
<1>1. /\ m \in net /\ store[s] = NoMessage
      /\ store' = [store EXCEPT ![s] = m] /\ net' = net \ {m}
      /\ tty' = IF connected THEN Append(tty, [res |-> "CMTI", slot |-> s]) ELSE tty
      /\ UNCHANGED << line, accepted, erased >>
      /\ UNCHANGED << connected, q, arg, incoming, want, reports, heard, plain, counts >>
  BY DEF Arrive, driverVars, historyVars
<1> DEFINE r == [res |-> "CMTI", slot |-> s]
<1>2. r \in TtyResult /\ r.res = "CMTI"
  BY DEF TtyResult
<1>3. tty' = IF connected THEN Append(tty, r) ELSE tty
  BY <1>1
<1> HIDE DEF r
<1>4. tty' \in Seq(TtyResult) /\ SameReplies
  <2>1. Types
    BY DEF Base
  <2>2. CASE connected
    BY <1>2, <1>3, <2>1, <2>2, TtyAppend, RepliesStay
  <2>3. CASE ~connected
    BY <1>3, <2>1, <2>3, RepliesStay DEF Types
  <2>4. QED  BY <2>2, <2>3
<1>5. Types'
  BY <1>1, <1>4 DEF Base, Types
<1>6. Tasks'
  BY <1>1 DEF Base, Tasks
<1>7. InStep'
  BY <1>1, <1>4, QuietInStep
<1>8. QED  BY <1>4, <1>5, <1>6, <1>7 DEF Base

LEMMA SameBase == Base /\ UNCHANGED vars => Base'
<1> SUFFICES ASSUME Base, UNCHANGED vars PROVE Base'
  OBVIOUS
<1>2. Replies' = Replies
  BY DEF vars, Replies
<1>3. IInv'
  BY StepKeeps DEF Base
<1>4. QED  BY <1>2, <1>3 DEF vars, Base, Types, Tasks, InStep

LEMMA StepBase == Base /\ [Next]_vars => Base'
<1> SUFFICES ASSUME Base, [Next]_vars PROVE Base'
  OBVIOUS
<1>2. IInv'
  BY StepKeeps DEF Base
<1>3. CASE Monitor
  BY <1>2, <1>3, HandleOkReplied, HandleErrorReplied, HandlePromptReplied, HandleCmgrReplied,
     CmtiBase DEF Monitor
<1>4. CASE \E m \in Messages, s \in Slots : Arrive(m, s)
  BY <1>2, <1>4, ArriveBase
<1>5. CASE \E m \in Own : SendSms(m)
  BY <1>2, <1>5, SendBase
<1>6. CASE \E s \in Slots : UserDeletes(s)
  BY <1>2, <1>6, UserBase
<1>7. QED
  BY <1>2, <1>3, <1>4, <1>5, <1>6, EndBase, WantBase, ModemBase, SameBase DEF Next

LEMMA BaseHolds == Spec => []Base
  BY InitBase, StepBase, PTL DEF Spec

(* A queued task to send is about a message of the driver's, the others are about *)
(* a place of the store, and no queued task goes without its subject; the         *)
(* modem's command, the answers, the store and the reports are of their types.    *)
THEOREM SmsTypes == Spec => []TypeOK
<1>1. Base => TypeOK
  <2> SUFFICES ASSUME Base PROVE TypeOK
    OBVIOUS
  <2>2. q \in Queue /\ DOMAIN q.tasks = 1..Len(q.tasks)
    BY QueueFields DEF Base, IInv, QueueOK
  <2>3. \A i \in DOMAIN q.tasks :
          arg[q.tasks[i].id] \in IF q.tasks[i].kind = "sms" THEN Own ELSE Slots
    <3>1. SUFFICES ASSUME NEW i \in DOMAIN q.tasks
          PROVE arg[q.tasks[i].id] \in IF q.tasks[i].kind = "sms" THEN Own ELSE Slots
      OBVIOUS
    <3>2. Job(q.tasks[i]) \in Jobs(q)
      BY <2>2 DEF Jobs, JobsIn
    <3>3. Job(q.tasks[i]).id = q.tasks[i].id /\ Job(q.tasks[i]).kind = q.tasks[i].kind
      BY DEF Job
    <3>4. QED  BY <3>2, <3>3 DEF Base, Tasks
  <2>4. QED  BY <2>2, <2>3 DEF Base, IInv, Types, Tasks, TypeOK, Line, TtyResult
<1>2. QED  BY <1>1, BaseHolds, PTL

-----------------------------------------------------------------------------
(* The answers under way: at most one, and it is the head's. *)
Given == { tty[i] : i \in Replies }

LEMMA GivenStays ==
  ASSUME Types
  PROVE  /\ tty' = tty => Given' = Given
         /\ tty # << >> /\ Head(tty).res = "CMTI" /\ tty' = Tail(tty) => Given' = Given
         /\ \A r \in TtyResult : r.res = "CMTI" /\ tty' = Append(tty, r) => Given' = Given
<1>1. ASSUME tty' = tty PROVE Given' = Given
  BY <1>1 DEF Given, Replies
<1>2. ASSUME tty # << >>, Head(tty).res = "CMTI", tty' = Tail(tty) PROVE Given' = Given
  <2>1. ASSUME NEW i \in Replies' PROVE i + 1 \in Replies /\ tty'[i] = tty[i + 1]
    BY <1>2, <2>1, TtyTail DEF Replies
  <2>2. ASSUME NEW i \in Replies PROVE i - 1 \in Replies' /\ tty'[i - 1] = tty[i]
    <3>1. i \in 1..Len(tty) /\ i # 1
      BY <1>2, <2>2, TtyTail DEF Replies
    <3>2. Len(Tail(tty)) = Len(tty) - 1 /\ Len(tty) \in Nat
      BY <1>2 DEF Types
    <3>3. i - 1 \in 1..Len(Tail(tty)) /\ (i - 1) + 1 = i
      BY <3>1, <3>2
    <3>4. Tail(tty)[i - 1] = tty[i]
      BY <1>2, <3>3, TtyTail
    <3>5. QED  BY <1>2, <2>2, <3>3, <3>4 DEF Replies
  <2>3. QED  BY <2>1, <2>2 DEF Given
<1>3. ASSUME NEW r \in TtyResult, r.res = "CMTI", tty' = Append(tty, r) PROVE Given' = Given
  <2>1. ASSUME NEW i \in Replies' PROVE i \in Replies /\ tty'[i] = tty[i]
    <3>1. i \in 1..Len(Append(tty, r)) /\ Append(tty, r)[i].res # "CMTI"
      BY <1>3, <2>1 DEF Replies
    <3>2. i # Len(tty) + 1
      BY <1>3, <3>1, TtyAppend
    <3>3. i \in 1..Len(tty) /\ Append(tty, r)[i] = tty[i]
      BY <3>1, <3>2, TtyAppend
    <3>4. QED  BY <1>3, <3>1, <3>3 DEF Replies
  <2>2. ASSUME NEW i \in Replies PROVE i \in Replies' /\ tty'[i] = tty[i]
    <3>1. i \in 1..Len(tty)
      BY <2>2 DEF Replies
    <3>2. i \in 1..Len(Append(tty, r)) /\ Append(tty, r)[i] = tty[i]
      BY <3>1, TtyAppend
    <3>3. QED  BY <1>3, <2>2, <3>2 DEF Replies
  <2>3. QED  BY <2>1, <2>2 DEF Given
<1>4. QED  BY <1>1, <1>2, <1>3

LEMMA GivenAnswer ==
  ASSUME Base, line # NoCmd, NEW r \in TtyResult, Answer(r), r.res # "CMTI"
  PROVE  Given = {} /\ Given' = {r}
<1>1. Replies = {} /\ tty' = Append(tty, r)
  BY DEF Answer, Base, InStep
<1>2. ASSUME NEW i \in Replies' PROVE tty'[i] = r
  <2>1. i \in 1..Len(Append(tty, r)) /\ Append(tty, r)[i].res # "CMTI"
    BY <1>1, <1>2 DEF Replies
  <2>2. i \in 1..Len(tty) => i \in Replies
    BY <2>1, TtyAppend DEF Base, Replies
  <2>3. i = Len(tty) + 1
    BY <1>1, <2>1, <2>2, TtyAppend DEF Base
  <2>4. QED  BY <1>1, <2>3, TtyAppend DEF Base
<1>3. Len(tty) + 1 \in Replies'
  BY <1>1, TtyAppend DEF Base, Replies
<1>4. QED  BY <1>1, <1>2, <1>3 DEF Given

LEMMA GivenTaken ==
  ASSUME Base, NEW res \in {"OK", "ERROR", "PROMPT", "CMGR"}, Taken(res)
  PROVE  Given = {Head(tty)} /\ Head(tty).res = res
<1>1. 1 \in Replies /\ Head(tty) = tty[1] /\ tty[1].res = res
  BY TakenHead
<1>2. \A i \in Replies : i = 1
  BY <1>1 DEF Base, InStep
<1>3. QED  BY <1>1, <1>2 DEF Given

LEMMA NoneGiven == ASSUME Replies' = {} PROVE Given' = {}
  BY DEF Given

LEMMA GoneGiven == ASSUME Gone PROVE Given' = {}
  BY EmptySeq DEF Gone, Given, Replies

-----------------------------------------------------------------------------
(* What the sender is told.  The reports of a message follow from whether its *)
(* task is queued; a message the network took is reported sent or cut, unless *)
(* the answer that tells of it is still under way.                            *)
SendsIn(J, m) == \E j \in J : j.kind = "sms" /\ arg[j.id] = m

DistinctIn(J) ==
  \A j, k \in J : j.kind = "sms" /\ k.kind = "sms" /\ arg[j.id] = arg[k.id] => j = k

Granted(m) == /\ Jobs(q) # {} /\ CmdOf(HeadJob(q)) = "SMSTEXT" /\ arg[HeadJob(q).id] = m
              /\ \E r \in Given : r.res = "OK"

Sent  == << "queued", "Sent" >>
Ended == {<< >>, << "refused" >>, Sent, << "queued", "NotSent" >>, << "queued", "cut" >>}

Fine(r, sends, acc, granted) ==
  /\ sends => r = << "queued" >>
  /\ ~sends => r \in Ended
  /\ acc => granted \/ r \in {Sent, << "queued", "cut" >>}
  /\ r = Sent => acc
  /\ granted => acc /\ sends

Reporting ==
  /\ DistinctIn(Jobs(q))
  /\ \A m \in Own : Fine(reports[m], SendsIn(Jobs(q), m), m \in accepted, Granted(m))

LEMMA AppendGives ==
  ASSUME NEW S, NEW s \in Seq(S), NEW r \in S
  PROVE  /\ Append(s, r) \in Seq(S) /\ Len(Append(s, r)) = Len(s) + 1
         /\ \A i \in 1..Len(s) : Append(s, r)[i] = s[i]
         /\ Append(s, r)[Len(s) + 1] = r
BY AppendProperties

LEMMA AppendToOne ==
  ASSUME NEW S, NEW s \in Seq(S), Len(s) = 1, NEW r \in S
  PROVE  Append(s, r) = << s[1], r >>
<1>1. /\ Append(s, r) \in Seq(S) /\ Len(Append(s, r)) = Len(s) + 1
      /\ \A i \in 1..Len(s) : Append(s, r)[i] = s[i]
      /\ Append(s, r)[Len(s) + 1] = r
  BY AppendGives, Zenon
<1>2. Len(Append(s, r)) = 2 /\ Append(s, r)[1] = s[1] /\ Append(s, r)[2] = r
  <2>1. 1 \in 1..Len(s) /\ Len(s) + 1 = 2
    OBVIOUS
  <2> DEFINE a == Append(s, r)
  <2>2. Len(a) = Len(s) + 1 /\ (\A i \in 1..Len(s) : a[i] = s[i]) /\ a[Len(s) + 1] = r
    BY <1>1
  <2> HIDE DEF a
  <2>3. Len(a) = 2 /\ a[1] = s[1] /\ a[2] = r
    BY <2>1, <2>2
  <2> QED  BY <2>3 DEF a
<1> DEFINE b == << s[1], r >>
<1>3. b \in Seq(S) /\ Len(b) = 2 /\ b[1] = s[1] /\ b[2] = r
  <2>1. s[1] \in S
    <3>1. 1 \in 1..Len(s)
      OBVIOUS
    <3>2. QED  BY <3>1, ElementOfSeq, Zenon
  <2>2. QED  BY <2>1
<1>4. \A i \in 1..2 : i = 1 \/ i = 2
  OBVIOUS
<1> HIDE DEF b
<1>5. Append(s, r) = b
  BY <1>1, <1>2, <1>3, <1>4, SeqEqual
<1>6. QED  BY <1>5 DEF b

LEMMA ReportTuples ==
  /\ \A r : Append(<< "queued" >>, r) = << "queued", r >>
  /\ << "queued" >> \notin Ended /\ << "queued" >> # << >>
  /\ << >> \notin {Sent, << "queued", "cut" >>}
  /\ << "refused" >> \notin {Sent, << "queued", "cut" >>, << "queued" >>}
  /\ << "queued", "NotSent" >> \notin {Sent, << "queued", "cut" >>}
  /\ << "queued", "cut" >> # Sent
<1>1. ASSUME NEW r PROVE Append(<< "queued" >>, r) = << "queued", r >>
  <2>1. << "queued" >> \in Seq({"queued", r}) /\ Len(<< "queued" >>) = 1 /\ r \in {"queued", r}
    OBVIOUS
  <2>2. << "queued" >>[1] = "queued"
    OBVIOUS
  <2>3. Append(<< "queued" >>, r) = << << "queued" >>[1], r >>
    BY <2>1, AppendToOne, Zenon
  <2>4. QED  BY <2>2, <2>3
<1>2. << "queued" >> \notin Ended /\ << "queued" >> # << >>
  BY DEF Ended, Sent
<1>3. << >> \notin {Sent, << "queued", "cut" >>}
  BY DEF Sent
<1>4. << "refused" >> \notin {Sent, << "queued", "cut" >>, << "queued" >>}
  BY DEF Sent
<1>5. << "queued", "NotSent" >> \notin {Sent, << "queued", "cut" >>}
  BY DEF Sent
<1>6. << "queued", "cut" >> # Sent
  BY DEF Sent
<1>7. QED  BY <1>1, <1>2, <1>3, <1>4, <1>5, <1>6

(* The end of a connection cuts the messages that are queued. *)
LEMMA CutReporting ==
  ASSUME Gone, IInv', NEW y, QueueOK(y), NEW rep \in [Own -> Seq(Report)],
         reports' = Cut(rep, y), accepted' = accepted,
         \A m \in Own : \E g : Fine(rep[m], SendsIn(Jobs(y), m), m \in accepted, g)
  PROVE  Reporting'
<1>1. Jobs(q') = {}
  BY JobsFacts, JobsInEmpty DEF Gone, Jobs, EmptyQueue, IInv
<1>2. \A m : m \in Sending(y) <=> SendsIn(Jobs(y), m)
  BY SendingJobs DEF SendsIn
<1>3. ASSUME NEW m \in Own PROVE Fine(reports'[m], FALSE, m \in accepted, FALSE)
  <2>1. PICK g : Fine(rep[m], SendsIn(Jobs(y), m), m \in accepted, g)
    OBVIOUS
  <2>2. reports'[m] = IF SendsIn(Jobs(y), m) THEN Append(rep[m], "cut") ELSE rep[m]
    BY <1>2 DEF Cut
  <2>3. << "queued", "cut" >> \in Ended
    BY DEF Ended
  <2>4. CASE SendsIn(Jobs(y), m)
    <3>1. reports'[m] = << "queued", "cut" >>
      BY <2>1, <2>2, <2>4, ReportTuples DEF Fine
    <3>2. QED  BY <2>3, <3>1, ReportTuples DEF Fine
  <2>5. CASE ~SendsIn(Jobs(y), m)
    BY <2>1, <2>2, <2>5 DEF Fine
  <2>6. QED  BY <2>4, <2>5
<1>4. \A m : ~SendsIn(Jobs(q), m)'
  BY <1>1 DEF SendsIn
<1>5. \A m : ~Granted(m)'
  BY <1>1 DEF Granted
<1>6. QED  BY <1>1, <1>3, <1>4, <1>5 DEF Reporting, DistinctIn, Fine

(* What an answer of the modem does to the reports. *)
LEMMA ReplyFine ==
  ASSUME Base, Reporting, NEW res \in {"OK", "ERROR", "PROMPT", "CMGR"}, Taken(res),
         NEW J, Leaves(J, res)
  PROVE  /\ DistinctIn(J)
         /\ \A m \in Own : Fine(ReportsAfter(res)[m], SendsIn(J, m), m \in accepted, FALSE)
<1> DEFINE h  == HeadJob(q)
           m0 == arg[h.id]
<1>1. /\ Jobs(q) # {} /\ Answers(CmdOf(h), res) /\ h \in Jobs(q)
      /\ \A j, k \in Jobs(q) : j.id = k.id => j = k
      /\ Given = {Head(tty)} /\ Head(tty).res = res
  BY TakenHead, HeadFacts, GivenTaken
<1>2. \A m : Granted(m) <=> CmdOf(h) = "SMSTEXT" /\ m0 = m /\ res = "OK"
  BY <1>1 DEF Granted
<1>3. /\ h.kind \in {"sms", "user", "retrieve", "read"} /\ h.idx \in {1, 2}
      /\ CmdOf(h) = IF h.kind = "sms" THEN IF h.idx = 1 THEN "CMGS" ELSE "SMSTEXT"
                    ELSE IF h.kind = "user" THEN "USER"
                    ELSE IF h.idx = 1 THEN "CMGR" ELSE "CMGD"
      /\ h.kind = "sms" => m0 \in Own
  BY <1>1, JobCommands DEF Base, Tasks
<1>4. h = [id |-> h.id, kind |-> h.kind, idx |-> h.idx]
  BY DEF HeadJob, Job
<1>5. /\ \A m \in Own : Fine(reports[m], SendsIn(Jobs(q), m), m \in accepted, Granted(m))
      /\ DistinctIn(Jobs(q)) /\ reports \in [Own -> Seq(Report)]
  BY DEF Reporting, Base, Types
<1>6. Others \subseteq Jobs(q) /\ (\A j \in Jobs(q) : j = h \/ j \in Others) /\ h \notin Others
  BY <1>1 DEF Others
<1>7. CASE GoesOnAfter(h, res)
  <2> DEFINE g == [h EXCEPT !.idx = 2]
  <2>1. J = Others \cup {g} /\ g.id = h.id /\ g.kind = h.kind
    BY <1>4, <1>7 DEF Leaves
  <2>2. ReportsAfter(res) = reports
    BY <1>7 DEF GoesOnAfter, ReportsAfter
  <2>3. \A m : ~Granted(m)
    BY <1>2, <1>7 DEF GoesOnAfter
  <2> HIDE DEF h, g
  <2>4. \A m : SendsIn(J, m) <=> SendsIn(Jobs(q), m)
    BY <1>1, <1>6, <2>1 DEF SendsIn
  <2>5. DistinctIn(J)
    <3>1. \A j \in J : \E k \in Jobs(q) : j.id = k.id /\ j.kind = k.kind
                                          /\ (k = h => j = g) /\ (k # h => j = k)
      BY <1>1, <1>6, <2>1
    <3>2. QED  BY <1>5, <3>1 DEF DistinctIn
  <2>6. QED  BY <1>5, <2>2, <2>3, <2>4, <2>5 DEF Fine
<1>8. CASE ~GoesOnAfter(h, res)
  <2>1. J = Others
    BY <1>8 DEF Leaves
  <2>2. DistinctIn(J)
    BY <1>5, <1>6, <2>1 DEF DistinctIn
  <2>3. CASE h.kind # "sms"
    <3>1. ReportsAfter(res) = reports /\ \A m : ~Granted(m)
      BY <1>2, <1>3, <2>3 DEF ReportsAfter
    <3>2. \A m : SendsIn(J, m) <=> SendsIn(Jobs(q), m)
      BY <1>6, <2>1, <2>3 DEF SendsIn
    <3>3. QED  BY <1>5, <2>2, <3>1, <3>2 DEF Fine
  <2>4. CASE h.kind = "sms"
    <3>1. m0 \in Own /\ SendsIn(Jobs(q), m0)
      BY <1>1, <1>3, <2>4 DEF SendsIn
    <3>2. reports[m0] = << "queued" >>
      BY <1>5, <3>1 DEF Fine
    <3>3. \A m : SendsIn(J, m) <=> m # m0 /\ SendsIn(Jobs(q), m)
      BY <1>1, <1>5, <1>6, <2>1, <2>4 DEF SendsIn, DistinctIn
    <3>4. CASE res = "OK"
      <4>1. CmdOf(h) = "SMSTEXT" /\ ReportsAfter(res) = [reports EXCEPT ![m0] = Append(@, "Sent")]
        BY <1>1, <1>3, <2>4, <3>4 DEF Answers, ReportsAfter
      <4>2. Granted(m0) /\ m0 \in accepted /\ \A m : m # m0 => ~Granted(m)
        BY <1>2, <1>5, <3>1, <3>4, <4>1 DEF Fine
      <4> HIDE DEF m0
      <4>3. ReportsAfter(res)[m0] = Sent /\ \A m \in Own : m # m0 => ReportsAfter(res)[m] = reports[m]
        BY <1>5, <3>1, <3>2, <4>1, ReportTuples DEF Sent
      <4>4. Fine(Sent, FALSE, TRUE, FALSE)
        BY DEF Fine, Ended
      <4>5. ASSUME NEW m \in Own
            PROVE  Fine(ReportsAfter(res)[m], SendsIn(J, m), m \in accepted, FALSE)
        <5>1. CASE m = m0
          BY <3>3, <4>2, <4>3, <4>4, <5>1 DEF Fine
        <5>2. CASE m # m0
          <6>1. SendsIn(J, m) <=> SendsIn(Jobs(q), m)
            BY <3>3, <5>2
          <6>2. QED  BY <1>5, <4>2, <4>3, <5>2, <6>1 DEF Fine
        <5>3. QED  BY <5>1, <5>2
      <4>6. QED  BY <2>2, <4>5
    <3>5. CASE res # "OK"
      <4>1. ReportsAfter(res) = [reports EXCEPT ![m0] = Append(@, "NotSent")]
        BY <1>1, <1>3, <1>8, <2>4, <3>5 DEF Answers, ReportsAfter, GoesOnAfter
      <4>2. \A m : ~Granted(m)
        BY <1>2, <3>5
      <4>3. m0 \notin accepted
        BY <1>5, <3>1, <3>2, <4>2, ReportTuples DEF Fine, Ended
      <4> HIDE DEF m0
      <4>4. /\ ReportsAfter(res)[m0] = << "queued", "NotSent" >>
            /\ \A m \in Own : m # m0 => ReportsAfter(res)[m] = reports[m]
        BY <1>5, <3>1, <3>2, <4>1, ReportTuples
      <4>5. << "queued", "NotSent" >> \in Ended /\ << "queued", "NotSent" >> # Sent
        BY ReportTuples DEF Ended
      <4>6. ASSUME NEW m \in Own
            PROVE  Fine(ReportsAfter(res)[m], SendsIn(J, m), m \in accepted, FALSE)
        <5>1. CASE m = m0
          BY <3>3, <4>3, <4>4, <4>5, <5>1 DEF Fine
        <5>2. CASE m # m0
          <6>1. SendsIn(J, m) <=> SendsIn(Jobs(q), m)
            BY <3>3, <5>2
          <6>2. QED  BY <1>5, <4>2, <4>4, <5>2, <6>1 DEF Fine
        <5>3. QED  BY <5>1, <5>2
      <4>7. QED  BY <2>2, <4>6
    <3>6. QED  BY <3>4, <3>5
  <2>5. QED  BY <2>3, <2>4
<1>9. QED  BY <1>7, <1>8

LEMMA SameSends ==
  ASSUME KeepArgs(Jobs(q'))
  PROVE  /\ DistinctIn(Jobs(q))' <=> DistinctIn(Jobs(q'))
         /\ \A m : SendsIn(Jobs(q), m)' <=> SendsIn(Jobs(q'), m)
  BY DEF KeepArgs, DistinctIn, SendsIn

LEMMA RepliedReporting ==
  ASSUME Base, IInv', Reporting, NEW res \in {"OK", "ERROR", "PROMPT", "CMGR"}, Replied(res)
  PROVE  Reporting'
<1>1. Taken(res) /\ accepted' = accepted
  BY DEF Replied
<1>2. ReportsAfter(res) \in [Own -> Seq(Report)]
  BY ReportsAfterType
<1>3. CASE /\ Gone
           /\ \E y : QueueOK(y) /\ Leaves(Jobs(y), res) /\ reports' = Cut(ReportsAfter(res), y)
  <2>1. PICK y : QueueOK(y) /\ Leaves(Jobs(y), res) /\ reports' = Cut(ReportsAfter(res), y)
    BY <1>3
  <2>2. \A m \in Own : Fine(ReportsAfter(res)[m], SendsIn(Jobs(y), m), m \in accepted, FALSE)
    BY <1>1, <2>1, ReplyFine
  <2>3. QED  BY <1>1, <1>2, <1>3, <2>1, <2>2, CutReporting
<1>4. CASE /\ reports' = ReportsAfter(res) /\ tty' = Tail(tty) /\ UNCHANGED connected
           /\ Proceeds(res) /\ Replies' = {}
  <2>1. Leaves(Jobs(q'), res) /\ KeepArgs(Jobs(q'))
    BY <1>4 DEF Proceeds
  <2>2. /\ DistinctIn(Jobs(q'))
        /\ \A m \in Own : Fine(ReportsAfter(res)[m], SendsIn(Jobs(q'), m), m \in accepted, FALSE)
    BY <1>1, <2>1, ReplyFine
  <2>3. \A m : ~Granted(m)'
    BY <1>4, NoneGiven DEF Granted
  <2>4. /\ DistinctIn(Jobs(q))'
        /\ \A m : SendsIn(Jobs(q), m)' <=> SendsIn(Jobs(q'), m)
    BY <2>1, <2>2, SameSends
  <2>5. QED  BY <1>1, <1>4, <2>2, <2>3, <2>4 DEF Reporting, Fine
<1>5. QED  BY <1>3, <1>4 DEF Replied

(* The queue stays; a caller may be refused. *)
LEMMA QuietReporting ==
  ASSUME Base, Reporting, Given' = Given, Jobs(q') = Jobs(q), arg' = arg,
         Jobs(q) # {} => HeadJob(q') = HeadJob(q), accepted' = accepted,
         \A m \in Own : \/ reports'[m] = reports[m]
                        \/ reports[m] = << >> /\ reports'[m] = << "refused" >>
  PROVE  Reporting'
<1>1. /\ DistinctIn(Jobs(q))' <=> DistinctIn(Jobs(q))
      /\ \A m : SendsIn(Jobs(q), m)' <=> SendsIn(Jobs(q), m)
  BY DEF DistinctIn, SendsIn
<1>2. \A m : Granted(m)' <=> Granted(m)
  BY DEF Granted
<1>3. ASSUME NEW m \in Own
      PROVE  Fine(reports'[m], SendsIn(Jobs(q), m), m \in accepted, Granted(m))
  <2>1. Fine(reports[m], SendsIn(Jobs(q), m), m \in accepted, Granted(m))
    BY DEF Reporting
  <2>2. << "refused" >> \in Ended
    BY DEF Ended
  <2>3. QED  BY <2>1, <2>2, ReportTuples DEF Fine
<1>4. QED  BY <1>1, <1>2, <1>3 DEF Reporting, Fine

LEMMA EmptyReporting ==
  ASSUME Base, Reporting, Jobs(q) = {}, Jobs(q') = {}, accepted' = accepted,
         \A m \in Own : \/ reports'[m] = reports[m]
                        \/ reports[m] = << >> /\ reports'[m] = << "refused" >>
  PROVE  Reporting'
<1>1. DistinctIn(Jobs(q))' /\ \A m : ~SendsIn(Jobs(q), m) /\ ~SendsIn(Jobs(q), m)'
  BY DEF DistinctIn, SendsIn
<1>2. \A m : ~Granted(m)' /\ ~Granted(m)
  BY DEF Granted
<1>3. ASSUME NEW m \in Own PROVE Fine(reports'[m], FALSE, m \in accepted, FALSE)
  <2>1. Fine(reports[m], SendsIn(Jobs(q), m), m \in accepted, Granted(m))
    BY DEF Reporting
  <2>2. << "refused" >> \in Ended
    BY DEF Ended
  <2>3. QED  BY <1>1, <1>2, <2>1, <2>2, ReportTuples DEF Fine
<1>4. QED  BY <1>1, <1>2, <1>3 DEF Reporting, Fine

LEMMA QueuesReporting ==
  ASSUME Base, Reporting, NEW k, NEW a, Queues(k, a), Given' = Given, accepted' = accepted,
         k = "sms" => /\ a \in Own /\ reports[a] = << >>
                      /\ reports' = [reports EXCEPT ![a] = << "queued" >>],
         k # "sms" => reports' = reports
  PROVE  Reporting'
<1> DEFINE n(id) == [id |-> id, kind |-> k, idx |-> 1]
<1>1. PICK id \in TaskIds \ Queued(q) :
        /\ Jobs(q') = Jobs(q) \cup {n(id)}
        /\ arg'[id] = a /\ KeepArgs(Jobs(q))
        /\ Jobs(q) # {} => HeadJob(q') = HeadJob(q)
  BY DEF Queues
<1>2. n(id).id = id /\ n(id).kind = k
  OBVIOUS
<1> HIDE DEF n
<1>3. \A j \in Jobs(q) : arg'[j.id] = arg[j.id]
  BY <1>1 DEF KeepArgs
<1>4. /\ \A m \in Own : Fine(reports[m], SendsIn(Jobs(q), m), m \in accepted, Granted(m))
      /\ DistinctIn(Jobs(q)) /\ reports \in [Own -> Seq(Report)]
  BY DEF Reporting, Base, Types
<1>5. \A m : SendsIn(Jobs(q), m)' <=> (SendsIn(Jobs(q), m) \/ (k = "sms" /\ m = a))
  BY <1>1, <1>2, <1>3 DEF SendsIn
<1>6. k = "sms" => ~SendsIn(Jobs(q), a) /\ ~Granted(a) /\ a \notin accepted
  BY <1>4, ReportTuples DEF Fine
<1>7. DistinctIn(Jobs(q))'
  <2>1. k = "sms" => \A j \in Jobs(q) : j.kind = "sms" => arg[j.id] # a
    BY <1>6 DEF SendsIn
  <2>2. QED  BY <1>1, <1>2, <1>3, <1>4, <2>1 DEF DistinctIn
<1>8. \A m : Granted(m)' <=> Granted(m)
  <2>1. CASE Jobs(q) = {}
    <3>1. Given = {}
      BY <2>1 DEF Base, InStep, Given
    <3>2. QED  BY <3>1 DEF Granted
  <2>2. CASE Jobs(q) # {}
    <3>1. HeadJob(q) \in Jobs(q) /\ Jobs(q') # {} /\ HeadJob(q') = HeadJob(q)
      BY <1>1, <2>2, HeadFacts
    <3>2. QED  BY <1>3, <2>2, <3>1 DEF Granted
  <2>3. QED  BY <2>1, <2>2
<1>9. ASSUME NEW m \in Own
      PROVE  Fine(reports'[m], SendsIn(Jobs(q), m) \/ (k = "sms" /\ m = a), m \in accepted,
                  Granted(m))
  <2>1. CASE k = "sms" /\ m = a
    <3>1. reports'[m] = << "queued" >>
      BY <1>4, <2>1
    <3>2. << "queued" >> # Sent
      BY DEF Sent
    <3>3. QED  BY <1>6, <2>1, <3>1, <3>2 DEF Fine
  <2>2. CASE ~(k = "sms" /\ m = a)
    <3>1. reports'[m] = reports[m]
      BY <1>4, <2>2
    <3>2. QED  BY <1>4, <2>2, <3>1 DEF Fine
  <2>3. QED  BY <2>1, <2>2
<1>10. QED  BY <1>5, <1>7, <1>8, <1>9 DEF Reporting, Fine

LEMMA AnswerReporting ==
  ASSUME Base, Reporting, line # NoCmd, NEW r \in TtyResult, Answer(r), r.res # "CMTI",
         UNCHANGED driverVars, UNCHANGED historyVars,
         IF line.cmd = "SMSTEXT" /\ r.res = "OK" THEN accepted' = accepted \cup {line.arg}
         ELSE accepted' = accepted
  PROVE  Reporting'
<1>1. q' = q /\ arg' = arg /\ reports' = reports
  BY DEF driverVars, historyVars
<1>2. Given = {} /\ Given' = {r}
  BY GivenAnswer
<1>3. /\ Jobs(q) # {} /\ HeadJob(q) \in Jobs(q)
      /\ line.cmd = CmdOf(HeadJob(q)) /\ line.arg = arg[HeadJob(q).id]
      /\ line.cmd = "SMSTEXT" => HeadJob(q).kind = "sms"
  BY LineFacts, JobCommands
<1>4. /\ DistinctIn(Jobs(q))' <=> DistinctIn(Jobs(q))
      /\ \A m : SendsIn(Jobs(q), m)' <=> SendsIn(Jobs(q), m)
  BY <1>1 DEF DistinctIn, SendsIn
<1>5. \A m : ~Granted(m)
  BY <1>2 DEF Granted
<1>6. \A m : Granted(m)' <=> line.cmd = "SMSTEXT" /\ r.res = "OK" /\ line.arg = m
  BY <1>1, <1>2, <1>3 DEF Granted
<1>7. ASSUME NEW m \in Own
      PROVE  Fine(reports[m], SendsIn(Jobs(q), m), m \in accepted', Granted(m)')
  <2>1. Fine(reports[m], SendsIn(Jobs(q), m), m \in accepted, FALSE)
    BY <1>5 DEF Reporting, Fine
  <2>2. line.cmd = "SMSTEXT" => SendsIn(Jobs(q), line.arg)
    BY <1>3 DEF SendsIn
  <2>3. << "queued" >> # Sent
    BY DEF Sent
  <2>4. QED  BY <1>6, <2>1, <2>2, <2>3 DEF Fine
<1>8. QED  BY <1>1, <1>4, <1>7 DEF Reporting, Fine

LEMMA ModemReporting ==
  ASSUME Base, Reporting, Modem
  PROVE  Reporting'
<1>1. UNCHANGED driverVars /\ UNCHANGED historyVars
  BY DEF Modem
<1>2. \A s \in {"OK", "ERROR", "PROMPT"} : [res |-> s] \in TtyResult /\ [res |-> s].res = s
  BY DEF TtyResult
<1>3. CASE ModemPrompts
  BY <1>1, <1>2, <1>3, AnswerReporting DEF ModemPrompts, Runs
<1>4. CASE ModemSubmits
  BY <1>1, <1>2, <1>4, AnswerReporting DEF ModemSubmits, Runs
<1>5. CASE ModemReads
  <2>1. /\ line # NoCmd /\ line.cmd = "CMGR" /\ accepted' = accepted
        /\ \/ store[line.arg] # NoMessage /\ Answer([res |-> "CMGR", msg |-> store[line.arg]])
           \/ Answer([res |-> "OK"])
    BY <1>5 DEF ModemReads, Runs
  <2>2. CASE store[line.arg] # NoMessage /\ Answer([res |-> "CMGR", msg |-> store[line.arg]])
    <3> DEFINE r == [res |-> "CMGR", msg |-> store[line.arg]]
    <3>1. store[line.arg] \in Messages
      BY <2>1, <2>2, LineFacts DEF Base, Types
    <3>2. r \in TtyResult /\ r.res = "CMGR" /\ Answer(r)
      BY <2>2, <3>1 DEF TtyResult
    <3> HIDE DEF r
    <3>3. QED  BY <1>1, <2>1, <3>2, AnswerReporting
  <2>3. CASE Answer([res |-> "OK"])
    BY <1>1, <1>2, <2>1, <2>3, AnswerReporting
  <2>4. QED  BY <2>1, <2>2, <2>3
<1>6. CASE ModemDeletes
  BY <1>1, <1>2, <1>6, AnswerReporting DEF ModemDeletes, Runs
<1>7. CASE ModemRefuses
  BY <1>1, <1>2, <1>7, AnswerReporting DEF ModemRefuses
<1>8. QED  BY <1>3, <1>4, <1>5, <1>6, <1>7 DEF Modem

LEMMA StepReporting == Base /\ Reporting /\ [Next]_vars => Reporting'
<1> SUFFICES ASSUME Base, Reporting, [Next]_vars PROVE Reporting'
  OBVIOUS
<1>0. IInv' /\ Types /\ reports \in [Own -> Seq(Report)] /\ QueueOK(q)
  BY StepKeeps DEF Base, Types, IInv
<1>1. ASSUME NEW m \in Own, SendSms(m) PROVE Reporting'
  <2>1. /\ UNCHANGED << tty, accepted >> /\ reports[m] = << >>
        /\ \/ /\ UNCHANGED << q, arg, line >>
              /\ reports' = [reports EXCEPT ![m] = << "refused" >>]
           \/ /\ Jobs(q) = {} /\ Jobs(q') = {} /\ line' = line
              /\ reports' = [reports EXCEPT ![m] = << "refused" >>]
           \/ /\ Queues("sms", m)
              /\ reports' = [reports EXCEPT ![m] = << "queued" >>]
    BY <1>0, <1>1, SendBase
  <2>2. Given' = Given
    BY <1>0, <2>1, GivenStays
  <2>3. reports' = [reports EXCEPT ![m] = << "refused" >>] =>
          \A n \in Own : \/ reports'[n] = reports[n]
                         \/ reports[n] = << >> /\ reports'[n] = << "refused" >>
    BY <1>0, <2>1
  <2>4. QED  BY <2>1, <2>2, <2>3, QuietReporting, EmptyReporting, QueuesReporting
<1>2. ASSUME NEW s \in Slots, UserDeletes(s) PROVE Reporting'
  <2>1. /\ UNCHANGED << tty, accepted, reports >>
        /\ \/ Jobs(q) = {} /\ Jobs(q') = {} /\ line' = line
           \/ Queues("user", s)
    BY <1>0, <1>2, UserBase
  <2>2. Given' = Given
    BY <1>0, <2>1, GivenStays
  <2>3. QED  BY <2>1, <2>2, EmptyReporting, QueuesReporting
<1>3. CASE DiscoveryStops \/ Lose
  <2>1. Gone /\ reports' = Cut(reports, q) /\ accepted' = accepted
    BY <1>0, <1>3, EndBase
  <2>2. \A m \in Own : Fine(reports[m], SendsIn(Jobs(q), m), m \in accepted, Granted(m))
    BY DEF Reporting
  <2>3. QED  BY <1>0, <2>1, <2>2, CutReporting
<1>4. CASE Connect \/ \E when \in Whens : Restart(when)
  <2>1. UNCHANGED << q, arg, tty, reports, accepted >>
    BY <1>0, <1>4, WantBase
  <2>2. Given' = Given
    BY <1>0, <2>1, GivenStays
  <2>3. QED  BY <2>1, <2>2, QuietReporting
<1>5. CASE HandleCmti
  <2>1. /\ tty # << >> /\ Head(tty).res = "CMTI" /\ accepted' = accepted
        /\ \/ Gone /\ \E y : QueueOK(y) /\ reports' = Cut(reports, y)
                             /\ { j \in Jobs(y) : j.kind = "sms" }
                                  = { j \in Jobs(q) : j.kind = "sms" }
           \/ /\ reports' = reports /\ tty' = Tail(tty)
              /\ \/ UNCHANGED << arg, line >> /\ Jobs(q') = Jobs(q)
                    /\ (Jobs(q) # {} => HeadJob(q') = HeadJob(q))
                 \/ \E k \in {"retrieve", "read"} : Queues(k, Head(tty).slot)
    BY <1>5, CmtiOutcome
  <2>2. CASE Gone /\ \E y : QueueOK(y) /\ reports' = Cut(reports, y)
                            /\ { j \in Jobs(y) : j.kind = "sms" }
                                 = { j \in Jobs(q) : j.kind = "sms" }
    <3>1. PICK y : QueueOK(y) /\ reports' = Cut(reports, y)
                   /\ { j \in Jobs(y) : j.kind = "sms" } = { j \in Jobs(q) : j.kind = "sms" }
      BY <2>2
    <3>2. \A m : SendsIn(Jobs(y), m) <=> SendsIn(Jobs(q), m)
      BY <3>1 DEF SendsIn
    <3>3. \A m \in Own : Fine(reports[m], SendsIn(Jobs(y), m), m \in accepted, Granted(m))
      BY <3>2 DEF Reporting, Fine
    <3>4. QED  BY <1>0, <2>1, <2>2, <3>1, <3>3, CutReporting
  <2>3. CASE /\ reports' = reports /\ tty' = Tail(tty)
             /\ \/ UNCHANGED << arg, line >> /\ Jobs(q') = Jobs(q)
                   /\ (Jobs(q) # {} => HeadJob(q') = HeadJob(q))
                \/ \E k \in {"retrieve", "read"} : Queues(k, Head(tty).slot)
    <3>1. Given' = Given
      BY <1>0, <2>1, <2>3, GivenStays
    <3>2. QED  BY <2>1, <2>3, <3>1, QuietReporting, QueuesReporting
  <2>4. QED  BY <2>1, <2>2, <2>3
<1>6. CASE HandleOk \/ HandleError \/ HandlePrompt \/ HandleCmgr
  BY <1>0, <1>6, HandleOkReplied, HandleErrorReplied, HandlePromptReplied, HandleCmgrReplied,
     RepliedReporting
<1>7. CASE \E m \in Messages, s \in Slots : Arrive(m, s)
  <2>1. PICK m \in Messages, s \in Slots : Arrive(m, s)
    BY <1>7
  <2> DEFINE r == [res |-> "CMTI", slot |-> s]
  <2>2. /\ tty' = IF connected THEN Append(tty, r) ELSE tty
        /\ UNCHANGED << q, arg, accepted, reports >>
    BY <2>1 DEF Arrive, driverVars, historyVars
  <2>3. r \in TtyResult /\ r.res = "CMTI"
    BY DEF TtyResult
  <2> HIDE DEF r
  <2>4. Given' = Given
    BY <1>0, <2>2, <2>3, GivenStays
  <2>5. QED  BY <2>2, <2>4, QuietReporting
<1>8. CASE UNCHANGED vars
  <2>1. UNCHANGED << q, arg, tty, reports, accepted >>
    BY <1>8 DEF vars
  <2>2. Given' = Given
    BY <1>0, <2>1, GivenStays
  <2>3. QED  BY <2>1, <2>2, QuietReporting
<1>9. QED
  BY <1>1, <1>2, <1>3, <1>4, <1>5, <1>6, <1>7, <1>8, ModemReporting DEF Next, Monitor

LEMMA InitReporting == Init => Reporting
<1> SUFFICES ASSUME Init PROVE Reporting
  OBVIOUS
<1>1. Jobs(q) = {}
  BY InitBase, JobsFacts, JobsInEmpty DEF Init, Jobs, EmptyQueue
<1>2. << >> # << "queued" >> /\ << >> # Sent
  BY DEF Sent
<1>3. QED
  BY <1>1, <1>2 DEF Init, Reporting, DistinctIn, SendsIn, Granted, Fine, Ended

LEMMA ReportingHolds == Spec => [](Base /\ Reporting)
<1>1. Init => Base /\ Reporting
  BY InitBase, InitReporting
<1>2. Base /\ Reporting /\ [Next]_vars => (Base /\ Reporting)'
  BY StepBase, StepReporting
<1>3. QED  BY <1>1, <1>2, PTL DEF Spec

(* What the sender of a message is told is so: it is told once, "sent" only if the  *)
(* network took the message and "not sent", or a refusal, only if it did not,        *)
(* though writes fail, tasks are queued behind one another and connections end.      *)
THEOREM SenderToldTrue == Spec => []ReportsTrue
<1>1. Base /\ Reporting => ReportsTrue
  <2> SUFFICES ASSUME Base, Reporting, NEW m \in Own
               PROVE  /\ m \in Sending(q) <=> Told(m, "queued")
                      /\ Len(reports[m]) <= 2
                      /\ Told(m, "Sent") => m \in accepted
                      /\ Told(m, "NotSent") \/ Told(m, "refused") => m \notin accepted
    BY DEF ReportsTrue
  <2>1. m \in Sending(q) <=> SendsIn(Jobs(q), m)
    BY SendingJobs DEF SendsIn, Base, IInv
  <2>2. Fine(reports[m], SendsIn(Jobs(q), m), m \in accepted, Granted(m))
    BY DEF Reporting
  <2>3. reports[m] \in Ended \cup {<< "queued" >>}
    BY <2>2 DEF Fine
  <2>4. CASE reports[m] = << "queued" >>
    BY <2>1, <2>2, <2>4, ReportTuples DEF Fine, Told
  <2>5. CASE reports[m] = << >>
    BY <2>1, <2>2, <2>5, ReportTuples DEF Fine, Told
  <2>6. CASE reports[m] = << "refused" >>
    BY <2>1, <2>2, <2>6, ReportTuples DEF Fine, Told
  <2>7. CASE reports[m] = << "queued", "Sent" >>
    BY <2>1, <2>2, <2>7 DEF Fine, Told, Sent
  <2>8. CASE reports[m] = << "queued", "NotSent" >>
    BY <2>1, <2>2, <2>8, ReportTuples DEF Fine, Told
  <2>9. CASE reports[m] = << "queued", "cut" >>
    BY <2>1, <2>2, <2>9, ReportTuples DEF Fine, Told
  <2>10. QED  BY <2>3, <2>4, <2>5, <2>6, <2>7, <2>8, <2>9 DEF Ended, Sent
<1>2. QED  BY <1>1, ReportingHolds, PTL

-----------------------------------------------------------------------------
(* What is deleted.  What the modem answers to the reading of a place is the  *)
(* message there, and the driver deletes only where it has read.              *)
Safe(m) == heard[m] # << >> \/ m \notin ReadableOnes

Deleting ==
  /\ \A r \in Given : r.res = "CMGR" => store[arg[HeadJob(q).id]] = r.msg
  /\ line # NoCmd /\ line.cmd = "CMGD" => store[line.arg] # NoMessage /\ Safe(store[line.arg])

(* A message of the driver's that the network did not take is nowhere. *)
OnlyAccepted ==
  \A m \in Own \ accepted : m \notin net /\ heard[m] = << >> /\ \A s \in Slots : store[s] # m

(* What is passed on of a message is what at_response_cmgr makes of it. *)
AsPassed ==
  \A m \in Messages : \A i \in DOMAIN heard[m] : m \in ReadableOnes /\ heard[m][i] = Passed[m]

LEMMA GivenType ==
  ASSUME Types, NEW r \in Given
  PROVE  r \in TtyResult
<1>1. tty \in Seq(TtyResult) /\ \E i \in 1..Len(tty) : r = tty[i]
  BY DEF Types, Given, Replies
<1>2. QED  BY <1>1, ElementOfSeq

(* The place that is read, and what is heard of it. *)
LEMMA ReadPlace ==
  ASSUME Base, Deleting, Taken("CMGR")
  PROVE  /\ Head(tty).msg \in Messages
         /\ HeadJob(q) \in Jobs(q) /\ HeadJob(q).idx = 1 /\ Reading(HeadJob(q).kind)
         /\ arg[HeadJob(q).id] \in Slots /\ store[arg[HeadJob(q).id]] = Head(tty).msg
<1>1. /\ Jobs(q) # {} /\ Answers(CmdOf(HeadJob(q)), "CMGR") /\ HeadJob(q) \in Jobs(q)
      /\ Head(tty) \in TtyResult /\ Given = {Head(tty)} /\ Head(tty).res = "CMGR"
  BY TakenHead, HeadFacts, GivenTaken
<1>2. CmdOf(HeadJob(q)) = "CMGR"
  BY <1>1 DEF Answers
<1>3. HeadJob(q).idx = 1 /\ HeadJob(q).kind \in {"retrieve", "read"}
  BY <1>1, <1>2, JobCommands
<1>4. arg[HeadJob(q).id] \in Slots
  BY <1>1, <1>3 DEF Base, Tasks
<1>5. QED  BY <1>1, <1>3, <1>4, ResultType DEF Deleting, Reading

LEMMA HeardGrows ==
  ASSUME Base, Deleting, NEW res \in {"OK", "ERROR", "PROMPT", "CMGR"}, Replied(res)
  PROVE  \/ heard' = heard
         \/ /\ res = "CMGR" /\ Head(tty).msg \in ReadableOnes
            /\ heard' = [heard EXCEPT ![Head(tty).msg] = Append(@, Passed[Head(tty).msg])]
  BY DEF Replied, HeardAfter

(* Where something is heard of m, something more is heard of it. *)
LEMMA HeardMore ==
  ASSUME Types, NEW m \in ReadableOnes,
         heard' = [heard EXCEPT ![m] = Append(@, Passed[m])]
  PROVE  /\ \A n \in Messages : n # m => heard'[n] = heard[n]
         /\ heard'[m] # << >> /\ Len(heard'[m]) = Len(heard[m]) + 1
         /\ heard'[m] = Append(heard[m], Passed[m])
         /\ DOMAIN heard'[m] = 1..Len(heard[m]) + 1
         /\ \A i \in 1..Len(heard[m]) : heard'[m][i] = heard[m][i]
         /\ heard'[m][Len(heard[m]) + 1] = Passed[m]
         /\ Len(heard[m]) \in Nat /\ DOMAIN heard[m] = 1..Len(heard[m])
<1>1. heard \in [Messages -> Seq(Heard)] /\ m \in Messages /\ Passed[m] \in Heard
  BY DEF Types, ReadableOnes, Heard
<1>2. heard[m] \in Seq(Heard) /\ heard'[m] = Append(heard[m], Passed[m])
  BY <1>1
<1>3. /\ Append(heard[m], Passed[m]) \in Seq(Heard) /\ Append(heard[m], Passed[m]) # << >>
      /\ Len(Append(heard[m], Passed[m])) = Len(heard[m]) + 1
      /\ \A i \in 1..Len(heard[m]) : Append(heard[m], Passed[m])[i] = heard[m][i]
      /\ Append(heard[m], Passed[m])[Len(heard[m]) + 1] = Passed[m]
  BY <1>1, <1>2, AppendProperties
<1>4. \A n \in Messages : n # m => heard'[n] = heard[n]
  BY <1>1
<1>5. QED  BY <1>2, <1>3, <1>4

LEMMA QuietDeleting ==
  ASSUME Base, Deleting, Given' = Given, UNCHANGED << store, heard, line >>,
         Jobs(q) # {} => HeadJob(q') = HeadJob(q) /\ arg'[HeadJob(q).id] = arg[HeadJob(q).id]
  PROVE  Deleting'
<1>1. Given # {} => Jobs(q) # {}
  BY DEF Base, InStep, Given
<1>2. QED  BY <1>1 DEF Deleting, Safe

LEMMA GoneDeleting == ASSUME Gone PROVE Deleting'
  BY GoneGiven DEF Gone, Deleting

LEMMA QueuesDeleting ==
  ASSUME Base, Deleting, NEW k \in {"sms", "user", "retrieve", "read"}, NEW a, Queues(k, a),
         Given' = Given, UNCHANGED << store, heard >>
  PROVE  Deleting'
<1> DEFINE n(id) == [id |-> id, kind |-> k, idx |-> 1]
<1>1. PICK id \in TaskIds \ Queued(q) :
        /\ KeepArgs(Jobs(q))
        /\ Jobs(q) # {} => HeadJob(q') = HeadJob(q) /\ line' = line
        /\ Jobs(q) = {} => line' = [cmd |-> CmdOf(n(id)), arg |-> a]
  BY DEF Queues
<1>2. CASE Jobs(q) # {}
  BY <1>1, <1>2, HeadFacts, QuietDeleting DEF KeepArgs
<1>3. CASE Jobs(q) = {}
  <2>1. Given = {}
    BY <1>3 DEF Base, InStep, Given
  <2>2. CmdOf(n(id)) # "CMGD"
    BY DEF CmdOf, Script, Scripts
  <2>3. QED  BY <1>1, <1>3, <2>1, <2>2 DEF Deleting
<1>4. QED  BY <1>2, <1>3

LEMMA DeletingHead ==
  Base /\ Jobs(q) # {} /\ CmdOf(HeadJob(q)) = "CMGD" =>
    HeadJob(q).idx = 2 /\ HeadJob(q).kind = "retrieve"
  BY HeadFacts, JobCommands

LEMMA DeletingHeadNext ==
  Base' /\ Jobs(q') # {} /\ CmdOf(HeadJob(q')) = "CMGD" =>
    HeadJob(q').idx = 2 /\ HeadJob(q').kind = "retrieve"
<1>1. (Base /\ Jobs(q) # {} /\ CmdOf(HeadJob(q)) = "CMGD" =>
         HeadJob(q).idx = 2 /\ HeadJob(q).kind = "retrieve")'
  BY DeletingHead, PTL
<1>2. QED  BY <1>1

(* The task that goes on to deleting is the one that read. *)
LEMMA ProceedsToDelete ==
  ASSUME Base, Base', NEW res, Proceeds(res), line' # NoCmd, line'.cmd = "CMGD"
  PROVE  res = "CMGR" /\ line'.arg = arg[HeadJob(q).id] /\ Jobs(q') = Others \cup {HeadJob(q')}
<1>1. /\ Jobs(q') # {} /\ HeadJob(q') \in Jobs(q') /\ Leaves(Jobs(q'), res)
      /\ line' = [cmd |-> CmdOf(HeadJob(q')), arg |-> arg[HeadJob(q').id]]
      /\ GoesOnAfter(HeadJob(q), res) => HeadJob(q') = [HeadJob(q) EXCEPT !.idx = 2]
  BY DEF Proceeds
<1>2. CmdOf(HeadJob(q')) = "CMGD"
  BY <1>1
<1>3. HeadJob(q').idx = 2 /\ HeadJob(q').kind = "retrieve"
  BY <1>1, <1>2, DeletingHeadNext
<1>4. \A j \in Others : j.idx = 1
  BY HeadFacts DEF Others
<1>5. GoesOnAfter(HeadJob(q), res)
  BY <1>1, <1>3, <1>4 DEF Leaves
<1>6. HeadJob(q') = [HeadJob(q) EXCEPT !.idx = 2] /\ HeadJob(q) = [id |-> HeadJob(q).id,
        kind |-> HeadJob(q).kind, idx |-> HeadJob(q).idx]
  BY <1>1, <1>5 DEF HeadJob, Job
<1>7. HeadJob(q').id = HeadJob(q).id /\ HeadJob(q').kind = HeadJob(q).kind
  BY <1>6
<1>8. res = "CMGR"
  BY <1>3, <1>5, <1>7 DEF GoesOnAfter
<1>9. QED  BY <1>1, <1>5, <1>6, <1>7, <1>8 DEF Leaves

LEMMA RepliedDeleting ==
  ASSUME Base, Base', Deleting, NEW res \in {"OK", "ERROR", "PROMPT", "CMGR"}, Replied(res)
  PROVE  Deleting'
<1>1. CASE Gone
  BY <1>1, GoneDeleting
<1>2. CASE Proceeds(res) /\ Replies' = {}
  <2>1. Given' = {} /\ store' = store /\ Taken(res)
    BY <1>2, NoneGiven DEF Replied
  <2>2. ASSUME line' # NoCmd, line'.cmd = "CMGD"
        PROVE  /\ store[line'.arg] # NoMessage
               /\ heard'[store[line'.arg]] # << >> \/ store[line'.arg] \notin ReadableOnes
    <3>1. res = "CMGR" /\ line'.arg = arg[HeadJob(q).id]
      BY <1>2, <2>2, ProceedsToDelete
    <3>2. Head(tty).msg \in Messages /\ store[line'.arg] = Head(tty).msg
      BY <2>1, <3>1, ReadPlace
    <3>3. NoMessage \notin Messages
      BY SmsAssumption DEF Messages
    <3>4. CASE Head(tty).msg \in ReadableOnes
      <4>1. heard' = [heard EXCEPT ![Head(tty).msg] = Append(@, Passed[Head(tty).msg])]
        BY <3>1, <3>4 DEF Replied, HeardAfter
      <4>2. heard'[Head(tty).msg] # << >>
        BY <3>4, <4>1, HeardMore DEF Base
      <4>3. QED  BY <3>2, <3>3, <4>2
    <3>5. CASE Head(tty).msg \notin ReadableOnes
      BY <3>2, <3>3, <3>5
    <3>6. QED  BY <3>4, <3>5
  <2>3. QED  BY <2>1, <2>2 DEF Deleting, Safe
<1>3. QED  BY <1>1, <1>2 DEF Replied

LEMMA EmptyDeleting ==
  ASSUME Base, Jobs(q) = {}, line' = line, tty' = tty
  PROVE  Deleting'
<1>1. line' = NoCmd /\ Given = {}
  BY DEF Base, InStep, Given
<1>2. Given' = {}
  BY <1>1, GivenStays DEF Base
<1>3. QED  BY <1>1, <1>2 DEF Deleting

LEMMA ModemDeleting ==
  ASSUME Base, Deleting, Modem
  PROVE  Deleting'
<1>1. UNCHANGED << q, arg, heard >>
  BY DEF Modem, driverVars, historyVars
<1>2. \A s \in {"OK", "ERROR", "PROMPT"} : [res |-> s] \in TtyResult /\ [res |-> s].res = s
  BY DEF TtyResult
<1>3. ASSUME NEW s \in {"OK", "ERROR", "PROMPT"}, line # NoCmd, Answer([res |-> s])
      PROVE  Deleting'
  <2>1. Given' = {[res |-> s]} /\ line' = NoCmd
    BY <1>2, <1>3, GivenAnswer DEF Answer
  <2>2. QED  BY <1>2, <2>1 DEF Deleting
<1>4. CASE ModemReads
  <2>1. /\ line # NoCmd /\ line.cmd = "CMGR" /\ store' = store
        /\ \/ store[line.arg] # NoMessage /\ Answer([res |-> "CMGR", msg |-> store[line.arg]])
           \/ Answer([res |-> "OK"])
    BY <1>4 DEF ModemReads, Runs
  <2>2. CASE store[line.arg] # NoMessage /\ Answer([res |-> "CMGR", msg |-> store[line.arg]])
    <3> DEFINE r == [res |-> "CMGR", msg |-> store[line.arg]]
    <3>1. store[line.arg] \in Messages /\ line.arg = arg[HeadJob(q).id]
      BY <2>1, <2>2, LineFacts DEF Base, Types
    <3>2. r \in TtyResult /\ r.res = "CMGR" /\ r.msg = store[line.arg] /\ Answer(r)
      BY <2>2, <3>1 DEF TtyResult
    <3> HIDE DEF r
    <3>3. Given' = {r} /\ line' = NoCmd
      BY <2>1, <3>2, GivenAnswer DEF Answer
    <3>4. QED  BY <1>1, <2>1, <3>1, <3>2, <3>3 DEF Deleting
  <2>3. CASE Answer([res |-> "OK"])
    BY <1>3, <2>1, <2>3
  <2>4. QED  BY <2>1, <2>2, <2>3
<1>5. CASE ModemPrompts
  BY <1>3, <1>5 DEF ModemPrompts, Runs
<1>6. CASE ModemSubmits
  BY <1>3, <1>6 DEF ModemSubmits, Runs
<1>7. CASE ModemDeletes
  BY <1>3, <1>7 DEF ModemDeletes, Runs
<1>8. CASE ModemRefuses
  BY <1>3, <1>8 DEF ModemRefuses
<1>9. QED  BY <1>4, <1>5, <1>6, <1>7, <1>8 DEF Modem

LEMMA ArriveDeleting ==
  ASSUME Base, Deleting, NEW m \in Messages, NEW s \in Slots, Arrive(m, s)
  PROVE  Deleting' /\ Given' = Given
<1> DEFINE r == [res |-> "CMTI", slot |-> s]
<1>1. /\ tty' = IF connected THEN Append(tty, r) ELSE tty
      /\ UNCHANGED << q, arg, line, heard >>
      /\ store[s] = NoMessage /\ store' = [store EXCEPT ![s] = m]
  BY DEF Arrive, driverVars, historyVars
<1>2. r \in TtyResult /\ r.res = "CMTI"
  BY DEF TtyResult
<1> HIDE DEF r
<1>3. Given' = Given
  BY <1>1, <1>2, GivenStays DEF Base
<1>4. store \in [Slots -> Messages \cup {NoMessage}] /\ NoMessage \notin Messages
  BY SmsAssumption DEF Base, Types, Messages
<1>5. \A t \in Slots : store[t] # NoMessage => store'[t] = store[t]
  BY <1>1, <1>4
<1>6. ASSUME NEW x \in Given, x.res = "CMGR" PROVE store'[arg[HeadJob(q).id]] = x.msg
  <2>1. x \in TtyResult /\ x.msg \in Messages /\ store[arg[HeadJob(q).id]] = x.msg
    BY <1>6, GivenType, ResultType DEF Deleting, Base
  <2>2. Jobs(q) # {} /\ Answers(CmdOf(HeadJob(q)), "CMGR") /\ HeadJob(q) \in Jobs(q)
    BY <1>6, HeadFacts DEF Base, InStep, Given
  <2>3. HeadJob(q).kind # "sms"
    BY <2>2, JobCommands DEF Answers
  <2>4. arg[HeadJob(q).id] \in Slots
    BY <2>2, <2>3 DEF Base, Tasks
  <2>5. QED  BY <1>4, <1>5, <2>1, <2>4
<1>7. ASSUME line # NoCmd, line.cmd = "CMGD" PROVE store'[line.arg] = store[line.arg]
  BY <1>5, <1>7, LineFacts DEF Deleting
<1>8. QED  BY <1>1, <1>3, <1>6, <1>7 DEF Deleting, Safe

LEMMA StepDeleting == Base /\ Deleting /\ [Next]_vars => Deleting'
<1> SUFFICES ASSUME Base, Deleting, [Next]_vars PROVE Deleting'
  OBVIOUS
<1>0. IInv' /\ Base' /\ Types
  BY StepKeeps, StepBase DEF Base
<1>1. ASSUME NEW m \in Own, SendSms(m) PROVE Deleting'
  <2>1. /\ UNCHANGED << tty, store, heard >>
        /\ \/ UNCHANGED << q, arg, line >>
           \/ Jobs(q) = {} /\ Jobs(q') = {} /\ line' = line
           \/ Queues("sms", m)
    BY <1>0, <1>1, SendBase
  <2>2. Given' = Given
    BY <1>0, <2>1, GivenStays
  <2>3. QED  BY <2>1, <2>2, QuietDeleting, EmptyDeleting, QueuesDeleting
<1>2. ASSUME NEW s \in Slots, UserDeletes(s) PROVE Deleting'
  <2>1. /\ UNCHANGED << tty, store, heard >>
        /\ \/ Jobs(q) = {} /\ Jobs(q') = {} /\ line' = line
           \/ Queues("user", s)
    BY <1>0, <1>2, UserBase
  <2>2. Given' = Given
    BY <1>0, <2>1, GivenStays
  <2>3. QED  BY <2>1, <2>2, EmptyDeleting, QueuesDeleting
<1>3. CASE DiscoveryStops \/ Lose
  BY <1>0, <1>3, EndBase, GoneDeleting
<1>4. CASE Connect \/ (\E when \in Whens : Restart(when)) \/ UNCHANGED vars
  <2>1. UNCHANGED << q, arg, tty, heard, line, store >>
    BY <1>0, <1>4, WantBase DEF vars
  <2>2. Given' = Given
    BY <1>0, <2>1, GivenStays
  <2>3. QED  BY <2>1, <2>2, QuietDeleting
<1>5. CASE HandleCmti
  <2>1. /\ tty # << >> /\ Head(tty).res = "CMTI" /\ UNCHANGED << store, heard >>
        /\ \/ Gone
           \/ /\ tty' = Tail(tty)
              /\ \/ UNCHANGED << arg, line >> /\ Jobs(q') = Jobs(q)
                    /\ (Jobs(q) # {} => HeadJob(q') = HeadJob(q))
                 \/ \E k \in {"retrieve", "read"} : Queues(k, Head(tty).slot)
    BY <1>5, CmtiOutcome
  <2>2. tty' = Tail(tty) => Given' = Given
    BY <1>0, <2>1, GivenStays
  <2>3. QED  BY <2>1, <2>2, GoneDeleting, QuietDeleting, QueuesDeleting
<1>6. CASE HandleOk \/ HandleError \/ HandlePrompt \/ HandleCmgr
  BY <1>0, <1>6, HandleOkReplied, HandleErrorReplied, HandlePromptReplied, HandleCmgrReplied,
     RepliedDeleting
<1>7. QED
  BY <1>1, <1>2, <1>3, <1>4, <1>5, <1>6, ModemDeleting, ArriveDeleting DEF Next, Monitor

LEMMA InitDeleting == Init => Deleting
<1> SUFFICES ASSUME Init PROVE Deleting
  OBVIOUS
<1>1. Given = {} /\ line = NoCmd
  BY EmptySeq DEF Init, Given, Replies
<1>2. QED  BY <1>1 DEF Deleting

-----------------------------------------------------------------------------
(* What a step does to the messages: the driver changes only what was heard,   *)
(* of the message whose reading is answered.                                  *)
Hears(m) == /\ Taken("CMGR") /\ Replied("CMGR") /\ m = Head(tty).msg /\ m \in ReadableOnes
            /\ heard' = [heard EXCEPT ![m] = Append(@, Passed[m])]

MessagesStay ==
  /\ UNCHANGED << store, net, accepted, erased >>
  /\ heard' = heard \/ \E m \in ReadableOnes : Hears(m)

LEMMA StepMessages ==
  ASSUME Base, Deleting, [Next]_vars
  PROVE  \/ MessagesStay
         \/ ModemSubmits /\ heard' = heard
         \/ ModemDeletes /\ heard' = heard
         \/ heard' = heard /\ \E m \in Messages, s \in Slots : Arrive(m, s)
<1>0. IInv'
  BY StepKeeps DEF Base
<1>1. CASE \E m \in Own : SendSms(m)
  BY <1>1 DEF SendSms, MessagesStay
<1>2. CASE \E s \in Slots : UserDeletes(s)
  BY <1>2 DEF UserDeletes, MessagesStay
<1>3. CASE DiscoveryStops \/ Lose
  BY <1>3 DEF DiscoveryStops, Lose, MessagesStay
<1>4. CASE Connect \/ (\E when \in Whens : Restart(when)) \/ UNCHANGED vars
  BY <1>4 DEF Connect, Restart, modemVars, vars, MessagesStay
<1>5. CASE HandleCmti
  BY <1>5, CmtiOutcome DEF MessagesStay
<1>6. CASE HandleOk \/ HandleError \/ HandlePrompt \/ HandleCmgr
  <2>1. PICK res \in {"OK", "ERROR", "PROMPT", "CMGR"} : Replied(res)
    BY <1>0, <1>6, HandleOkReplied, HandleErrorReplied, HandlePromptReplied, HandleCmgrReplied
  <2>2. UNCHANGED << store, net, accepted, erased >> /\ Taken(res)
    BY <2>1 DEF Replied
  <2>3. \/ heard' = heard
        \/ /\ res = "CMGR" /\ Head(tty).msg \in ReadableOnes
           /\ heard' = [heard EXCEPT ![Head(tty).msg] = Append(@, Passed[Head(tty).msg])]
    BY <2>1, HeardGrows
  <2>4. QED  BY <2>1, <2>2, <2>3 DEF MessagesStay, Hears
<1>7. CASE Modem
  <2>1. heard' = heard
    BY <1>7 DEF Modem, historyVars
  <2>2. ModemPrompts \/ ModemReads \/ ModemRefuses => UNCHANGED << store, net, accepted, erased >>
    BY DEF ModemPrompts, ModemReads, ModemRefuses
  <2>3. QED  BY <1>7, <2>1, <2>2 DEF Modem, MessagesStay
<1>8. CASE \E m \in Messages, s \in Slots : Arrive(m, s)
  BY <1>8 DEF Arrive, historyVars
<1>9. QED
  BY <1>1, <1>2, <1>3, <1>4, <1>5, <1>6, <1>7, <1>8 DEF Next, Monitor

LEMMA StepKept ==
  Base /\ Deleting /\ NothingDeletedUnread /\ [Next]_vars => NothingDeletedUnread'
<1> SUFFICES ASSUME Base, Deleting, NothingDeletedUnread, [Next]_vars,
                    NEW m \in Foreign \cup accepted'
             PROVE  \/ m \in net' \/ \E s \in Slots : store'[s] = m
                    \/ heard'[m] # << >> \/ m \in erased' \/ m \notin ReadableOnes
  BY DEF NothingDeletedUnread
<1>1. /\ store \in [Slots -> Messages \cup {NoMessage}] /\ NoMessage \notin Messages
      /\ accepted \subseteq Own /\ Types
  BY SmsAssumption DEF Base, Types, Messages
<1>2. m \in Foreign \cup accepted =>
        \/ m \in net \/ \E s \in Slots : store[s] = m
        \/ heard[m] # << >> \/ m \in erased \/ m \notin ReadableOnes
  BY DEF NothingDeletedUnread
<1>3. CASE MessagesStay
  <2>1. m \in Foreign \cup accepted /\ m \in Messages
    BY <1>1, <1>3 DEF MessagesStay, Messages
  <2>2. heard[m] # << >> => heard'[m] # << >>
    <3>1. CASE heard' = heard
      BY <3>1
    <3>2. CASE \E n \in ReadableOnes : Hears(n)
      <4>1. PICK n \in ReadableOnes : heard' = [heard EXCEPT ![n] = Append(@, Passed[n])]
        BY <3>2 DEF Hears
      <4>2. QED  BY <1>1, <2>1, <4>1, HeardMore
    <3>3. QED  BY <1>3, <3>1, <3>2 DEF MessagesStay
  <2>3. QED  BY <1>2, <1>3, <2>1, <2>2 DEF MessagesStay
<1>4. CASE ModemSubmits /\ heard' = heard
  BY <1>2, <1>4 DEF ModemSubmits
<1>5. CASE ModemDeletes /\ heard' = heard
  <2>1. /\ line # NoCmd /\ line.cmd \in {"CMGD", "USER"}
        /\ store' = [store EXCEPT ![line.arg] = NoMessage]
        /\ erased' = IF line.cmd = "USER" THEN erased \cup ({store[line.arg]} \ {NoMessage})
                     ELSE erased
        /\ UNCHANGED << net, accepted >>
    BY <1>5 DEF ModemDeletes, Runs
  <2>2. line.arg \in Slots /\ m \in Foreign \cup accepted /\ m \in Messages
    BY <1>1, <2>1, LineFacts DEF Messages
  <2>3. \A s \in Slots : s # line.arg => store'[s] = store[s]
    BY <1>1, <2>1
  <2>4. CASE store[line.arg] = m
    <3>1. CASE line.cmd = "USER"
      BY <1>1, <2>1, <2>2, <2>4, <3>1
    <3>2. CASE line.cmd = "CMGD"
      BY <1>5, <2>1, <2>4, <3>2 DEF Deleting, Safe
    <3>3. QED  BY <2>1, <3>1, <3>2
  <2>5. CASE store[line.arg] # m
    BY <1>2, <1>5, <2>1, <2>2, <2>3, <2>5
  <2>6. QED  BY <2>4, <2>5
<1>6. CASE heard' = heard /\ \E n \in Messages, s \in Slots : Arrive(n, s)
  <2>1. PICK n \in Messages, s \in Slots : Arrive(n, s)
    BY <1>6
  <2>2. /\ store[s] = NoMessage /\ store' = [store EXCEPT ![s] = n] /\ net' = net \ {n}
        /\ accepted' = accepted /\ erased' = erased
    BY <2>1 DEF Arrive
  <2>3. store'[s] = n /\ \A t \in Slots : t # s => store'[t] = store[t]
    BY <1>1, <2>2
  <2>4. m \in Messages /\ m \in Foreign \cup accepted
    BY <1>1, <2>2 DEF Messages
  <2>5. QED  BY <1>1, <1>2, <1>6, <2>2, <2>3, <2>4
<1>7. QED  BY <1>3, <1>4, <1>5, <1>6, StepMessages

(* The driver deletes no message it could read and has not passed on, whatever the  *)
(* network, the user and the modem do in between: the place it deletes still holds   *)
(* what it read there.                                                              *)
THEOREM NoneLost == Spec => []NothingDeletedUnread
<1> DEFINE K == Base /\ Deleting /\ NothingDeletedUnread
<1>1. Init => K
  <2>1. Init => NothingDeletedUnread
    BY DEF Init, NothingDeletedUnread
  <2>2. QED  BY <2>1, InitBase, InitDeleting
<1>2. K /\ [Next]_vars => K'
  BY StepBase, StepDeleting, StepKept
<1>3. K => NothingDeletedUnread
  OBVIOUS
<1> HIDE DEF K
<1>4. QED  BY <1>1, <1>2, <1>3, PTL DEF Spec

-----------------------------------------------------------------------------
(* What arrives.  First, where messages are: one the network did not take is   *)
(* nowhere, and only messages that can be sent are queued or taken.            *)
CanSend(m) == Sendable(Content[m].number, Content[m].text)

Fit ==
  /\ \A j \in Jobs(q) : j.kind = "sms" => CanSend(arg[j.id])
  /\ \A m \in accepted : CanSend(m)

LEMMA LeavesFrom ==
  ASSUME Base, Jobs(q) # {}, NEW J, NEW res, Leaves(J, res)
  PROVE  \A j \in J : \E k \in Jobs(q) : /\ j.id = k.id /\ j.kind = k.kind
                                         /\ j.idx = 1 => j = k /\ j \in Others
<1> DEFINE h == HeadJob(q)
           g == [h EXCEPT !.idx = 2]
<1>1. h \in Jobs(q) /\ h = [id |-> h.id, kind |-> h.kind, idx |-> h.idx]
  BY HeadFacts DEF HeadJob, Job
<1>2. g.id = h.id /\ g.kind = h.kind /\ g.idx = 2
  BY <1>1
<1>3. J = Others \cup {g} \/ J = Others
  BY DEF Leaves
<1> HIDE DEF h, g
<1>4. QED  BY <1>1, <1>2, <1>3 DEF Others

LEMMA QueuesFit ==
  ASSUME Base, Fit, NEW k, NEW a, Queues(k, a), accepted' = accepted, k = "sms" => CanSend(a)
  PROVE  Fit'
<1> DEFINE n(id) == [id |-> id, kind |-> k, idx |-> 1]
<1>1. PICK id \in TaskIds \ Queued(q) :
        /\ Jobs(q') = Jobs(q) \cup {n(id)}
        /\ arg'[id] = a /\ KeepArgs(Jobs(q))
  BY DEF Queues
<1>2. n(id).id = id /\ n(id).kind = k
  OBVIOUS
<1> HIDE DEF n
<1>3. QED  BY <1>1, <1>2 DEF Fit, KeepArgs, CanSend

LEMMA NoJobsFit == ASSUME Fit, Jobs(q') = {}, accepted' = accepted PROVE Fit'
  BY DEF Fit, CanSend

LEMMA GoneJobs == ASSUME Gone, IInv' PROVE Jobs(q') = {}
  BY JobsFacts, JobsInEmpty DEF Gone, Jobs, EmptyQueue, IInv

LEMMA SameFit ==
  ASSUME Fit, Jobs(q') = Jobs(q), UNCHANGED << arg, accepted >>
  PROVE  Fit'
  BY DEF Fit, CanSend

LEMMA StepFit == Base /\ Fit /\ [Next]_vars => Fit'
<1> SUFFICES ASSUME Base, Fit, [Next]_vars PROVE Fit'
  OBVIOUS
<1>0. IInv'
  BY StepKeeps DEF Base
<1>1. ASSUME NEW m \in Own, SendSms(m) PROVE Fit'
  <2>1. /\ accepted' = accepted
        /\ \/ UNCHANGED << q, arg >>
           \/ Jobs(q') = {}
           \/ Queues("sms", m) /\ CanSend(m)
    BY <1>0, <1>1, SendBase DEF CanSend
  <2>2. QED  BY <2>1, SameFit, NoJobsFit, QueuesFit
<1>2. ASSUME NEW s \in Slots, UserDeletes(s) PROVE Fit'
  <2>1. accepted' = accepted /\ (Jobs(q') = {} \/ Queues("user", s))
    BY <1>0, <1>2, UserBase
  <2>2. QED  BY <2>1, NoJobsFit, QueuesFit
<1>3. CASE DiscoveryStops \/ Lose
  BY <1>0, <1>3, EndBase, GoneJobs, NoJobsFit
<1>4. CASE Connect \/ (\E when \in Whens : Restart(when)) \/ UNCHANGED vars
  <2>1. UNCHANGED << q, arg, accepted >>
    BY <1>0, <1>4, WantBase DEF vars
  <2>2. QED  BY <2>1, SameFit
<1>5. CASE HandleCmti
  <2>1. /\ accepted' = accepted
        /\ \/ Gone
           \/ arg' = arg /\ Jobs(q') = Jobs(q)
           \/ \E k \in {"retrieve", "read"} : Queues(k, Head(tty).slot)
    BY <1>5, CmtiOutcome
  <2>2. QED  BY <1>0, <2>1, GoneJobs, NoJobsFit, SameFit, QueuesFit
<1>6. CASE HandleOk \/ HandleError \/ HandlePrompt \/ HandleCmgr
  <2>1. PICK res \in {"OK", "ERROR", "PROMPT", "CMGR"} : Replied(res)
    BY <1>0, <1>6, HandleOkReplied, HandleErrorReplied, HandlePromptReplied, HandleCmgrReplied
  <2>2. /\ accepted' = accepted /\ Jobs(q) # {}
        /\ \/ Gone
           \/ Leaves(Jobs(q'), res) /\ KeepArgs(Jobs(q'))
    BY <2>1 DEF Replied, Proceeds
  <2>3. CASE Gone
    BY <1>0, <2>2, <2>3, GoneJobs, NoJobsFit
  <2>4. CASE Leaves(Jobs(q'), res) /\ KeepArgs(Jobs(q'))
    <3>1. \A j \in Jobs(q') : \E k \in Jobs(q) : j.id = k.id /\ j.kind = k.kind
      BY <2>2, <2>4, LeavesFrom
    <3>2. QED  BY <2>2, <2>4, <3>1 DEF Fit, KeepArgs, CanSend
  <2>5. QED  BY <2>2, <2>3, <2>4
<1>7. CASE Modem
  <2>1. q' = q /\ arg' = arg
    BY <1>7 DEF Modem, driverVars
  <2>2. CASE ModemSubmits
    <3>1. line # NoCmd /\ line.cmd = "SMSTEXT" /\ accepted' = accepted \cup {line.arg}
      BY <2>2 DEF ModemSubmits, Runs
    <3>2. HeadJob(q) \in Jobs(q) /\ HeadJob(q).kind = "sms" /\ line.arg = arg[HeadJob(q).id]
      BY <3>1, LineFacts, JobCommands
    <3>3. QED  BY <2>1, <3>1, <3>2 DEF Fit, CanSend
  <2>3. CASE accepted' = accepted
    BY <2>1, <2>3, SameFit
  <2>4. QED
    BY <1>7, <2>2, <2>3 DEF Modem, ModemPrompts, ModemReads, ModemDeletes, ModemRefuses
<1>8. CASE \E m \in Messages, s \in Slots : Arrive(m, s)
  <2>1. UNCHANGED << q, arg, accepted >>
    BY <1>8 DEF Arrive, driverVars
  <2>2. QED  BY <2>1, SameFit
<1>9. QED
  BY <1>1, <1>2, <1>3, <1>4, <1>5, <1>6, <1>7, <1>8 DEF Next, Monitor

LEMMA StepWhere ==
  Base /\ Deleting /\ OnlyAccepted /\ AsPassed /\ [Next]_vars => OnlyAccepted' /\ AsPassed'
<1> SUFFICES ASSUME Base, Deleting, OnlyAccepted, AsPassed, [Next]_vars
             PROVE  OnlyAccepted' /\ AsPassed'
  OBVIOUS
<1>1. /\ store \in [Slots -> Messages \cup {NoMessage}] /\ NoMessage \notin Messages
      /\ accepted \subseteq Own /\ Own \subseteq Messages /\ Types
  BY SmsAssumption DEF Base, Types, Messages
<1>2. CASE MessagesStay
  <2>1. UNCHANGED << store, net, accepted, erased >>
    BY <1>2 DEF MessagesStay
  <2>2. CASE heard' = heard
    BY <2>1, <2>2 DEF OnlyAccepted, AsPassed
  <2>3. CASE \E m \in ReadableOnes : Hears(m)
    <3>1. PICK m \in ReadableOnes : Hears(m)
      BY <2>3
    <3>2. /\ heard' = [heard EXCEPT ![m] = Append(@, Passed[m])] /\ m = Head(tty).msg
          /\ m \in Messages
          /\ arg[HeadJob(q).id] \in Slots /\ store[arg[HeadJob(q).id]] = m
      BY <3>1, ReadPlace DEF Hears
    <3>3. /\ \A n \in Messages : n # m => heard'[n] = heard[n]
          /\ DOMAIN heard'[m] = 1..Len(heard[m]) + 1
          /\ \A i \in 1..Len(heard[m]) : heard'[m][i] = heard[m][i]
          /\ heard'[m][Len(heard[m]) + 1] = Passed[m]
          /\ Len(heard[m]) \in Nat /\ DOMAIN heard[m] = 1..Len(heard[m])
      BY <1>1, <3>2, HeardMore
    <3>4. OnlyAccepted'
      <4>1. m \notin Own \ accepted
        BY <3>2 DEF OnlyAccepted
      <4>2. QED  BY <1>1, <2>1, <3>3, <4>1 DEF OnlyAccepted
    <3>5. ASSUME NEW n \in Messages, NEW i \in DOMAIN heard'[n]
          PROVE  n \in ReadableOnes /\ heard'[n][i] = Passed[n]
      <4>1. CASE n # m
        BY <3>3, <3>5, <4>1 DEF AsPassed
      <4>2. CASE n = m
        <5>1. i \in 1..Len(heard[m]) \/ i = Len(heard[m]) + 1
          BY <3>3, <3>5, <4>2
        <5>2. QED  BY <3>2, <3>3, <4>2, <5>1 DEF AsPassed
      <4>3. QED  BY <4>1, <4>2
    <3>6. QED  BY <3>4, <3>5 DEF AsPassed
  <2>4. QED  BY <1>2, <2>2, <2>3 DEF MessagesStay
<1>3. CASE ModemSubmits /\ heard' = heard
  BY <1>3 DEF ModemSubmits, OnlyAccepted, AsPassed
<1>4. CASE ModemDeletes /\ heard' = heard
  <2>1. /\ store' = [store EXCEPT ![line.arg] = NoMessage] /\ UNCHANGED << net, accepted >>
    BY <1>4 DEF ModemDeletes
  <2>2. \A s \in Slots : store'[s] \in {store[s], NoMessage}
    BY <1>1, <2>1
  <2>3. QED  BY <1>1, <1>4, <2>1, <2>2 DEF OnlyAccepted, AsPassed
<1>5. CASE heard' = heard /\ \E n \in Messages, s \in Slots : Arrive(n, s)
  <2>1. PICK n \in Messages, s \in Slots : Arrive(n, s)
    BY <1>5
  <2>2. /\ n \in net /\ store' = [store EXCEPT ![s] = n] /\ net' = net \ {n}
        /\ accepted' = accepted
    BY <2>1 DEF Arrive
  <2>3. \A t \in Slots : store'[t] \in {store[t], n}
    BY <1>1, <2>2
  <2>4. QED  BY <1>5, <2>2, <2>3 DEF OnlyAccepted, AsPassed
<1>6. QED  BY <1>2, <1>3, <1>4, <1>5, StepMessages

-----------------------------------------------------------------------------
(* How often a message is passed on, while the user deletes none: a place that *)
(* the driver was told of, or is still to read, holds a message of which       *)
(* nothing was passed on yet, and no message is twice anywhere.               *)
NoticeAt(i) == i \in 1..Len(tty) /\ tty[i].res = "CMTI"
Notices     == { tty[i].slot : i \in { k \in 1..Len(tty) : NoticeAt(k) } }
ReadJobs    == { j \in Jobs(q) : Reading(j.kind) /\ j.idx = 1 }
ToRead      == { arg[j.id] : j \in ReadJobs }
Due         == Notices \cup ToRead

DistinctNotices ==
  \A i, k \in 1..Len(tty) : NoticeAt(i) /\ NoticeAt(k) /\ tty[i].slot = tty[k].slot => i = k

DistinctReads == \A j, k \in ReadJobs : arg[j.id] = arg[k.id] => j = k

Once ==
  /\ \A j \in Jobs(q) : j.kind # "user"
  /\ DistinctNotices /\ DistinctReads /\ Notices \cap ToRead = {}
  /\ \A s \in Due : store[s] # NoMessage /\ heard[store[s]] = << >>
  /\ line # NoCmd /\ line.cmd = "CMGD" => line.arg \notin Due
  /\ \A s, t \in Slots : store[s] = store[t] /\ store[s] # NoMessage => s = t
  /\ \A m \in net : heard[m] = << >> /\ \A s \in Slots : store[s] # m
  /\ \A m \in Messages : Len(heard[m]) <= 1

ReadOnce == counts.user = 0 => Once

LEMMA NoticesStay ==
  ASSUME tty' = tty
  PROVE  Notices' = Notices /\ (DistinctNotices => DistinctNotices')
  BY DEF Notices, NoticeAt, DistinctNotices

LEMMA NoticesGone ==
  ASSUME tty' = << >>
  PROVE  Notices' = {} /\ DistinctNotices'
  BY EmptySeq DEF Notices, NoticeAt, DistinctNotices

LEMMA NoticesTail ==
  ASSUME Types, tty # << >>, tty' = Tail(tty), DistinctNotices
  PROVE  /\ Notices' \subseteq Notices /\ DistinctNotices'
         /\ Head(tty).res = "CMTI" => Head(tty).slot \in Notices /\ Head(tty).slot \notin Notices'
<1>1. \A i \in 1..Len(Tail(tty)) : i \in Int
  OBVIOUS
<1>2. /\ 1 \in 1..Len(tty) /\ Head(tty) = tty[1]
      /\ \A i \in 1..Len(Tail(tty)) :
           i + 1 \in 1..Len(tty) /\ i + 1 # 1 /\ Tail(tty)[i] = tty[i + 1]
  BY TtyTail
<1>3. ASSUME NEW s \in Notices'
      PROVE  \E i \in 1..Len(Tail(tty)) : NoticeAt(i + 1) /\ s = tty[i + 1].slot /\ i + 1 # 1
  <2>1. PICK i \in 1..Len(Tail(tty)) : Tail(tty)[i].res = "CMTI" /\ s = Tail(tty)[i].slot
    BY <1>3 DEF Notices, NoticeAt
  <2>2. QED  BY <1>2, <2>1 DEF NoticeAt
<1>4. Notices' \subseteq Notices
  BY <1>2, <1>3 DEF Notices
<1>5. ASSUME NEW i \in 1..Len(Tail(tty)), NEW k \in 1..Len(Tail(tty)),
             Tail(tty)[i].res = "CMTI", Tail(tty)[k].res = "CMTI",
             Tail(tty)[i].slot = Tail(tty)[k].slot
      PROVE  i = k
  <2>1. i + 1 = k + 1
    BY <1>2, <1>5 DEF DistinctNotices, NoticeAt
  <2>2. QED  BY <1>1, <2>1
<1>6. DistinctNotices'
  BY <1>5 DEF DistinctNotices, NoticeAt
<1>7. ASSUME Head(tty).res = "CMTI"
      PROVE  Head(tty).slot \in Notices /\ Head(tty).slot \notin Notices'
  <2>1. NoticeAt(1) /\ Head(tty).slot = tty[1].slot
    BY <1>2, <1>7 DEF NoticeAt
  <2>2. Head(tty).slot \in Notices
    BY <1>2, <2>1 DEF Notices
  <2>3. ASSUME Head(tty).slot \in Notices' PROVE FALSE
    <3>1. PICK i \in 1..Len(Tail(tty)) :
            NoticeAt(i + 1) /\ Head(tty).slot = tty[i + 1].slot /\ i + 1 # 1
      BY <1>3, <2>3
    <3>2. QED  BY <1>2, <2>1, <3>1 DEF DistinctNotices
  <2>4. QED  BY <2>2, <2>3
<1>8. QED  BY <1>4, <1>6, <1>7

LEMMA NoticesAppend ==
  ASSUME Types, DistinctNotices, NEW r \in TtyResult, tty' = Append(tty, r)
  PROVE  /\ r.res # "CMTI" => Notices' \subseteq Notices /\ DistinctNotices'
         /\ r.res = "CMTI" /\ r.slot \notin Notices =>
              Notices' \subseteq Notices \cup {r.slot} /\ DistinctNotices'
<1> DEFINE a == Append(tty, r)
           n == Len(tty) + 1
<1>1. /\ Len(tty) \in Nat /\ Len(a) = n /\ a[n] = r /\ n \in 1..n /\ n \notin 1..Len(tty)
      /\ \A i \in 1..Len(tty) : a[i] = tty[i]
      /\ \A i \in 1..n : i = n \/ i \in 1..Len(tty)
  BY TtyAppend
<1>2. tty' = a
  OBVIOUS
<1> HIDE DEF a, n
<1>3. \A i \in 1..Len(tty) : a[i].res = "CMTI" => NoticeAt(i) /\ tty[i].slot \in Notices
  BY <1>1 DEF NoticeAt, Notices
<1>4. Notices' = { a[i].slot : i \in { k \in 1..n : a[k].res = "CMTI" } }
  BY <1>1, <1>2 DEF Notices, NoticeAt
<1>5. DistinctNotices' <=>
        \A i, k \in 1..n : a[i].res = "CMTI" /\ a[k].res = "CMTI" /\ a[i].slot = a[k].slot => i = k
  BY <1>1, <1>2 DEF DistinctNotices, NoticeAt
<1>6. \A i, k \in 1..Len(tty) :
        a[i].res = "CMTI" /\ a[k].res = "CMTI" /\ a[i].slot = a[k].slot => i = k
  BY <1>1, <1>3 DEF DistinctNotices
<1>7. CASE r.res # "CMTI"
  <2>1. Notices' \subseteq Notices
    BY <1>1, <1>3, <1>4, <1>7
  <2>2. DistinctNotices'
    BY <1>1, <1>5, <1>6, <1>7
  <2>3. QED  BY <1>7, <2>1, <2>2
<1>8. CASE r.res = "CMTI" /\ r.slot \notin Notices
  <2>1. Notices' \subseteq Notices \cup {r.slot}
    BY <1>1, <1>3, <1>4, <1>8
  <2>2. \A i \in 1..Len(tty) : a[i].res = "CMTI" => a[i].slot # a[n].slot
    BY <1>1, <1>3, <1>8
  <2>3. DistinctNotices'
    BY <1>1, <1>5, <1>6, <2>2
  <2>4. QED  BY <1>8, <2>1, <2>3
<1>9. QED  BY <1>7, <1>8

(* The rest of Once, where less is due and no message moved. *)
LEMMA LessDue ==
  ASSUME Base, Once, Notices' \subseteq Notices, DistinctNotices',
         \A j \in Jobs(q') : j.kind # "user",
         \A j \in ReadJobs' : j \in ReadJobs /\ arg'[j.id] = arg[j.id],
         line' = NoCmd \/ line' = line \/ (line'.cmd = "CMGD" => line'.arg \notin Due'),
         UNCHANGED << store, net, heard >>
  PROVE  Once'
<1>1. ToRead' \subseteq ToRead
  BY DEF ToRead
<1>2. Due' \subseteq Due /\ Notices' \cap ToRead' = {}
  BY <1>1 DEF Due, Once
<1>3. DistinctReads'
  BY DEF DistinctReads, Once
<1>4. line' # NoCmd /\ line'.cmd = "CMGD" => line'.arg \notin Due'
  BY <1>2 DEF Once
<1>5. \A s \in Due' : store'[s] # NoMessage /\ heard'[store'[s]] = << >>
  BY <1>2 DEF Once
<1>6. QED  BY <1>2, <1>3, <1>4, <1>5 DEF Once

LEMMA DueSlots == Base => Due \subseteq Slots
<1> SUFFICES ASSUME Base, NEW s \in Due PROVE s \in Slots
  OBVIOUS
<1>1. CASE s \in Notices
  <2>1. PICK i \in 1..Len(tty) : tty[i].res = "CMTI" /\ s = tty[i].slot
    BY <1>1 DEF Notices, NoticeAt
  <2>2. tty[i] \in TtyResult
    BY <2>1, ElementOfSeq DEF Base, Types
  <2> QED  BY <2>1, <2>2, ResultType
<1>2. CASE s \in ToRead
  BY <1>2 DEF ToRead, ReadJobs, Reading, Base, Tasks
<1> QED  BY <1>1, <1>2 DEF Due

(* The message that is heard is the one of the place the head reads, and of no other. *)
LEMMA HeardFirst ==
  ASSUME Base, Deleting, Once, Taken("CMGR"), NEW m \in ReadableOnes, m = Head(tty).msg,
         heard' = [heard EXCEPT ![m] = Append(@, Passed[m])]
  PROVE  /\ m \notin net /\ \A s \in Slots : s # arg[HeadJob(q).id] => store[s] # m
         /\ \A n \in Messages : n # m => heard'[n] = heard[n]
         /\ \A n \in Messages : Len(heard'[n]) <= 1
<1> DEFINE s == arg[HeadJob(q).id]
<1>1. m \in Messages /\ HeadJob(q) \in ReadJobs /\ s \in Slots /\ store[s] = m
  BY ReadPlace DEF ReadJobs
<1>2. s \in Due
  BY <1>1 DEF Due, ToRead
<1>3. heard[m] = << >> /\ store[s] # NoMessage
  BY <1>1, <1>2 DEF Once
<1>4. m \notin net /\ \A t \in Slots : t # s => store[t] # m
  BY <1>1, <1>3 DEF Once
<1>5. /\ \A n \in Messages : n # m => heard'[n] = heard[n]
      /\ Len(heard'[m]) = Len(heard[m]) + 1
  BY HeardMore DEF Base
<1>6. Len(heard'[m]) <= 1
  BY <1>3, <1>5, EmptySeq
<1> QED  BY <1>1, <1>4, <1>5, <1>6 DEF Once

(* What is still to be read after an answer: not the place the head read. *)
LEMMA ReadsLeft ==
  ASSUME Base, Base', Once, Jobs(q) # {}, NEW res, Proceeds(res), Notices' \subseteq Notices
  PROVE  /\ \A j \in Jobs(q') : j.kind # "user"
         /\ \A j \in ReadJobs' : j \in ReadJobs /\ arg'[j.id] = arg[j.id]
         /\ HeadJob(q) \in ReadJobs => arg[HeadJob(q).id] \notin Due'
<1>0. Leaves(Jobs(q'), res)
  BY DEF Proceeds
<1>1. ASSUME NEW j \in Jobs(q')
      PROVE  \E k \in Jobs(q) : j.id = k.id /\ j.kind = k.kind
                                /\ (j.idx = 1 => j = k /\ j \in Others)
  BY <1>0, <1>1, LeavesFrom
<1>2. \A j \in ReadJobs' : j \in ReadJobs /\ arg'[j.id] = arg[j.id] /\ j \in Others
  <2> SUFFICES ASSUME NEW j \in ReadJobs'
               PROVE  j \in ReadJobs /\ arg'[j.id] = arg[j.id] /\ j \in Others
    OBVIOUS
  <2>1. j \in Jobs(q') /\ Reading(j.kind) /\ j.idx = 1
    BY DEF ReadJobs
  <2>2. PICK k \in Jobs(q) : j.id = k.id /\ j.kind = k.kind /\ (j.idx = 1 => j = k /\ j \in Others)
    BY <1>1, <2>1
  <2>3. j \in Jobs(q) /\ j \in Others
    BY <2>1, <2>2
  <2> QED  BY <2>1, <2>3 DEF ReadJobs, Proceeds, KeepArgs
<1>3. \A j \in Jobs(q') : j.kind # "user"
  <2> SUFFICES ASSUME NEW j \in Jobs(q') PROVE j.kind # "user"
    OBVIOUS
  <2>1. PICK k \in Jobs(q) : j.kind = k.kind
    BY <1>1
  <2> QED  BY <2>1 DEF Once
<1>4. ASSUME HeadJob(q) \in ReadJobs, arg[HeadJob(q).id] \in Due' PROVE FALSE
  <2>1. CASE arg[HeadJob(q).id] \in Notices'
    <3>1. arg[HeadJob(q).id] \in ToRead
      BY <1>4 DEF ToRead
    <3> QED  BY <2>1, <3>1 DEF Once
  <2>2. CASE arg[HeadJob(q).id] \in ToRead'
    <3>1. PICK j \in ReadJobs' : arg'[j.id] = arg[HeadJob(q).id]
      BY <2>2 DEF ToRead
    <3>2. j \in ReadJobs /\ arg[j.id] = arg[HeadJob(q).id] /\ j \in Others
      BY <1>2, <3>1
    <3>3. j = HeadJob(q)
      BY <1>4, <3>2 DEF Once, DistinctReads
    <3> QED  BY <3>2, <3>3 DEF Others
  <2> QED  BY <1>4, <2>1, <2>2 DEF Due
<1> QED  BY <1>2, <1>3, <1>4

(* Where the device is given up nothing is due. *)
LEMMA NothingDue ==
  ASSUME Once, Jobs(q') = {}, tty' = << >>, line' = NoCmd, UNCHANGED << store, net >>,
         \A m \in net : heard'[m] = heard[m], \A m \in Messages : Len(heard'[m]) <= 1
  PROVE  Once'
<1>1. Notices' = {} /\ DistinctNotices'
  BY NoticesGone
<1>2. ReadJobs' = {} /\ ToRead' = {}
  BY DEF ReadJobs, ToRead
<1>3. Due' = {} /\ DistinctReads'
  BY <1>1, <1>2 DEF Due, DistinctReads
<1> QED  BY <1>1, <1>2, <1>3 DEF Once

LEMMA OnceReplied ==
  ASSUME Base, Base', Deleting, Once, NEW res \in {"OK", "ERROR", "PROMPT", "CMGR"}, Replied(res)
  PROVE  Once'
<1>1. /\ Taken(res) /\ Jobs(q) # {} /\ UNCHANGED << store, net >> /\ tty # << >>
  BY DEF Replied, Taken
<1>2. \/ heard' = heard
      \/ /\ res = "CMGR" /\ Head(tty).msg \in ReadableOnes
         /\ heard' = [heard EXCEPT ![Head(tty).msg] = Append(@, Passed[Head(tty).msg])]
  BY HeardGrows
<1> DEFINE m == Head(tty).msg
           s == arg[HeadJob(q).id]
<1>3. CASE heard' # heard
  <2>1. /\ res = "CMGR" /\ m \in ReadableOnes
        /\ heard' = [heard EXCEPT ![m] = Append(@, Passed[m])]
    BY <1>2, <1>3
  <2>2. /\ m \notin net /\ \A t \in Slots : t # s => store[t] # m
        /\ \A n \in Messages : n # m => heard'[n] = heard[n]
        /\ \A n \in Messages : Len(heard'[n]) <= 1
    BY <1>1, <2>1, HeardFirst
  <2>3. HeadJob(q) \in ReadJobs /\ net \subseteq Messages
    BY <1>1, <2>1, ReadPlace DEF ReadJobs, Base, Types
  <2> HIDE DEF m, s
  <2>4. CASE Gone
    <3>1. Jobs(q') = {}
      BY <2>4, GoneJobs DEF Base
    <3> QED  BY <1>1, <2>2, <2>3, <2>4, <3>1, NothingDue DEF Gone
  <2>5. CASE Proceeds(res) /\ tty' = Tail(tty)
    <3>1. Notices' \subseteq Notices /\ DistinctNotices'
      BY <1>1, <2>5, NoticesTail DEF Once, Base
    <3>2. /\ \A j \in Jobs(q') : j.kind # "user"
          /\ \A j \in ReadJobs' : j \in ReadJobs /\ arg'[j.id] = arg[j.id]
          /\ s \notin Due'
      BY <1>1, <2>3, <2>5, <3>1, ReadsLeft DEF s
    <3>3. ToRead' \subseteq ToRead
      BY <3>2 DEF ToRead
    <3>4. Due' \subseteq Due /\ Notices' \cap ToRead' = {} /\ DistinctReads'
      BY <3>1, <3>2, <3>3 DEF Due, Once, DistinctReads
    <3>5. ASSUME NEW t \in Due' PROVE store[t] # NoMessage /\ heard'[store[t]] = << >>
      <4>1. t \in Due /\ t # s /\ t \in Slots
        BY <3>2, <3>4, <3>5, DueSlots
      <4>2. store[t] # NoMessage /\ heard[store[t]] = << >> /\ store[t] # m
        BY <2>2, <4>1 DEF Once
      <4>3. store[t] \in Messages
        BY <4>1, <4>2 DEF Base, Types
      <4> QED  BY <2>2, <4>2, <4>3
    <3>6. line' # NoCmd /\ line'.cmd = "CMGD" => line'.arg \notin Due'
      BY <2>5, <3>2, ProceedsToDelete DEF s
    <3>7. \A n \in net' : heard'[n] = << >> /\ \A t \in Slots : store'[t] # n
      BY <1>1, <2>2, <2>3 DEF Once
    <3>8. \A a, b \in Slots : store'[a] = store'[b] /\ store'[a] # NoMessage => a = b
      BY <1>1 DEF Once
    <3> QED  BY <1>1, <2>2, <3>1, <3>2, <3>4, <3>5, <3>6, <3>7, <3>8 DEF Once
  <2> QED  BY <2>4, <2>5 DEF Replied
<1>4. CASE heard' = heard
  <2>1. CASE Gone
    <3>1. Jobs(q') = {}
      BY <2>1, GoneJobs DEF Base
    <3> QED  BY <1>1, <1>4, <2>1, <3>1, NothingDue DEF Gone, Once
  <2>2. CASE Proceeds(res) /\ tty' = Tail(tty)
    <3>1. Notices' \subseteq Notices /\ DistinctNotices'
      BY <1>1, <2>2, NoticesTail DEF Once, Base
    <3>2. /\ \A j \in Jobs(q') : j.kind # "user"
          /\ \A j \in ReadJobs' : j \in ReadJobs /\ arg'[j.id] = arg[j.id]
          /\ HeadJob(q) \in ReadJobs => s \notin Due'
      BY <1>1, <2>2, <3>1, ReadsLeft
    <3>3. line' # NoCmd /\ line'.cmd = "CMGD" => line'.arg \notin Due'
      <4> SUFFICES ASSUME line' # NoCmd, line'.cmd = "CMGD" PROVE line'.arg \notin Due'
        OBVIOUS
      <4>1. res = "CMGR" /\ line'.arg = s
        BY <2>2, ProceedsToDelete
      <4>2. HeadJob(q) \in ReadJobs
        BY <1>1, <4>1, ReadPlace DEF ReadJobs
      <4> QED  BY <3>2, <4>1, <4>2
    <3> QED  BY <1>1, <1>4, <3>1, <3>2, <3>3, LessDue
  <2> QED  BY <2>1, <2>2 DEF Replied
<1> QED  BY <1>3, <1>4

(* A message to be sent is queued: no reading. *)
LEMMA OnceSends ==
  ASSUME Base, Once, NEW a, Queues("sms", a), UNCHANGED << tty, store, net, heard >>
  PROVE  Once'
<1> DEFINE n(id) == [id |-> id, kind |-> "sms", idx |-> 1]
<1>1. PICK id \in TaskIds \ Queued(q) :
        /\ Jobs(q') = Jobs(q) \cup {n(id)} /\ KeepArgs(Jobs(q))
        /\ Jobs(q) # {} => line' = line
        /\ Jobs(q) = {} => line' = [cmd |-> CmdOf(n(id)), arg |-> a]
  BY DEF Queues
<1>2. n(id).kind = "sms" /\ CmdOf(n(id)) = "CMGS"
  BY DEF CmdOf, Script, Scripts
<1> HIDE DEF n
<1>3. Notices' = Notices /\ DistinctNotices'
  BY NoticesStay DEF Once
<1>4. \A j \in ReadJobs' : j \in ReadJobs /\ arg'[j.id] = arg[j.id]
  BY <1>1, <1>2 DEF ReadJobs, Reading, KeepArgs
<1>5. \A j \in Jobs(q') : j.kind # "user"
  BY <1>1, <1>2 DEF Once
<1>6. line' = line \/ (line'.cmd = "CMGD" => line'.arg \notin Due')
  BY <1>1, <1>2
<1> QED  BY <1>3, <1>4, <1>5, <1>6, LessDue

(* A notice is handled: its place is to be read, if it is read at all. *)
LEMMA OnceReads ==
  ASSUME Base, Once, tty # << >>, Head(tty).res = "CMTI", tty' = Tail(tty),
         NEW k \in {"retrieve", "read"}, Queues(k, Head(tty).slot),
         UNCHANGED << store, net, heard >>
  PROVE  Once'
<1> DEFINE n(id) == [id |-> id, kind |-> k, idx |-> 1]
           a == Head(tty).slot
<1>1. PICK id \in TaskIds \ Queued(q) :
        /\ Jobs(q') = Jobs(q) \cup {n(id)} /\ arg'[id] = a /\ KeepArgs(Jobs(q))
        /\ Jobs(q) # {} => line' = line
        /\ Jobs(q) = {} => line' = [cmd |-> CmdOf(n(id)), arg |-> a]
  BY DEF Queues
<1>2. n(id).kind = k /\ n(id).id = id /\ CmdOf(n(id)) = "CMGR"
  BY DEF CmdOf, Script, Scripts
<1>3. /\ Notices' \subseteq Notices /\ DistinctNotices' /\ a \in Notices /\ a \notin Notices'
  BY NoticesTail DEF Once, Base
<1> HIDE DEF n, a
<1>4. \A j \in ReadJobs' : \/ j = n(id) /\ arg'[j.id] = a
                           \/ j \in ReadJobs /\ arg'[j.id] = arg[j.id]
  BY <1>1, <1>2 DEF ReadJobs, KeepArgs
<1>5. \A j \in ReadJobs : arg[j.id] # a
  BY <1>3 DEF Once, ToRead
<1>6. ToRead' \subseteq ToRead \cup {a}
  BY <1>4 DEF ToRead
<1>7. Due' \subseteq Due /\ Notices' \cap ToRead' = {}
  BY <1>3, <1>6 DEF Due, Once
<1>8. DistinctReads'
  BY <1>4, <1>5 DEF DistinctReads, Once
<1>9. \A j \in Jobs(q') : j.kind # "user"
  BY <1>1, <1>2 DEF Once
<1>10. line' # NoCmd /\ line'.cmd = "CMGD" => line'.arg \notin Due'
  BY <1>1, <1>2, <1>7 DEF Once
<1>11. \A s \in Due' : store'[s] # NoMessage /\ heard'[store'[s]] = << >>
  BY <1>7 DEF Once
<1> QED  BY <1>3, <1>7, <1>8, <1>9, <1>10, <1>11 DEF Once

(* The message the modem submits was not accepted before, and is nowhere. *)
LEMMA FirstSubmit ==
  ASSUME Base, Reporting, OnlyAccepted, line # NoCmd, line.cmd = "SMSTEXT"
  PROVE  /\ line.arg \in Own \ accepted /\ heard[line.arg] = << >>
         /\ \A s \in Slots : store[s] # line.arg
<1> DEFINE m == line.arg
<1>1. /\ m \in Own /\ HeadJob(q) \in Jobs(q) /\ CmdOf(HeadJob(q)) = "SMSTEXT"
      /\ m = arg[HeadJob(q).id] /\ Replies = {}
  BY LineFacts
<1>2. SendsIn(Jobs(q), m)
  BY <1>1, JobCommands DEF SendsIn
<1>3. ~Granted(m)
  BY <1>1 DEF Granted, Given
<1>4. reports[m] = << "queued" >> /\ (m \in accepted => reports[m] \in {Sent, << "queued", "cut" >>})
  BY <1>1, <1>2, <1>3 DEF Reporting, Fine
<1>5. m \notin accepted
  BY <1>4, ReportTuples DEF Sent
<1> QED  BY <1>1, <1>5 DEF OnlyAccepted

LEMMA OnceModem ==
  ASSUME Base, Reporting, Deleting, OnlyAccepted, Once, Modem
  PROVE  Once'
<1>1. UNCHANGED << q, arg, heard >>
  BY DEF Modem, driverVars, historyVars
<1>2. \A x \in {"OK", "ERROR", "PROMPT"} : [res |-> x] \in TtyResult /\ [res |-> x].res = x
  BY DEF TtyResult
<1>3. ASSUME ModemReads, store[line.arg] # NoMessage
      PROVE  [res |-> "CMGR", msg |-> store[line.arg]] \in TtyResult
  <2>1. line # NoCmd /\ line.cmd = "CMGR"
    BY <1>3 DEF ModemReads, Runs
  <2>2. store[line.arg] \in Messages
    BY <1>3, <2>1, LineFacts DEF Base, Types
  <2> QED  BY <2>2 DEF TtyResult
<1>4. PICK r \in TtyResult : r.res # "CMTI" /\ Answer(r)
  <2>1. [res |-> "CMGR", msg |-> store[line.arg]].res # "CMTI"
    OBVIOUS
  <2>2. CASE ModemReads /\ store[line.arg] # NoMessage
    BY <1>3, <2>1, <2>2 DEF ModemReads
  <2>3. CASE \E x \in {"OK", "ERROR", "PROMPT"} : Answer([res |-> x])
    BY <1>2, <2>3
  <2> QED
    BY <2>2, <2>3 DEF Modem, ModemPrompts, ModemReads, ModemRefuses, ModemSubmits, ModemDeletes
<1>5. line' = NoCmd /\ Notices' \subseteq Notices /\ DistinctNotices'
  BY <1>4, NoticesAppend DEF Answer, Base, Once
<1>6. /\ ReadJobs' = ReadJobs /\ ToRead' = ToRead /\ DistinctReads'
      /\ Due' \subseteq Due /\ Notices' \cap ToRead' = {}
  BY <1>1, <1>5 DEF ReadJobs, ToRead, DistinctReads, Due, Once
<1>7. CASE ModemSubmits
  <2>1. line # NoCmd /\ line.cmd = "SMSTEXT" /\ store' = store /\ net' = net \cup {line.arg}
    BY <1>7 DEF ModemSubmits, Runs
  <2>2. heard[line.arg] = << >> /\ \A s \in Slots : store[s] # line.arg
    BY <2>1, FirstSubmit
  <2> QED  BY <1>1, <1>5, <1>6, <2>1, <2>2 DEF Once
<1>8. CASE ModemDeletes
  <2>1. /\ line # NoCmd /\ line.cmd \in {"CMGD", "USER"} /\ net' = net
        /\ store' = [store EXCEPT ![line.arg] = NoMessage]
    BY <1>8 DEF ModemDeletes, Runs
  <2>2. line.cmd = "CMGD"
    <3>1. HeadJob(q) \in Jobs(q) /\ line.cmd = CmdOf(HeadJob(q))
      BY <2>1, LineFacts
    <3> QED  BY <2>1, <3>1, JobCommands DEF Once
  <2>3. line.arg \notin Due /\ store \in [Slots -> Messages \cup {NoMessage}]
    BY <2>1, <2>2 DEF Once, Base, Types
  <2>4. \A s \in Slots : store'[s] = IF s = line.arg THEN NoMessage ELSE store[s]
    BY <2>1, <2>3
  <2>5. \A s \in Due' : store'[s] # NoMessage /\ heard'[store'[s]] = << >>
    BY <1>1, <1>6, <2>3, <2>4, DueSlots DEF Once
  <2>6. net \subseteq Messages /\ NoMessage \notin Messages
    BY SmsAssumption DEF Base, Types, Messages
  <2>7. \A m \in net' : heard'[m] = << >> /\ \A s \in Slots : store'[s] # m
    BY <1>1, <2>1, <2>4, <2>6 DEF Once
  <2>8. \A s, t \in Slots : store'[s] = store'[t] /\ store'[s] # NoMessage => s = t
    BY <2>4 DEF Once
  <2> QED  BY <1>1, <1>5, <1>6, <2>5, <2>7, <2>8 DEF Once
<1>9. CASE UNCHANGED << store, net >>
  BY <1>1, <1>5, <1>6, <1>9 DEF Once
<1> QED  BY <1>7, <1>8, <1>9 DEF Modem, ModemPrompts, ModemReads, ModemRefuses

LEMMA OnceArrive ==
  ASSUME Base, Deleting, Once, NEW m \in Messages, NEW s \in Slots, Arrive(m, s)
  PROVE  Once'
<1> DEFINE r == [res |-> "CMTI", slot |-> s]
<1>1. /\ tty' = IF connected THEN Append(tty, r) ELSE tty
      /\ UNCHANGED << q, arg, line, heard >> /\ m \in net /\ net' = net \ {m}
      /\ store[s] = NoMessage /\ store' = [store EXCEPT ![s] = m]
  BY DEF Arrive, driverVars, historyVars
<1>2. r \in TtyResult /\ r.res = "CMTI" /\ r.slot = s
  BY DEF TtyResult
<1> HIDE DEF r
<1>3. /\ store \in [Slots -> Messages \cup {NoMessage}] /\ NoMessage \notin Messages
      /\ Due \subseteq Slots
  BY SmsAssumption, DueSlots DEF Base, Types, Messages
<1>4. \A t \in Slots : store'[t] = IF t = s THEN m ELSE store[t]
  BY <1>1, <1>3
<1>5. s \notin Due /\ heard[m] = << >> /\ \A t \in Slots : store[t] # m
  BY <1>1 DEF Once
<1>6. Notices' \subseteq Notices \cup {s} /\ DistinctNotices'
  <2>1. CASE connected
    BY <1>1, <1>2, <1>5, <2>1, NoticesAppend DEF Base, Once, Due
  <2>2. CASE ~connected
    BY <1>1, <2>2, NoticesStay DEF Once
  <2> QED  BY <2>1, <2>2
<1>7. ReadJobs' = ReadJobs /\ ToRead' = ToRead /\ DistinctReads'
  BY <1>1 DEF ReadJobs, ToRead, DistinctReads, Once
<1>8. Due' \subseteq Due \cup {s} /\ Notices' \cap ToRead' = {}
  BY <1>5, <1>6, <1>7 DEF Due, Once
<1>9. \A t \in Due' : store'[t] # NoMessage /\ heard'[store'[t]] = << >>
  BY <1>1, <1>3, <1>4, <1>5, <1>8 DEF Once
<1>10. line' # NoCmd /\ line'.cmd = "CMGD" => line'.arg \notin Due'
  <2> SUFFICES ASSUME line # NoCmd, line.cmd = "CMGD" PROVE line.arg \notin Due'
    BY <1>1
  <2>1. store[line.arg] # NoMessage /\ line.arg \notin Due
    BY DEF Deleting, Once
  <2> QED  BY <1>1, <1>8, <2>1
<1>11. \A t, u \in Slots : store'[t] = store'[u] /\ store'[t] # NoMessage => t = u
  BY <1>4, <1>5 DEF Once
<1>12. \A n \in net' : heard'[n] = << >> /\ \A t \in Slots : store'[t] # n
  BY <1>1, <1>4 DEF Once
<1> QED  BY <1>1, <1>6, <1>7, <1>8, <1>9, <1>10, <1>11, <1>12 DEF Once

LEMMA StepReadOnce ==
  Base /\ Reporting /\ Deleting /\ OnlyAccepted /\ ReadOnce /\ [Next]_vars => ReadOnce'
<1> SUFFICES ASSUME Base, Reporting, Deleting, OnlyAccepted, ReadOnce, [Next]_vars
             PROVE  ReadOnce'
  OBVIOUS
<1>0. IInv' /\ Base'
  BY StepKeeps, StepBase DEF Base
<1>1. ASSUME NEW m \in Own, SendSms(m) PROVE ReadOnce'
  <2>1. /\ UNCHANGED << tty, store, net, heard, counts >>
        /\ \/ UNCHANGED << q, arg, line >>
           \/ Jobs(q) = {} /\ Jobs(q') = {} /\ line' = line
           \/ Queues("sms", m)
    BY <1>0, <1>1, SendBase
  <2> SUFFICES ASSUME Once PROVE Once'
    BY <2>1 DEF ReadOnce
  <2>2. Notices' = Notices /\ DistinctNotices'
    BY <2>1, NoticesStay DEF Once
  <2>3. CASE UNCHANGED << q, arg, line >>
    BY <2>1, <2>2, <2>3, LessDue DEF ReadJobs, Once
  <2>4. CASE Jobs(q') = {} /\ line' = line
    BY <2>1, <2>2, <2>4, LessDue DEF ReadJobs
  <2> QED  BY <2>1, <2>3, <2>4, OnceSends
<1>2. ASSUME NEW s \in Slots, UserDeletes(s) PROVE ReadOnce'
  BY <1>0, <1>2, UserBase DEF ReadOnce
<1>3. CASE DiscoveryStops \/ Lose
  <2>1. /\ Gone /\ UNCHANGED << store, net, heard >> /\ counts'.user = counts.user
        /\ Jobs(q') = {}
    BY <1>0, <1>3, EndBase, GoneJobs
  <2> QED  BY <2>1, NothingDue DEF Gone, ReadOnce, Once
<1>4. CASE Connect \/ (\E when \in Whens : Restart(when)) \/ UNCHANGED vars
  <2>1. /\ UNCHANGED << q, arg, tty, heard, line, store, net >> /\ counts'.user = counts.user
    BY <1>0, <1>4, WantBase DEF vars
  <2> SUFFICES ASSUME Once PROVE Once'
    BY <2>1 DEF ReadOnce
  <2>2. Notices' = Notices /\ DistinctNotices'
    BY <2>1, NoticesStay DEF Once
  <2> QED  BY <2>1, <2>2, LessDue DEF ReadJobs, Once
<1>5. CASE HandleCmti
  <2>1. /\ tty # << >> /\ Head(tty).res = "CMTI" /\ UNCHANGED << store, net, counts, heard >>
        /\ \/ Gone
           \/ /\ tty' = Tail(tty)
              /\ \/ UNCHANGED << arg, line >> /\ Jobs(q') = Jobs(q)
                 \/ \E k \in {"retrieve", "read"} : Queues(k, Head(tty).slot)
    BY <1>5, CmtiOutcome
  <2> SUFFICES ASSUME Once PROVE Once'
    BY <2>1 DEF ReadOnce
  <2>2. CASE Gone
    BY <1>0, <2>1, <2>2, GoneJobs, NothingDue DEF Gone, Once
  <2>3. CASE tty' = Tail(tty) /\ UNCHANGED << arg, line >> /\ Jobs(q') = Jobs(q)
    <3>1. Notices' \subseteq Notices /\ DistinctNotices'
      BY <2>1, <2>3, NoticesTail DEF Base, Once
    <3> QED  BY <2>1, <2>3, <3>1, LessDue DEF ReadJobs, Once
  <2>4. CASE tty' = Tail(tty) /\ \E k \in {"retrieve", "read"} : Queues(k, Head(tty).slot)
    BY <2>1, <2>4, OnceReads
  <2> QED  BY <2>1, <2>2, <2>3, <2>4
<1>6. CASE HandleOk \/ HandleError \/ HandlePrompt \/ HandleCmgr
  <2>1. PICK res \in {"OK", "ERROR", "PROMPT", "CMGR"} : Replied(res)
    BY <1>0, <1>6, HandleOkReplied, HandleErrorReplied, HandlePromptReplied, HandleCmgrReplied
  <2>2. counts' = counts
    BY <2>1 DEF Replied
  <2> QED  BY <1>0, <2>1, <2>2, OnceReplied DEF ReadOnce
<1>7. CASE Modem
  <2>1. counts' = counts
    BY <1>7 DEF Modem, historyVars
  <2> QED  BY <1>7, <2>1, OnceModem DEF ReadOnce
<1>8. CASE \E m \in Messages, s \in Slots : Arrive(m, s)
  <2>1. counts' = counts
    BY <1>8 DEF Arrive, historyVars
  <2> QED  BY <1>8, <2>1, OnceArrive DEF ReadOnce
<1> QED
  BY <1>1, <1>2, <1>3, <1>4, <1>5, <1>6, <1>7, <1>8 DEF Next, Monitor

-----------------------------------------------------------------------------
(* What the driver reads of a message that was sent from here. *)
LEMMA NoZero ==
  ASSUME NEW t \in Seq(CodePoint)
  PROVE  CString(t) = t /\ CString(Append(t, 0)) = t
<1>1. /\ Len(t) \in Nat /\ DOMAIN t = 1..Len(t)
      /\ \A i \in 1..Len(t) : t[i] # 0
  <2>1. 0 \notin CodePoint
    BY DEF CodePoint
  <2>2. Len(t) \in Nat /\ DOMAIN t = 1..Len(t) /\ \A i \in 1..Len(t) : t[i] \in CodePoint
    OBVIOUS
  <2> QED  BY <2>1, <2>2
<1>2. CString(t) = t
  BY <1>1 DEF CString
<1> DEFINE n == Len(t) + 1
           a == Append(t, 0)
           zeros == { i \in DOMAIN a : a[i] = 0 }
<1>3. a = [j \in 1..n |-> IF j = n THEN 0 ELSE t[j]] /\ DOMAIN a = 1..n
  <2>1. a = [j \in 1..n |-> IF j = n THEN 0 ELSE t[j]]
    BY AppendedAs
  <2> HIDE DEF a, n
  <2> QED  BY <2>1
<1>4. zeros = {n}
  <2> HIDE DEF a
  <2> QED  BY <1>1, <1>3
<1>5. (CHOOSE i \in zeros : \A j \in zeros : i <= j) = n
  <2>1. n \in Nat
    BY <1>1
  <2> HIDE DEF zeros, n, a
  <2>2. n <= n
    BY <2>1
  <2> QED  BY <1>4, <2>2
<1>6. CString(a) = SubSeq(a, 1, n - 1)
  <2>1. zeros # {}
    BY <1>4
  <2>2. CString(a) = IF zeros = {} THEN a
                     ELSE SubSeq(a, 1, (CHOOSE i \in zeros : \A j \in zeros : i <= j) - 1)
    BY DEF CString
  <2> HIDE DEF zeros, n, a
  <2> QED  BY <1>5, <2>1, <2>2
<1>7. SubSeq(a, 1, n - 1) = t
  <2>1. n - 1 = Len(t)
    BY <1>1
  <2>2. SubSeq(a, 1, Len(t)) = [j \in 1..Len(t) |-> a[j]]
    <3>1. DOMAIN a = 1..n /\ Len(a) = n /\ n \in Nat
      BY <1>1, <1>3
    <3> HIDE DEF a, n
    <3> QED  BY <1>1, <3>1
  <2>3. \A j \in 1..Len(t) : a[j] = t[j]
    <3> HIDE DEF a
    <3> QED  BY <1>1, <1>3
  <2>4. t = [j \in 1..Len(t) |-> t[j]]
    OBVIOUS
  <2> HIDE DEF a, n
  <2> QED  BY <2>1, <2>2, <2>3, <2>4
<1> QED  BY <1>2, <1>6, <1>7

LEMMA Alphabets == Alphabet(0) = 0 /\ Alphabet(8) = 8 /\ ~HasHeader(0)
<1>1. (0 \div 4) % 4 = 0 /\ (8 \div 4) % 4 = 2 /\ (0 \div 64) % 2 = 0
  BY SMT
<1> QED  BY <1>1 DEF Alphabet, HasHeader

LEMMA SeqOfElements ==
  ASSUME NEW S, NEW T, NEW t \in Seq(S), \A i \in DOMAIN t : t[i] \in T
  PROVE  t \in Seq(T)
<1>1. Len(t) \in Nat /\ t \in [1..Len(t) -> S]
  OBVIOUS
<1>2. t \in [1..Len(t) -> T]
  BY <1>1
<1> QED  BY <1>1, <1>2

LEMMA AsciiSeptets ==
  ASSUME NEW t \in Seq(CodePoint), IsAscii(t)
  PROVE  t \in Seq(Septet)
<1>1. \A i \in DOMAIN t : t[i] \in Ascii
  BY DEF IsAscii
<1>2. Ascii \subseteq Septet
  BY DEF Ascii, Septet
<1> QED  BY <1>1, <1>2, SeqOfElements

(* What an SMS-SUBMIT and the SMS-DELIVER made of it hold. *)
LEMMA BuildFields ==
  ASSUME NEW number, NEW t, NEW minutes, NEW srr, NEW b, b = PduBuild(number, t, minutes, srr)
  PROVE  /\ b.codes = StoreNumber(number.digits) /\ b.digits = Len(number.digits)
         /\ b.toa = International /\ b.ud = UserData(t)
         /\ b.dcs = IF IsAscii(t) THEN 0 ELSE 8
         /\ b.udl = IF IsAscii(t) THEN Len(t) ELSE Len(UserData(t))
<1>1. /\ b.codes = StoreNumber(number.digits) /\ b.digits = Len(number.digits)
      /\ b.toa = International /\ b.ud = UserData(t)
      /\ b.udl = IF IsAscii(t) THEN Len(t) ELSE Len(UserData(t))
  BY DEF PduBuild
<1>2. b.dcs = IF IsAscii(t) THEN 0 ELSE 8
  BY DEF PduBuild, Dcs7Bit, DcsUcs2
<1> QED  BY <1>1, <1>2

LEMMA DeliverFields ==
  ASSUME NEW b, NEW p, p = Deliver(b)
  PROVE  /\ p.codes = b.codes /\ p.digits = b.digits /\ p.toa = b.toa /\ p.dcs = b.dcs
         /\ p.type = 0 /\ p.ud = SubSeq(b.ud, 1, UdOctets(b))
BY DEF Deliver

(* What is passed on of an SMS-DELIVER. *)
LEMMA PassedOnFields ==
  ASSUME NEW p, NEW o, o = PassedOn(p)
  PROVE  /\ p.toa = International => o.number.plus
         /\ o.number.digits = ParsedDigits(p.codes, p.digits)
         /\ o.base64 = Decoded(p) /\ o.sms = CString(Decoded(p))
<1> DEFINE r == Parsed(p)
<1>1. /\ p.toa = International => r.number.plus
      /\ r.number.digits = ParsedDigits(p.codes, p.digits) /\ r.text = Decoded(p)
  BY DEF Parsed
<1> HIDE DEF r
<1>2. o.number = r.number /\ o.sms = CString(r.text) /\ o.base64 = r.text
  BY DEF PassedOn, r
<1> QED  BY <1>1, <1>2

(* The text of a message in septets, and of one in UCS-2. *)
LEMMA TextArrives ==
  ASSUME NEW c, c.number.digits \in Seq(Digit), c.text \in Seq(CodePoint),
         Sendable(c.number, c.text)
  PROVE  LET p == Deliver(PduBuild(c.number, c.text, c.minutes, c.report))
         IN  /\ Decoded(p) \in {c.text, Append(c.text, 0)} /\ p.toa = International
             /\ p.codes = StoreNumber(c.number.digits) /\ p.digits = Len(c.number.digits)
<1> DEFINE b == PduBuild(c.number, c.text, c.minutes, c.report)
           p == Deliver(b)
           t == c.text
<1>a. b = PduBuild(c.number, t, c.minutes, c.report) /\ p = Deliver(b)
  OBVIOUS
<1> HIDE DEF b, p
<1>1. /\ b.codes = StoreNumber(c.number.digits) /\ b.digits = Len(c.number.digits)
      /\ b.toa = International /\ b.ud = UserData(t)
      /\ b.dcs = IF IsAscii(t) THEN 0 ELSE 8
      /\ b.udl = IF IsAscii(t) THEN Len(t) ELSE Len(UserData(t))
  BY <1>a, BuildFields
<1>2. /\ p.codes = b.codes /\ p.digits = b.digits /\ p.toa = b.toa /\ p.dcs = b.dcs
      /\ p.type = 0 /\ p.ud = SubSeq(b.ud, 1, UdOctets(b))
  BY <1>a, DeliverFields
<1>3. UdOctets(b) = IF IsAscii(t) THEN ((Len(t) + 1) * 7) \div 8 ELSE Len(UserData(t))
  <2>1. CASE IsAscii(t)
    BY <1>1, <2>1, Alphabets DEF UdOctets, Dcs7Bit
  <2>2. CASE ~IsAscii(t)
    BY <1>1, <2>2, Alphabets DEF UdOctets, Dcs7Bit
  <2> QED  BY <2>1, <2>2
<1>4. Body(p) = p.ud
  BY <1>2, Alphabets DEF Body
<1>5. CASE IsAscii(t)
  <2>1. t \in Seq(Septet)
    BY <1>5, AsciiSeptets
  <2>2. p.ud = SubSeq(Pack(t), 1, ((Len(t) + 1) * 7) \div 8)
    BY <1>1, <1>2, <1>3, <1>5 DEF UserData
  <2>3. Decoded(p) = Unpack(p.ud)
    BY <1>1, <1>2, <1>4, <1>5, Alphabets DEF Decoded, Dcs7Bit
  <2>4. Unpack(p.ud) \in {t, Append(t, 0)}
    BY <2>1, <2>2, SeptetsRoundTrip
  <2> QED  BY <1>1, <1>2, <2>3, <2>4 DEF b, p
<1>6. CASE ~IsAscii(t)
  <2>1. t \in Seq(BasicPlane)
    <3>1. \A i \in DOMAIN t : t[i] \in BasicPlane
      BY <1>6 DEF Sendable
    <3> HIDE DEF t
    <3>2. t \in Seq(CodePoint)
      BY DEF t
    <3> QED  BY <3>1, <3>2, SeqOfElements
  <2>2. p.ud = Ucs2(t)
    <3>1. Len(t) \in Nat /\ 2 * Len(t) \in Nat
      BY <2>1
    <3>2. Ucs2(t) = [k \in 1..2 * Len(t) |-> Ucs2(t)[k]] /\ Len(Ucs2(t)) = 2 * Len(t)
      BY <3>1 DEF Ucs2
    <3>3. p.ud = SubSeq(Ucs2(t), 1, Len(Ucs2(t)))
      BY <1>1, <1>2, <1>3, <1>6 DEF UserData
    <3>4. SubSeq(Ucs2(t), 1, 2 * Len(t)) = [k \in 1..2 * Len(t) |-> Ucs2(t)[k]]
      <4> DEFINE u == Ucs2(t)
                 n == 2 * Len(t)
      <4>1. DOMAIN u = 1..n /\ Len(u) = n /\ n \in Nat
        BY <3>1, <3>2 DEF Ucs2
      <4> HIDE DEF u, n
      <4>2. SubSeq(u, 1, n) = [k \in 1..n |-> u[k]]
        BY <4>1
      <4> QED  BY <4>2 DEF u, n
    <3> QED  BY <3>2, <3>3, <3>4
  <2>3. Decoded(p) = FromUcs2(p.ud)
    BY <1>1, <1>2, <1>4, <1>6, Alphabets DEF Decoded, Dcs7Bit, DcsUcs2
  <2>4. FromUcs2(p.ud) = t
    BY <2>1, <2>2, Ucs2RoundTrip
  <2> QED  BY <1>1, <1>2, <2>3, <2>4 DEF b, p
<1> QED  BY <1>5, <1>6

(* What is passed on of a message from here is the message that was sent. *)
LEMMA PassedAsSent ==
  ASSUME NEW m \in Own, m \in ReadableOnes, CanSend(m)
  PROVE  AsSent(Passed[m], Content[m])
<1> DEFINE c == Content[m]
           p == Deliver(PduBuild(c.number, c.text, c.minutes, c.report))
           d == c.number.digits
<1>1. d \in Seq(Digit) /\ c.text \in Seq(CodePoint) /\ Sendable(c.number, c.text)
  BY SmsAssumption DEF CanSend
<1>2. PduOf[m] = p /\ Readable(p) /\ Passed[m] = PassedOn(p)
  BY DEF ReadableOnes, PduOf, Submitted, Passed, Messages
<1>3. /\ Decoded(p) \in {c.text, Append(c.text, 0)} /\ p.toa = International
      /\ p.codes = StoreNumber(d) /\ p.digits = Len(d)
  BY <1>1, TextArrives
<1>4. p.digits > 0
  BY <1>2 DEF Readable
<1> HIDE DEF p, d
<1>5. d # << >>
  BY <1>3, <1>4, EmptySeq
<1>6. ParsedDigits(p.codes, p.digits) = [i \in 1..Len(d) |-> Capital(d[i])]
  BY <1>1, <1>3, <1>5, NumberRoundTrip
<1>7. [i \in 1..Len(d) |-> Capital(d[i])] = [i \in DOMAIN d |-> Code2Digit(Digit2Code(d[i]))]
  <2>1. DOMAIN d = 1..Len(d) /\ \A i \in 1..Len(d) : d[i] \in Digit
    BY <1>1
  <2>2. \A i \in 1..Len(d) : Code2Digit(Digit2Code(d[i])) = Capital(d[i])
    BY <2>1, DigitRoundTrip
  <2> QED  BY <2>1, <2>2
<1>8. /\ Passed[m].number.plus /\ Passed[m].number.digits = ParsedDigits(p.codes, p.digits)
      /\ Passed[m].base64 = Decoded(p) /\ Passed[m].sms = CString(Decoded(p))
  BY <1>2, <1>3, PassedOnFields
<1>9. CString(Decoded(p)) = c.text
  BY <1>1, <1>3, NoZero
<1> QED  BY <1>3, <1>6, <1>7, <1>8, <1>9 DEF AsSent, d

LEMMA InitOnce == Init => OnlyAccepted /\ AsPassed /\ Fit /\ ReadOnce
<1> SUFFICES ASSUME Init PROVE OnlyAccepted /\ AsPassed /\ Fit /\ ReadOnce
  OBVIOUS
<1>1. /\ Jobs(q) = {} /\ \A m \in Messages : heard[m] = << >>
      /\ \A s \in Slots : store[s] = NoMessage
      /\ net = Foreign /\ accepted = {} /\ line = NoCmd /\ tty = << >>
      /\ NoMessage \notin Messages /\ Own \subseteq Messages /\ Own \cap Foreign = {}
      /\ Foreign \subseteq Messages
  BY JobsFacts, JobsInEmpty, EmptyOK, SmsAssumption DEF Init, Jobs, EmptyQueue, Messages
<1>2. OnlyAccepted /\ AsPassed /\ Fit
  BY <1>1, EmptySeq DEF OnlyAccepted, AsPassed, Fit
<1>3. Notices = {} /\ DistinctNotices
  BY <1>1, EmptySeq DEF Notices, NoticeAt, DistinctNotices
<1>4. ReadJobs = {} /\ ToRead = {} /\ Due = {}
  BY <1>1, <1>3 DEF ReadJobs, ToRead, Due
<1>5. \A m \in Messages : Len(heard[m]) <= 1
  BY <1>1, EmptySeq
<1> QED  BY <1>1, <1>2, <1>3, <1>4, <1>5 DEF ReadOnce, Once, DistinctReads

(* Every message that comes is passed on at most once while the user deletes none,   *)
(* and one that was sent from here, whatever its length and its characters, with the  *)
(* number and the text it was sent with.                                              *)
THEOREM ArrivesTrue == Spec => []ArrivesAsSent
<1> DEFINE K == /\ Base /\ Reporting /\ Deleting
                /\ OnlyAccepted /\ AsPassed /\ Fit /\ ReadOnce
<1>1. Init => K
  BY InitBase, InitReporting, InitDeleting, InitOnce
<1>2. K /\ [Next]_vars => K'
  BY StepBase, StepReporting, StepDeleting, StepWhere, StepFit, StepReadOnce
<1>3. K => ArrivesAsSent
  <2> SUFFICES ASSUME K PROVE ArrivesAsSent
    OBVIOUS
  <2>1. counts.user = 0 => \A m \in Messages : Len(heard[m]) <= 1
    BY DEF ReadOnce, Once
  <2>2. ASSUME NEW m \in Own, NEW i \in DOMAIN heard[m]
        PROVE  m \in accepted /\ AsSent(heard[m][i], Content[m])
    <3>1. m \in Messages /\ m \in ReadableOnes /\ heard[m][i] = Passed[m]
      BY <2>2 DEF AsPassed, Messages
    <3>2. m \in accepted
      <4>1. heard[m] # << >>
        BY EmptySeq
      <4> QED  BY <4>1 DEF OnlyAccepted
    <3>3. CanSend(m)
      BY <3>2 DEF Fit
    <3> QED  BY <3>1, <3>2, <3>3, PassedAsSent
  <2> QED  BY <2>1, <2>2 DEF ArrivesAsSent
<1> HIDE DEF K
<1>4. QED  BY <1>1, <1>2, <1>3, PTL DEF Spec

=============================================================================
