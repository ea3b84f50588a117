-------------------------- MODULE CallAudioProofs --------------------------
(***************************************************************************)
(* Proofs about the mix buffer of any size, and about the calls that share   *)
(* it: the positions agree, the streams are those of the activated calls,    *)
(* one call is the master.                                                   *)
(***************************************************************************)
EXTENDS CallAudio, FiniteSetTheorems, SequenceTheorems, TLAPS

-----------------------------------------------------------------------------
(* The types of the buffer's parts.  *)
LEMMA Parts ==
  ASSUME NEW m \in MixBuffer
  PROVE  /\ m.read \in Slot /\ m.write \in Slot /\ m.used \in 0..Size
         /\ m.buffer \in [Slot -> Mixed] /\ m.streams \in SUBSET Cpvt /\ m.attached \in Int
         /\ m.stream \in [Cpvt -> [used : 0..Size, write : Slot]]
         /\ \A s \in Cpvt : m.stream[s].used \in 0..Size /\ m.stream[s].write \in Slot
BY DEF MixBuffer

(* A position ahead of another by no more than the buffer's size is a slot.  *)
LEMMA WrapIsSlot ==
  ASSUME NEW p \in Slot, NEW n \in 0..Size
  PROVE  Wrap(p + n) \in Slot
BY MixBufferAssumption DEF Wrap, Slot

LEMMA InitAligned == MixbInit \in MixBuffer /\ Aligned(MixbInit)
BY MixBufferAssumption DEF MixbInit, MixBuffer, Aligned, Wrap, Slot, Mixed

(* Reading takes what there is and leaves the positions in agreement.  *)
LEMMA RingRead ==
  ASSUME NEW m \in MixBuffer, NEW len \in Nat, m.write = Wrap(m.read + m.used)
  PROVE  LET r == RbReadUpd(m, len)
         IN  /\ r \in MixBuffer
             /\ r.used = m.used - Least(len, m.used)
             /\ r.write = Wrap(r.read + r.used)
             /\ r.streams = m.streams /\ r.attached = m.attached /\ r.stream = m.stream
<1> DEFINE n == Least(len, m.used)
           left == m.used - n
           r == RbReadUpd(m, len)
<1>1. /\ m.read \in Slot /\ m.write \in Slot /\ m.used \in 0..Size
      /\ m.buffer \in [Slot -> Mixed]
  BY Parts
<1>2. n \in 0..m.used /\ left \in 0..m.used
  BY <1>1 DEF Least
<1>3. CASE n = 0
  BY <1>1, <1>3 DEF RbReadUpd
<1>4. CASE n # 0
  <2> DEFINE rd == IF left = 0 THEN 0 ELSE Wrap(m.read + n)
             wr == IF left = 0 THEN 0 ELSE m.write
             bf == [p \in Slot |-> IF Distance(m.read, p) < n THEN {Old} ELSE m.buffer[p]]
  <2>1. r = [m EXCEPT !.used = left, !.read = rd, !.write = wr, !.buffer = bf]
    BY <1>4 DEF RbReadUpd
  <2>2. rd \in Slot /\ wr \in Slot
    BY <1>1, <1>2, WrapIsSlot, MixBufferAssumption DEF Slot
  <2>3. bf \in [Slot -> Mixed]
    BY <1>1 DEF Mixed
  <2>4. wr = Wrap(rd + left)
    BY <1>1, <1>2, MixBufferAssumption, SMTT(60) DEF Wrap, Slot
  <2>5. left \in 0..Size
    BY <1>1, <1>2, MixBufferAssumption
  <2> HIDE DEF rd, wr, bf, left
  <2>6. /\ r.used = left /\ r.read = rd /\ r.write = wr /\ r.buffer = bf
        /\ r.streams = m.streams /\ r.attached = m.attached /\ r.stream = m.stream
        /\ r \in MixBuffer
    BY <2>1, <2>2, <2>3, <2>5 DEF MixBuffer
  <2> QED
    BY <2>4, <2>6 DEF left
<1> QED
  BY <1>3, <1>4

LEMMA ReadKeepsAligned ==
  ASSUME NEW m \in MixBuffer, NEW len \in Nat, Aligned(m)
  PROVE  LET r == MixbReadUpd(m, len)
         IN  /\ r \in MixBuffer /\ Aligned(r)
             /\ r.used = m.used - Least(len, m.used)
             /\ r.streams = m.streams /\ r.attached = m.attached
<1> DEFINE rb == RbReadUpd(m, len)
           Left(s) == IF m.stream[s].used > len THEN m.stream[s].used - len ELSE 0
           st == [s \in Cpvt |->
                   IF s \in m.streams THEN [used |-> Left(s), write |-> Wrap(rb.read + Left(s))]
                   ELSE rb.stream[s]]
           r == MixbReadUpd(m, len)
<1>1. /\ rb \in MixBuffer /\ rb.used = m.used - Least(len, m.used)
      /\ rb.write = Wrap(rb.read + rb.used)
      /\ rb.streams = m.streams /\ rb.attached = m.attached /\ rb.stream = m.stream
  BY RingRead DEF Aligned
<1>2. r = [rb EXCEPT !.stream = st]
  BY DEF MixbReadUpd
<1>3. \A s \in Cpvt : Left(s) \in 0..Size
  BY Parts, MixBufferAssumption
<1>4. \A s \in m.streams : Left(s) <= rb.used
  BY <1>1, Parts DEF Aligned, Least
<1> HIDE DEF Left, rb
<1>5. st \in [Cpvt -> [used : 0..Size, write : Slot]]
  BY <1>1, <1>3, Parts, WrapIsSlot
<1>6. \A s \in m.streams : st[s].used = Left(s) /\ st[s].write = Wrap(rb.read + Left(s))
  BY Parts
<1> HIDE DEF st
<1>7. /\ r.used = rb.used /\ r.read = rb.read /\ r.write = rb.write /\ r.stream = st
      /\ r.streams = m.streams /\ r.attached = m.attached
      /\ r \in MixBuffer
  BY <1>1, <1>2, <1>5 DEF MixBuffer
<1> QED
  BY <1>1, <1>4, <1>6, <1>7 DEF Aligned

-----------------------------------------------------------------------------
(* What a call says.  *)
Frames == Seq(SUBSET Sounds)

LEMMA Begins ==
  ASSUME NEW data \in Frames, NEW a \in Nat, NEW b \in Nat, a >= 1, b <= Len(data)
  PROVE  /\ SubSeq(data, a, b) \in Frames
         /\ Len(SubSeq(data, a, b)) = IF a <= b THEN b - a + 1 ELSE 0
         /\ \A i \in 1..Len(SubSeq(data, a, b)) : SubSeq(data, a, b)[i] = data[a + i - 1]
BY DEF Frames

LEMMA RingWrite ==
  ASSUME NEW m \in MixBuffer, NEW data \in Frames, NEW method \in {"sum", "copy"}
  PROVE  LET d == RbWriteCore(m, data, method)
             n == Least(Len(data), Size - m.used)
         IN  /\ d \in MixBuffer
             /\ n \in 0..(Size - m.used) /\ n <= Len(data)
             /\ d.used = m.used + n /\ d.write = Wrap(m.write + n) /\ d.read = m.read
             /\ d.streams = m.streams /\ d.attached = m.attached /\ d.stream = m.stream
             /\ \A p \in Slot : d.buffer[p] =
                  IF Distance(m.write, p) >= n THEN m.buffer[p]
                  ELSE IF method = "sum" THEN m.buffer[p] \cup data[Distance(m.write, p) + 1]
                       ELSE data[Distance(m.write, p) + 1]
<1> DEFINE n == Least(Len(data), Size - m.used)
           New(p) == data[Distance(m.write, p) + 1]
           bf == [p \in Slot |-> IF Distance(m.write, p) >= n THEN m.buffer[p]
                                 ELSE IF method = "sum" THEN m.buffer[p] \cup New(p) ELSE New(p)]
           d == RbWriteCore(m, data, method)
<1>1. n \in 0..(Size - m.used) /\ n <= Len(data) /\ n \in 0..Size
  BY Parts, MixBufferAssumption DEF Least, Frames
<1>2. d = [m EXCEPT !.write = Wrap(m.write + n), !.used = m.used + n, !.buffer = bf]
  BY DEF RbWriteCore
<1>3. Wrap(m.write + n) \in Slot /\ m.used + n \in 0..Size
  BY <1>1, Parts, WrapIsSlot, MixBufferAssumption
<1>4. bf \in [Slot -> Mixed]
  <2> SUFFICES ASSUME NEW p \in Slot, Distance(m.write, p) < n
               PROVE  New(p) \in SUBSET Sounds
    BY Parts, <1>1, MixBufferAssumption DEF Mixed, Distance, Slot
  <2>1. Distance(m.write, p) + 1 \in 1..Len(data)
    BY <1>1, Parts, MixBufferAssumption DEF Distance, Slot, Frames
  <2> QED
    BY <2>1 DEF Frames
<1>5. \A p \in Slot : bf[p] = IF Distance(m.write, p) >= n THEN m.buffer[p]
                              ELSE IF method = "sum" THEN m.buffer[p] \cup New(p) ELSE New(p)
  OBVIOUS
<1> HIDE DEF bf, n
<1>6. /\ d.used = m.used + n /\ d.write = Wrap(m.write + n) /\ d.read = m.read
      /\ d.streams = m.streams /\ d.attached = m.attached /\ d.stream = m.stream
      /\ d.buffer = bf /\ d \in MixBuffer
  BY <1>2, <1>3, <1>4 DEF MixBuffer
<1> QED
  BY <1>1, <1>5, <1>6 DEF n

(* How much of a frame a stream has room for.  *)
Fits(m, s, data) == Least(Len(data), Size - m.stream[s].used)

LEMMA MixWrite ==
  ASSUME NEW m \in MixBuffer, NEW s \in Cpvt, NEW data \in Frames
  PROVE  LET d == MixbMixWrite(m, s, data)
             st == m.stream[s]
             n == Fits(m, s, data)
         IN  /\ d \in MixBuffer
             /\ n \in 0..(Size - st.used) /\ n <= Len(data)
             /\ d.used = m.used /\ d.write = m.write /\ d.read = m.read
             /\ d.streams = m.streams /\ d.attached = m.attached
             /\ d.stream[s].used = st.used + n /\ d.stream[s].write = Wrap(st.write + n)
             /\ \A t \in Cpvt \ {s} : d.stream[t] = m.stream[t]
             /\ \A p \in Slot :
                  LET e == Distance(st.write, p)
                  IN  /\ e >= n => d.buffer[p] = m.buffer[p]
                      /\ ~(e >= n) => d.buffer[p] = m.buffer[p] \cup data[e + 1]
<1> DEFINE st == m.stream[s]
           n == Fits(m, s, data)
           own == [m EXCEPT !.write = st.write, !.used = st.used]
           local == RbWriteCore(own, data, "sum")
           d == MixbMixWrite(m, s, data)
<1>1. /\ own \in MixBuffer /\ own.write = st.write /\ own.used = st.used
      /\ own.buffer = m.buffer
  BY DEF MixBuffer
<1> HIDE DEF own
<1> DEFINE k == Least(Len(data), Size - own.used)
<1>2. /\ local \in MixBuffer
      /\ k \in 0..(Size - own.used) /\ k <= Len(data)
      /\ local.used = own.used + k /\ local.write = Wrap(own.write + k)
      /\ \A p \in Slot : local.buffer[p] =
           IF Distance(own.write, p) >= k THEN own.buffer[p]
           ELSE own.buffer[p] \cup data[Distance(own.write, p) + 1]
  BY <1>1, RingWrite, ZenonT(60)
<1>3. n = k /\ n \in 0..(Size - st.used)
  BY <1>1, <1>2 DEF Fits
<1> HIDE DEF k, n
<1>4. \A p \in Slot : local.buffer[p] =
           IF Distance(st.write, p) >= n THEN m.buffer[p]
           ELSE m.buffer[p] \cup data[Distance(st.write, p) + 1]
  BY <1>1, <1>2, <1>3
<1>5. d = [m EXCEPT !.buffer = local.buffer,
                    !.stream[s] = [used |-> local.used, write |-> local.write]]
  BY DEF MixbMixWrite, own
<1> HIDE DEF local
<1>6. local.buffer \in [Slot -> Mixed] /\ local.used \in 0..Size /\ local.write \in Slot
  BY <1>2, Parts
<1>7. [m.stream EXCEPT ![s] = [used |-> local.used, write |-> local.write]]
        \in [Cpvt -> [used : 0..Size, write : Slot]]
  BY <1>6, Parts
<1>8. /\ d \in MixBuffer /\ d.buffer = local.buffer
      /\ d.used = m.used /\ d.write = m.write /\ d.read = m.read
      /\ d.streams = m.streams /\ d.attached = m.attached
      /\ d.stream = [m.stream EXCEPT ![s] = [used |-> local.used, write |-> local.write]]
  BY <1>5, <1>6, <1>7 DEF MixBuffer
<1> HIDE DEF d
<1>10. /\ d.stream[s].used = local.used /\ d.stream[s].write = local.write
       /\ \A t \in Cpvt \ {s} : d.stream[t] = m.stream[t]
  BY <1>8, Parts
<1>9. n <= Len(data) /\ local.used = st.used + n /\ local.write = Wrap(st.write + n)
  BY <1>1, <1>2, <1>3
<1> QED
  BY <1>3, <1>4, <1>8, <1>9, <1>10 DEF n, d

LEMMA Copy ==
  ASSUME NEW m \in MixBuffer, NEW s \in Cpvt, NEW data \in Frames
  PROVE  LET d == MixbCopy(m, s, data)
             n == Least(Len(data), Size - m.used)
         IN  /\ d \in MixBuffer
             /\ n \in 0..(Size - m.used) /\ n <= Len(data)
             /\ d.used = m.used + n /\ d.write = Wrap(m.write + n) /\ d.read = m.read
             /\ d.streams = m.streams /\ d.attached = m.attached
             /\ d.stream[s].used = m.used + n /\ d.stream[s].write = Wrap(m.write + n)
             /\ \A t \in Cpvt \ {s} : d.stream[t] = m.stream[t]
             /\ \A p \in Slot : d.buffer[p] =
                  IF Distance(m.write, p) >= n THEN m.buffer[p]
                  ELSE data[Distance(m.write, p) + 1]
<1> DEFINE n == Least(Len(data), Size - m.used)
           rb == RbWriteCore(m, data, "copy")
           d == MixbCopy(m, s, data)
<1>1. /\ rb \in MixBuffer
      /\ n \in 0..(Size - m.used) /\ n <= Len(data)
      /\ rb.used = m.used + n /\ rb.write = Wrap(m.write + n) /\ rb.read = m.read
      /\ rb.streams = m.streams /\ rb.attached = m.attached /\ rb.stream = m.stream
      /\ \A p \in Slot : rb.buffer[p] =
           IF Distance(m.write, p) >= n THEN m.buffer[p]
           ELSE data[Distance(m.write, p) + 1]
  BY RingWrite
<1>2. d = [rb EXCEPT !.stream[s] = [used |-> rb.used, write |-> rb.write]]
  BY DEF MixbCopy
<1> HIDE DEF rb
<1>3. [rb.stream EXCEPT ![s] = [used |-> rb.used, write |-> rb.write]]
        \in [Cpvt -> [used : 0..Size, write : Slot]]
  BY <1>1, Parts
<1>4. /\ d \in MixBuffer /\ d.buffer = rb.buffer
      /\ d.used = rb.used /\ d.write = rb.write /\ d.read = rb.read
      /\ d.streams = rb.streams /\ d.attached = rb.attached
      /\ d.stream = [rb.stream EXCEPT ![s] = [used |-> rb.used, write |-> rb.write]]
  BY <1>1, <1>2, <1>3 DEF MixBuffer
<1> HIDE DEF d
<1>5. /\ d.stream[s].used = rb.used /\ d.stream[s].write = rb.write
      /\ \A t \in Cpvt \ {s} : d.stream[t] = rb.stream[t]
  BY <1>1, <1>4, Parts
<1> QED
  BY <1>1, <1>4, <1>5 DEF d

-----------------------------------------------------------------------------
(* Slots and positions seen from a position r of the ring.  *)
LEMMA FromRead ==
  ASSUME NEW r \in Slot, NEW a \in 0..Size
  PROVE  /\ \A n \in 0..(Size - a) : Wrap(Wrap(r + a) + n) = Wrap(r + (a + n))
         /\ \A p \in Slot : /\ Distance(r, p) \in 0..(Size - 1)
                            /\ Distance(Wrap(r + a), p) =
                                 IF Distance(r, p) >= a THEN Distance(r, p) - a
                                 ELSE Distance(r, p) - a + Size
BY MixBufferAssumption DEF Wrap, Distance, Slot

(* mixb_write adds the frame where the stream is, slot by slot, and nothing  *)
(* else changes between the read position and the new end.                   *)
LEMMA WriteMixes ==
  ASSUME NEW m \in MixBuffer, Aligned(m), NEW s \in m.streams, NEW data \in Frames
  PROVE  LET w == MixbWrite(m, s, data)
             from == m.stream[s].used
             upto == from + Least(Len(data), Size - from)
         IN  /\ w \in MixBuffer /\ Aligned(w)
             /\ upto \in from..Size /\ upto - from <= Len(data)
             /\ w.read = m.read /\ w.streams = m.streams /\ w.attached = m.attached
             /\ w.used = IF upto > m.used THEN upto ELSE m.used
             /\ \A t \in Cpvt : w.stream[t].used = IF t = s THEN upto ELSE m.stream[t].used
             /\ \A p \in Slot :
                  LET k == Distance(m.read, p)
                  IN  k < w.used =>
                        w.buffer[p] = (IF k < m.used THEN m.buffer[p] ELSE {})
                                      \cup (IF from <= k /\ k < upto THEN data[k - from + 1] ELSE {})
<1> DEFINE from == m.stream[s].used
           len == Least(Len(data), Size - from)
           upto == from + len
           before == m.used - from
           w == MixbWrite(m, s, data)
           K(p) == Distance(m.read, p)
           Written ==
             /\ w \in MixBuffer /\ Aligned(w)
             /\ upto \in from..Size /\ upto - from <= Len(data)
             /\ w.read = m.read /\ w.streams = m.streams /\ w.attached = m.attached
             /\ w.used = IF upto > m.used THEN upto ELSE m.used
             /\ \A t \in Cpvt : w.stream[t].used = IF t = s THEN upto ELSE m.stream[t].used
             /\ \A p \in Slot : K(p) < w.used =>
                  w.buffer[p] = (IF K(p) < m.used THEN m.buffer[p] ELSE {})
                    \cup (IF from <= K(p) /\ K(p) < upto THEN data[K(p) - from + 1] ELSE {})
<1>1. /\ m.read \in Slot /\ m.used \in 0..Size /\ s \in Cpvt
      /\ from \in 0..m.used /\ from \in 0..Size
      /\ m.stream[s].write = Wrap(m.read + from) /\ m.write = Wrap(m.read + m.used)
  BY Parts, MixBufferAssumption DEF Aligned
<1>2. /\ len \in 0..(Size - from) /\ len <= Len(data) /\ upto \in from..Size
      /\ before \in 0..m.used /\ Len(data) \in Nat /\ upto - from <= Len(data)
  BY <1>1, MixBufferAssumption, SMTT(60) DEF Least, Frames
<1>3. \A p \in Slot :
        /\ K(p) \in 0..(Size - 1)
        /\ Distance(m.stream[s].write, p) = IF K(p) >= from THEN K(p) - from
                                            ELSE K(p) - from + Size
        /\ Distance(m.write, p) = IF K(p) >= m.used THEN K(p) - m.used
                                  ELSE K(p) - m.used + Size
  BY <1>1, FromRead
<1>4. \A n \in 0..(Size - from) : Wrap(Wrap(m.read + from) + n) = Wrap(m.read + (from + n))
  BY <1>1, FromRead
<1>5. \A n \in 0..(Size - m.used) :
        Wrap(Wrap(m.read + m.used) + n) = Wrap(m.read + (m.used + n))
  BY <1>1, FromRead
<1>0. /\ from \in Nat /\ len \in Nat /\ upto \in Nat /\ before \in Nat /\ m.used \in Nat
      /\ from <= m.used /\ m.used <= Size /\ upto <= Size /\ len <= Len(data)
      /\ m.used \in 0..Size /\ Size \in Nat /\ Size > 0 /\ Len(data) \in Nat
  BY <1>1, <1>2, MixBufferAssumption
<1> HIDE DEF from, len, K, Written
<1>6. ASSUME NEW n \in 0..len
      PROVE  LET d == MixbMixWrite(m, s, SubSeq(data, 1, n))
             IN  /\ d \in MixBuffer
                 /\ d.used = m.used /\ d.write = m.write /\ d.read = m.read
                 /\ d.streams = m.streams /\ d.attached = m.attached
                 /\ d.stream[s].used = from + n
                 /\ d.stream[s].write = Wrap(m.read + (from + n))
                 /\ \A t \in Cpvt \ {s} : d.stream[t] = m.stream[t]
                 /\ \A p \in Slot : d.buffer[p] =
                      IF from <= K(p) /\ K(p) < from + n
                      THEN m.buffer[p] \cup data[K(p) - from + 1] ELSE m.buffer[p]
  <2> DEFINE part == SubSeq(data, 1, n)
             d == MixbMixWrite(m, s, part)
             j == Least(Len(part), Size - from)
  <2>1. /\ part \in Frames /\ Len(part) = n
        /\ \A i \in 1..n : part[i] = data[i]
    BY <1>2, Begins
  <2> HIDE DEF part
  <2>2. j = n
    BY <1>0, <2>1 DEF Least
  <2>3. /\ d \in MixBuffer
        /\ d.used = m.used /\ d.write = m.write /\ d.read = m.read
        /\ d.streams = m.streams /\ d.attached = m.attached
        /\ d.stream[s].used = from + j /\ d.stream[s].write = Wrap(m.stream[s].write + j)
        /\ \A t \in Cpvt \ {s} : d.stream[t] = m.stream[t]
        /\ \A p \in Slot : d.buffer[p] =
             IF Distance(m.stream[s].write, p) >= j THEN m.buffer[p]
             ELSE m.buffer[p] \cup part[Distance(m.stream[s].write, p) + 1]
    <3>1. s \in Cpvt
      BY <1>1
    <3> DEFINE x == Fits(m, s, part)
    <3>2. /\ d \in MixBuffer
          /\ d.used = m.used /\ d.write = m.write /\ d.read = m.read
          /\ d.streams = m.streams /\ d.attached = m.attached
          /\ d.stream[s].used = m.stream[s].used + x
          /\ d.stream[s].write = Wrap(m.stream[s].write + x)
          /\ \A t \in Cpvt \ {s} : d.stream[t] = m.stream[t]
          /\ \A p \in Slot :
               LET e == Distance(m.stream[s].write, p)
               IN  /\ e >= x => d.buffer[p] = m.buffer[p]
                   /\ ~(e >= x) => d.buffer[p] = m.buffer[p] \cup part[e + 1]
      BY <2>1, <3>1, MixWrite
    <3> QED
      BY <3>2 DEF from, Fits
  <2> HIDE DEF d, j
  <2>4. Wrap(m.stream[s].write + j) = Wrap(m.read + (from + n))
    <3>1. n \in 0..(Size - from)
      BY <1>0
    <3> QED
      BY <1>1, <1>4, <2>2, <3>1
  <2>5. ASSUME NEW p \in Slot
        PROVE  d.buffer[p] = IF from <= K(p) /\ K(p) < from + n
                             THEN m.buffer[p] \cup data[K(p) - from + 1] ELSE m.buffer[p]
    <3> DEFINE e == Distance(m.stream[s].write, p)
               k == K(p)
    <3>1. k \in 0..(Size - 1) /\ e = IF k >= from THEN k - from ELSE k - from + Size
      BY <1>3
    <3>2. d.buffer[p] = IF e >= n THEN m.buffer[p] ELSE m.buffer[p] \cup part[e + 1]
      BY <2>2, <2>3
    <3> HIDE DEF e, k
    <3>3. /\ e < n <=> from <= k /\ k < from + n
          /\ e < n => e + 1 \in 1..n /\ e + 1 = k - from + 1
          /\ e \in Int
      BY <1>0, <3>1
    <3>4. e < n => part[e + 1] = data[k - from + 1]
      BY <2>1, <3>3
    <3>5. e \in Int
      BY <3>3
    <3>6. e < n <=> ~(e >= n)
      BY <1>0, <3>5
    <3>7. d.buffer[p] = IF from <= k /\ k < from + n
                        THEN m.buffer[p] \cup data[k - from + 1] ELSE m.buffer[p]
      BY <3>2, <3>3, <3>4, <3>6
    <3> QED
      BY <3>7 DEF k
  <2> QED
    BY <2>2, <2>3, <2>4, <2>5 DEF d, part, from
<1>7. ASSUME len <= before PROVE Written
  <2>1. w = MixbMixWrite(m, s, SubSeq(data, 1, len))
    BY <1>0, <1>7 DEF MixbWrite, MixbFree, from, len
  <2>2. /\ w \in MixBuffer
        /\ w.used = m.used /\ w.write = m.write /\ w.read = m.read
        /\ w.streams = m.streams /\ w.attached = m.attached
        /\ w.stream[s].used = upto /\ w.stream[s].write = Wrap(m.read + upto)
        /\ \A t \in Cpvt \ {s} : w.stream[t] = m.stream[t]
        /\ \A p \in Slot : w.buffer[p] =
             IF from <= K(p) /\ K(p) < upto
             THEN m.buffer[p] \cup data[K(p) - from + 1] ELSE m.buffer[p]
    <3>1. len \in 0..len
      BY <1>0
    <3> QED
      BY <1>6, <2>1, <3>1
  <2> HIDE DEF w
  <2>3. upto <= m.used
    BY <1>0, <1>7
  <2>4. \A t \in Cpvt :
          /\ w.stream[t].used = IF t = s THEN upto ELSE m.stream[t].used
          /\ w.stream[t].write = IF t = s THEN Wrap(m.read + upto) ELSE m.stream[t].write
    BY <1>1, <2>2, Parts
  <2>5. Aligned(w)
    BY <1>1, <2>2, <2>3, <2>4, Parts DEF Aligned
  <2>6. w.used = IF upto > m.used THEN upto ELSE m.used
    BY <1>0, <2>2, <2>3
  <2>7. \A p \in Slot : K(p) < w.used =>
          w.buffer[p] = (IF K(p) < m.used THEN m.buffer[p] ELSE {})
                        \cup (IF from <= K(p) /\ K(p) < upto THEN data[K(p) - from + 1] ELSE {})
    BY <2>2
  <2> HIDE DEF upto
  <2> QED
    BY <1>2, <2>2, <2>4, <2>5, <2>6, <2>7 DEF Written
<1>8. ASSUME len > before PROVE Written
  <2> DEFINE m1 == IF before > 0 THEN MixbMixWrite(m, s, SubSeq(data, 1, before)) ELSE m
             rest == SubSeq(data, before + 1, len)
             j == Least(Len(rest), Size - m1.used)
  <2>1. w = MixbCopy(m1, s, rest)
    BY <1>8 DEF MixbWrite, MixbFree, from, len
  <2>2. /\ m1 \in MixBuffer
        /\ m1.used = m.used /\ m1.write = m.write /\ m1.read = m.read
        /\ m1.streams = m.streams /\ m1.attached = m.attached
        /\ \A t \in Cpvt \ {s} : m1.stream[t] = m.stream[t]
        /\ \A p \in Slot : m1.buffer[p] =
             IF from <= K(p) /\ K(p) < m.used
             THEN m.buffer[p] \cup data[K(p) - from + 1] ELSE m.buffer[p]
    <3>1. CASE before > 0
      <4>1. before \in 0..len /\ from + before = m.used
        BY <1>0, <1>8
      <4>2. m1 = MixbMixWrite(m, s, SubSeq(data, 1, before))
        BY <3>1
      <4> HIDE DEF m1
      <4>3. /\ m1 \in MixBuffer
            /\ m1.used = m.used /\ m1.write = m.write /\ m1.read = m.read
            /\ m1.streams = m.streams /\ m1.attached = m.attached
            /\ \A t \in Cpvt \ {s} : m1.stream[t] = m.stream[t]
            /\ \A p \in Slot : m1.buffer[p] =
                  IF from <= K(p) /\ K(p) < from + before
                  THEN m.buffer[p] \cup data[K(p) - from + 1] ELSE m.buffer[p]
        BY <1>6, <4>1, <4>2
      <4> QED
        BY <4>1, <4>3, Parts
    <3>2. CASE ~(before > 0)
      <4>1. m1 = m
        BY <3>2
      <4>2. from = m.used
        BY <1>0, <3>2
      <4>3. \A p \in Slot : ~(from <= K(p) /\ K(p) < m.used)
        BY <1>0, <1>3, <4>2
      <4> QED
        BY <4>1, <4>3
    <3> QED
      BY <3>1, <3>2
  <2>3. /\ rest \in Frames /\ Len(rest) = len - before
        /\ \A i \in 1..(len - before) : rest[i] = data[before + i]
    <3>1. before + 1 \in Nat /\ before + 1 >= 1 /\ len \in Nat /\ before + 1 <= len
      BY <1>0, <1>8
    <3> HIDE DEF before
    <3>2. /\ rest \in Frames
          /\ Len(rest) = IF before + 1 <= len THEN len - (before + 1) + 1 ELSE 0
          /\ \A i \in 1..Len(rest) : rest[i] = data[before + 1 + i - 1]
      BY <1>0, <3>1, Begins
    <3> HIDE DEF rest
    <3>3. before \in Int
      BY <1>0
    <3>4. Len(rest) = len - before /\ \A i \in 1..(len - before) : before + 1 + i - 1 = before + i
      BY <3>1, <3>2, <3>3
    <3> QED
      BY <3>2, <3>4
  <2> HIDE DEF m1, rest
  <2>4. j = len - before /\ m.used + (len - before) = upto /\ len - before \in 0..(Size - m.used)
    <3>1. m.used + (len - before) = upto /\ len - before \in 0..(Size - m.used)
      BY <1>0, <1>8
    <3>2. j = Least(len - before, Size - m.used)
      BY <2>2, <2>3
    <3>3. \A a, b \in Int : a <= b => Least(a, b) = a
      BY DEF Least
    <3>4. len - before \in Int /\ Size - m.used \in Int /\ len - before <= Size - m.used
      BY <1>0, <3>1
    <3>5. j = len - before
      BY <3>2, <3>3, <3>4
    <3> QED
      BY <3>1, <3>5
  <2>5. /\ w \in MixBuffer
        /\ w.used = m1.used + j /\ w.write = Wrap(m1.write + j) /\ w.read = m1.read
        /\ w.streams = m1.streams /\ w.attached = m1.attached
        /\ w.stream[s].used = m1.used + j /\ w.stream[s].write = Wrap(m1.write + j)
        /\ \A t \in Cpvt \ {s} : w.stream[t] = m1.stream[t]
        /\ \A p \in Slot : w.buffer[p] =
             IF Distance(m1.write, p) >= j THEN m1.buffer[p]
             ELSE rest[Distance(m1.write, p) + 1]
    <3>1. s \in Cpvt
      BY <1>1
    <3>2. m1 \in MixBuffer /\ rest \in Frames
      BY <2>2, <2>3
    <3> QED
      BY <2>1, <3>1, <3>2, Copy, SMTT(60)
  <2> HIDE DEF w, j
  <2>6. /\ w.used = upto /\ w.write = Wrap(m.read + upto) /\ upto > m.used
        /\ Wrap(m1.write + j) = Wrap(m.read + upto)
    BY <1>0, <1>1, <1>5, <1>8, <2>2, <2>4, <2>5, SMTT(60)
  <2>7. \A t \in Cpvt :
          /\ w.stream[t].used = IF t = s THEN upto ELSE m.stream[t].used
          /\ w.stream[t].write = IF t = s THEN Wrap(m.read + upto) ELSE m.stream[t].write
    BY <1>1, <2>2, <2>5, <2>6, Parts
  <2>8. Aligned(w)
    <3>1. \A t \in m.streams : /\ t \in Cpvt /\ m.stream[t].used <= m.used
                               /\ m.stream[t].used \in Int
                               /\ m.stream[t].write = Wrap(m.read + m.stream[t].used)
      BY Parts DEF Aligned
    <3>2. m.used \in Int /\ upto \in Int
      BY <1>0
    <3> QED
      BY <2>2, <2>5, <2>6, <2>7, <3>1, <3>2 DEF Aligned
  <2>9. ASSUME NEW p \in Slot, K(p) < w.used
        PROVE  w.buffer[p] = (IF K(p) < m.used THEN m.buffer[p] ELSE {})
                        \cup (IF from <= K(p) /\ K(p) < upto THEN data[K(p) - from + 1] ELSE {})
    <3> DEFINE e == Distance(m.write, p)
               k == K(p)
    <3>1. /\ k \in 0..(Size - 1) /\ k < upto
          /\ e = IF k >= m.used THEN k - m.used ELSE k - m.used + Size
      BY <1>3, <2>6, <2>9
    <3>2. w.buffer[p] = IF e >= len - before THEN m1.buffer[p] ELSE rest[e + 1]
      BY <2>2, <2>4, <2>5
    <3>3. m1.buffer[p] = IF from <= k /\ k < m.used
                         THEN m.buffer[p] \cup data[k - from + 1] ELSE m.buffer[p]
      BY <2>2
    <3> HIDE DEF e, k
    <3>4. CASE k < m.used
      <4>1. e >= len - before
        BY <1>0, <3>1, <3>4, SMTT(60)
      <4> QED
        BY <3>1, <3>2, <3>3, <3>4, <4>1 DEF k
    <3>5. CASE ~(k < m.used)
      <4>0. k \in Nat /\ e = k - m.used /\ e \in Nat /\ k < from + len
        BY <1>0, <3>1, <3>5
      <4>1. ~(e >= len - before) /\ from <= k
        BY <1>0, <3>5, <4>0
      <4>3. before + (e + 1) = k - from + 1
        <5> HIDE DEF upto
        <5>1. \A a, b, c \in Int : (a - b) + ((c - a) + 1) = c - b + 1
          OBVIOUS
        <5>2. m.used \in Int /\ from \in Int /\ k \in Int
          BY <1>0, <4>0
        <5> QED
          BY <4>0, <5>1, <5>2
      <4>4. e + 1 \in 1..(len - before)
        BY <1>0, <4>0, <4>1, SMTT(60)
      <4>2. rest[e + 1] = data[k - from + 1]
        BY <2>3, <4>3, <4>4
      <4> QED
        BY <3>1, <3>2, <3>5, <4>1, <4>2 DEF k
    <3> QED
      BY <3>4, <3>5
  <2>10. w.read = m.read /\ w.streams = m.streams /\ w.attached = m.attached
    BY <2>2, <2>5
  <2>11. w.used = IF upto > m.used THEN upto ELSE m.used
    BY <2>6
  <2> HIDE DEF upto
  <2> QED
    BY <1>2, <2>5, <2>7, <2>8, <2>9, <2>10, <2>11 DEF Written
<1>9. len <= before \/ len > before
  BY <1>0
<1> QED
  BY <1>7, <1>8, <1>9 DEF Written, from, len, K

-----------------------------------------------------------------------------
(* Attaching and detaching leave what is to be played alone.  *)
LEMMA Attach ==
  ASSUME NEW m \in MixBuffer, Aligned(m), NEW s \in Cpvt
  PROVE  LET d == MixbAttach(m, s)
         IN  /\ d \in MixBuffer /\ Aligned(d)
             /\ d.streams = m.streams \cup {s} /\ d.attached = m.attached + 1
             /\ d.used = m.used /\ d.read = m.read /\ d.buffer = m.buffer
             /\ d.stream[s].used = 0
             /\ \A t \in Cpvt \ {s} : d.stream[t] = m.stream[t]
<1> DEFINE st == [m.stream EXCEPT ![s] = [used |-> 0, write |-> m.read]]
           d == MixbAttach(m, s)
<1>1. d = [m EXCEPT !.streams = m.streams \cup {s}, !.attached = m.attached + 1,
                    !.stream = st]
  BY DEF MixbAttach
<1>2. st \in [Cpvt -> [used : 0..Size, write : Slot]]
  BY Parts, MixBufferAssumption
<1>3. /\ st[s].used = 0 /\ st[s].write = m.read
      /\ \A t \in Cpvt \ {s} : st[t] = m.stream[t]
  BY Parts
<1> HIDE DEF st
<1> DEFINE on == m.streams \cup {s}
           k == m.attached + 1
<1>4. on \in SUBSET Cpvt /\ k \in Int
  BY Parts
<1> HIDE DEF on, k
<1>5. d = [m EXCEPT !.streams = on, !.attached = k, !.stream = st]
  BY <1>1 DEF on, k
<1>6. /\ d \in MixBuffer
      /\ d.streams = on /\ d.attached = k /\ d.stream = st
      /\ d.used = m.used /\ d.read = m.read /\ d.write = m.write /\ d.buffer = m.buffer
  BY <1>2, <1>4, <1>5 DEF MixBuffer
<1>7. /\ d \in MixBuffer
      /\ d.streams = m.streams \cup {s} /\ d.attached = m.attached + 1 /\ d.stream = st
      /\ d.used = m.used /\ d.read = m.read /\ d.write = m.write /\ d.buffer = m.buffer
  BY <1>6 DEF on, k
<1>8. m.read = Wrap(m.read + 0) /\ 0 <= m.used
  BY Parts, MixBufferAssumption DEF Wrap, Slot
<1>9. Aligned(d)
  BY <1>3, <1>7, <1>8, Parts DEF Aligned
<1> QED
  BY <1>3, <1>7, <1>9

(* Taking streams from the list leaves all positions as they are.            *)
LEMMA Detach ==
  ASSUME NEW m \in MixBuffer, Aligned(m), NEW on \in SUBSET m.streams,
         NEW d \in MixBuffer, d.streams = on, d.stream = m.stream,
         d.used = m.used, d.read = m.read, d.write = m.write
  PROVE  Aligned(d)
BY DEF Aligned

-----------------------------------------------------------------------------
(* What becoming the master, or losing the sound, changes in the calls.      *)
LEMMA Activation ==
  ASSUME NEW calls \in [Cpvt -> Call], NEW c \in Cpvt
  PROVE  LET a == Activate(calls, c)
         IN  /\ a \in [Cpvt -> Call]
             /\ \A d \in Cpvt : a[d].channel = calls[d].channel /\ a[d].state = calls[d].state
             /\ calls[c].master => a = calls
             /\ ~calls[c].master =>
                  /\ a[c].activated /\ a[c].master /\ a[c].fd0 = "audio" /\ a[c].fd1 = "timer"
                  /\ \A d \in Cpvt \ {c} : /\ a[d].activated = calls[d].activated
                                            /\ ~a[d].master /\ a[d].fd1 = "none"
BY ZenonT(60) DEF Activate, Call

LEMMA Disactivation ==
  ASSUME NEW calls \in [Cpvt -> Call], NEW c \in Cpvt
  PROVE  LET a == Disactivate(calls, c)
         IN  /\ a \in [Cpvt -> Call]
             /\ \A d \in Cpvt : a[d].channel = calls[d].channel /\ a[d].state = calls[d].state
             /\ ~Disactivates(calls, c) => a = calls
             /\ Disactivates(calls, c) =>
                  /\ ~a[c].activated /\ ~a[c].master /\ a[c].fd0 = "none" /\ a[c].fd1 = "none"
                  /\ \A d \in Cpvt \ {c} : a[d] = calls[d]
BY DEF Disactivate, Disactivates, Call

(* The inductive invariant: the master and the streams depend on each other, *)
(* and a frame is only written where the positions agree for the writer.     *)
IInv ==
  /\ TypeOK /\ PositionsAgree /\ OneMaster /\ StreamsFollowCalls
  /\ \A c \in Cpvt : cpvt[c].state = "none" => ~cpvt[c].channel

(* The count of the attached streams when one of them comes or goes.  *)
LEMMA StreamCount ==
  ASSUME NEW S \in SUBSET Cpvt, NEW c \in Cpvt
  PROVE  /\ Cardinality(S) \in Nat
         /\ c \notin S => Cardinality(S \cup {c}) = Cardinality(S) + 1
         /\ c \in S => Cardinality(S \ {c}) = Cardinality(S) - 1
         /\ Cardinality({}) = 0
BY MixBufferAssumption, FS_Subset, FS_CardinalityType, FS_AddElement, FS_RemoveElement, FS_EmptySet

LEMMA InitIInv == Init => IInv
<1> SUFFICES ASSUME Init PROVE IInv
  OBVIOUS
<1>1. TypeOK /\ PositionsAgree
  BY InitAligned DEF Init, TypeOK, PositionsAgree, NoCall, Call, CallState
<1>2. OneMaster
  BY DEF Init, OneMaster, NoCall
<1>3. StreamsFollowCalls
  <2>1. \A c \in Cpvt : ~cpvt[c].activated /\ ~cpvt[c].channel
    BY DEF Init, NoCall
  <2>2. mixb.streams = {} /\ mixb.attached = 0
    BY DEF Init, MixbInit
  <2>3. { c \in Cpvt : cpvt[c].activated } = {}
    BY <2>1
  <2> QED
    BY <2>1, <2>2, <2>3, FS_EmptySet DEF StreamsFollowCalls
<1>4. \A c \in Cpvt : ~cpvt[c].channel
  BY DEF Init, NoCall
<1> QED
  BY <1>1, <1>2, <1>3, <1>4 DEF IInv

-----------------------------------------------------------------------------
(* The steps, one by one.  *)
LEMMA BeginKeeps ==
  ASSUME IInv, NEW c \in Cpvt, NEW state \in {"init", "incoming", "waiting"}, Begin(c, state)
  PROVE  IInv'
<1>1. /\ cpvt \in [Cpvt -> Call] /\ mixb \in MixBuffer /\ Aligned(mixb)
      /\ ~cpvt[c].channel /\ ~cpvt[c].activated
  BY DEF IInv, TypeOK, PositionsAgree, Begin, Chans, StreamsFollowCalls
<1>2. /\ cpvt' \in [Cpvt -> Call]
      /\ cpvt'[c] = [NoCall EXCEPT !.state = state, !.channel = TRUE]
      /\ \A d \in Cpvt \ {c} : cpvt'[d] = cpvt[d]
  BY <1>1 DEF Begin, Call, CallState, NoCall
<1>3. /\ ~cpvt'[c].activated /\ ~cpvt'[c].master /\ cpvt'[c].fd1 = "none"
      /\ cpvt'[c].state = state /\ cpvt'[c].channel
  BY <1>2 DEF NoCall
<1>4. /\ mixb' \in MixBuffer /\ Aligned(mixb')
      /\ mixb'.streams = { d \in Cpvt : cpvt'[d].activated }
      /\ mixb'.attached = Cardinality(mixb'.streams)
  <2>1. CASE Chans = {}
    <3>1. \A d \in Cpvt : ~cpvt'[d].activated
      BY <1>2, <1>3, <2>1 DEF IInv, StreamsFollowCalls, Chans
    <3>2. mixb' = MixbInit
      BY <2>1 DEF Begin
    <3>3. mixb'.streams = {} /\ mixb'.attached = 0
      BY <3>2 DEF MixbInit
    <3> QED
      BY <3>1, <3>2, <3>3, InitAligned, StreamCount
  <2>2. CASE Chans # {}
    BY <1>1, <1>2, <1>3, <2>2 DEF Begin, IInv, StreamsFollowCalls
  <2> QED
    BY <2>1, <2>2
<1>5. OneMaster'
  <2>1. \A d \in Cpvt \ {c} :
          /\ cpvt'[d].master = cpvt[d].master /\ cpvt'[d].activated = cpvt[d].activated
          /\ cpvt'[d].channel = cpvt[d].channel
          /\ cpvt'[d].fd0 = cpvt[d].fd0 /\ cpvt'[d].fd1 = cpvt[d].fd1
    BY <1>2
  <2> QED
    BY <1>3, <2>1 DEF IInv, OneMaster
<1>6. StreamsFollowCalls'
  BY <1>2, <1>3, <1>4 DEF IInv, StreamsFollowCalls, SoundSource
<1> QED
  BY <1>2, <1>3, <1>4, <1>5, <1>6 DEF IInv, TypeOK, PositionsAgree

LEMMA SoundingKeeps ==
  ASSUME IInv, NEW c \in Cpvt, NEW state \in CallState, Sounding(c, state)
  PROVE  IInv'
<1> DEFINE calls == [cpvt EXCEPT ![c].state = state]
<1>1. /\ cpvt \in [Cpvt -> Call] /\ mixb \in MixBuffer /\ Aligned(mixb)
      /\ cpvt[c].channel /\ state \in SoundSource
  BY DEF IInv, TypeOK, PositionsAgree, Sounding
<1>2. /\ calls \in [Cpvt -> Call]
      /\ \A d \in Cpvt : /\ calls[d].channel = cpvt[d].channel
                         /\ calls[d].activated = cpvt[d].activated
                         /\ calls[d].master = cpvt[d].master
                         /\ calls[d].fd0 = cpvt[d].fd0 /\ calls[d].fd1 = cpvt[d].fd1
                         /\ calls[d].state = IF d = c THEN state ELSE cpvt[d].state
  BY <1>1 DEF Call
<1>3. cpvt' = Activate(calls, c) /\ mixb' = AttachFor(calls, c)
  BY DEF Sounding
<1> HIDE DEF calls
<1>4. CASE cpvt[c].master
  <2>1. cpvt' = calls /\ mixb' = mixb
    BY <1>2, <1>3, <1>4, Activation DEF AttachFor
  <2>2. TypeOK' /\ PositionsAgree'
    BY <1>1, <1>2, <2>1 DEF TypeOK, PositionsAgree
  <2>3. OneMaster'
    BY <1>2, <2>1 DEF IInv, OneMaster
  <2>4. StreamsFollowCalls'
    BY <1>2, <1>4, <2>1 DEF IInv, StreamsFollowCalls, OneMaster
  <2> QED
    BY <1>1, <1>2, <2>1, <2>2, <2>3, <2>4 DEF IInv, SoundSource
<1>5. CASE ~cpvt[c].master
  <2>1. /\ cpvt' \in [Cpvt -> Call]
        /\ \A d \in Cpvt : cpvt'[d].channel = cpvt[d].channel
                           /\ cpvt'[d].state = IF d = c THEN state ELSE cpvt[d].state
        /\ cpvt'[c].activated /\ cpvt'[c].master
        /\ cpvt'[c].fd0 = "audio" /\ cpvt'[c].fd1 = "timer"
        /\ \A d \in Cpvt \ {c} : /\ cpvt'[d].activated = cpvt[d].activated
                                  /\ ~cpvt'[d].master /\ cpvt'[d].fd1 = "none"
    BY <1>2, <1>3, <1>5, Activation
  <2>2. /\ mixb' \in MixBuffer /\ Aligned(mixb')
        /\ mixb'.streams = { d \in Cpvt : cpvt'[d].activated }
        /\ mixb'.attached = Cardinality(mixb'.streams)
    <3>1. CASE cpvt[c].activated
      BY <1>1, <1>2, <1>3, <2>1, <3>1 DEF AttachFor, IInv, StreamsFollowCalls
    <3>2. CASE ~cpvt[c].activated
      <4>1. mixb' = MixbAttach(mixb, c)
        BY <1>2, <1>3, <1>5, <3>2 DEF AttachFor
      <4>2. /\ mixb.streams = { d \in Cpvt : cpvt[d].activated }
            /\ mixb.attached = Cardinality(mixb.streams)
        BY DEF IInv, StreamsFollowCalls
      <4>3. /\ mixb' \in MixBuffer /\ Aligned(mixb')
            /\ mixb'.streams = mixb.streams \cup {c} /\ mixb'.attached = mixb.attached + 1
        BY <1>1, <4>1, Attach
      <4>4. Cardinality(mixb.streams \cup {c}) = Cardinality(mixb.streams) + 1
        BY <3>2, <4>2, StreamCount
      <4> QED
        BY <2>1, <4>2, <4>3, <4>4
    <3> QED
      BY <3>1, <3>2
  <2>3. OneMaster'
    BY <1>1, <2>1 DEF OneMaster
  <2>4. StreamsFollowCalls'
    BY <1>1, <2>1, <2>2 DEF IInv, StreamsFollowCalls
  <2> QED
    BY <1>1, <2>1, <2>2, <2>3, <2>4 DEF IInv, TypeOK, PositionsAgree, SoundSource
<1> QED
  BY <1>4, <1>5

(* Steps after which a call that had no sound, or has lost it, is as before  *)
(* but for its state and its channel, and all others are as before.          *)
LEMMA QuietCall ==
  ASSUME IInv, NEW c \in Cpvt, ~cpvt[c].activated \/ ~cpvt'[c].activated,
         cpvt' \in [Cpvt -> Call],
         \A d \in Cpvt \ {c} : cpvt'[d] = cpvt[d],
         ~cpvt'[c].activated, ~cpvt'[c].master, cpvt'[c].fd1 = "none",
         cpvt'[c].state = "none" => ~cpvt'[c].channel,
         cpvt'[c].state \in SoundSource => ~cpvt'[c].channel,
         mixb' = IF cpvt[c].activated THEN MixbDetach(mixb, c) ELSE mixb
  PROVE  IInv'
<1>1. /\ mixb \in MixBuffer /\ Aligned(mixb)
      /\ mixb.streams = { d \in Cpvt : cpvt[d].activated }
      /\ mixb.attached = Cardinality(mixb.streams)
  BY DEF IInv, TypeOK, PositionsAgree, StreamsFollowCalls
<1>2. \A d \in Cpvt \ {c} :
        /\ cpvt'[d].master = cpvt[d].master /\ cpvt'[d].activated = cpvt[d].activated
        /\ cpvt'[d].channel = cpvt[d].channel /\ cpvt'[d].state = cpvt[d].state
        /\ cpvt'[d].fd0 = cpvt[d].fd0 /\ cpvt'[d].fd1 = cpvt[d].fd1
  OBVIOUS
<1>3. /\ mixb' \in MixBuffer /\ Aligned(mixb')
      /\ mixb'.streams = { d \in Cpvt : cpvt'[d].activated }
      /\ mixb'.attached = Cardinality(mixb'.streams)
  <2>1. CASE ~cpvt[c].activated
    BY <1>1, <1>2, <2>1
  <2>2. CASE cpvt[c].activated
    <3>1. /\ mixb' \in MixBuffer /\ Aligned(mixb')
          /\ mixb'.streams = mixb.streams \ {c} /\ mixb'.attached = mixb.attached - 1
      <4> DEFINE on == mixb.streams \ {c}
                 n  == mixb.attached - 1
      <4>1. on \in SUBSET mixb.streams /\ n \in Int
        BY <1>1, Parts
      <4>2. mixb' = [mixb EXCEPT !.streams = on, !.attached = n]
        BY <2>2 DEF MixbDetach
      <4> HIDE DEF on, n
      <4>3. mixb' \in MixBuffer /\ Aligned(mixb') /\ mixb'.streams = on /\ mixb'.attached = n
        <5>1. /\ mixb' \in MixBuffer /\ mixb'.streams = on /\ mixb'.attached = n
              /\ mixb'.stream = mixb.stream /\ mixb'.used = mixb.used
              /\ mixb'.read = mixb.read /\ mixb'.write = mixb.write
          BY <1>1, <4>1, <4>2 DEF MixBuffer
        <5> QED
          BY <1>1, <4>1, <5>1, Detach
      <4> QED
        BY <4>3 DEF on, n
    <3>2. c \in mixb.streams /\ mixb.streams \in SUBSET Cpvt
      BY <1>1, <2>2
    <3>3. Cardinality(mixb.streams \ {c}) = Cardinality(mixb.streams) - 1
      BY <3>2, StreamCount
    <3> QED
      BY <1>1, <1>2, <3>1, <3>3
  <2> QED
    BY <2>1, <2>2
<1>4. OneMaster'
  BY <1>2 DEF IInv, OneMaster
<1>5. StreamsFollowCalls'
  BY <1>2, <1>3 DEF IInv, StreamsFollowCalls
<1> QED
  BY <1>2, <1>3, <1>4, <1>5 DEF IInv, TypeOK, PositionsAgree

LEMMA HoldingKeeps ==
  ASSUME IInv, NEW c \in Cpvt, Holding(c)
  PROVE  IInv'
<1> DEFINE calls == [cpvt EXCEPT ![c].state = "held"]
<1>1. /\ cpvt \in [Cpvt -> Call] /\ cpvt[c].channel
      /\ cpvt' = Disactivate(calls, c) /\ mixb' = DetachFor(calls, c)
  BY DEF IInv, TypeOK, Holding
<1>2. /\ calls \in [Cpvt -> Call]
      /\ \A d \in Cpvt \ {c} : calls[d] = cpvt[d]
      /\ calls[c].state = "held" /\ calls[c].channel = cpvt[c].channel
      /\ calls[c].activated = cpvt[c].activated /\ calls[c].master = cpvt[c].master
      /\ calls[c].fd1 = cpvt[c].fd1
  BY <1>1 DEF Call, CallState
<1> HIDE DEF calls
<1>3. Disactivates(calls, c) <=> cpvt[c].activated
  BY <1>1, <1>2 DEF Disactivates
<1>4. cpvt[c].fd1 = "none" \/ cpvt[c].master
  BY <1>1 DEF IInv, OneMaster, Call
<1>5. ~cpvt[c].activated => ~cpvt[c].master
  BY DEF IInv, OneMaster
<1>6. /\ cpvt' \in [Cpvt -> Call] /\ cpvt'[c].state = "held"
      /\ \A d \in Cpvt \ {c} : cpvt'[d] = cpvt[d]
      /\ ~cpvt'[c].activated /\ ~cpvt'[c].master /\ cpvt'[c].fd1 = "none"
  BY <1>1, <1>2, <1>3, <1>4, <1>5, Disactivation
<1>7. mixb' = IF cpvt[c].activated THEN MixbDetach(mixb, c) ELSE mixb
  BY <1>1, <1>3 DEF DetachFor
<1> QED
  BY <1>6, <1>7, QuietCall DEF SoundSource

LEMMA ReleasedKeeps ==
  ASSUME IInv, NEW c \in Cpvt, Released(c)
  PROVE  IInv'
<1>1. cpvt \in [Cpvt -> Call] /\ cpvt' = [cpvt EXCEPT ![c] = NoCall]
  BY DEF IInv, TypeOK, Released
<1>2. NoCall \in Call /\ cpvt' \in [Cpvt -> Call] /\ cpvt'[c] = NoCall
  BY <1>1 DEF NoCall, Call, CallState
<1>3. mixb' = IF cpvt[c].activated THEN MixbDetach(mixb, c) ELSE mixb
  BY DEF Released, DetachFor, Disactivates, IInv, StreamsFollowCalls
<1> QED
  BY <1>1, <1>2, <1>3, QuietCall DEF NoCall, SoundSource

LEMMA HangupKeeps ==
  ASSUME IInv, NEW c \in Cpvt, Hangup(c)
  PROVE  IInv'
<1> DEFINE calls == Disactivate(cpvt, c)
<1>1. /\ cpvt \in [Cpvt -> Call] /\ cpvt[c].channel
      /\ cpvt' = [calls EXCEPT ![c].channel = FALSE, ![c].fd0 = "none"]
      /\ mixb' = DetachFor(cpvt, c)
  BY DEF IInv, TypeOK, Hangup
<1>2. Disactivates(cpvt, c) <=> cpvt[c].activated
  BY <1>1 DEF Disactivates
<1>3. cpvt[c].fd1 = "none" \/ cpvt[c].master
  BY <1>1 DEF IInv, OneMaster, Call
<1>4. ~cpvt[c].activated => ~cpvt[c].master
  BY DEF IInv, OneMaster
<1>5. /\ calls \in [Cpvt -> Call]
      /\ \A d \in Cpvt \ {c} : calls[d] = cpvt[d]
      /\ ~calls[c].activated /\ ~calls[c].master /\ calls[c].fd1 = "none"
  BY <1>1, <1>2, <1>3, <1>4, Disactivation
<1> HIDE DEF calls
<1>6. /\ cpvt' \in [Cpvt -> Call] /\ ~cpvt'[c].channel
      /\ \A d \in Cpvt \ {c} : cpvt'[d] = cpvt[d]
      /\ ~cpvt'[c].activated /\ ~cpvt'[c].master /\ cpvt'[c].fd1 = "none"
  <2> DEFINE left == [calls EXCEPT ![c].channel = FALSE]
  <2>1. /\ left \in [Cpvt -> Call] /\ ~left[c].channel
        /\ \A d \in Cpvt \ {c} : left[d] = calls[d]
        /\ ~left[c].activated /\ ~left[c].master /\ left[c].fd1 = "none"
    BY <1>5 DEF Call
  <2>2. cpvt' = [left EXCEPT ![c].fd0 = "none"]
    BY <1>1
  <2> HIDE DEF left
  <2>3. /\ cpvt' \in [Cpvt -> Call] /\ ~cpvt'[c].channel
        /\ \A d \in Cpvt \ {c} : cpvt'[d] = left[d]
        /\ ~cpvt'[c].activated /\ ~cpvt'[c].master /\ cpvt'[c].fd1 = "none"
    BY <2>1, <2>2 DEF Call
  <2> QED
    BY <1>5, <2>1, <2>3
<1>7. mixb' = IF cpvt[c].activated THEN MixbDetach(mixb, c) ELSE mixb
  BY <1>1, <1>2 DEF DetachFor
<1> QED
  BY <1>6, <1>7, QuietCall

LEMMA FollowingKeeps ==
  ASSUME IInv, NEW c \in Cpvt, NEW state \in CallState, Following(c, state)
  PROVE  IInv'
<1>1. /\ cpvt \in [Cpvt -> Call] /\ cpvt' = [cpvt EXCEPT ![c].state = state]
      /\ mixb' = mixb /\ state # "none"
      /\ ~cpvt[c].channel \/ state = "incoming"
  BY DEF IInv, TypeOK, Following
<1>2. /\ cpvt' \in [Cpvt -> Call]
      /\ \A d \in Cpvt : /\ cpvt'[d].channel = cpvt[d].channel
                         /\ cpvt'[d].activated = cpvt[d].activated
                         /\ cpvt'[d].master = cpvt[d].master
                         /\ cpvt'[d].fd0 = cpvt[d].fd0 /\ cpvt'[d].fd1 = cpvt[d].fd1
                         /\ cpvt'[d].state = IF d = c THEN state ELSE cpvt[d].state
  BY <1>1 DEF Call
<1>3. OneMaster'
  BY <1>2 DEF IInv, OneMaster
<1>4. StreamsFollowCalls'
  <2>1. { d \in Cpvt : cpvt'[d].activated } = { d \in Cpvt : cpvt[d].activated }
    BY <1>2
  <2>2. mixb'.streams = { d \in Cpvt : cpvt'[d].activated }
        /\ mixb'.attached = Cardinality(mixb'.streams)
    BY <1>1, <2>1 DEF IInv, StreamsFollowCalls
  <2>3. \A d \in Cpvt : cpvt'[d].channel /\ cpvt'[d].state \in SoundSource
                          => cpvt'[d].activated
    BY <1>1, <1>2 DEF IInv, StreamsFollowCalls, SoundSource
  <2>4. \A d \in Cpvt : cpvt'[d].activated => cpvt'[d].channel
    BY <1>2 DEF IInv, StreamsFollowCalls
  <2> QED
    BY <2>2, <2>3, <2>4 DEF StreamsFollowCalls
<1>5. \A d \in Cpvt : cpvt'[d].state = "none" => ~cpvt'[d].channel
  BY <1>1, <1>2 DEF IInv
<1>6. TypeOK' /\ PositionsAgree'
  BY <1>1, <1>2 DEF IInv, TypeOK, PositionsAgree
<1> QED
  BY <1>3, <1>4, <1>5, <1>6 DEF IInv

LEMMA DisconnectKeeps ==
  ASSUME IInv, Disconnect
  PROVE  IInv'
<1> DEFINE gone == { c \in Cpvt : Disactivates(cpvt, c) }
<1>1. /\ mixb \in MixBuffer /\ Aligned(mixb) /\ gone = mixb.streams
      /\ mixb.attached = Cardinality(mixb.streams)
  BY DEF IInv, TypeOK, PositionsAgree, StreamsFollowCalls, Disactivates
<1>2. /\ cpvt' = [c \in Cpvt |-> NoCall]
      /\ mixb' = [mixb EXCEPT !.streams = mixb.streams \ gone,
                               !.attached = mixb.attached - Cardinality(gone)]
  BY DEF Disconnect
<1>3. gone \in SUBSET Cpvt /\ Cardinality(gone) \in Int
  BY <1>1, Parts, StreamCount
<1> HIDE DEF gone
<1>4. /\ mixb' \in MixBuffer /\ Aligned(mixb')
      /\ mixb'.streams = {} /\ mixb'.attached = 0
  <2> DEFINE on == mixb.streams \ gone
             n  == mixb.attached - Cardinality(gone)
  <2>1. on = {} /\ n = 0
    BY <1>1, <1>3
  <2>2. mixb' = [mixb EXCEPT !.streams = on, !.attached = n]
    BY <1>2
  <2> HIDE DEF on, n
  <2>3. on \in SUBSET mixb.streams /\ n \in Int
    BY <2>1
  <2>4. mixb' \in MixBuffer /\ Aligned(mixb') /\ mixb'.streams = on /\ mixb'.attached = n
    <3>1. /\ mixb' \in MixBuffer /\ mixb'.streams = on /\ mixb'.attached = n
          /\ mixb'.stream = mixb.stream /\ mixb'.used = mixb.used
          /\ mixb'.read = mixb.read /\ mixb'.write = mixb.write
      BY <1>1, <2>2, <2>3 DEF MixBuffer
    <3> QED
      BY <1>1, <2>3, <3>1, Detach
  <2> QED
    BY <2>1, <2>4
<1>5. /\ NoCall \in Call
      /\ \A c \in Cpvt : /\ ~cpvt'[c].activated /\ ~cpvt'[c].channel
                         /\ ~cpvt'[c].master /\ cpvt'[c].fd1 = "none"
  BY <1>2 DEF NoCall, Call, CallState
<1>6. StreamsFollowCalls' /\ OneMaster'
  <2>1. { c \in Cpvt : cpvt'[c].activated } = {}
    BY <1>5
  <2>2. StreamsFollowCalls'
    BY <1>4, <1>5, <2>1, FS_EmptySet DEF StreamsFollowCalls
  <2>3. OneMaster'
    BY <1>5 DEF OneMaster
  <2> QED
    BY <2>2, <2>3
<1> QED
  BY <1>2, <1>4, <1>5, <1>6 DEF IInv, TypeOK, PositionsAgree

(* A step that only changes the mix buffer, with the streams attached to it  *)
(* as they are.                                                              *)
LEMMA OnlyMixes ==
  ASSUME IInv, cpvt' = cpvt, mixb' \in MixBuffer, Aligned(mixb'),
         mixb'.streams = mixb.streams, mixb'.attached = mixb.attached
  PROVE  IInv'
<1>1. TypeOK' /\ PositionsAgree'
  BY DEF IInv, TypeOK, PositionsAgree
<1>2. OneMaster'
  BY DEF IInv, OneMaster
<1>3. StreamsFollowCalls'
  BY DEF IInv, StreamsFollowCalls
<1> QED
  BY <1>1, <1>2, <1>3 DEF IInv

LEMMA WriteKeeps ==
  ASSUME IInv, NEW c \in Cpvt, NEW n \in FrameLens, Write(c, Frame(c, n))
  PROVE  IInv'
<1> DEFINE data == Frame(c, n)
           free == MixbFree(mixb, c)
           room == IF free < Len(data) THEN MixbReadUpd(mixb, Len(data) - free) ELSE mixb
<1>1. /\ mixb \in MixBuffer /\ Aligned(mixb) /\ c \in mixb.streams /\ data \in Frames
      /\ cpvt' = cpvt /\ mixb' = MixbWrite(room, c, data)
  BY CallAudioAssumption
     DEF IInv, TypeOK, PositionsAgree, StreamsFollowCalls, Write, SoundSource, Frames
<1> HIDE DEF data
<1>2. /\ room \in MixBuffer /\ Aligned(room)
      /\ room.streams = mixb.streams /\ room.attached = mixb.attached
  <2>1. CASE free < Len(data)
    <3>1. free \in Int /\ Len(data) \in Nat
      BY <1>1, Parts, MixBufferAssumption DEF MixbFree, Frames
    <3>2. Len(data) - free \in Nat
      BY <2>1, <3>1
    <3> QED
      BY <1>1, <2>1, <3>2, ReadKeepsAligned
  <2>2. CASE ~(free < Len(data))
    BY <1>1, <2>2
  <2> QED
    BY <2>1, <2>2
<1> HIDE DEF room
<1>3. /\ mixb' \in MixBuffer /\ Aligned(mixb')
      /\ mixb'.streams = room.streams /\ mixb'.attached = room.attached
  BY <1>1, <1>2, WriteMixes
<1> QED
  BY <1>1, <1>2, <1>3, OnlyMixes

LEMMA TimingKeeps ==
  ASSUME IInv, NEW c \in Cpvt, Timing(c)
  PROVE  IInv'
<1> DEFINE n == Least(FrameSize, mixb.used)
<1>1. /\ mixb \in MixBuffer /\ Aligned(mixb)
      /\ cpvt' = cpvt /\ mixb' = MixbReadUpd(mixb, n)
  BY DEF IInv, TypeOK, PositionsAgree, Timing
<1>2. n \in Nat
  BY <1>1, Parts, CallAudioAssumption DEF Least
<1> HIDE DEF n
<1>3. /\ mixb' \in MixBuffer /\ Aligned(mixb')
      /\ mixb'.streams = mixb.streams /\ mixb'.attached = mixb.attached
  BY <1>1, <1>2, ReadKeepsAligned
<1> QED
  BY <1>1, <1>3, OnlyMixes

LEMMA StepKeeps == IInv /\ [Next]_vars => IInv'
<1> SUFFICES ASSUME IInv, [Next]_vars PROVE IInv'
  OBVIOUS
<1>1. ASSUME NEW c \in Cpvt, Step(c) PROVE IInv'
  <2>1. CASE \E state \in {"init", "incoming", "waiting"} : Begin(c, state)
    BY <2>1, BeginKeeps
  <2>2. CASE \E state \in CallState : Sounding(c, state) \/ Following(c, state)
    BY <2>2, SoundingKeeps, FollowingKeeps
  <2>3. CASE Holding(c)
    BY <2>3, HoldingKeeps
  <2>4. CASE Released(c)
    BY <2>4, ReleasedKeeps
  <2>5. CASE Hangup(c)
    BY <2>5, HangupKeeps
  <2>6. CASE \E n \in FrameLens : Write(c, Frame(c, n))
    BY <2>6, WriteKeeps
  <2>7. CASE Timing(c)
    BY <2>7, TimingKeeps
  <2> QED
    BY <1>1, <2>1, <2>2, <2>3, <2>4, <2>5, <2>6, <2>7 DEF Step
<1>2. CASE Disconnect
  BY <1>2, DisconnectKeeps
<1>3. CASE UNCHANGED vars
  BY <1>3 DEF vars, IInv, TypeOK, PositionsAgree, OneMaster, StreamsFollowCalls
<1> QED
  BY <1>1, <1>2, <1>3 DEF Next

-----------------------------------------------------------------------------
(* In every reachable state of the calls and the mix buffer, for any size of *)
(* the buffer and frames of any length, the invariant holds.                 *)
THEOREM AudioInvariant == Spec => []IInv
<1>1. Init => IInv
  BY InitIInv
<1>2. IInv /\ [Next]_vars => IInv'
  BY StepKeeps
<1> QED
  BY <1>1, <1>2, PTL DEF Spec

(* Every call and the mix buffer keep their type: no position of the ring    *)
(* leaves it, and no fill level exceeds its size.                            *)
THEOREM AudioTypes == Spec => []TypeOK
<1>1. IInv => TypeOK
  BY DEF IInv
<1> QED
  BY <1>1, AudioInvariant, PTL

(* mixb_write finds every stream's write position its fill level ahead of    *)
(* the read position of the ring, whatever was written, read, overwritten,   *)
(* attached or detached before.                                              *)
THEOREM PositionsAlwaysAgree == Spec => []PositionsAgree
<1>1. IInv => PositionsAgree
  BY DEF IInv
<1> QED
  BY <1>1, AudioInvariant, PTL

(* However calls are activated and disactivated, at most one of them is the  *)
(* master, and only its channel waits for the timer.                         *)
THEOREM OneMasterAlways == Spec => []OneMaster
<1>1. IInv => OneMaster
  BY DEF IInv
<1> QED
  BY <1>1, AudioInvariant, PTL

(* mixb_attach and mixb_detach keep step with the activated flag: the list   *)
(* of streams never holds a released call and its count is the number of     *)
(* its streams.                                                              *)
THEOREM StreamsAlwaysFollow == Spec => []StreamsFollowCalls
<1>1. IInv => StreamsFollowCalls
  BY DEF IInv
<1> QED
  BY <1>1, AudioInvariant, PTL

-----------------------------------------------------------------------------
(* The mixing of a device's calls implements Mixer, for a ring of any size,  *)
(* any number of calls and frames of any length.                             *)

(* The contents of the ring as a sequence.                                   *)
LEMMA SlotAt ==
  ASSUME NEW r \in Slot, NEW i \in 0..(Size - 1)
  PROVE  Wrap(r + i) \in Slot /\ Distance(r, Wrap(r + i)) = i
BY MixBufferAssumption DEF Wrap, Distance, Slot

LEMMA Contents ==
  ASSUME NEW m \in MixBuffer
  PROVE  /\ MixbContents(m) \in Seq(Mixed) /\ Len(MixbContents(m)) = m.used
         /\ DOMAIN MixbContents(m) = 1..m.used
         /\ \A i \in 1..m.used : MixbContents(m)[i] = m.buffer[Wrap(m.read + (i - 1))]
<1> DEFINE line == MixbContents(m)
<1>1. /\ m.used \in Nat /\ m.read \in Slot /\ m.buffer \in [Slot -> Mixed]
      /\ \A i \in 1..m.used : i - 1 \in 0..(Size - 1) /\ m.read + i - 1 = m.read + (i - 1)
  BY Parts, MixBufferAssumption DEF Slot
<1>2. \A i \in 1..m.used : m.buffer[Wrap(m.read + (i - 1))] \in Mixed
  BY <1>1, SlotAt
<1>3. line = [i \in 1..m.used |-> m.buffer[Wrap(m.read + (i - 1))]]
  BY <1>1 DEF MixbContents
<1> HIDE DEF line
<1>4. line \in [1..m.used -> Mixed]
  BY <1>2, <1>3
<1>5. line \in Seq(Mixed)
  BY <1>1, <1>4, SeqDef
<1>6. Len(line) = m.used
  BY <1>1, <1>4, <1>5, LenProperties
<1> QED
  BY <1>3, <1>4, <1>5, <1>6 DEF line

(* Reading takes the oldest slots from the contents, and what it took from   *)
(* the fill level of every stream.                                           *)
LEMMA ReadContents ==
  ASSUME NEW m \in MixBuffer, Aligned(m), NEW len \in Nat
  PROVE  LET r == MixbReadUpd(m, len)
         IN  /\ \A i \in 1..r.used : MixbContents(r)[i] = MixbContents(m)[i + len]
             /\ r.used = IF m.used > len THEN m.used - len ELSE 0
             /\ \A s \in m.streams : r.stream[s].used =
                  IF m.stream[s].used > len THEN m.stream[s].used - len ELSE 0
<1> DEFINE r == MixbReadUpd(m, len)
           n == Least(len, m.used)
           left == m.used - n
<1>1. /\ m.used \in Nat /\ m.used <= Size /\ m.read \in Slot /\ Size \in Nat \ {0}
      /\ n \in 0..m.used /\ left \in Nat
  BY Parts, MixBufferAssumption DEF Least
<1>2. r \in MixBuffer /\ r.used = left /\ r.streams = m.streams
  BY ReadKeepsAligned
<1>3. left = IF m.used > len THEN m.used - len ELSE 0
  BY <1>1 DEF Least
<1>4. left > 0 => n = len
  BY <1>1 DEF Least
<1>5. /\ left > 0 /\ n > 0 =>
           /\ r.read = Wrap(m.read + n)
           /\ \A p \in Slot : r.buffer[p] = IF Distance(m.read, p) < n THEN {Old} ELSE m.buffer[p]
      /\ n = 0 => r.read = m.read /\ r.buffer = m.buffer
      /\ \A s \in m.streams : r.stream[s].used =
           IF m.stream[s].used > len THEN m.stream[s].used - len ELSE 0
  <2> DEFINE rb == RbReadUpd(m, len)
  <2>1. rb \in MixBuffer /\ rb.stream = m.stream
    BY RingRead DEF Aligned
  <2>2. /\ left > 0 /\ n > 0 =>
             /\ rb.read = Wrap(m.read + n)
             /\ \A p \in Slot : rb.buffer[p] = IF Distance(m.read, p) < n THEN {Old} ELSE m.buffer[p]
        /\ n = 0 => rb = m
    <3>1. CASE left > 0 /\ n > 0
      <4> DEFINE bf == [p \in Slot |-> IF Distance(m.read, p) < n THEN {Old} ELSE m.buffer[p]]
                 rd == IF left = 0 THEN 0 ELSE Wrap(m.read + n)
                 wr == IF left = 0 THEN 0 ELSE m.write
      <4>1. rb = [m EXCEPT !.used = left, !.read = rd, !.write = wr, !.buffer = bf]
        BY <3>1 DEF RbReadUpd
      <4> HIDE DEF bf, rd, wr, left
      <4>2. rb.buffer = bf /\ rb.read = rd
        BY <4>1 DEF MixBuffer
      <4> QED
        BY <1>1, <3>1, <4>2 DEF bf, rd
    <3>2. CASE n = 0
      BY <3>2 DEF RbReadUpd
    <3> QED
      BY <3>1, <3>2
  <2> HIDE DEF rb
  <2> DEFINE Left(s) == IF m.stream[s].used > len THEN m.stream[s].used - len ELSE 0
             st == [s \in Cpvt |->
                     IF s \in m.streams THEN [used |-> Left(s), write |-> Wrap(rb.read + Left(s))]
                     ELSE rb.stream[s]]
  <2>3. r = [rb EXCEPT !.stream = st]
    BY DEF MixbReadUpd, rb
  <2>4. \A s \in m.streams : st[s].used = Left(s)
    BY Parts
  <2> HIDE DEF st, Left, n, left, r
  <2>5. r.read = rb.read /\ r.buffer = rb.buffer /\ r.stream = st
    BY <2>1, <2>3 DEF MixBuffer
  <2>6. \A s \in m.streams : r.stream[s].used = Left(s)
    BY <2>4, <2>5
  <2> QED
    BY <2>2, <2>5, <2>6 DEF Left
<1>6. ASSUME NEW i \in 1..r.used
      PROVE  MixbContents(r)[i] = MixbContents(m)[i + len]
  <2>1. MixbContents(r)[i] = r.buffer[Wrap(r.read + (i - 1))]
    BY <1>2, Contents
  <2> HIDE DEF r
  <2>2. left > 0 /\ n = len /\ i + len \in 1..m.used /\ i - 1 + len \in 0..(Size - 1)
        /\ i \in 1..left
    BY <1>1, <1>2, <1>3, <1>4
  <2>3. MixbContents(m)[i + len] = m.buffer[Wrap(m.read + (i + len - 1))]
    BY <2>2, Contents
  <2>4. CASE n = 0
    BY <1>5, <2>1, <2>2, <2>3, <2>4
  <2>5. CASE n > 0
    <3>1. Wrap(Wrap(m.read + len) + (i - 1)) = Wrap(m.read + (i + len - 1))
      <4>1. m.read \in 0..(Size - 1) /\ len \in 0..Size /\ i - 1 \in 0..Size /\ i \in Nat
            /\ len + (i - 1) \in 0..Size
        BY <1>1, <2>2 DEF Slot
      <4> QED
        BY <1>1, <4>1 DEF Wrap
    <3> DEFINE p == Wrap(m.read + (i + len - 1))
    <3>2. p \in Slot /\ Distance(m.read, p) = i + len - 1
      <4>1. i + len - 1 \in 0..(Size - 1)
        BY <2>2
      <4> QED
        BY <1>1, <4>1, SlotAt
    <3>3. ~(Distance(m.read, p) < n)
      BY <2>2, <3>2
    <3> HIDE DEF p
    <3>4. r.buffer[p] = m.buffer[p]
      BY <1>5, <2>2, <2>5, <3>2, <3>3
    <3>5. MixbContents(r)[i] = r.buffer[p]
      BY <1>5, <2>1, <2>2, <2>5, <3>1 DEF p
    <3> QED
      BY <2>3, <3>4, <3>5 DEF p
  <2> QED
    BY <1>1, <2>4, <2>5
<1> QED
  BY <1>2, <1>3, <1>5, <1>6

-----------------------------------------------------------------------------
(* Steps that leave the mix buffer alone.  *)
LEMMA Unmixed ==
  ASSUME mixb' = mixb
  PROVE  UNCHANGED Mixer!vars
BY DEF Mixer!vars, MixbContents

(* What leaves the ring as it is leaves the line as it is.  *)
LEMMA SameLine ==
  ASSUME mixb'.used = mixb.used, mixb'.read = mixb.read, mixb'.buffer = mixb.buffer
  PROVE  MixbContents(mixb)' = MixbContents(mixb)
BY DEF MixbContents

(* Fewer streams, or one more at the read position, are voices that leave   *)
(* or join; advancing the read position is playing.                          *)
LEMMA LeaveMaps ==
  ASSUME mixb \in MixBuffer, NEW gone \in SUBSET mixb.streams,
         mixb'.streams = mixb.streams \ gone, mixb'.stream = mixb.stream,
         mixb'.used = mixb.used, mixb'.read = mixb.read, mixb'.buffer = mixb.buffer
  PROVE  [Mixer!Next]_(Mixer!vars)
<1> DEFINE ahead == [c \in Cpvt |-> IF c \in mixb.streams THEN mixb.stream[c].used ELSE 0]
<1>1. MixbContents(mixb)' = MixbContents(mixb)
  BY SameLine
<1>2. ahead' = [c \in Cpvt |-> IF c \in gone THEN 0 ELSE ahead[c]]
  OBVIOUS
<1>3. gone \in SUBSET Cpvt
  BY Parts
<1>4. CASE gone = {}
  <2>1. mixb'.streams = mixb.streams
    BY <1>4
  <2> QED
    BY <1>1, <2>1 DEF Mixer!vars
<1>5. CASE gone # {}
  <2>1. Mixer!Leave(gone)
    BY <1>1, <1>2, <1>5 DEF Mixer!Leave
  <2> QED
    BY <1>3, <2>1 DEF Mixer!Next
<1> QED
  BY <1>4, <1>5

LEMMA JoinMaps ==
  ASSUME mixb \in MixBuffer, NEW c \in Cpvt, c \notin mixb.streams,
         mixb'.streams = mixb.streams \cup {c}, mixb'.stream[c].used = 0,
         \A d \in Cpvt \ {c} : mixb'.stream[d] = mixb.stream[d],
         mixb'.used = mixb.used, mixb'.read = mixb.read, mixb'.buffer = mixb.buffer
  PROVE  [Mixer!Next]_(Mixer!vars)
<1> DEFINE ahead == [d \in Cpvt |-> IF d \in mixb.streams THEN mixb.stream[d].used ELSE 0]
<1>1. MixbContents(mixb)' = MixbContents(mixb)
  BY SameLine
<1>2. ahead' = ahead
  OBVIOUS
<1>3. Mixer!Join(c)
  BY <1>1, <1>2 DEF Mixer!Join
<1> QED
  BY <1>3 DEF Mixer!Next

LEMMA PlayMaps ==
  ASSUME mixb \in MixBuffer, Aligned(mixb), NEW n \in 0..mixb.used, mixb' = MixbReadUpd(mixb, n)
  PROVE  [Mixer!Next]_(Mixer!vars)
<1> DEFINE ahead == [c \in Cpvt |-> IF c \in mixb.streams THEN mixb.stream[c].used ELSE 0]
           line == MixbContents(mixb)
<1>1. /\ mixb' \in MixBuffer /\ mixb'.streams = mixb.streams
      /\ mixb'.used = mixb.used - n /\ mixb.used \in Nat /\ n \in Nat
      /\ \A i \in 1..mixb'.used : line'[i] = line[i + n]
      /\ \A c \in mixb.streams : mixb'.stream[c].used =
           IF mixb.stream[c].used > n THEN mixb.stream[c].used - n ELSE 0
  <2>1. n \in Nat /\ mixb.used \in Nat
    BY Parts, MixBufferAssumption
  <2>2. /\ mixb' \in MixBuffer /\ mixb'.streams = mixb.streams
        /\ mixb'.used = mixb.used - Least(n, mixb.used)
    BY <2>1, ReadKeepsAligned
  <2>3. /\ \A i \in 1..mixb'.used : line'[i] = line[i + n]
        /\ \A c \in mixb.streams : mixb'.stream[c].used =
             IF mixb.stream[c].used > n THEN mixb.stream[c].used - n ELSE 0
    BY <2>1, ReadContents
  <2> QED
    BY <2>1, <2>2, <2>3 DEF Least
<1>2. /\ line \in Seq(Mixed) /\ Len(line) = mixb.used
      /\ line' \in Seq(Mixed) /\ Len(line') = mixb.used - n
  BY <1>1, Contents
<1>3. ahead' = [c \in Cpvt |-> Mixer!Less(ahead[c], n)]
  BY <1>1 DEF Mixer!Less
<1> HIDE DEF line
<1>4. line' = SubSeq(line, n + 1, Len(line))
  <2>1. /\ SubSeq(line, n + 1, Len(line)) \in Seq(Mixed)
        /\ Len(SubSeq(line, n + 1, Len(line))) = mixb.used - n
        /\ \A i \in 1..(mixb.used - n) : SubSeq(line, n + 1, Len(line))[i] = line[n + 1 + i - 1]
    BY <1>1, <1>2, SubSeqProperties
  <2>2. \A i \in 1..(mixb.used - n) : n + 1 + i - 1 = i + n
    BY <1>1
  <2> QED
    BY <1>1, <1>2, <2>1, <2>2, SeqEqual
<1>5. CASE n = 0
  <2>1. line' = line
    BY <1>1, <1>2, <1>5, SeqEqual
  <2>2. ahead' = ahead
    BY <1>1, <1>5, Parts
  <2> QED
    BY <1>1, <2>1, <2>2 DEF Mixer!vars, line
<1>6. CASE n # 0
  <2>1. Mixer!Play(n)
    BY <1>1, <1>2, <1>3, <1>4, <1>6 DEF Mixer!Play, Mixer!After, line
  <2>2. n \in 1..Len(line)
    BY <1>1, <1>2, <1>6
  <2> QED
    BY <2>1, <2>2 DEF Mixer!Next, line
<1> QED
  BY <1>5, <1>6

(* What room is made, and what the frame then does to the line, is Say.      *)
LEMMA SayMaps ==
  ASSUME mixb \in MixBuffer, Aligned(mixb), NEW c \in mixb.streams, NEW n \in FrameLens,
         Write(c, Frame(c, n))
  PROVE  [Mixer!Next]_(Mixer!vars)
<1> DEFINE frame == Frame(c, n)
           lost  == Mixer!Less(mixb.stream[c].used + Len(frame), Size)
           room  == IF MixbFree(mixb, c) < Len(frame)
                    THEN MixbReadUpd(mixb, Len(frame) - MixbFree(mixb, c)) ELSE mixb
           rest  == SubSeq(MixbContents(mixb), lost + 1, Len(MixbContents(mixb)))
           from  == Mixer!Less(mixb.stream[c].used, lost)
           upto  == from + Mixer!Lower(Len(frame), Size - from)
           ahead == [d \in Cpvt |-> IF d \in mixb.streams THEN mixb.stream[d].used ELSE 0]
           line  == MixbContents(mixb)
           Rest(i) == IF i <= Len(rest) THEN rest[i] ELSE {}
           Said(i) == IF from < i /\ i <= upto THEN frame[i - from] ELSE {}
<1>1. /\ c \in Cpvt /\ frame \in Frames /\ Len(frame) \in Nat
      /\ \A d \in Cpvt : mixb.stream[d].used \in 0..Size
      /\ mixb.used \in 0..Size /\ Size \in Nat \ {0}
      /\ \A d \in mixb.streams : d \in Cpvt /\ mixb.stream[d].used <= mixb.used
  BY Parts, CallAudioAssumption, MixBufferAssumption DEF Frames, Aligned
<1>2. mixb' = MixbWrite(room, c, frame)
  BY DEF Write
<1> HIDE DEF frame
<1>3. lost \in Nat
  BY <1>1 DEF Mixer!Less
<1>4. /\ room \in MixBuffer /\ Aligned(room) /\ room.streams = mixb.streams
      /\ room.used = Mixer!Less(mixb.used, lost)
      /\ \A d \in mixb.streams : room.stream[d].used = Mixer!Less(mixb.stream[d].used, lost)
      /\ \A i \in 1..room.used : MixbContents(room)[i] = line[i + lost]
  <2>1. MixbFree(mixb, c) = Size - mixb.stream[c].used
    BY DEF MixbFree
  <2>2. CASE MixbFree(mixb, c) < Len(frame)
    <3>1. room = MixbReadUpd(mixb, lost)
      <4>1. Len(frame) - MixbFree(mixb, c) = lost
        BY <1>1, <2>1, <2>2 DEF Mixer!Less
      <4> QED
        BY <2>2, <4>1
    <3> HIDE DEF lost, room
    <3>2. room \in MixBuffer /\ Aligned(room) /\ room.streams = mixb.streams
      BY <1>3, <3>1, ReadKeepsAligned
    <3>3. /\ \A i \in 1..room.used : MixbContents(room)[i] = line[i + lost]
          /\ room.used = IF mixb.used > lost THEN mixb.used - lost ELSE 0
          /\ \A d \in mixb.streams : room.stream[d].used =
               IF mixb.stream[d].used > lost THEN mixb.stream[d].used - lost ELSE 0
      BY <1>3, <3>1, ReadContents
    <3> QED
      BY <3>2, <3>3 DEF Mixer!Less
  <2>3. CASE ~(MixbFree(mixb, c) < Len(frame))
    <3>1. lost = 0 /\ room = mixb
      BY <1>1, <2>1, <2>3 DEF Mixer!Less
    <3> HIDE DEF lost, room
    <3>2. \A k \in 0..Size : Mixer!Less(k, lost) = k
      BY <1>1, <3>1 DEF Mixer!Less
    <3>3. \A i \in 1..room.used : i + lost = i
      BY <1>1, <3>1
    <3> QED
      BY <1>1, <3>1, <3>2, <3>3
  <2> QED
    BY <2>2, <2>3
<1>5. /\ line \in Seq(Mixed) /\ Len(line) = mixb.used
      /\ MixbContents(room) \in Seq(Mixed) /\ Len(MixbContents(room)) = room.used
      /\ room.used \in 0..Size
  BY <1>4, Contents, Parts
<1> HIDE DEF room, lost, line
<1>6. rest = MixbContents(room)
  <2>1. \A i \in (lost + 1)..Len(line) : line[i] \in Mixed
    <3>1. \A i \in 1..Len(line) : line[i] \in Mixed
      BY <1>5, ElementOfSeq
    <3> QED
      BY <1>1, <1>3, <1>5, <3>1
  <2>2. lost + 1 \in Int /\ Len(line) \in Int
    BY <1>1, <1>3, <1>5
  <2>3. /\ SubSeq(line, lost + 1, Len(line)) \in Seq(Mixed)
        /\ Len(SubSeq(line, lost + 1, Len(line))) =
             IF lost + 1 <= Len(line) THEN Len(line) - (lost + 1) + 1 ELSE 0
        /\ \A i \in 1..(Len(line) - (lost + 1) + 1) :
             SubSeq(line, lost + 1, Len(line))[i] = line[lost + 1 + i - 1]
    BY <2>1, <2>2, SubSeqProperties
  <2>4. rest = SubSeq(line, lost + 1, Len(line))
    BY DEF line
  <2> HIDE DEF rest
  <2>5. Len(rest) = room.used
    BY <1>1, <1>3, <1>4, <1>5, <2>3, <2>4 DEF Mixer!Less
  <2>6. ASSUME NEW i \in 1..room.used
        PROVE  rest[i] = MixbContents(room)[i]
    <3>1. i \in 1..(Len(line) - (lost + 1) + 1) /\ lost + 1 + i - 1 = i + lost
      BY <1>1, <1>3, <1>4, <1>5 DEF Mixer!Less
    <3> QED
      BY <1>4, <2>3, <2>4, <3>1
  <2> QED
    BY <1>5, <2>3, <2>4, <2>5, <2>6, SeqEqual
<1> HIDE DEF rest
<1>7. /\ from = room.stream[c].used /\ from \in 0..Size
      /\ upto = from + Least(Len(frame), Size - from) /\ upto \in 0..Size
  <2>1. from = room.stream[c].used
    BY <1>4
  <2>2. from \in 0..Size
    BY <1>1, <1>4, <2>1, Parts
  <2> HIDE DEF from
  <2> QED
    BY <1>1, <2>1, <2>2 DEF Mixer!Lower, Least
<1> HIDE DEF from, upto
<1>8. /\ mixb' \in MixBuffer /\ mixb'.read = room.read /\ mixb'.streams = mixb.streams
      /\ mixb'.used = IF upto > room.used THEN upto ELSE room.used
      /\ \A d \in Cpvt : mixb'.stream[d].used = IF d = c THEN upto ELSE room.stream[d].used
      /\ \A p \in Slot :
           Distance(room.read, p) < mixb'.used =>
             mixb'.buffer[p] =
               (IF Distance(room.read, p) < room.used THEN room.buffer[p] ELSE {})
               \cup (IF from <= Distance(room.read, p) /\ Distance(room.read, p) < upto
                     THEN frame[Distance(room.read, p) - from + 1] ELSE {})
  BY <1>1, <1>2, <1>4, <1>7, WriteMixes
<1>9. ASSUME NEW i \in 1..mixb'.used
      PROVE  line'[i] = Rest(i) \cup Said(i)
  <2> DEFINE p == Wrap(room.read + (i - 1))
  <2>1. mixb'.used \in 0..Size /\ i \in Nat /\ i - 1 \in 0..(Size - 1) /\ room.read \in Slot
    BY <1>1, <1>4, <1>8, Parts
  <2>2. p \in Slot /\ Distance(room.read, p) = i - 1
    BY <2>1, SlotAt
  <2>3. line'[i] = mixb'.buffer[p]
    BY <1>8, Contents DEF line
  <2> HIDE DEF p
  <2>4. i - 1 < mixb'.used
    BY <2>1
  <2>5. mixb'.buffer[p] = (IF i - 1 < room.used THEN room.buffer[p] ELSE {})
                          \cup (IF from <= i - 1 /\ i - 1 < upto THEN frame[i - 1 - from + 1] ELSE {})
    BY <1>8, <2>2, <2>4
  <2>6. /\ i - 1 < room.used <=> i <= room.used
        /\ from <= i - 1 <=> from < i
        /\ i - 1 < upto <=> i <= upto
        /\ i - 1 - from + 1 = i - from
    <3>1. i \in Nat /\ room.used \in Nat /\ from \in Nat /\ upto \in Nat
      BY <1>5, <1>7, <2>1
    <3> HIDE DEF from, upto, room
    <3> QED
      BY <3>1
  <2>7. i <= room.used => rest[i] = room.buffer[p]
    <3>1. i <= room.used => i \in 1..room.used
      BY <1>5, <2>1
    <3> QED
      BY <1>4, <1>6, <3>1, Contents DEF p
  <2>8. Rest(i) = IF i - 1 < room.used THEN room.buffer[p] ELSE {}
    BY <1>5, <1>6, <2>6, <2>7
  <2>9. Said(i) = IF from <= i - 1 /\ i - 1 < upto THEN frame[i - 1 - from + 1] ELSE {}
    BY <2>6
  <2> HIDE DEF Rest, Said
  <2> QED
    BY <2>3, <2>5, <2>8, <2>9
<1> HIDE DEF Rest, Said
<1>10. line' = [i \in 1..(IF upto > Len(rest) THEN upto ELSE Len(rest)) |-> Rest(i) \cup Said(i)]
  <2>1. /\ line' \in Seq(Mixed) /\ DOMAIN line' = 1..mixb'.used
    BY <1>8, Contents DEF line
  <2>2. mixb'.used = IF upto > Len(rest) THEN upto ELSE Len(rest)
    BY <1>5, <1>6, <1>8
  <2>3. line' = [i \in DOMAIN line' |-> line'[i]]
    BY <2>1
  <2> QED
    BY <1>9, <2>1, <2>2, <2>3
<1>11. ahead' = [d \in Cpvt |-> IF d = c THEN upto ELSE Mixer!Less(ahead[d], lost)]
  <2>1. Mixer!Less(0, lost) = 0
    <3>1. lost \in Nat
      BY <1>3
    <3> QED
      BY <3>1 DEF Mixer!Less
  <2> QED
    BY <1>1, <1>4, <1>8, <2>1
<1>12. Mixer!Say(c, frame)
  <2>1. ahead[c] = mixb.stream[c].used
    BY <1>1
  <2> QED
    BY <1>8, <1>10, <1>11, <2>1
       DEF Mixer!Say, Mixer!After, line, lost, rest, from, upto, Rest, Said
<1> QED
  BY <1>1, <1>12 DEF Mixer!Next, frame

-----------------------------------------------------------------------------
(* The steps of the calls, one by one.  *)
LEMMA InitMaps == Init => Mixer!Init
<1> SUFFICES ASSUME Init PROVE Mixer!Init
  OBVIOUS
<1>1. mixb = MixbInit
  BY DEF Init
<1>2. mixb.streams = {} /\ mixb.used = 0
  BY <1>1 DEF MixbInit
<1>3. MixbContents(mixb) \in Seq(Mixed) /\ Len(MixbContents(mixb)) = 0
  BY <1>1, <1>2, InitAligned, Contents
<1>4. MixbContents(mixb) = << >>
  BY <1>3, EmptySeq
<1> QED
  BY <1>2, <1>4 DEF Mixer!Init

(* Losing the sound, if there is any, maps to Leave.  *)
LEMMA QuietMaps ==
  ASSUME IInv, NEW c \in Cpvt, mixb' = IF cpvt[c].activated THEN MixbDetach(mixb, c) ELSE mixb
  PROVE  [Mixer!Next]_(Mixer!vars)
<1>1. mixb \in MixBuffer /\ (cpvt[c].activated => c \in mixb.streams)
  BY DEF IInv, TypeOK, StreamsFollowCalls
<1>2. CASE ~cpvt[c].activated
  BY <1>2, Unmixed
<1>3. CASE cpvt[c].activated
  <2>1. /\ mixb'.streams = mixb.streams \ {c} /\ mixb'.stream = mixb.stream
        /\ mixb'.used = mixb.used /\ mixb'.read = mixb.read /\ mixb'.buffer = mixb.buffer
    BY <1>1, <1>3 DEF MixbDetach, MixBuffer
  <2>2. {c} \in SUBSET mixb.streams
    BY <1>1, <1>3
  <2> QED
    BY <1>1, <2>1, <2>2, LeaveMaps
<1> QED
  BY <1>2, <1>3

LEMMA BeginMaps ==
  ASSUME IInv, IInv', NEW c \in Cpvt, NEW state \in {"init", "incoming", "waiting"},
         Begin(c, state)
  PROVE  [Mixer!Next]_(Mixer!vars)
<1>1. CASE Chans # {}
  BY <1>1, Unmixed DEF Begin
<1>2. CASE Chans = {}
  <2>1. mixb' = MixbInit
    BY <1>2 DEF Begin
  <2>2. mixb.streams = {}
    BY <1>2 DEF Chans, IInv, StreamsFollowCalls
  <2>3. mixb'.streams = {} /\ mixb'.used = 0
    BY <2>1 DEF MixbInit
  <2>4. MixbContents(mixb)' = << >>
    BY <2>3, Contents, EmptySeq DEF IInv, TypeOK
  <2>5. Mixer!Clear
    BY <2>2, <2>3, <2>4 DEF Mixer!Clear
  <2> QED
    BY <2>5 DEF Mixer!Next
<1> QED
  BY <1>1, <1>2

LEMMA SoundingMaps ==
  ASSUME IInv, NEW c \in Cpvt, NEW state \in CallState, Sounding(c, state)
  PROVE  [Mixer!Next]_(Mixer!vars)
<1> DEFINE calls == [cpvt EXCEPT ![c].state = state]
<1>1. /\ cpvt \in [Cpvt -> Call] /\ mixb \in MixBuffer /\ Aligned(mixb)
      /\ mixb.streams = { d \in Cpvt : cpvt[d].activated }
      /\ cpvt[c].master => cpvt[c].activated
  BY DEF IInv, TypeOK, PositionsAgree, StreamsFollowCalls, OneMaster
<1>2. calls[c].master = cpvt[c].master /\ calls[c].activated = cpvt[c].activated
  BY <1>1 DEF Call
<1>3. mixb' = AttachFor(calls, c)
  BY DEF Sounding
<1> HIDE DEF calls
<1>4. CASE cpvt[c].activated
  BY <1>2, <1>3, <1>4, Unmixed DEF AttachFor
<1>5. CASE ~cpvt[c].activated
  <2>1. mixb' = MixbAttach(mixb, c)
    BY <1>1, <1>2, <1>3, <1>5 DEF AttachFor
  <2>2. /\ mixb'.streams = mixb.streams \cup {c} /\ mixb'.stream[c].used = 0
        /\ \A d \in Cpvt \ {c} : mixb'.stream[d] = mixb.stream[d]
        /\ mixb'.used = mixb.used /\ mixb'.read = mixb.read /\ mixb'.buffer = mixb.buffer
    BY <1>1, <2>1, Attach
  <2>3. c \notin mixb.streams
    BY <1>1, <1>5
  <2> QED
    BY <1>1, <2>2, <2>3, JoinMaps
<1> QED
  BY <1>4, <1>5

LEMMA HoldingMaps ==
  ASSUME IInv, NEW c \in Cpvt, Holding(c)
  PROVE  [Mixer!Next]_(Mixer!vars)
<1> DEFINE calls == [cpvt EXCEPT ![c].state = "held"]
<1>1. cpvt \in [Cpvt -> Call] /\ cpvt[c].channel /\ mixb' = DetachFor(calls, c)
  BY DEF IInv, TypeOK, Holding
<1>2. calls[c].channel = cpvt[c].channel /\ calls[c].activated = cpvt[c].activated
  BY <1>1 DEF Call
<1> HIDE DEF calls
<1>3. mixb' = IF cpvt[c].activated THEN MixbDetach(mixb, c) ELSE mixb
  BY <1>1, <1>2 DEF DetachFor, Disactivates
<1> QED
  BY <1>3, QuietMaps

LEMMA DetachForMaps ==
  ASSUME IInv, NEW c \in Cpvt, mixb' = DetachFor(cpvt, c)
  PROVE  [Mixer!Next]_(Mixer!vars)
<1>1. mixb' = IF cpvt[c].activated THEN MixbDetach(mixb, c) ELSE mixb
  BY DEF DetachFor, Disactivates, IInv, StreamsFollowCalls
<1> QED
  BY <1>1, QuietMaps

LEMMA DisconnectMaps ==
  ASSUME IInv, Disconnect
  PROVE  [Mixer!Next]_(Mixer!vars)
<1> DEFINE gone == { c \in Cpvt : Disactivates(cpvt, c) }
<1>1. mixb \in MixBuffer /\ gone = mixb.streams
  BY DEF IInv, TypeOK, StreamsFollowCalls, Disactivates
<1>2. mixb' = [mixb EXCEPT !.streams = @ \ gone, !.attached = @ - Cardinality(gone)]
  BY DEF Disconnect
<1> HIDE DEF gone
<1>3. /\ mixb'.streams = mixb.streams \ gone /\ mixb'.stream = mixb.stream
      /\ mixb'.used = mixb.used /\ mixb'.read = mixb.read /\ mixb'.buffer = mixb.buffer
  BY <1>1, <1>2 DEF MixBuffer
<1> QED
  BY <1>1, <1>3, LeaveMaps

LEMMA TimingMaps ==
  ASSUME IInv, NEW c \in Cpvt, Timing(c)
  PROVE  [Mixer!Next]_(Mixer!vars)
<1> DEFINE n == Least(FrameSize, mixb.used)
<1>1. mixb \in MixBuffer /\ Aligned(mixb) /\ mixb' = MixbReadUpd(mixb, n)
  BY DEF IInv, TypeOK, PositionsAgree, Timing
<1>2. n \in 0..mixb.used
  BY <1>1, Parts, CallAudioAssumption, MixBufferAssumption DEF Least
<1> HIDE DEF n
<1> QED
  BY <1>1, <1>2, PlayMaps

LEMMA StepMaps == IInv /\ IInv' /\ [Next]_vars => [Mixer!Next]_(Mixer!vars)
<1> SUFFICES ASSUME IInv, IInv', [Next]_vars PROVE [Mixer!Next]_(Mixer!vars)
  OBVIOUS
<1>1. ASSUME NEW c \in Cpvt, Step(c) PROVE [Mixer!Next]_(Mixer!vars)
  <2>1. CASE \E state \in {"init", "incoming", "waiting"} : Begin(c, state)
    BY <2>1, BeginMaps
  <2>2. CASE \E state \in CallState : Sounding(c, state)
    BY <2>2, SoundingMaps
  <2>3. CASE \E state \in CallState : Following(c, state)
    BY <2>3, Unmixed DEF Following
  <2>4. CASE Holding(c)
    BY <2>4, HoldingMaps
  <2>5. CASE Released(c)
    BY <2>5, DetachForMaps DEF Released
  <2>6. CASE Hangup(c)
    BY <2>6, DetachForMaps DEF Hangup
  <2>7. CASE \E n \in FrameLens : Write(c, Frame(c, n))
    <3>1. PICK n \in FrameLens : Write(c, Frame(c, n))
      BY <2>7
    <3>2. mixb \in MixBuffer /\ Aligned(mixb) /\ c \in mixb.streams
      BY <3>1 DEF IInv, TypeOK, PositionsAgree, StreamsFollowCalls, Write, SoundSource
    <3> QED
      BY <3>1, <3>2, SayMaps
  <2>8. CASE Timing(c)
    BY <2>8, TimingMaps
  <2> QED
    BY <1>1, <2>1, <2>2, <2>3, <2>4, <2>5, <2>6, <2>7, <2>8 DEF Step
<1>2. CASE Disconnect
  BY <1>2, DisconnectMaps
<1>3. CASE UNCHANGED vars
  BY <1>3, Unmixed DEF vars
<1> QED
  BY <1>1, <1>2, <1>3 DEF Next

(* Whatever the calls do, what the mix buffer of any size plays is what      *)
(* Mixer says: each voice in its order, each sound once, the oldest dropped  *)
(* when there is no room, and nothing mixed into what was played already.    *)
THEOREM VoicesAreMixed == Spec => MixesVoices
<1>1. Init => Mixer!Init
  BY InitMaps
<1>2. IInv /\ IInv' /\ [Next]_vars => [Mixer!Next]_(Mixer!vars)
  BY StepMaps
<1> QED
  BY <1>1, <1>2, AudioInvariant, PTL DEF Spec, MixesVoices, Mixer!Spec
=============================================================================
