----------------------------- MODULE RingBuffer ----------------------------
(***************************************************************************)
(* The ring buffer between the data port of a device and the search for     *)
(* results: the read functions of ringbuffer.c, with the wrap at the end of *)
(* the buffer.  An iov is the pair of the pieces of text it points at.      *)
(***************************************************************************)
EXTENDS Integers, Sequences, FiniteSets

CONSTANTS
  Char,        \* what the port carries
  Blank,       \* what a free slot holds
  Size         \* the size of the buffer

ASSUME RingBufferAssumption ==
  /\ Size \in Nat \ {0}
  /\ Blank \notin Char

Slot == 0..(Size - 1)

(* A ring is [buffer, used, read, write]: read is a slot, write may stand at Size, *)
(* behind the last one, since rb_write_upd wraps only what is beyond it.          *)
RbInit ==
  [buffer |-> [p \in Slot |-> Blank], used |-> 0, read |-> 0, write |-> 0]

RbFree(rb) == Size - rb.used

(* The n slots from p to the end of the buffer, then from its start.         *)
ToTheEnd(rb, p, n) ==
  LET k == IF p + n > Size THEN Size - p ELSE n
  IN  [i \in 1..k |-> rb.buffer[p + i - 1]]
FromTheStart(rb, p, n) ==
  [i \in 1..(IF p + n > Size THEN p + n - Size ELSE 0) |-> rb.buffer[i - 1]]

Text(iov) == iov[1] \o iov[2]

-----------------------------------------------------------------------------
(* rb_read_n_iov, for an n there is; with n = used it is rb_read_all_iov.    *)
RbReadN(rb, n) == << ToTheEnd(rb, rb.read, n), FromTheStart(rb, rb.read, n) >>

RbReadAll(rb) == RbReadN(rb, rb.used)

(* rb_memcmp gives 0, piece by piece; it gives -1 when too little is there.  *)
RbStarts(rb, mem) ==
  /\ rb.used >= Len(mem)
  /\ LET iov == RbReadN(rb, Len(mem))
     IN  /\ iov[1] = SubSeq(mem, 1, Len(iov[1]))
         /\ iov[2] = SubSeq(mem, Len(iov[1]) + 1, Len(mem))

(* memmem: how much of a text is before an occurrence of mem in it.          *)
Found(text, mem) ==
  {k \in 0..(Len(text) - Len(mem)) : SubSeq(text, k + 1, k + Len(mem)) = mem}

Before(text, mem) ==
  SubSeq(text, 1, CHOOSE k \in Found(text, mem) : \A l \in Found(text, mem) : k <= l)

(* How much of mem the code takes to be at the start of the buffer, with the *)
(* rest of it before the end.  There are i characters behind the end, the    *)
(* last i of mem; the code compares them with those from mem + i on, which   *)
(* are the same only for half of mem.  What it reads behind mem is a 0, and  *)
(* equal to nothing the port carries.                                        *)
FoundAcross(iov, mem) ==
  LET tail == iov[1]
      head == iov[2]
  IN  {i \in 1..(Len(mem) - 1) :
        /\ i <= Len(head) /\ Len(mem) - i <= Len(tail)
        /\ SubSeq(tail, Len(tail) - (Len(mem) - i) + 1, Len(tail)) = SubSeq(mem, 1, Len(mem) - i)
        /\ 2 * i <= Len(mem) /\ SubSeq(head, 1, i) = SubSeq(mem, i + 1, 2 * i)}

(* The first mem in the buffer really is across its end.                     *)
LiesAcross(rb, mem) ==
  LET iov  == RbReadAll(rb)
      text == Text(iov)
  IN  /\ Found(text, mem) # {}
      /\ LET k == Len(Before(text, mem)) IN k < Len(iov[1]) /\ Len(iov[1]) < k + Len(mem)

(* Mutant: what lies across the end of the buffer is not looked for. *)
RbReadUntilOneSide(rb, mem) ==
  LET iov == RbReadAll(rb)
  IN  CASE Found(iov[1], mem) # {} -> << Before(iov[1], mem), << >> >>
        [] Found(iov[1], mem) = {} /\ Found(iov[2], mem) # {} -> << iov[1], Before(iov[2], mem) >>
        [] OTHER -> << >>

(* rb_read_until_mem_iov and rb_read_until_char_iov: the text before the     *)
(* first mem, looked for before the end of the buffer, across it and behind  *)
(* it; << >> when there is none.                                             *)
RbReadUntil(rb, mem) ==
  LET iov    == RbReadAll(rb)
      across == FoundAcross(iov, mem)
  IN  IF Found(iov[1], mem) # {} THEN << Before(iov[1], mem), << >> >>
      ELSE IF across # {}
      THEN LET i == CHOOSE i \in across : \A l \in across : i <= l
           IN  << SubSeq(iov[1], 1, Len(iov[1]) - (Len(mem) - i)), << >> >>
      ELSE IF Found(iov[2], mem) # {} THEN << iov[1], Before(iov[2], mem) >>
      ELSE << >>

-----------------------------------------------------------------------------
(* rb_read_upd: a buffer that gets empty starts from 0 again.                *)
RbReadUpd(rb, len) ==
  LET n    == IF rb.used < len THEN rb.used ELSE len
      left == rb.used - n
      s    == rb.read + n
      Gone(p) == (p - rb.read) % Size < n
  IN  [buffer |-> [p \in Slot |-> IF Gone(p) THEN Blank ELSE rb.buffer[p]],
       used   |-> left,
       read   |-> IF n > 0 /\ left = 0 THEN 0 ELSE IF s >= Size THEN s - Size ELSE s,
       write  |-> IF n > 0 /\ left = 0 THEN 0 ELSE rb.write]

(* Mutant: the second piece goes behind the first slot. *)
RbFillShifted(rb, bytes) ==
  LET n == Len(bytes)
      s == rb.write + n
      At(p) == IF p >= rb.write THEN p - rb.write + 1 ELSE p + Size - rb.write
  IN  [rb EXCEPT !.used = @ + n, !.write = IF s > Size THEN s - Size ELSE s,
         !.buffer = [p \in Slot |-> IF At(p) \in 1..n THEN bytes[At(p)] ELSE @[p]]]

(* readv into the pieces of rb_write_iov, then rb_write_upd; there is room.  *)
RbFill(rb, bytes) ==
  LET n == Len(bytes)
      s == rb.write + n
      At(p) == IF p >= rb.write THEN p - rb.write + 1 ELSE p + Size - rb.write + 1
  IN  [rb EXCEPT !.used = @ + n, !.write = IF s > Size THEN s - Size ELSE s,
         !.buffer = [p \in Slot |-> IF At(p) \in 1..n THEN bytes[At(p)] ELSE @[p]]]
=============================================================================
