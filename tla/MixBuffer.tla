----------------------------- MODULE MixBuffer -----------------------------
(***************************************************************************)
(* The ring buffer in which a device mixes what its calls say: one read      *)
(* position, and for every attached stream its own write position, so that   *)
(* what two calls say at one time is added up, and what one of them says     *)
(* ahead of the others is copied behind the rest.                            *)
(*                                                                          *)
(* A slot holds the set of the sounds added up in it: saturation is left     *)
(* out.  What was read is marked Old, so that adding to it would show; the   *)
(* code leaves it where it is.                                               *)
(***************************************************************************)
EXTENDS Integers, Sequences, FiniteSets

CONSTANTS
  Cpvt,        \* the cpvts, each with its mixstream
  Sounds,      \* what a stream can put into one slot
  Old,         \* what is left in a slot that was read
  Size         \* the size of the buffer

ASSUME MixBufferAssumption ==
  /\ Size \in Nat \ {0}
  /\ IsFiniteSet(Cpvt)
  /\ Old \notin Sounds

Slot  == 0..(Size - 1)
Mixed == SUBSET (Sounds \cup {Old})

MixBuffer ==
  [read : Slot, write : Slot, used : 0..Size, buffer : [Slot -> Mixed],
   streams : SUBSET Cpvt, attached : Int,
   stream : [Cpvt -> [used : 0..Size, write : Slot]]]

MixbInit ==
  [read |-> 0, write |-> 0, used |-> 0, buffer |-> [p \in Slot |-> {Old}],
   streams |-> {}, attached |-> 0,
   stream |-> [s \in Cpvt |-> [used |-> 0, write |-> 0]]]

Least(a, b) == IF a < b THEN a ELSE b
Wrap(p)     == IF p >= Size THEN p - Size ELSE p

(* How far slot p is behind a position of the ring.  *)
Distance(from, p) == IF p >= from THEN p - from ELSE p - from + Size

-----------------------------------------------------------------------------
(* The ring buffer alone: its read and write positions.                      *)

(* rb_read_upd: a buffer that gets empty starts from 0 again.  *)
RbReadUpd(m, len) ==
  LET n    == Least(len, m.used)
      left == m.used - n
  IN  IF n = 0 THEN m
      ELSE [m EXCEPT !.used = left,
                     !.read = IF left = 0 THEN 0 ELSE Wrap(m.read + n),
                     !.write = IF left = 0 THEN 0 ELSE @,
                     !.buffer = [p \in Slot |-> IF Distance(m.read, p) < n THEN {Old} ELSE @[p]]]

(* rb_write_core, with saturated_sum or memmove as its method.  *)
RbWriteCore(m, data, method) ==
  LET n == Least(Len(data), Size - m.used)
      New(p) == data[Distance(m.write, p) + 1]
  IN  [m EXCEPT !.write = Wrap(m.write + n), !.used = @ + n,
                !.buffer = [p \in Slot |->
                  IF Distance(m.write, p) >= n THEN @[p]
                  ELSE IF method = "sum" THEN @[p] \cup New(p) ELSE New(p)]]

-----------------------------------------------------------------------------
MixbAttach(m, s) ==
  [m EXCEPT !.streams = @ \cup {s}, !.attached = @ + 1,
            !.stream[s] = [used |-> 0, write |-> m.read]]

MixbDetach(m, s) == [m EXCEPT !.streams = @ \ {s}, !.attached = @ - 1]

MixbFree(m, s) == Size - m.stream[s].used

(* mixb_mix_write: the ring is written with the positions of the stream,     *)
(* and keeps its own.                                                        *)
MixbMixWrite(m, s, data) ==
  LET local == RbWriteCore([m EXCEPT !.write = m.stream[s].write, !.used = m.stream[s].used],
                           data, "sum")
  IN  [m EXCEPT !.buffer = local.buffer,
                !.stream[s] = [used |-> local.used, write |-> local.write]]

(* Mutant: what goes behind the rest is added instead of copied. *)
MixbCopyAdds(m, s, data) ==
  LET d == RbWriteCore(m, data, "sum")
  IN  [d EXCEPT !.stream[s] = [used |-> d.used, write |-> d.write]]

(* What goes behind everything written so far; the stream is then level with *)
(* the ring.                                                                 *)
MixbCopy(m, s, data) ==
  LET d == RbWriteCore(m, data, "copy")
  IN  [d EXCEPT !.stream[s] = [used |-> d.used, write |-> d.write]]

MixbWrite(m, s, data) ==
  LET len    == Least(Len(data), MixbFree(m, s))
      before == m.used - m.stream[s].used     \* what the others are ahead
  IN  IF len > before
      THEN MixbCopy(IF before > 0 THEN MixbMixWrite(m, s, SubSeq(data, 1, before)) ELSE m,
                    s, SubSeq(data, before + 1, len))
      ELSE MixbMixWrite(m, s, SubSeq(data, 1, len))

(* Mutant: the streams get shorter but their write positions stay. *)
MixbReadUpdStays(m, len) ==
  [RbReadUpd(m, len) EXCEPT !.stream = [s \in Cpvt |->
     IF s \in m.streams
     THEN [@[s] EXCEPT !.used = IF @ > len THEN @ - len ELSE 0] ELSE @[s]]]

(* mixb_read_upd: every stream follows the read position; one that was not   *)
(* that far starts again at it.                                              *)
MixbReadUpd(m, len) ==
  LET rb == RbReadUpd(m, len)
      Left(s) == IF m.stream[s].used > len THEN m.stream[s].used - len ELSE 0
  IN  [rb EXCEPT !.stream = [s \in Cpvt |->
         IF s \in m.streams THEN [used |-> Left(s), write |-> Wrap(rb.read + Left(s))]
         ELSE @[s]]]

(* What the next reads will take, in order.  *)
MixbContents(m) == [i \in 1..m.used |-> m.buffer[Wrap(m.read + i - 1)]]

(* All positions agree: every write position is its fill level ahead of the  *)
(* one read position, and no stream is ahead of the buffer.                  *)
Aligned(m) ==
  /\ m.write = Wrap(m.read + m.used)
  /\ \A s \in m.streams : /\ m.stream[s].used <= m.used
                          /\ m.stream[s].write = Wrap(m.read + m.stream[s].used)
=============================================================================
