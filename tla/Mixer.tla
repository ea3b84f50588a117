------------------------------- MODULE Mixer -------------------------------
(***************************************************************************)
(* What the mixing of a device's calls promises, without a ring buffer: a    *)
(* line of slots still to be played, to which every voice adds from the      *)
(* point where it stopped, in order and nothing twice.                       *)
(***************************************************************************)
EXTENDS Integers, Sequences

CONSTANTS
  Voices,        \* who can speak
  Frames,        \* the frames each of them can say
  Capacity       \* how long the line can get

VARIABLES
  line,      \* what is to be played, slot by slot
  on,        \* who is attached
  ahead      \* how many slots each of them has filled

vars == << line, on, ahead >>

Init == line = << >> /\ on = {} /\ ahead = [v \in Voices |-> 0]

Lower(a, b) == IF a < b THEN a ELSE b
Less(a, n)  == IF a > n THEN a - n ELSE 0
After(n)    == SubSeq(line, n + 1, Len(line))

(* A new voice speaks with the others from the next slot on.  *)
Join(v) ==
  /\ v \notin on
  /\ on' = on \cup {v} /\ UNCHANGED << line, ahead >>

(* Some or all stop; what they have said is still heard.  *)
Leave(some) ==
  /\ some # {} /\ some \subseteq on
  /\ on' = on \ some /\ UNCHANGED line
  /\ ahead' = [v \in Voices |-> IF v \in some THEN 0 ELSE ahead[v]]

(* A voice too far ahead costs everyone the oldest slots, and no more of     *)
(* them than its frame needs.                                                *)
Say(v, frame) ==
  LET lost == Less(ahead[v] + Len(frame), Capacity)
      rest == After(lost)
      from == Less(ahead[v], lost)
      upto == from + Lower(Len(frame), Capacity - from)
      Rest(i) == IF i <= Len(rest) THEN rest[i] ELSE {}
      Said(i) == IF from < i /\ i <= upto THEN frame[i - from] ELSE {}
  IN  /\ v \in on
      /\ line' = [i \in 1..(IF upto > Len(rest) THEN upto ELSE Len(rest)) |->
                    Rest(i) \cup Said(i)]
      /\ ahead' = [w \in Voices |-> IF w = v THEN upto ELSE Less(ahead[w], lost)]
      /\ UNCHANGED on

Play(n) ==
  /\ n \in 1..Len(line)
  /\ line' = After(n)
  /\ ahead' = [v \in Voices |-> Less(ahead[v], n)]
  /\ UNCHANGED on

(* When no one is attached the line can be cleared.  *)
Clear == on = {} /\ line' = << >> /\ UNCHANGED << on, ahead >>

Next ==
  \/ \E v \in Voices : Join(v) \/ \E frame \in Frames[v] : Say(v, frame)
  \/ \E some \in SUBSET Voices : Leave(some)
  \/ \E n \in 1..Len(line) : Play(n)
  \/ Clear

Spec == Init /\ [][Next]_vars
=============================================================================
