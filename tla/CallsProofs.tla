---------------------------- MODULE CallsProofs ----------------------------
(***************************************************************************)
(* For any number of cpvts and of calls the modem can carry, any options and *)
(* any of the faults: the counts of a device agree with its list of cpvts,   *)
(* and nothing points to a cpvt that was freed.                              *)
(***************************************************************************)
EXTENDS Calls, AtQueueProofs, WellFoundedInduction

(* A task is allocated: its identity is a new one whatever is queued.        *)
NewIdLeft == ~IsFiniteSet(TaskIds)

(* The struct pvt between any two of its operations.                         *)
PvtRec ==
  [chans : Seq(Cpvt), cpvt : [Cpvt -> CpvtRec], chansno : Nat, count : [CallState -> Nat],
   ring : BOOLEAN, dialing : BOOLEAN, cwaiting : BOOLEAN, lastDialed : Cpvt \cup {NoCpvt},
   volSync : 0..2, q : Queue, target : [TaskIds -> Target]]

(* A cpvt is in the list once, and is counted with its state. *)
Once(s) == \A m, n \in 1..Len(s) : s[m] = s[n] => m = n
InState(p, s) == { c \in Chans(p) : p.cpvt[c].state = s }
CountOK(p) ==
  /\ p.chansno = Len(p.chans)
  /\ \A s \in CallState : p.count[s] = Cardinality(InState(p, s))

(* Whatever points to a cpvt points to one of the list.  *)
RefOK(p) ==
  /\ \A t \in TaskIds : p.target[t].cpvt \in Chans(p) \cup {Sys}
  /\ p.lastDialed \in Chans(p) \cup {NoCpvt}

PvtOK(p) == p \in PvtRec /\ Once(p.chans) /\ CountOK(p) /\ RefOK(p) /\ QueueOK(p.q)

(* The inductive invariant. *)
CallsInv == PvtOK(pvt) /\ tty \in Seq(CallResult) /\ calls \in CallTable

-----------------------------------------------------------------------------
(* Least elements.                                                           *)

LEMMA MinOf ==
  ASSUME NEW T \in SUBSET Nat, T # {}
  PROVE  Min(T) \in T /\ \A y \in T : Min(T) <= y
<1> DEFINE R == OpToRel(<, Nat)
<1>1. IsWellFoundedOn(R, Nat)
  BY NatLessThanWellFounded
<1>2. \A x, y \in Nat : x < y => << x, y >> \in R
  BY DEF OpToRel
<1> HIDE DEF R
<1>3. PICK x \in T : \A y \in T : ~(<< y, x >> \in R)
  BY <1>1, WFMin
<1>4. \A y \in T : x <= y
  <2>1. SUFFICES ASSUME NEW y \in T, ~(x <= y) PROVE FALSE
    OBVIOUS
  <2>2. y < x
    BY <2>1
  <2>3. QED  BY <1>2, <1>3, <2>2
<1>5. QED  BY <1>4 DEF Min

LEMMA NewId ==
  ASSUME NewIdLeft, NEW x, QueueOK(x)
  PROVE  /\ Min(TaskIds \ Queued(x)) \in TaskIds
         /\ Min(TaskIds \ Queued(x)) \notin Queued(x)
<1>1. IsFiniteSet(Queued(x))
  <2> DEFINE f == [i \in 1..Len(x.tasks) |-> x.tasks[i].id]
  <2>1. IsFiniteSet(1..Len(x.tasks))
    <3>1. Len(x.tasks) \in Int /\ 1 \in Int
      BY QueueFields
    <3>2. QED  BY <3>1, FS_Interval
  <2>2. f \in Surjection(1..Len(x.tasks), Queued(x))
    BY DEF Surjection, Queued
  <2>3. QED  BY <2>1, <2>2, FS_Surjection
<1>2. TaskIds \ Queued(x) # {}
  <2>1. SUFFICES ASSUME TaskIds \subseteq Queued(x) PROVE FALSE
    OBVIOUS
  <2>2. QED  BY <1>1, <2>1, FS_Subset DEF NewIdLeft
<1>3. TaskIds \ Queued(x) \in SUBSET Nat
  BY CallsAssumption
<1>4. QED  BY <1>2, <1>3, MinOf

-----------------------------------------------------------------------------
(* The fields of a struct pvt.                                               *)

LEMMA PvtFields ==
  ASSUME NEW p \in PvtRec
  PROVE  /\ p.chans \in Seq(Cpvt) /\ p.cpvt \in [Cpvt -> CpvtRec] /\ p.chansno \in Nat
         /\ p.count \in [CallState -> Nat] /\ p.ring \in BOOLEAN /\ p.dialing \in BOOLEAN
         /\ p.cwaiting \in BOOLEAN /\ p.lastDialed \in Cpvt \cup {NoCpvt}
         /\ p.volSync \in 0..2 /\ p.q \in Queue /\ p.target \in [TaskIds -> Target]
         /\ Len(p.chans) \in Nat
         /\ \A c \in Chans(p) : c \in Cpvt /\ p.cpvt[c] \in CpvtRec
         /\ \A c \in Cpvt : p.cpvt[c] \in CpvtRec
<1>1. p.chans \in Seq(Cpvt)
  BY DEF PvtRec
<1>2. \A c \in Chans(p) : c \in Cpvt
  BY <1>1, ElementOfSeq DEF Chans
<1>3. QED  BY <1>1, <1>2, LenProperties DEF PvtRec

(* An update of the parts the counts and pointers do not speak of. *)
LEMMA FrameOK ==
  ASSUME NEW p, PvtOK(p), NEW r \in PvtRec, r.chans = p.chans, r.chansno = p.chansno,
         r.count = p.count, \A c \in Cpvt : r.cpvt[c].state = p.cpvt[c].state,
         RefOK(r), QueueOK(r.q)
  PROVE  PvtOK(r) /\ Chans(r) = Chans(p)
<1>1. Chans(r) = Chans(p)
  BY DEF Chans
<1>2. \A s \in CallState : InState(r, s) = InState(p, s)
  BY <1>1, PvtFields DEF InState, PvtOK
<1>3. QED  BY <1>1, <1>2 DEF PvtOK, CountOK

(* What the operations on the queue leave alone.  *)
SameCalls(p, r) ==
  /\ r.chans = p.chans /\ r.cpvt = p.cpvt /\ r.chansno = p.chansno /\ r.count = p.count
  /\ r.ring = p.ring /\ r.dialing = p.dialing /\ r.cwaiting = p.cwaiting
  /\ r.volSync = p.volSync

LEMMA WithQueueOK ==
  ASSUME NEW p, PvtOK(p), NEW x, QueueOK(x)
  PROVE  PvtOK(WithQueue(p, x)) /\ SameCalls(p, WithQueue(p, x))
         /\ Chans(WithQueue(p, x)) = Chans(p)
         /\ WithQueue(p, x).lastDialed = p.lastDialed
<1> DEFINE tg == [t \in TaskIds |-> IF t \in Queued(x) THEN p.target[t] ELSE AtSys]
           r == WithQueue(p, x)
<1>1. /\ p \in PvtRec /\ x \in Queue /\ p.target \in [TaskIds -> Target]
  BY PvtFields DEF PvtOK, QueueOK
<1>2. r = [p EXCEPT !.q = x, !.target = tg]
  BY <1>1 DEF WithQueue
<1>3. AtSys \in Target /\ AtSys.cpvt = Sys
  BY CallsAssumption DEF AtSys, Target
<1>4. tg \in [TaskIds -> Target] /\ \A t \in TaskIds : tg[t].cpvt \in Chans(p) \cup {Sys}
  BY <1>1, <1>3 DEF PvtOK, RefOK
<1> HIDE DEF tg, r
<1>5. r \in PvtRec
  BY <1>1, <1>2, <1>4 DEF PvtRec
<1>6. SameCalls(p, r) /\ r.q = x /\ r.target = tg /\ r.lastDialed = p.lastDialed
  BY <1>1, <1>2 DEF PvtRec, SameCalls
<1>7. RefOK(r)
  BY <1>4, <1>6 DEF RefOK, Chans, SameCalls, PvtOK
<1>8. PvtOK(r) /\ Chans(r) = Chans(p)
  BY <1>5, <1>6, <1>7, FrameOK DEF SameCalls
<1>9. QED  BY <1>6, <1>8 DEF r

LEMMA EnqueOK ==
  ASSUME NewIdLeft, NEW p, PvtOK(p), NEW kind \in Kind, NEW c \in Chans(p) \cup {Sys},
         NEW i \in 0..MaxCallIdx
  PROVE  /\ PvtOK(Enque(p, kind, c, i)) /\ SameCalls(p, Enque(p, kind, c, i))
         /\ Chans(Enque(p, kind, c, i)) = Chans(p)
         /\ Enque(p, kind, c, i).lastDialed = p.lastDialed
<1> DEFINE id == Min(TaskIds \ Queued(p.q))
           x == AtQueueRun(AtQueueAdd(p.q, id, kind), TRUE)
           tg == [p.target EXCEPT ![id] = [cpvt |-> c, idx |-> i]]
           r == Enque(p, kind, c, i)
<1>1. /\ p \in PvtRec /\ p.target \in [TaskIds -> Target] /\ QueueOK(p.q)
      /\ c \in Cpvt \cup {Sys}
  BY PvtFields DEF PvtOK
<1>2. id \in TaskIds /\ id \notin Queued(p.q)
  BY <1>1, NewId
<1>3. r = [p EXCEPT !.q = x, !.target = tg]
  BY <1>1 DEF Enque
<1> HIDE DEF id
<1>4. QueueOK(x)
  BY <1>1, <1>2, AddKeepsOK, RunKeepsOK
<1>5. tg \in [TaskIds -> Target] /\ \A t \in TaskIds : tg[t].cpvt \in Chans(p) \cup {Sys}
  BY <1>1, <1>2 DEF Target, PvtOK, RefOK
<1>6. x \in Queue
  BY <1>4 DEF QueueOK
<1> HIDE DEF x, tg, r
<1>7. r \in PvtRec
  BY <1>1, <1>3, <1>5, <1>6 DEF PvtRec
<1>8. SameCalls(p, r) /\ r.q = x /\ r.target = tg /\ r.lastDialed = p.lastDialed
  BY <1>1, <1>3 DEF PvtRec, SameCalls
<1>9. RefOK(r)
  BY <1>5, <1>8 DEF RefOK, Chans, SameCalls, PvtOK
<1>10. PvtOK(r) /\ Chans(r) = Chans(p)
  BY <1>4, <1>7, <1>8, <1>9, FrameOK DEF SameCalls
<1>11. QED  BY <1>8, <1>10 DEF r

-----------------------------------------------------------------------------
(* The list of cpvts.                                                        *)

LEMMA ChansFinite ==
  ASSUME NEW s \in Seq(Cpvt)
  PROVE  IsFiniteSet({ s[n] : n \in 1..Len(s) })
<1> DEFINE f == [n \in 1..Len(s) |-> s[n]]
<1>1. Len(s) \in Int /\ 1 \in Int
  BY LenProperties
<1>2. IsFiniteSet(1..Len(s))
  BY <1>1, FS_Interval
<1>3. f \in Surjection(1..Len(s), { s[n] : n \in 1..Len(s) })
  BY DEF Surjection
<1>4. QED  BY <1>2, <1>3, FS_Surjection

LEMMA StateCounts ==
  ASSUME NEW p \in PvtRec, NEW s
  PROVE  IsFiniteSet(Chans(p)) /\ IsFiniteSet(InState(p, s)) /\ Cardinality(InState(p, s)) \in Nat
<1>1. IsFiniteSet(Chans(p))
  BY PvtFields, ChansFinite DEF Chans
<1>2. InState(p, s) \subseteq Chans(p)
  BY DEF InState
<1>3. QED  BY <1>1, <1>2, FS_Subset, FS_CardinalityType

LEMMA RemoveFirstOnce ==
  ASSUME NEW s \in Seq(Cpvt), Once(s), NEW k \in 1..Len(s)
  PROVE  LET u == RemoveFirst(s, s[k])
         IN  /\ u \in Seq(Cpvt) /\ Len(u) = Len(s) - 1 /\ Once(u)
             /\ { u[n] : n \in 1..Len(u) } = { s[n] : n \in 1..Len(s) } \ {s[k]}
<1> DEFINE u == RemoveFirst(s, s[k])
           I == { i \in 1..Len(s) : s[i] = s[k] }
<1>1. Len(s) \in Nat
  BY LenProperties
<1>2. I = {k}
  BY DEF Once
<1>3. u = RemoveAt(s, Min(I))
  BY DEF RemoveFirst, SelectInSeq
<1>4. Min(I) = k
  <2>1. I \in SUBSET Nat /\ I # {}
    BY <1>1, <1>2
  <2>2. Min(I) \in I
    BY <2>1, MinOf
  <2>3. QED  BY <1>2, <2>2
<1>5. u = SubSeq(s, 1, k-1) \o SubSeq(s, k+1, Len(s))
  BY <1>3, <1>4 DEF RemoveAt
<1> DEFINE a == SubSeq(s, 1, k-1)
           b == SubSeq(s, k+1, Len(s))
<1>6. a \in Seq(Cpvt) /\ Len(a) = k-1 /\ \A i \in 1..k-1 : a[i] = s[i]
  <2>1. \A i \in 1..k-1 : s[i] \in Cpvt
    BY <1>1, ElementOfSeq
  <2>2. 1 \in Int /\ k-1 \in Int
    BY <1>1
  <2>3. /\ a \in Seq(Cpvt) /\ Len(a) = IF 1 <= k-1 THEN k-1-1+1 ELSE 0
        /\ \A i \in 1..k-1-1+1 : a[i] = s[1+i-1]
    BY <2>1, <2>2, SubSeqProperties
  <2> HIDE DEF a
  <2>4. QED  BY <1>1, <2>3
<1>7. b \in Seq(Cpvt) /\ Len(b) = Len(s)-k /\ \A i \in 1..Len(s)-k : b[i] = s[k+i]
  <2>1. \A i \in k+1..Len(s) : s[i] \in Cpvt
    BY <1>1, ElementOfSeq
  <2>2. k+1 \in Int /\ Len(s) \in Int
    BY <1>1
  <2>3. /\ b \in Seq(Cpvt) /\ Len(b) = IF k+1 <= Len(s) THEN Len(s)-(k+1)+1 ELSE 0
        /\ \A i \in 1..Len(s)-(k+1)+1 : b[i] = s[k+1+i-1]
    BY <2>1, <2>2, SubSeqProperties
  <2> HIDE DEF b
  <2>4. QED  BY <1>1, <2>3
<1> HIDE DEF a, b, u
<1>8. /\ u \in Seq(Cpvt) /\ Len(u) = Len(s) - 1
      /\ \A i \in 1..Len(s)-1 : u[i] = IF i < k THEN s[i] ELSE s[i+1]
  <2>1. u = a \o b
    BY <1>5 DEF a, b
  <2>2. /\ u \in Seq(Cpvt) /\ Len(u) = Len(a) + Len(b)
        /\ \A i \in 1..Len(a)+Len(b) : u[i] = IF i <= Len(a) THEN a[i] ELSE b[i - Len(a)]
    BY <1>6, <1>7, <2>1, ConcatProperties
  <2>3. Len(u) = Len(s) - 1
    BY <1>1, <1>6, <1>7, <2>2
  <2>4. ASSUME NEW i \in 1..Len(s)-1
        PROVE  u[i] = IF i < k THEN s[i] ELSE s[i+1]
    <3>0. i \in 1..Len(a)+Len(b) /\ Len(a) = k-1
      BY <1>1, <1>6, <1>7
    <3>1. CASE i < k
      <4>1. i <= Len(a) /\ i \in 1..k-1
        BY <1>1, <3>0, <3>1
      <4>2. u[i] = a[i]
        BY <2>2, <3>0, <4>1
      <4>3. QED  BY <1>6, <3>1, <4>1, <4>2
    <3>2. CASE ~(i < k)
      <4>1. /\ ~(i <= Len(a)) /\ i - Len(a) \in 1..Len(s)-k
            /\ k + (i - Len(a)) = i+1
        BY <1>1, <3>0, <3>2
      <4>2. u[i] = b[i - Len(a)]
        BY <2>2, <3>0, <4>1
      <4>3. b[i - Len(a)] = s[i+1]
        BY <1>7, <4>1
      <4>4. QED  BY <3>2, <4>2, <4>3
    <3>3. QED  BY <3>1, <3>2
  <2>5. QED  BY <2>2, <2>3, <2>4
<1>9. Once(u)
  <2>1. SUFFICES ASSUME NEW m \in 1..Len(s)-1, NEW n \in 1..Len(s)-1, u[m] = u[n]
                 PROVE  m = n
    BY <1>8 DEF Once
  <2>2. /\ u[m] = IF m < k THEN s[m] ELSE s[m+1]
        /\ u[n] = IF n < k THEN s[n] ELSE s[n+1]
    BY <1>8
  <2>3. m \in 1..Len(s) /\ m+1 \in 1..Len(s) /\ n \in 1..Len(s) /\ n+1 \in 1..Len(s)
    BY <1>1
  <2>4. CASE m < k /\ n < k
    BY <2>1, <2>2, <2>3, <2>4 DEF Once
  <2>5. CASE m < k /\ ~(n < k)
    <3>1. m = n+1
      BY <2>1, <2>2, <2>3, <2>5 DEF Once
    <3>2. QED  BY <1>1, <2>5, <3>1
  <2>6. CASE ~(m < k) /\ n < k
    <3>1. m+1 = n
      BY <2>1, <2>2, <2>3, <2>6 DEF Once
    <3>2. QED  BY <1>1, <2>6, <3>1
  <2>7. CASE ~(m < k) /\ ~(n < k)
    <3>1. m+1 = n+1
      BY <2>1, <2>2, <2>3, <2>7 DEF Once
    <3>2. QED  BY <1>1, <3>1
  <2>8. QED  BY <2>4, <2>5, <2>6, <2>7
<1>10. ASSUME NEW c
       PROVE  c \in { u[n] : n \in 1..Len(u) } <=> c \in { s[n] : n \in 1..Len(s) } \ {s[k]}
  <2>1. ASSUME NEW n \in 1..Len(u), c = u[n]
        PROVE  c \in { s[m] : m \in 1..Len(s) } \ {s[k]}
    <3>1. n \in 1..Len(s)-1 /\ n \in 1..Len(s) /\ n+1 \in 1..Len(s)
      BY <1>1, <1>8
    <3>2. CASE n < k
      <4>1. c = s[n] /\ n # k
        BY <1>1, <1>8, <2>1, <3>1, <3>2
      <4>2. QED  BY <3>1, <4>1 DEF Once
    <3>3. CASE ~(n < k)
      <4>1. c = s[n+1] /\ n+1 # k
        BY <1>1, <1>8, <2>1, <3>1, <3>3
      <4>2. QED  BY <3>1, <4>1 DEF Once
    <3>4. QED  BY <3>2, <3>3
  <2>2. ASSUME NEW m \in 1..Len(s), c = s[m], s[m] # s[k]
        PROVE  c \in { u[n] : n \in 1..Len(u) }
    <3>1. CASE m < k
      <4>1. m \in 1..Len(u) /\ u[m] = s[m]
        BY <1>1, <1>8, <3>1
      <4>2. QED  BY <2>2, <4>1
    <3>2. CASE m > k
      <4>1. m-1 \in 1..Len(u) /\ m-1 \in 1..Len(s)-1 /\ ~(m-1 < k) /\ (m-1)+1 = m
        BY <1>1, <1>8, <3>2
      <4>2. u[m-1] = s[m]
        BY <1>8, <4>1
      <4>3. QED  BY <2>2, <4>1, <4>2
    <3>3. QED  BY <1>1, <2>2, <3>1, <3>2
  <2>3. QED  BY <2>1, <2>2
<1>11. { u[n] : n \in 1..Len(u) } = { s[n] : n \in 1..Len(s) } \ {s[k]}
  BY <1>10
<1>12. QED  BY <1>8, <1>9, <1>11 DEF u

(* A cpvt is listed with its state, or loses it with its place. *)
LEMMA FreeIsRec ==
  Free \in CpvtRec
<1>1. 0 \in 0..MaxCallIdx
  BY CallsAssumption
<1>2. QED  BY <1>1 DEF Free, CpvtRec, Dir, CallState

LEMMA CpvtAllocOK ==
  ASSUME NEW p, PvtOK(p), NEW c \in Cpvt \ Chans(p), NEW new \in CpvtRec
  PROVE  LET r == CpvtAlloc(p, c, new)
         IN  /\ PvtOK(r) /\ Chans(r) = Chans(p) \cup {c}
             /\ r.cpvt = [p.cpvt EXCEPT ![c] = new] /\ r.volSync = p.volSync
<1> DEFINE r == CpvtAlloc(p, c, new)
           ns == new.state
<1>1. /\ p \in PvtRec /\ Once(p.chans) /\ CountOK(p) /\ RefOK(p) /\ QueueOK(p.q)
  BY DEF PvtOK
<1>2. /\ p.chans \in Seq(Cpvt) /\ p.cpvt \in [Cpvt -> CpvtRec] /\ p.chansno \in Nat
      /\ p.count \in [CallState -> Nat] /\ Len(p.chans) \in Nat /\ Chans(p) \subseteq Cpvt
  BY <1>1, PvtFields
<1>3. ns \in CallState
  BY DEF CpvtRec
<1>4. r = [p EXCEPT !.chans = Append(p.chans, c), !.cpvt = [p.cpvt EXCEPT ![c] = new],
                    !.chansno = p.chansno + 1, !.count = [p.count EXCEPT ![ns] = @ + 1]]
  BY <1>1 DEF CpvtAlloc, PvtRec
<1> HIDE DEF r
<1>5. /\ Append(p.chans, c) \in Seq(Cpvt) /\ [p.cpvt EXCEPT ![c] = new] \in [Cpvt -> CpvtRec]
      /\ p.chansno + 1 \in Nat /\ [p.count EXCEPT ![ns] = @ + 1] \in [CallState -> Nat]
  BY <1>2, <1>3, AppendProperties
<1>6. r \in PvtRec
  BY <1>1, <1>4, <1>5 DEF PvtRec
<1>7. /\ r.chans = Append(p.chans, c) /\ r.cpvt = [p.cpvt EXCEPT ![c] = new]
      /\ r.chansno = p.chansno + 1 /\ r.count = [p.count EXCEPT ![ns] = @ + 1]
      /\ r.q = p.q /\ r.target = p.target /\ r.lastDialed = p.lastDialed
      /\ r.volSync = p.volSync
  BY <1>1, <1>4 DEF PvtRec
<1>8. /\ Len(r.chans) = Len(p.chans) + 1 /\ r.chans[Len(p.chans) + 1] = c
      /\ \A n \in 1..Len(p.chans) : r.chans[n] = p.chans[n]
  BY <1>2, <1>7, AppendProperties
<1>9. Chans(r) = Chans(p) \cup {c}
  <2>1. ASSUME NEW d PROVE d \in Chans(r) <=> d \in Chans(p) \cup {c}
    <3>1. ASSUME NEW n \in 1..Len(r.chans), d = r.chans[n] PROVE d \in Chans(p) \cup {c}
      <4>1. n \in 1..Len(p.chans) \/ n = Len(p.chans) + 1
        BY <1>2, <1>8
      <4>2. QED  BY <1>8, <3>1, <4>1 DEF Chans
    <3>2. ASSUME NEW n \in 1..Len(p.chans), d = p.chans[n] PROVE d \in Chans(r)
      <4>1. n \in 1..Len(r.chans)
        BY <1>2, <1>8
      <4>2. QED  BY <1>8, <3>2, <4>1 DEF Chans
    <3>3. c \in Chans(r)
      <4>1. Len(p.chans) + 1 \in 1..Len(r.chans)
        BY <1>2, <1>8
      <4>2. QED  BY <1>8, <4>1 DEF Chans
    <3>4. QED  BY <3>1, <3>2, <3>3 DEF Chans
  <2>2. QED  BY <2>1
<1>10. Once(r.chans)
  <2>1. SUFFICES ASSUME NEW m \in 1..Len(r.chans), NEW n \in 1..Len(r.chans),
                        r.chans[m] = r.chans[n]
                 PROVE  m = n
    BY DEF Once
  <2>2. /\ m \in 1..Len(p.chans) \/ m = Len(p.chans) + 1
        /\ n \in 1..Len(p.chans) \/ n = Len(p.chans) + 1
    BY <1>2, <1>8
  <2>3. \A k \in 1..Len(p.chans) : r.chans[k] # c
    BY <1>8 DEF Chans
  <2>4. QED  BY <1>1, <1>8, <2>1, <2>2, <2>3 DEF Once
<1>11. CountOK(r)
  <2>1. InState(r, ns) = InState(p, ns) \cup {c} /\ c \notin InState(p, ns)
    BY <1>2, <1>7, <1>9 DEF InState
  <2>2. \A s \in CallState \ {ns} : InState(r, s) = InState(p, s)
    BY <1>2, <1>7, <1>9 DEF InState
  <2>3. Cardinality(InState(r, ns)) = Cardinality(InState(p, ns)) + 1
    BY <1>1, <2>1, StateCounts, FS_AddElement
  <2>4. \A s \in CallState : r.count[s] = Cardinality(InState(r, s))
    BY <1>1, <1>2, <1>3, <1>7, <2>2, <2>3 DEF CountOK
  <2>5. QED  BY <1>1, <1>7, <1>8, <2>4 DEF CountOK
<1>12. RefOK(r)
  BY <1>1, <1>7, <1>9 DEF RefOK
<1>13. PvtOK(r)
  BY <1>1, <1>6, <1>7, <1>10, <1>11, <1>12 DEF PvtOK
<1>14. QED  BY <1>7, <1>9, <1>13 DEF r

LEMMA CpvtFreeOK ==
  ASSUME NEW p, PvtOK(p), NEW c \in Chans(p)
  PROVE  LET r == CpvtFree(p, c)
         IN  /\ PvtOK(r) /\ Chans(r) = Chans(p) \ {c} /\ r.volSync = p.volSync
<1> DEFINE r == CpvtFree(p, c)
           os == p.cpvt[c].state
           tg == [t \in TaskIds |-> IF p.target[t].cpvt = c
                                    THEN [p.target[t] EXCEPT !.cpvt = Sys] ELSE p.target[t]]
           ld == IF p.lastDialed = c THEN NoCpvt ELSE p.lastDialed
<1>1. /\ p \in PvtRec /\ Once(p.chans) /\ CountOK(p) /\ RefOK(p) /\ QueueOK(p.q)
  BY DEF PvtOK
<1>2. /\ p.chans \in Seq(Cpvt) /\ p.cpvt \in [Cpvt -> CpvtRec] /\ p.chansno \in Nat
      /\ p.count \in [CallState -> Nat] /\ Len(p.chans) \in Nat /\ Chans(p) \subseteq Cpvt
      /\ p.target \in [TaskIds -> Target] /\ p.lastDialed \in Cpvt \cup {NoCpvt} /\ c \in Cpvt
  BY <1>1, PvtFields
<1>3. os \in CallState
  BY <1>2 DEF CpvtRec
<1>4. PICK k \in 1..Len(p.chans) : p.chans[k] = c
  BY DEF Chans
<1> DEFINE u == RemoveFirst(p.chans, c)
<1>5. /\ u \in Seq(Cpvt) /\ Len(u) = Len(p.chans) - 1 /\ Once(u)
      /\ { u[n] : n \in 1..Len(u) } = Chans(p) \ {c}
  <2>1. LET v == RemoveFirst(p.chans, p.chans[k])
        IN  /\ v \in Seq(Cpvt) /\ Len(v) = Len(p.chans) - 1 /\ Once(v)
            /\ { v[n] : n \in 1..Len(v) } = { p.chans[n] : n \in 1..Len(p.chans) } \ {p.chans[k]}
    BY <1>1, <1>2, RemoveFirstOnce
  <2>2. u = RemoveFirst(p.chans, p.chans[k])
    BY <1>4
  <2>3. Chans(p) \ {c} = { p.chans[n] : n \in 1..Len(p.chans) } \ {p.chans[k]}
    BY <1>4 DEF Chans
  <2> HIDE DEF u
  <2> QED  BY <2>1, <2>2, <2>3, Zenon
<1>6. r = [p EXCEPT !.chans = u, !.cpvt = [p.cpvt EXCEPT ![c] = Free],
                    !.chansno = p.chansno - 1, !.count = [p.count EXCEPT ![os] = @ - 1],
                    !.target = tg, !.lastDialed = ld]
  BY <1>1 DEF CpvtFree, PvtRec
<1>7. /\ Len(p.chans) # 0 /\ p.chansno - 1 \in Nat
  BY <1>1, <1>2, <1>4 DEF CountOK
<1>8. c \in InState(p, os)
  BY DEF InState
<1>9. Cardinality(InState(p, os) \ {c}) = Cardinality(InState(p, os)) - 1
  <2>1. IsFiniteSet(InState(p, os))
    BY <1>1, StateCounts
  <2>2. QED  BY <1>8, <2>1, FS_RemoveElement
<1>10. IsFiniteSet(InState(p, os) \ {c})
  BY <1>1, StateCounts, FS_RemoveElement
<1>11. p.count[os] - 1 = Cardinality(InState(p, os) \ {c}) /\ p.count[os] - 1 \in Nat
  <2>1. Cardinality(InState(p, os) \ {c}) \in Nat
    BY <1>10, FS_CardinalityType
  <2>2. QED  BY <1>1, <1>3, <1>9, <2>1 DEF CountOK
<1>12. tg \in [TaskIds -> Target] /\ \A t \in TaskIds : tg[t].cpvt \in (Chans(p) \ {c}) \cup {Sys}
  <2>1. ASSUME NEW t \in TaskIds
        PROVE  tg[t] \in Target /\ tg[t].cpvt \in (Chans(p) \ {c}) \cup {Sys}
    <3>1. p.target[t] \in Target /\ p.target[t].cpvt \in Chans(p) \cup {Sys}
      BY <1>1, <1>2 DEF RefOK
    <3>2. QED  BY <3>1 DEF Target
  <2>2. QED  BY <2>1
<1>13. ld \in Cpvt \cup {NoCpvt} /\ ld \in (Chans(p) \ {c}) \cup {NoCpvt}
  BY <1>1, <1>2 DEF RefOK
<1> HIDE DEF r, u, tg, ld
<1>14. /\ [p.cpvt EXCEPT ![c] = Free] \in [Cpvt -> CpvtRec]
       /\ [p.count EXCEPT ![os] = @ - 1] \in [CallState -> Nat]
  BY <1>2, <1>3, <1>11, FreeIsRec
<1>15. r \in PvtRec
  BY <1>1, <1>5, <1>6, <1>7, <1>12, <1>13, <1>14 DEF PvtRec
<1>16. /\ r.chans = u /\ r.cpvt = [p.cpvt EXCEPT ![c] = Free]
       /\ r.chansno = p.chansno - 1 /\ r.count = [p.count EXCEPT ![os] = @ - 1]
       /\ r.q = p.q /\ r.target = tg /\ r.lastDialed = ld /\ r.volSync = p.volSync
  BY <1>1, <1>6 DEF PvtRec
<1>17. Chans(r) = Chans(p) \ {c}
  BY <1>5, <1>16 DEF Chans
<1>18. CountOK(r)
  <2>1. InState(r, os) = InState(p, os) \ {c}
    BY <1>2, <1>16, <1>17 DEF InState
  <2>2. \A s \in CallState \ {os} : InState(r, s) = InState(p, s)
    BY <1>2, <1>16, <1>17 DEF InState
  <2>3. \A s \in CallState : r.count[s] = Cardinality(InState(r, s))
    BY <1>1, <1>2, <1>3, <1>11, <1>16, <2>1, <2>2 DEF CountOK
  <2>4. r.chansno = Len(r.chans)
    BY <1>1, <1>2, <1>5, <1>16 DEF CountOK
  <2>5. QED  BY <2>3, <2>4 DEF CountOK
<1>19. RefOK(r)
  BY <1>12, <1>13, <1>16, <1>17 DEF RefOK
<1>20. PvtOK(r)
  BY <1>1, <1>5, <1>15, <1>16, <1>18, <1>19 DEF PvtOK
<1>21. QED  BY <1>16, <1>17, <1>20 DEF r

-----------------------------------------------------------------------------
(* The state of a call.                                                      *)

(* Of an operation: no cpvt comes, and c alone may go.  *)
Keeps(p, r, c) == Chans(r) \subseteq Chans(p) /\ Chans(p) \ {c} \subseteq Chans(r)

LEMMA CallStates ==
  /\ "active" \in CallState /\ "released" \in CallState /\ "dialing" \in CallState
  /\ "init" \in CallState /\ "incoming" \in CallState /\ "waiting" \in CallState
  /\ "held" \in CallState /\ "alerting" \in CallState
BY DEF CallState

LEMMA ChangeStateOK ==
  ASSUME NEW p, PvtOK(p), NEW c \in Chans(p), NEW s \in CallState
  PROVE  LET r == ChangeState(p, c, s)
         IN  /\ PvtOK(r) /\ Keeps(p, r, c) /\ r.volSync = p.volSync
             /\ s # "released" => Chans(r) = Chans(p)
<1> DEFINE os == p.cpvt[c].state
           r  == ChangeState(p, c, s)
           x  == [p.cpvt EXCEPT ![c] = [@ EXCEPT !.state = s]]
           n  == [p.count EXCEPT ![os] = @ - 1, ![s] = @ + 1]
           over == s \in {"active", "released"}
           dl == p.dialing /\ ~(over /\ os \in {"init", "dialing", "alerting"})
           rg == p.ring /\ ~(over /\ os = "incoming")
           cw == p.cwaiting /\ ~(over /\ os = "waiting")
           d  == [p EXCEPT !.cpvt = x, !.count = n, !.dialing = dl, !.ring = rg,
                           !.cwaiting = cw]
<1>1. /\ p \in PvtRec /\ Once(p.chans) /\ CountOK(p) /\ RefOK(p) /\ QueueOK(p.q)
  BY DEF PvtOK
<1>2. /\ p.cpvt \in [Cpvt -> CpvtRec] /\ p.count \in [CallState -> Nat] /\ Chans(p) \subseteq Cpvt
      /\ c \in Cpvt /\ p.cpvt[c] \in CpvtRec
      /\ p.dialing \in BOOLEAN /\ p.ring \in BOOLEAN /\ p.cwaiting \in BOOLEAN
  BY <1>1, PvtFields
<1>3. os \in CallState
  BY <1>2 DEF CpvtRec
<1>4. CASE s = os
  <2>1. r = p
    BY <1>4 DEF ChangeState
  <2>2. QED  BY <2>1 DEF Keeps
<1>5. CASE s # os
  <2>1. r = IF s = "released" THEN CpvtFree(d, c) ELSE d
    <3> DEFINE d1 == [p EXCEPT !.cpvt[c].state = s,
                               !.count[os] = @ - 1, !.count[s] = @ + 1]
               o1 == over /\ os \in {"init", "dialing", "alerting"}
               o2 == over /\ os = "incoming"
               o3 == over /\ os = "waiting"
               d2 == [d1 EXCEPT !.dialing = @ /\ ~o1, !.ring = @ /\ ~o2, !.cwaiting = @ /\ ~o3]
    <3>1. d1 = [p EXCEPT !.cpvt = x, !.count = n]
      BY <1>1 DEF PvtRec
    <3>2. d1.dialing = p.dialing /\ d1.ring = p.ring /\ d1.cwaiting = p.cwaiting
      BY <1>1, <3>1 DEF PvtRec
    <3>3. d2 = [d1 EXCEPT !.dialing = dl, !.ring = rg, !.cwaiting = cw]
      BY <1>1, <1>2, <3>2
    <3>4. d2 = d
      BY <3>1, <3>3
    <3>5. QED  BY <1>5, <3>4 DEF ChangeState
  <2>2. x \in [Cpvt -> CpvtRec] /\ x[c].state = s
        /\ \A e \in Cpvt \ {c} : x[e] = p.cpvt[e]
    BY <1>2 DEF CpvtRec
  <2>3. c \in InState(p, os) /\ c \notin InState(p, s)
    BY <1>5 DEF InState
  <2>4. /\ Cardinality(InState(p, os) \ {c}) = Cardinality(InState(p, os)) - 1
        /\ Cardinality(InState(p, os) \ {c}) \in Nat
        /\ Cardinality(InState(p, s) \cup {c}) = Cardinality(InState(p, s)) + 1
    <3>1. IsFiniteSet(InState(p, os)) /\ IsFiniteSet(InState(p, s))
      BY <1>1, StateCounts
    <3>2. /\ IsFiniteSet(InState(p, os) \ {c})
          /\ Cardinality(InState(p, os) \ {c}) = Cardinality(InState(p, os)) - 1
      BY <2>3, <3>1, FS_RemoveElement
    <3>3. Cardinality(InState(p, s) \cup {c}) = Cardinality(InState(p, s)) + 1
      BY <2>3, <3>1, FS_AddElement
    <3>4. QED  BY <3>2, <3>3, FS_CardinalityType
  <2>5. /\ n[os] = Cardinality(InState(p, os) \ {c}) /\ n[s] = Cardinality(InState(p, s) \cup {c})
        /\ \A z \in CallState \ {os, s} : n[z] = p.count[z]
    BY <1>1, <1>2, <1>3, <1>5, <2>4 DEF CountOK
  <2>6. n \in [CallState -> Nat]
    <3>1. p.count[os] - 1 \in Nat
      BY <1>1, <1>3, <2>4 DEF CountOK
    <3>2. QED  BY <1>2, <1>3, <1>5, <3>1
  <2>7. dl \in BOOLEAN /\ rg \in BOOLEAN /\ cw \in BOOLEAN
    BY <1>2
  <2> HIDE DEF x, n, dl, rg, cw, r
  <2>8. d \in PvtRec
    BY <1>1, <2>2, <2>6, <2>7 DEF PvtRec
  <2>9. /\ d.chans = p.chans /\ d.chansno = p.chansno /\ d.cpvt = x /\ d.count = n
        /\ d.q = p.q /\ d.target = p.target /\ d.lastDialed = p.lastDialed
        /\ d.volSync = p.volSync
    BY <1>1 DEF PvtRec
  <2> HIDE DEF d
  <2>10. Chans(d) = Chans(p)
    BY <2>9 DEF Chans
  <2>11. InState(d, os) = InState(p, os) \ {c}
    BY <1>2, <1>5, <2>2, <2>9, <2>10 DEF InState
  <2>12. InState(d, s) = InState(p, s) \cup {c}
    BY <1>2, <2>2, <2>9, <2>10 DEF InState
  <2>13. \A z \in CallState \ {os, s} : InState(d, z) = InState(p, z)
    BY <1>2, <2>2, <2>9, <2>10 DEF InState
  <2>14. CountOK(d)
    <3>1. \A z \in CallState : d.count[z] = Cardinality(InState(d, z))
      BY <1>1, <1>3, <2>5, <2>9, <2>11, <2>12, <2>13 DEF CountOK
    <3>2. QED  BY <1>1, <2>9, <3>1 DEF CountOK
  <2>15. RefOK(d)
    BY <1>1, <2>9, <2>10 DEF RefOK
  <2>16. PvtOK(d)
    BY <1>1, <2>8, <2>9, <2>14, <2>15 DEF PvtOK
  <2>17. CASE s = "released"
    <3>1. /\ PvtOK(CpvtFree(d, c)) /\ Chans(CpvtFree(d, c)) = Chans(d) \ {c}
          /\ CpvtFree(d, c).volSync = d.volSync
      BY <2>10, <2>16, CpvtFreeOK
    <3>2. QED  BY <2>1, <2>9, <2>10, <2>17, <3>1 DEF Keeps, r
  <2>18. CASE s # "released"
    BY <2>1, <2>9, <2>10, <2>16, <2>18 DEF Keeps, r
  <2>19. QED  BY <2>17, <2>18
<1>6. QED  BY <1>4, <1>5

-----------------------------------------------------------------------------
(* The operations that leave the list as it is.                              *)

(* The flags of the device, or last_dialed_cpvt, are set.  *)
LEMMA FlagsOK ==
  ASSUME NEW p, PvtOK(p), NEW r \in PvtRec, r.chans = p.chans, r.chansno = p.chansno,
         r.count = p.count, r.cpvt = p.cpvt, r.q = p.q, r.target = p.target,
         r.lastDialed \in Chans(p) \cup {NoCpvt}
  PROVE  PvtOK(r) /\ Chans(r) = Chans(p)
<1>1. RefOK(p) /\ QueueOK(p.q)
  BY DEF PvtOK
<1>2. RefOK(r)
  BY <1>1 DEF RefOK, Chans
<1>3. QED  BY <1>1, <1>2, FrameOK

LEMMA CpvtUpdateOK ==
  ASSUME NEW p, PvtOK(p), NEW c \in Chans(p), NEW x \in CpvtRec, x.state = p.cpvt[c].state
  PROVE  LET r == [p EXCEPT !.cpvt[c] = x]
         IN  /\ PvtOK(r) /\ Chans(r) = Chans(p) /\ r.cpvt[c] = x
             /\ r.volSync = p.volSync /\ r.chansno = p.chansno /\ r.q = p.q
<1> DEFINE r == [p EXCEPT !.cpvt[c] = x]
           y == [p.cpvt EXCEPT ![c] = x]
<1>1. /\ p \in PvtRec /\ RefOK(p) /\ QueueOK(p.q) /\ p.cpvt \in [Cpvt -> CpvtRec] /\ c \in Cpvt
  BY PvtFields DEF PvtOK
<1>2. r = [p EXCEPT !.cpvt = y]
  BY <1>1 DEF PvtRec
<1>3. y \in [Cpvt -> CpvtRec] /\ y[c] = x /\ \A d \in Cpvt : y[d].state = p.cpvt[d].state
  BY <1>1
<1> HIDE DEF r, y
<1>4. r \in PvtRec
  BY <1>1, <1>2, <1>3 DEF PvtRec
<1>5. /\ r.chans = p.chans /\ r.chansno = p.chansno /\ r.count = p.count /\ r.cpvt = y
      /\ r.q = p.q /\ r.target = p.target /\ r.lastDialed = p.lastDialed
      /\ r.volSync = p.volSync
  BY <1>1, <1>2 DEF PvtRec
<1>6. RefOK(r)
  BY <1>1, <1>5 DEF RefOK, Chans
<1>7. PvtOK(r) /\ Chans(r) = Chans(p)
  BY <1>1, <1>3, <1>4, <1>5, <1>6, FrameOK
<1>8. QED  BY <1>3, <1>5, <1>7 DEF r

LEMMA AskedOK ==
  ASSUME NEW p, PvtOK(p), NEW c \in Chans(p)
  PROVE  LET r == [p EXCEPT !.cpvt[c].asked = TRUE]
         IN  PvtOK(r) /\ Chans(r) = Chans(p)
<1> DEFINE x == [p.cpvt[c] EXCEPT !.asked = TRUE]
<1>1. p \in PvtRec /\ p.cpvt \in [Cpvt -> CpvtRec] /\ c \in Cpvt /\ p.cpvt[c] \in CpvtRec
  BY PvtFields DEF PvtOK
<1>2. x \in CpvtRec /\ x.state = p.cpvt[c].state
  BY <1>1 DEF CpvtRec
<1>3. [p EXCEPT !.cpvt[c].asked = TRUE] = [p EXCEPT !.cpvt[c] = x]
  BY <1>1 DEF PvtRec
<1> HIDE DEF x
<1>4. QED  BY <1>2, <1>3, CpvtUpdateOK

LEMMA NoChannelOK ==
  ASSUME NEW p, PvtOK(p), NEW c \in Chans(p)
  PROVE  LET r == [p EXCEPT !.cpvt[c].channel = FALSE]
         IN  PvtOK(r) /\ Chans(r) = Chans(p)
<1> DEFINE x == [p.cpvt[c] EXCEPT !.channel = FALSE]
<1>1. p \in PvtRec /\ p.cpvt \in [Cpvt -> CpvtRec] /\ c \in Cpvt /\ p.cpvt[c] \in CpvtRec
  BY PvtFields DEF PvtOK
<1>2. x \in CpvtRec /\ x.state = p.cpvt[c].state
  BY <1>1 DEF CpvtRec
<1>3. [p EXCEPT !.cpvt[c].channel = FALSE] = [p EXCEPT !.cpvt[c] = x]
  BY <1>1 DEF PvtRec
<1> HIDE DEF x
<1>4. QED  BY <1>2, <1>3, CpvtUpdateOK

LEMMA IdxOK ==
  ASSUME NEW p, PvtOK(p), NEW c \in Chans(p), NEW i \in 0..MaxCallIdx
  PROVE  LET r == [p EXCEPT !.cpvt[c].idx = i]
         IN  PvtOK(r) /\ Chans(r) = Chans(p)
<1> DEFINE x == [p.cpvt[c] EXCEPT !.idx = i]
<1>1. p \in PvtRec /\ p.cpvt \in [Cpvt -> CpvtRec] /\ c \in Cpvt /\ p.cpvt[c] \in CpvtRec
  BY PvtFields DEF PvtOK
<1>2. x \in CpvtRec /\ x.state = p.cpvt[c].state
  BY <1>1 DEF CpvtRec
<1>3. [p EXCEPT !.cpvt[c].idx = i] = [p EXCEPT !.cpvt[c] = x]
  BY <1>1 DEF PvtRec
<1> HIDE DEF x
<1>4. QED  BY <1>2, <1>3, CpvtUpdateOK

LEMMA SetNeedHangupOK ==
  ASSUME NEW p, PvtOK(p), NEW c \in Chans(p) \cup {Sys}, NEW b \in BOOLEAN
  PROVE  LET r == SetNeedHangup(p, c, b)
         IN  /\ PvtOK(r) /\ Chans(r) = Chans(p) /\ r.volSync = p.volSync
             /\ r.chansno = p.chansno /\ r.q = p.q
<1>1. CASE c = Sys
  BY <1>1 DEF SetNeedHangup
<1>2. CASE c # Sys
  <2> DEFINE x == [p.cpvt[c] EXCEPT !.needHangup = b]
  <2>1. /\ p \in PvtRec /\ p.cpvt \in [Cpvt -> CpvtRec] /\ c \in Chans(p) /\ c \in Cpvt
        /\ p.cpvt[c] \in CpvtRec
    BY <1>2, PvtFields DEF PvtOK
  <2>2. x \in CpvtRec /\ x.state = p.cpvt[c].state
    BY <2>1 DEF CpvtRec
  <2>3. SetNeedHangup(p, c, b) = [p EXCEPT !.cpvt[c] = x]
    BY <1>2, <2>1 DEF PvtRec, SetNeedHangup
  <2> HIDE DEF x
  <2>4. QED  BY <2>1, <2>2, <2>3, CpvtUpdateOK
<1>3. QED  BY <1>1, <1>2

LEMMA RemoveCmdOK ==
  ASSUME NEW p, PvtOK(p), NEW res
  PROVE  LET r == [p EXCEPT !.q = AtQueueRemoveCmd(@, res)]
         IN  PvtOK(r) /\ Chans(r) = Chans(p)
<1> DEFINE x == AtQueueRemoveCmd(p.q, res)
           r == [p EXCEPT !.q = x]
<1>1. p \in PvtRec /\ QueueOK(p.q) /\ RefOK(p)
  BY DEF PvtOK
<1>2. QueueOK(x)
  BY <1>1, RemoveCmdKeepsOK
<1>3. x \in Queue
  BY <1>2 DEF QueueOK
<1> HIDE DEF x
<1>4. r \in PvtRec
  BY <1>1, <1>3 DEF PvtRec
<1>5. /\ r.chans = p.chans /\ r.chansno = p.chansno /\ r.count = p.count /\ r.cpvt = p.cpvt
      /\ r.q = x /\ r.target = p.target /\ r.lastDialed = p.lastDialed
  BY <1>1 DEF PvtRec
<1> HIDE DEF r
<1>6. RefOK(r)
  BY <1>1, <1>5 DEF RefOK, Chans
<1>7. PvtOK(r) /\ Chans(r) = Chans(p)
  BY <1>1, <1>2, <1>4, <1>5, <1>6, FrameOK
<1>8. QED  BY <1>7 DEF r, x

LEMMA VolSyncOK ==
  ASSUME NEW p, PvtOK(p), NEW vs \in 0..2
  PROVE  LET r == [p EXCEPT !.volSync = vs]
         IN  PvtOK(r) /\ Chans(r) = Chans(p) /\ r.cpvt = p.cpvt
<1> DEFINE r == [p EXCEPT !.volSync = vs]
<1>1. /\ p \in PvtRec /\ Chans(p) \subseteq Cpvt /\ p.lastDialed \in Chans(p) \cup {NoCpvt}
  BY PvtFields DEF PvtOK, RefOK
<1>2. r \in PvtRec
  BY <1>1 DEF PvtRec
<1>3. /\ r.chans = p.chans /\ r.chansno = p.chansno /\ r.count = p.count /\ r.cpvt = p.cpvt
      /\ r.q = p.q /\ r.target = p.target /\ r.lastDialed = p.lastDialed
  BY <1>1 DEF PvtRec
<1> HIDE DEF r
<1>4. PvtOK(r) /\ Chans(r) = Chans(p)
  BY <1>1, <1>2, <1>3, FlagsOK
<1>5. QED  BY <1>3, <1>4 DEF r

LEMMA LastDialedOK ==
  ASSUME NEW p, PvtOK(p), NEW ld \in Chans(p) \cup {NoCpvt}
  PROVE  LET r == [p EXCEPT !.lastDialed = ld]
         IN  PvtOK(r) /\ Chans(r) = Chans(p) /\ r.cpvt = p.cpvt
<1> DEFINE r == [p EXCEPT !.lastDialed = ld]
<1>1. /\ p \in PvtRec /\ Chans(p) \subseteq Cpvt /\ p.lastDialed \in Chans(p) \cup {NoCpvt}
  BY PvtFields DEF PvtOK, RefOK
<1>2. r \in PvtRec
  BY <1>1 DEF PvtRec
<1>3. /\ r.chans = p.chans /\ r.chansno = p.chansno /\ r.count = p.count /\ r.cpvt = p.cpvt
      /\ r.q = p.q /\ r.target = p.target /\ r.lastDialed = ld
  BY <1>1 DEF PvtRec
<1> HIDE DEF r
<1>4. PvtOK(r) /\ Chans(r) = Chans(p)
  BY <1>1, <1>2, <1>3, FlagsOK
<1>5. QED  BY <1>3, <1>4 DEF r

LEMMA DialedOK ==
  ASSUME NEW p, PvtOK(p), NEW ld \in Chans(p) \cup {NoCpvt}
  PROVE  LET r == [p EXCEPT !.dialing = TRUE, !.lastDialed = ld]
         IN  PvtOK(r) /\ Chans(r) = Chans(p) /\ r.cpvt = p.cpvt
<1> DEFINE r == [p EXCEPT !.dialing = TRUE, !.lastDialed = ld]
<1>1. /\ p \in PvtRec /\ Chans(p) \subseteq Cpvt /\ p.lastDialed \in Chans(p) \cup {NoCpvt}
  BY PvtFields DEF PvtOK, RefOK
<1>2. r \in PvtRec
  BY <1>1 DEF PvtRec
<1>3. /\ r.chans = p.chans /\ r.chansno = p.chansno /\ r.count = p.count /\ r.cpvt = p.cpvt
      /\ r.q = p.q /\ r.target = p.target /\ r.lastDialed = ld
  BY <1>1 DEF PvtRec
<1> HIDE DEF r
<1>4. PvtOK(r) /\ Chans(r) = Chans(p)
  BY <1>1, <1>2, <1>3, FlagsOK
<1>5. QED  BY <1>3, <1>4 DEF r

LEMMA RingingOK ==
  ASSUME NEW p, PvtOK(p), NEW rg \in BOOLEAN, NEW dl \in BOOLEAN,
         NEW cw \in BOOLEAN
  PROVE  LET r == [p EXCEPT !.ring = rg, !.dialing = dl, !.cwaiting = cw]
         IN  PvtOK(r) /\ Chans(r) = Chans(p) /\ r.cpvt = p.cpvt
<1> DEFINE r == [p EXCEPT !.ring = rg, !.dialing = dl, !.cwaiting = cw]
<1>1. /\ p \in PvtRec /\ Chans(p) \subseteq Cpvt /\ p.lastDialed \in Chans(p) \cup {NoCpvt}
  BY PvtFields DEF PvtOK, RefOK
<1>2. r \in PvtRec
  BY <1>1 DEF PvtRec
<1>3. /\ r.chans = p.chans /\ r.chansno = p.chansno /\ r.count = p.count /\ r.cpvt = p.cpvt
      /\ r.q = p.q /\ r.target = p.target /\ r.lastDialed = p.lastDialed
  BY <1>1 DEF PvtRec
<1> HIDE DEF r
<1>4. PvtOK(r) /\ Chans(r) = Chans(p)
  BY <1>1, <1>2, <1>3, FlagsOK
<1>5. QED  BY <1>3, <1>4 DEF r

LEMMA CallKinds ==
  { "clcc", "volsync", "hangup", "hangup1", "dial", "dialPlain", "dialHeld", "dialPlainHeld",
    "answer", "answerWaiting", "activate", "conference" } \subseteq Kind
BY DEF Kind

LEMMA RequestClccOK ==
  ASSUME NewIdLeft, NEW p, PvtOK(p)
  PROVE  PvtOK(RequestClcc(p)) /\ SameCalls(p, RequestClcc(p))
         /\ Chans(RequestClcc(p)) = Chans(p)
<1>1. "clcc" \in Kind /\ Sys \in Chans(p) \cup {Sys} /\ 0 \in 0..MaxCallIdx
  BY CallKinds, CallsAssumption
<1>2. QED  BY <1>1, EnqueOK DEF RequestClcc

LEMMA SyncVolumeOK ==
  ASSUME NewIdLeft, NEW p, PvtOK(p), NEW c \in Chans(p) \cup {Sys}
  PROVE  PvtOK(SyncVolume(p, c)) /\ Chans(SyncVolume(p, c)) = Chans(p)
<1>1. "volsync" \in Kind /\ 0 \in 0..MaxCallIdx /\ 1 \in 0..2
  BY CallKinds, CallsAssumption
<1>2. PvtOK(Enque(p, "volsync", c, 0)) /\ Chans(Enque(p, "volsync", c, 0)) = Chans(p)
  BY <1>1, EnqueOK
<1>3. QED  BY <1>1, <1>2, VolSyncOK DEF SyncVolume

LEMMA EnqueHangupOK ==
  ASSUME NewIdLeft, NEW p, PvtOK(p), NEW c \in Chans(p) \cup {Sys}, NEW i \in 0..MaxCallIdx
  PROVE  PvtOK(EnqueHangup(p, c, i)) /\ Chans(EnqueHangup(p, c, i)) = Chans(p)
<1> DEFINE setup == c # Sys /\ p.cpvt[c].dir = "out" /\ p.cpvt[c].state \in {"init", "dialing"}
           d == IF c # Sys /\ p.cpvt[c].state = "init" THEN [p EXCEPT !.lastDialed = NoCpvt] ELSE p
           k == IF ~setup /\ p.chansno > 1 THEN "hangup1" ELSE "hangup"
<1>1. k \in Kind
  BY CallKinds
<1>2. PvtOK(d) /\ Chans(d) = Chans(p)
  BY LastDialedOK
<1>3. EnqueHangup(p, c, i) = Enque(d, k, c, i)
  BY DEF EnqueHangup
<1> HIDE DEF d, k
<1>4. QED  BY <1>1, <1>2, <1>3, EnqueOK

LEMMA EnqueDialOK ==
  ASSUME NewIdLeft, NEW p, PvtOK(p), NEW c \in Chans(p), NEW plain
  PROVE  PvtOK(EnqueDial(p, c, plain)) /\ Chans(EnqueDial(p, c, plain)) = Chans(p)
<1> DEFINE hold == p.count["active"] > 0 /\ "hold" \in p.cpvt[c].opts
           k == IF plain = "dial" THEN IF hold THEN "dialHeld" ELSE "dial"
                ELSE IF hold THEN "dialPlainHeld" ELSE "dialPlain"
           e == Enque(p, k, c, 0)
<1>1. k \in Kind /\ 0 \in 0..MaxCallIdx
  BY CallKinds, CallsAssumption
<1>2. EnqueDial(p, c, plain) = SetNeedHangup(e, c, TRUE)
  BY DEF EnqueDial
<1> HIDE DEF k
<1>3. PvtOK(e) /\ Chans(e) = Chans(p)
  BY <1>1, EnqueOK
<1> HIDE DEF e
<1>4. QED  BY <1>2, <1>3, SetNeedHangupOK

LEMMA FindCpvtOK ==
  ASSUME NEW p, PvtOK(p), NEW i
  PROVE  FindCpvt(p, i) \in Chans(p) \cup {NoCpvt}
<1> DEFINE found == { n \in 1..Len(p.chans) : p.cpvt[p.chans[n]].idx = i }
<1>1. Len(p.chans) \in Nat
  BY PvtFields DEF PvtOK
<1>2. found \in SUBSET Nat
  BY <1>1
<1>3. CASE found = {}
  BY <1>3 DEF FindCpvt
<1>4. CASE found # {}
  <2>1. Min(found) \in found
    BY <1>2, <1>4, MinOf
  <2>2. QED  BY <1>4, <2>1 DEF FindCpvt, Chans
<1>5. QED  BY <1>3, <1>4

LEMMA PseudoCallIdxOK ==
  ASSUME NEW p
  PROVE  PseudoCallIdx(p) \in 0..MaxCallIdx
<1> DEFINE free == { i \in 1..MaxCallIdx : FindCpvt(p, i) = NoCpvt }
<1>1. MaxCallIdx \in Nat
  BY CallsAssumption
<1>2. free \in SUBSET Nat
  BY <1>1
<1>3. CASE free = {}
  BY <1>1, <1>3 DEF PseudoCallIdx
<1>4. CASE free # {}
  <2>1. Min(free) \in free
    BY <1>2, <1>4, MinOf
  <2>2. Min(free) \in 0..MaxCallIdx
    BY <1>1, <2>1
  <2>3. QED  BY <1>4, <2>2 DEF PseudoCallIdx
<1>5. QED  BY <1>3, <1>4

LEMMA StartPbxOK ==
  ASSUME NewIdLeft, NEW p, PvtOK(p), NEW i \in 0..MaxCallIdx, NEW state \in CallState, NEW fails
  PROVE  PvtOK(StartPbx(p, i, state, fails))
<1>1. CASE Unused(p) = {}
  <2>1. Sys \in Chans(p) \cup {Sys}
    OBVIOUS
  <2>2. QED  BY <1>1, <2>1, EnqueHangupOK DEF StartPbx
<1>2. CASE Unused(p) # {}
  <2> DEFINE c == CHOOSE d \in Unused(p) : TRUE
             new == [Free EXCEPT !.idx = i, !.dir = "in", !.state = state,
                                 !.channel = TRUE, !.needHangup = TRUE]
             d == CpvtAlloc(p, c, new)
  <2>1. c \in Cpvt \ Chans(p)
    BY <1>2 DEF Unused
  <2>2. new \in CpvtRec
    BY FreeIsRec DEF CpvtRec, Dir
  <2>3. StartPbx(p, i, state, fails) = IF fails THEN CpvtFree(d, c) ELSE d
    BY <1>2 DEF StartPbx
  <2> HIDE DEF c, new
  <2>4. PvtOK(d) /\ Chans(d) = Chans(p) \cup {c}
    BY <2>1, <2>2, CpvtAllocOK, Zenon
  <2> HIDE DEF d
  <2>5. PvtOK(CpvtFree(d, c))
    <3>1. c \in Chans(d)
      BY <2>4
    <3>2. QED  BY <2>4, <3>1, CpvtFreeOK
  <2>6. QED  BY <2>3, <2>4, <2>5
<1>3. QED  BY <1>1, <1>2

LEMMA FlaggedOK ==
  ASSUME NEW p, PvtOK(p), NEW state
  PROVE  PvtOK(Flagged(p, state))
<1>1. p \in PvtRec
  BY DEF PvtOK
<1>2. [p EXCEPT !.cwaiting = TRUE, !.ring = FALSE, !.dialing = FALSE] =
        [p EXCEPT !.ring = FALSE, !.dialing = FALSE, !.cwaiting = TRUE]
  BY <1>1 DEF PvtRec
<1>3. [p EXCEPT !.dialing = TRUE, !.cwaiting = FALSE, !.ring = FALSE] =
        [p EXCEPT !.ring = FALSE, !.dialing = TRUE, !.cwaiting = FALSE]
  BY <1>1 DEF PvtRec
<1>4. /\ PvtOK([p EXCEPT !.ring = FALSE, !.dialing = FALSE, !.cwaiting = TRUE])
      /\ PvtOK([p EXCEPT !.ring = TRUE, !.dialing = FALSE, !.cwaiting = FALSE])
      /\ PvtOK([p EXCEPT !.ring = FALSE, !.dialing = TRUE, !.cwaiting = FALSE])
  BY RingingOK
<1>5. QED  BY <1>2, <1>3, <1>4 DEF Flagged

LEMMA ClccLineOK ==
  ASSUME NewIdLeft, NEW p, PvtOK(p), NEW i \in ModemIdx, NEW call \in ModemCall \cup {NoCall},
         NEW fails
  PROVE  PvtOK(ClccLine(p, i, call, fails))
<1> DEFINE c == FindCpvt(p, i)
           d == IF c # NoCpvt /\ call.dir = p.cpvt[c].dir THEN ChangeState(p, c, call.state)
                ELSE IF c = NoCpvt /\ call.state \in {"incoming", "waiting"}
                THEN StartPbx(p, i, call.state, fails)
                ELSE p
<1>1. CASE call = NoCall
  BY <1>1 DEF ClccLine
<1>2. CASE call # NoCall
  <2>1. call.state \in CallState
    BY <1>2 DEF ModemCall, CallState
  <2>2. i \in 0..MaxCallIdx
    BY CallsAssumption, ModemAssumption DEF ModemIdx
  <2>3. c \in Chans(p) \cup {NoCpvt}
    BY FindCpvtOK
  <2>4. ClccLine(p, i, call, fails) = Flagged(d, call.state)
    BY <1>2 DEF ClccLine
  <2>5. PvtOK(d)
    <3> HIDE DEF c
    <3>1. c # NoCpvt => PvtOK(ChangeState(p, c, call.state))
      BY <2>1, <2>3, ChangeStateOK
    <3>2. PvtOK(StartPbx(p, i, call.state, fails))
      BY <2>1, <2>2, StartPbxOK
    <3>3. QED  BY <3>1, <3>2
  <2> HIDE DEF d
  <2>6. QED  BY <2>4, <2>5, FlaggedOK
<1>3. QED  BY <1>1, <1>2

-----------------------------------------------------------------------------
(* The modem.                                                                *)

LEMMA LiveIsCall ==
  ASSUME NEW m \in CallTable, NEW i \in LiveCalls(m)
  PROVE  i \in ModemIdx /\ m[i] \in ModemCall
BY DEF LiveCalls, CallTable

LEMMA LiveParts ==
  ASSUME NEW m, NEW states
  PROVE  CallsIn(m, states) \subseteq LiveCalls(m) /\ LiveCalls(m) \subseteq ModemIdx
BY DEF CallsIn, LiveCalls

LEMMA MoveOK ==
  ASSUME NEW m \in CallTable, NEW from \in SUBSET LiveCalls(m),
         NEW to \in {"active", "held", "dialing", "alerting", "incoming", "waiting"}
  PROVE  Move(m, from, to) \in CallTable /\ LiveCalls(Move(m, from, to)) = LiveCalls(m)
<1> DEFINE r == Move(m, from, to)
<1>1. ASSUME NEW i \in ModemIdx
      PROVE  r[i] \in ModemCall \cup {NoCall} /\ (r[i] # NoCall <=> m[i] # NoCall)
  <2>1. CASE i \in from
    <3>1. m[i] \in ModemCall /\ m[i] # NoCall
      BY <2>1, LiveIsCall DEF LiveCalls
    <3>2. r[i] = [m[i] EXCEPT !.state = to]
      BY <2>1 DEF Move
    <3>3. r[i] \in ModemCall
      BY <3>1, <3>2 DEF ModemCall
    <3>4. r[i] # NoCall
      <4>1. r[i] = [dir |-> m[i].dir, state |-> to]
        BY <3>1, <3>2 DEF ModemCall
      <4>2. DOMAIN r[i] = {"dir", "state"}
        BY <4>1
      <4>3. DOMAIN NoCall = 1..0
        BY DEF NoCall
      <4>4. "dir" \notin 1..0
        OBVIOUS
      <4>5. QED  BY <4>2, <4>3, <4>4
    <3>5. QED  BY <3>1, <3>3, <3>4
  <2>2. CASE i \notin from
    <3>1. r[i] = m[i]
      BY <2>2 DEF Move
    <3>2. QED  BY <3>1 DEF CallTable
  <2>3. QED  BY <2>1, <2>2
<1>2. r = [i \in ModemIdx |-> r[i]]
  BY DEF Move
<1>3. r \in CallTable
  BY <1>1, <1>2 DEF CallTable
<1>4. LiveCalls(r) = LiveCalls(m)
  BY <1>1 DEF LiveCalls
<1>5. QED  BY <1>3, <1>4

LEMMA EndsOK ==
  ASSUME NEW m \in CallTable, NEW ended
  PROVE  Ends(m, ended) \in CallTable
<1> DEFINE left == [i \in ModemIdx |-> IF i \in ended THEN NoCall ELSE m[i]]
<1>1. left \in CallTable
  BY DEF CallTable
<1>2. Move(left, CallsIn(left, {"waiting"}), "incoming") \in CallTable
  <2> HIDE DEF left
  <2>1. CallsIn(left, {"waiting"}) \in SUBSET LiveCalls(left)
    BY LiveParts
  <2>2. QED  BY <1>1, <2>1, MoveOK
<1>3. Ends(m, ended) = IF CallsIn(left, {"active", "held"}) = {}
                       THEN Move(left, CallsIn(left, {"waiting"}), "incoming") ELSE left
  BY DEF Ends
<1>4. QED  BY <1>1, <1>2, <1>3

LEMMA CendsOK ==
  ASSUME NEW ended \in SUBSET ModemIdx
  PROVE  Cends(ended) \in Seq(CallResult)
<1> DEFINE s == SetToSeq(ended)
           N == Cardinality(ended)
<1>1. IsFiniteSet(ended)
  <2>1. 1 \in Int /\ ModemCalls \in Int
    BY ModemAssumption
  <2>2. IsFiniteSet(ModemIdx)
    BY <2>1, FS_Interval DEF ModemIdx
  <2>3. QED  BY <2>2, FS_Subset
<1>2. N \in Nat
  BY <1>1, FS_CardinalityType
<1>3. PICK f \in Bijection(1..N, ended) : TRUE
  BY <1>1, FS_CardinalityType DEF ExistsBijection
<1>4. f \in [1..N -> ended] /\ IsInjective(f)
  BY <1>3 DEF Bijection, Injection, Surjection, IsInjective
<1>5. s \in [1..N -> ended]
  BY <1>4 DEF SetToSeq
<1> HIDE DEF s, N
<1>6. Len(s) = N
  BY <1>2, <1>5
<1>7. \A n \in 1..N : s[n] \in ModemIdx
  BY <1>5
<1>8. \A n \in 1..N : About("CEND", s[n]) \in CallResult
  BY <1>7 DEF About, CallResult
<1>9. Cends(ended) = [n \in 1..N |-> About("CEND", s[n])]
  BY <1>6 DEF Cends, s
<1>10. QED  BY <1>2, <1>8, <1>9

LEMMA Results ==
  /\ Ok \in CallResult /\ Error \in CallResult
  /\ \A i \in ModemIdx : About("ORIG", i) \in CallResult /\ About("CONN", i) \in CallResult
  /\ \A m \in CallTable : [res |-> "CLCC", list |-> m] \in CallResult
  /\ [res |-> "RING"] \in CallResult /\ [res |-> "CCWA"] \in CallResult
BY DEF Ok, Error, About, CallResult

(* What a command leaves of the calls and what it answers.  *)
Well(done) == done.calls \in CallTable /\ done.out \in Seq(CallResult)

LEMMA OutcomeOK ==
  ASSUME NEW m \in CallTable, NEW out \in Seq(CallResult)
  PROVE  Well(Outcome(m, out))
BY DEF Well, Outcome

LEMMA RefusedOK ==
  ASSUME NEW m \in CallTable
  PROVE  Well(Refused(m))
<1>1. << Error >> \in Seq(CallResult)
  BY Results
<1>2. QED  BY <1>1, OutcomeOK DEF Refused

LEMMA FreeIdxOK ==
  ASSUME NEW m \in CallTable, FreeIdx(m) # {}
  PROVE  Min(FreeIdx(m)) \in ModemIdx
<1>1. FreeIdx(m) \in SUBSET Nat /\ FreeIdx(m) \subseteq ModemIdx
  BY ModemAssumption DEF FreeIdx, ModemIdx
<1>2. QED  BY <1>1, MinOf

LEMMA ExecuteOK ==
  ASSUME NEW cmd, NEW i, NEW m \in CallTable
  PROVE  Well(Execute(cmd, i, m))
<1>1. Well(Dial(m))
  <2>1. CASE FreeIdx(m) = {} \/ LiveCalls(m) # CallsIn(m, {"held"})
    BY <2>1, RefusedOK DEF Dial
  <2>2. CASE ~(FreeIdx(m) = {} \/ LiveCalls(m) # CallsIn(m, {"held"}))
    <3> DEFINE j == Min(FreeIdx(m))
               r == [m EXCEPT ![j] = [dir |-> "out", state |-> "dialing"]]
    <3>1. j \in ModemIdx
      BY <2>2, FreeIdxOK
    <3>2. r \in CallTable
      BY <3>1 DEF CallTable, ModemCall, Dir
    <3>3. << Ok, About("ORIG", j) >> \in Seq(CallResult)
      BY <3>1, Results
    <3>4. Dial(m) = Outcome(r, << Ok, About("ORIG", j) >>)
      BY <2>2 DEF Dial
    <3> HIDE DEF r, j
    <3>5. QED  BY <3>2, <3>3, <3>4, OutcomeOK
  <2>3. QED  BY <2>1, <2>2
<1>2. Well(Answer(m))
  <2> DEFINE rings == CallsIn(m, {"incoming"})
  <2>1. CASE rings = {}
    BY <2>1, RefusedOK DEF Answer
  <2>2. CASE rings # {}
    <3>1. rings \in SUBSET LiveCalls(m) /\ rings \subseteq ModemIdx
      BY LiveParts
    <3>2. rings \in SUBSET Nat
      BY <3>1, ModemAssumption DEF ModemIdx
    <3>3. Min(rings) \in ModemIdx
      BY <2>2, <3>1, <3>2, MinOf
    <3>4. Move(m, rings, "active") \in CallTable
      BY <3>1, MoveOK
    <3>5. << About("CONN", Min(rings)), Ok >> \in Seq(CallResult)
      BY <3>3, Results
    <3>6. Answer(m) = Outcome(Move(m, rings, "active"), << About("CONN", Min(rings)), Ok >>)
      BY <2>2 DEF Answer
    <3>7. QED  BY <3>4, <3>5, <3>6, OutcomeOK
  <2>3. QED  BY <2>1, <2>2
<1>3. ASSUME NEW ended \in SUBSET ModemIdx
      PROVE  Well(Outcome(Ends(m, ended), << Ok >> \o Cends(ended)))
  <2>1. << Ok >> \in Seq(CallResult)
    BY Results
  <2>2. << Ok >> \o Cends(ended) \in Seq(CallResult)
    BY <2>1, CendsOK, ConcatProperties
  <2>3. QED  BY <2>2, EndsOK, OutcomeOK
<1>4. Well(HangUp(m))
  <2> DEFINE current == CallsIn(m, {"active", "dialing", "alerting", "incoming"})
             ended   == IF current = {} THEN CallsIn(m, {"held"}) ELSE current
  <2>1. ended \in SUBSET ModemIdx
    BY LiveParts
  <2>2. QED  BY <1>3, <2>1 DEF HangUp
<1>5. Well(HangUpOne(m, i))
  <2>1. CASE i \in LiveCalls(m)
    <3>1. {i} \in SUBSET ModemIdx
      BY <2>1, LiveIsCall
    <3>2. QED  BY <1>3, <2>1, <3>1 DEF HangUpOne
  <2>2. CASE i \notin LiveCalls(m)
    BY <2>2, RefusedOK DEF HangUpOne
  <2>3. QED  BY <2>1, <2>2
<1>6. Well(Activate(m, i))
  <2> DEFINE out == IF m[i].state = "waiting" THEN << About("CONN", i), Ok >> ELSE << Ok >>
             held == Move(m, CallsIn(m, {"active"}), "held")
  <2>1. CASE i \notin CallsIn(m, {"held", "waiting"}) \/ SettingUp(m)
    BY <2>1, RefusedOK DEF Activate
  <2>2. CASE ~(i \notin CallsIn(m, {"held", "waiting"}) \/ SettingUp(m))
    <3>1. i \in LiveCalls(m) /\ i \in ModemIdx
      BY <2>2, LiveParts
    <3>2. out \in Seq(CallResult)
      BY <3>1, Results
    <3>3. held \in CallTable /\ LiveCalls(held) = LiveCalls(m)
      BY LiveParts, MoveOK
    <3>4. Activate(m, i) = Outcome(Move(held, {i}, "active"), out)
      BY <2>2 DEF Activate
    <3> HIDE DEF held, out
    <3>5. {i} \in SUBSET LiveCalls(held)
      BY <3>1, <3>3
    <3>6. Move(held, {i}, "active") \in CallTable
      BY <3>3, <3>5, MoveOK
    <3>7. QED  BY <3>2, <3>4, <3>6, OutcomeOK
  <2>3. QED  BY <2>1, <2>2
<1>7. << Ok >> \in Seq(CallResult)
  BY Results
<1>8. Well(Flip(m))
  <2> DEFINE active == CallsIn(m, {"active"})
             held   == CallsIn(m, {"held"})
             moved  == Move(m, active, "held")
  <2>1. CASE active \cup held = {} \/ SettingUp(m)
    BY <2>1, RefusedOK DEF Flip
  <2>2. CASE ~(active \cup held = {} \/ SettingUp(m))
    <3>1. Flip(m) = Outcome(Move(moved, held, "active"), << Ok >>)
      BY <2>2 DEF Flip
    <3>2. moved \in CallTable /\ LiveCalls(moved) = LiveCalls(m)
      BY LiveParts, MoveOK
    <3>3. held \in SUBSET LiveCalls(m)
      BY LiveParts
    <3> HIDE DEF moved, held
    <3>4. Move(moved, held, "active") \in CallTable
      BY <3>2, <3>3, MoveOK
    <3>5. QED  BY <1>7, <3>1, <3>4, OutcomeOK
  <2>3. QED  BY <2>1, <2>2
<1>9. Well(Join(m))
  <2>1. Move(m, CallsIn(m, {"held"}), "active") \in CallTable
    BY LiveParts, MoveOK
  <2>2. QED  BY <1>7, <2>1, OutcomeOK, RefusedOK DEF Join
<1>10. Well(List(m))
  <2>1. << [res |-> "CLCC", list |-> m], Ok >> \in Seq(CallResult)
    BY Results
  <2>2. QED  BY <1>7, <2>1, OutcomeOK DEF List
<1>11. Well(Outcome(m, << Ok >>))
  BY <1>7, OutcomeOK
<1>12. QED
  BY <1>1, <1>2, <1>4, <1>5, <1>6, <1>8, <1>9, <1>10, <1>11 DEF Execute

-----------------------------------------------------------------------------
(* The loops over the lines of +CLCC and over the list of cpvts.  *)

IsLine(f, M, p, list, failed) ==
  f = [n \in 0..M |-> IF n = 0 THEN p ELSE ClccLine(f[n - 1], n, list[n], n \in failed)]

LEMMA LineExists ==
  ASSUME NEW p, NEW list, NEW failed, NEW N \in Nat
  PROVE  \E f : IsLine(f, N, p, list, failed)
<1> DEFINE T == { M \in Nat : ~ \E f : IsLine(f, M, p, list, failed) }
<1>1. SUFFICES ASSUME T # {} PROVE FALSE
  OBVIOUS
<1>2. PICK M \in T : \A k \in T : M <= k
  <2>1. T \in SUBSET Nat
    OBVIOUS
  <2>2. QED  BY <1>1, <2>1, MinOf
<1>3. CASE M = 0
  <2> DEFINE f == [n \in 0..0 |-> p]
  <2>1. IsLine(f, 0, p, list, failed)
    BY DEF IsLine
  <2>2. QED  BY <1>2, <1>3, <2>1
<1>4. CASE M # 0
  <2>1. M - 1 \in Nat /\ M - 1 \notin T
    BY <1>2, <1>4
  <2>2. PICK g : IsLine(g, M - 1, p, list, failed)
    BY <2>1
  <2> DEFINE f == [n \in 0..M |-> IF n = M THEN ClccLine(g[M - 1], M, list[M], M \in failed)
                                  ELSE g[n]]
  <2>3. f[M - 1] = g[M - 1]
    BY <2>1
  <2>4. ASSUME NEW n \in 0..M
        PROVE  f[n] = IF n = 0 THEN p ELSE ClccLine(f[n - 1], n, list[n], n \in failed)
    <3>1. CASE n = M
      BY <1>4, <2>3, <3>1
    <3>2. CASE n # M
      <4>1. n \in 0..M-1 /\ f[n] = g[n]
        BY <3>2
      <4>2. n # 0 => n - 1 \in 0..M /\ f[n - 1] = g[n - 1]
        BY <3>2
      <4>3. g[n] = IF n = 0 THEN p ELSE ClccLine(g[n - 1], n, list[n], n \in failed)
        BY <2>2, <4>1 DEF IsLine
      <4>4. QED  BY <4>1, <4>2, <4>3
    <3>3. QED  BY <3>1, <3>2
  <2>5. f = [n \in 0..M |-> f[n]]
    OBVIOUS
  <2> HIDE DEF f
  <2>6. IsLine(f, M, p, list, failed)
    BY <2>4, <2>5 DEF IsLine
  <2>7. QED  BY <1>2, <2>6
<1>5. QED  BY <1>3, <1>4

LEMMA LinesOK ==
  ASSUME NewIdLeft, NEW p, PvtOK(p), NEW list \in CallTable, NEW failed,
         NEW f, IsLine(f, ModemCalls, p, list, failed)
  PROVE  PvtOK(f[ModemCalls])
<1> DEFINE T == { n \in 0..ModemCalls : ~PvtOK(f[n]) }
<1>1. ModemCalls \in Nat
  BY ModemAssumption
<1>2. ASSUME T # {} PROVE FALSE
  <2>1. T \in SUBSET Nat
    BY <1>1
  <2>2. PICK n \in T : \A k \in T : n <= k
    BY <1>2, <2>1, MinOf
  <2>3. f[n] = IF n = 0 THEN p ELSE ClccLine(f[n - 1], n, list[n], n \in failed)
    BY <2>2 DEF IsLine
  <2>4. n # 0
    BY <2>2, <2>3
  <2>5. n - 1 \in 0..ModemCalls /\ n - 1 \notin T /\ n \in ModemIdx
    BY <1>1, <2>2, <2>4 DEF ModemIdx
  <2>6. PvtOK(f[n - 1]) /\ list[n] \in ModemCall \cup {NoCall}
    BY <2>5 DEF CallTable
  <2>7. PvtOK(ClccLine(f[n - 1], n, list[n], n \in failed))
    BY <2>5, <2>6, ClccLineOK
  <2>8. QED  BY <2>2, <2>3, <2>4, <2>7
<1>3. ModemCalls \in 0..ModemCalls
  BY <1>1
<1>4. QED  BY <1>2, <1>3

IsReleased(f, N, p) ==
  f = [n \in 0..N |-> IF n = 0 THEN p
                      ELSE ChangeState(SetNeedHangup(f[n - 1], p.chans[n], FALSE),
                                       p.chans[n], "released")]

LEMMA ReleasedExists ==
  ASSUME NEW p, NEW N \in Nat
  PROVE  \E f : IsReleased(f, N, p)
<1> DEFINE T == { M \in Nat : ~ \E f : IsReleased(f, M, p) }
<1>1. SUFFICES ASSUME T # {} PROVE FALSE
  OBVIOUS
<1>2. PICK M \in T : \A k \in T : M <= k
  <2>1. T \in SUBSET Nat
    OBVIOUS
  <2>2. QED  BY <1>1, <2>1, MinOf
<1>3. CASE M = 0
  <2> DEFINE f == [n \in 0..0 |-> p]
  <2>1. IsReleased(f, 0, p)
    BY DEF IsReleased
  <2>2. QED  BY <1>2, <1>3, <2>1
<1>4. CASE M # 0
  <2>1. M - 1 \in Nat /\ M - 1 \notin T
    BY <1>2, <1>4
  <2>2. PICK g : IsReleased(g, M - 1, p)
    BY <2>1
  <2> DEFINE last == ChangeState(SetNeedHangup(g[M - 1], p.chans[M], FALSE),
                                 p.chans[M], "released")
  <2> DEFINE f == [n \in 0..M |-> IF n = M THEN last ELSE g[n]]
  <2>3. \A n \in 0..M : f[n] = IF n = M THEN last ELSE g[n]
    <3> HIDE DEF last
    <3>1. QED  OBVIOUS
  <2>4. f[M - 1] = g[M - 1]
    <3> HIDE DEF f, last
    <3>1. M - 1 \in 0..M /\ M - 1 # M
      BY <2>1
    <3>2. QED  BY <2>3, <3>1
  <2>5. ASSUME NEW n \in 0..M
        PROVE  f[n] = IF n = 0 THEN p
                      ELSE ChangeState(SetNeedHangup(f[n - 1], p.chans[n], FALSE),
                                       p.chans[n], "released")
    <3>1. CASE n = M
      BY <1>4, <2>3, <2>4, <3>1
    <3>2. CASE n # M
      <4> HIDE DEF f, last
      <4>1. n \in 0..M-1 /\ f[n] = g[n]
        BY <2>3, <3>2
      <4>2. n # 0 => n - 1 \in 0..M /\ f[n - 1] = g[n - 1]
        <5>1. n # 0 => n - 1 \in 0..M /\ n - 1 # M
          BY <3>2
        <5>2. QED  BY <2>3, <5>1
      <4>3. g[n] = IF n = 0 THEN p
                   ELSE ChangeState(SetNeedHangup(g[n - 1], p.chans[n], FALSE),
                                    p.chans[n], "released")
        BY <2>2, <4>1 DEF IsReleased
      <4>4. QED  BY <4>1, <4>2, <4>3
    <3>3. QED  BY <3>1, <3>2
  <2>6. f = [n \in 0..M |-> f[n]]
    OBVIOUS
  <2> HIDE DEF f
  <2>7. IsReleased(f, M, p)
    BY <2>5, <2>6 DEF IsReleased
  <2>8. QED  BY <1>2, <2>7
<1>5. QED  BY <1>3, <1>4

(* Each cpvt of the list is still there when its turn comes.  *)
LEMMA ReleasedOK ==
  ASSUME NEW p, PvtOK(p), NEW f, IsReleased(f, Len(p.chans), p)
  PROVE  PvtOK(f[Len(p.chans)])
<1> DEFINE N == Len(p.chans)
           Good(n) == PvtOK(f[n]) /\ \A m \in n+1..N : p.chans[m] \in Chans(f[n])
           T == { n \in 0..N : ~Good(n) }
<1>1. N \in Nat /\ Once(p.chans) /\ \A m \in 1..N : p.chans[m] \in Chans(p)
  BY PvtFields DEF PvtOK, Chans
<1>2. ASSUME T # {} PROVE FALSE
  <2>1. T \in SUBSET Nat
    BY <1>1
  <2>2. PICK n \in T : \A k \in T : n <= k
    BY <1>2, <2>1, MinOf
  <2>3. f[n] = IF n = 0 THEN p
               ELSE ChangeState(SetNeedHangup(f[n - 1], p.chans[n], FALSE),
                                p.chans[n], "released")
    BY <2>2 DEF IsReleased
  <2>4. CASE n = 0
    <3>1. f[n] = p
      BY <2>3, <2>4
    <3>2. Good(n)
      BY <1>1, <2>4, <3>1
    <3>3. QED  BY <2>2, <3>2
  <2>5. CASE n # 0
    <3> DEFINE g == f[n - 1]
               c == p.chans[n]
               d == SetNeedHangup(g, c, FALSE)
               r == ChangeState(d, c, "released")
    <3>1. n - 1 \in 0..N /\ n - 1 \notin T /\ n \in 1..N
      BY <1>1, <2>2, <2>5
    <3>2. Good(n - 1)
      BY <3>1
    <3>3. PvtOK(g) /\ c \in Chans(g) /\ \A m \in n+1..N : p.chans[m] \in Chans(g)
      <4>1. n \in (n-1)+1..N /\ \A m \in n+1..N : m \in (n-1)+1..N
        BY <1>1, <3>1
      <4>2. QED  BY <3>2, <4>1
    <3>4. f[n] = r
      BY <2>3, <2>5
    <3> HIDE DEF g, c
    <3>5. PvtOK(d) /\ Chans(d) = Chans(g)
      BY <3>3, SetNeedHangupOK
    <3> HIDE DEF d
    <3>6. PvtOK(r) /\ Keeps(d, r, c)
      BY <3>3, <3>5, ChangeStateOK, CallStates
    <3>7. ASSUME NEW m \in n+1..N PROVE p.chans[m] \in Chans(r)
      <4>1. m \in 1..N /\ m # n
        BY <1>1, <3>1
      <4>2. p.chans[m] # c
        BY <1>1, <3>1, <4>1 DEF Once, c
      <4>3. QED  BY <3>3, <3>5, <3>6, <4>2 DEF Keeps
    <3>8. Good(n)
      BY <3>4, <3>6, <3>7
    <3>9. QED  BY <2>2, <3>8
  <2>6. QED  BY <2>4, <2>5
<1>3. N \in 0..N
  BY <1>1
<1>4. QED  BY <1>2, <1>3

-----------------------------------------------------------------------------
(* The steps.                                                                *)

LEMMA InitOK ==
  Init => CallsInv
<1> SUFFICES ASSUME Init PROVE CallsInv
  OBVIOUS
<1> DEFINE p == NewPvt
<1>1. /\ p.chans = << >> /\ p.cpvt = [c \in Cpvt |-> Free] /\ p.chansno = 0
      /\ p.count = [s \in CallState |-> 0] /\ p.lastDialed = NoCpvt /\ p.q = EmptyQueue
      /\ p.target = [t \in TaskIds |-> AtSys]
  BY DEF NewPvt
<1>2. AtSys \in Target /\ AtSys.cpvt = Sys
  BY CallsAssumption DEF AtSys, Target
<1>3. QueueOK(p.q) /\ p.q \in Queue
  BY <1>1, EmptyQueueOK DEF QueueOK
<1>4. p \in PvtRec
  <2>1. << >> \in Seq(Cpvt) /\ [c \in Cpvt |-> Free] \in [Cpvt -> CpvtRec]
        /\ [s \in CallState |-> 0] \in [CallState -> Nat]
        /\ [t \in TaskIds |-> AtSys] \in [TaskIds -> Target] /\ EmptyQueue \in Queue
    BY <1>1, <1>2, <1>3, FreeIsRec
  <2>2. QED  BY <2>1 DEF NewPvt, PvtRec
<1> HIDE DEF p
<1>5. Len(p.chans) = 0 /\ Once(p.chans) /\ Chans(p) = {}
  BY <1>1 DEF Once, Chans
<1>6. CountOK(p)
  <2>1. \A s \in CallState : InState(p, s) = {}
    BY <1>5 DEF InState
  <2>2. Cardinality({}) = 0
    BY FS_EmptySet
  <2>3. QED  BY <1>1, <1>5, <2>1, <2>2 DEF CountOK
<1>7. RefOK(p)
  BY <1>1, <1>2 DEF RefOK
<1>8. PvtOK(p)
  BY <1>3, <1>4, <1>5, <1>6, <1>7 DEF PvtOK
<1>9. tty \in Seq(CallResult)
  BY DEF Init
<1>10. calls \in CallTable
  BY DEF Init, CallTable
<1>11. QED  BY <1>8, <1>9, <1>10 DEF CallsInv, Init, p

LEMMA HandledOK ==
  ASSUME CallsInv, NEW p, PvtOK(p), tty # << >>, Handled(p)
  PROVE  CallsInv'
<1>1. QueueOK(AtQueueRun(p.q, TRUE))
  BY RunKeepsOK DEF PvtOK
<1>2. PvtOK(WithQueue(p, AtQueueRun(p.q, TRUE)))
  BY <1>1, WithQueueOK
<1>3. PvtOK(pvt')
  BY <1>2 DEF Handled
<1>4. tty' \in Seq(CallResult)
  BY HeadTailProperties DEF CallsInv, Handled
<1>5. calls' \in CallTable
  BY DEF CallsInv, Handled
<1>6. QED  BY <1>3, <1>4, <1>5 DEF CallsInv

LEMMA AnsweredOK ==
  ASSUME CallsInv, NEW p, PvtOK(p), NEW res, tty # << >>, Answered(p, res)
  PROVE  CallsInv'
<1> DEFINE r == [p EXCEPT !.q = AtQueueRemoveCmd(@, res)]
<1>1. PvtOK(r)
  BY RemoveCmdOK
<1>2. Handled(r)
  BY DEF Answered
<1> HIDE DEF r
<1>3. QED  BY <1>1, <1>2, HandledOK

LEMMA AskOK ==
  ASSUME CallsInv, NEW p, PvtOK(p), Ask(p)
  PROVE  CallsInv'
BY DEF CallsInv, Ask

LEMMA HeadTargetOK ==
  ASSUME NEW p, PvtOK(p), NonEmpty(p.q)
  PROVE  HeadTarget(p).cpvt \in Chans(p) \cup {Sys}
<1>1. p.q.tasks \in Seq(Task) /\ p.q.tasks # << >>
  BY QueueFields DEF PvtOK, NonEmpty
<1>2. Head(p.q.tasks) \in Task
  BY <1>1, HeadTailProperties
<1>3. Head(p.q.tasks).id \in TaskIds
  BY <1>2 DEF Task
<1>4. QED  BY <1>3 DEF HeadTarget, PvtOK, RefOK

LEMMA ReceivedOK ==
  ASSUME CallsInv, NEW res, Received(res)
  PROVE  /\ tty # << >> /\ Head(tty) \in CallResult /\ Head(tty).res = res
         /\ res \in {"ORIG", "CONN", "CEND"} =>
              Head(tty).idx \in ModemIdx /\ Head(tty).idx \in 0..MaxCallIdx
         /\ res = "CLCC" => Head(tty).list \in CallTable
<1>1. tty # << >> /\ Head(tty) \in CallResult /\ Head(tty).res = res
  BY HeadTailProperties DEF CallsInv, Received
<1>2. res \in {"ORIG", "CONN", "CEND"} => Head(tty).idx \in ModemIdx
  BY <1>1 DEF CallResult
<1>3. res = "CLCC" => Head(tty).list \in CallTable
  BY <1>1 DEF CallResult
<1>4. ModemIdx \subseteq 0..MaxCallIdx
  BY CallsAssumption, ModemAssumption DEF ModemIdx
<1>5. QED  BY <1>1, <1>2, <1>3, <1>4

LEMMA ChannelStep ==
  ASSUME NewIdLeft, CallsInv, NEW c \in Cpvt,
         ChannelAsks(c) \/ \E opts \in Opts : Request(c, opts)
  PROVE  CallsInv'
<1>1. PvtOK(pvt) /\ pvt.cpvt \in [Cpvt -> CpvtRec] /\ pvt.cpvt[c].idx \in 0..MaxCallIdx
  BY PvtFields DEF CallsInv, PvtOK, CpvtRec
<1>2. 0 \in 0..MaxCallIdx
  BY CallsAssumption
<1> DEFINE p == [pvt EXCEPT !.cpvt[c].asked = TRUE]
<1>3. c \in Chans(pvt) => PvtOK(p) /\ Chans(p) = Chans(pvt)
  BY <1>1, AskedOK
<1>4. CASE Call(c)
  <2>1. c \in Chans(pvt)
    BY <1>4 DEF Call
  <2>2. Ask(p) \/ \E kind \in DialKinds : Ask(EnqueDial(p, c, kind))
    BY <1>4 DEF Call
  <2> HIDE DEF p
  <2>3. PvtOK(p) /\ c \in Chans(p)
    BY <1>3, <2>1
  <2>4. \A kind \in DialKinds : PvtOK(EnqueDial(p, c, kind))
    BY <2>3, EnqueDialOK
  <2>5. QED  BY <2>2, <2>3, <2>4, AskOK
<1>5. CASE Hangup(c)
  <2> DEFINE h == EnqueHangup(pvt, c, pvt.cpvt[c].idx)
             d == IF pvt.cpvt[c].needHangup THEN SetNeedHangup(h, c, FALSE) ELSE pvt
             r == [d EXCEPT !.cpvt[c].channel = FALSE]
  <2>1. c \in Chans(pvt) /\ Ask(r)
    BY <1>5 DEF Hangup
  <2>2. PvtOK(h) /\ Chans(h) = Chans(pvt)
    BY <1>1, <2>1, EnqueHangupOK
  <2> HIDE DEF h
  <2>3. PvtOK(SetNeedHangup(h, c, FALSE)) /\ Chans(SetNeedHangup(h, c, FALSE)) = Chans(pvt)
    BY <2>1, <2>2, SetNeedHangupOK
  <2>4. PvtOK(d) /\ c \in Chans(d)
    BY <1>1, <2>1, <2>3
  <2> HIDE DEF d
  <2>5. PvtOK(r)
    BY <2>4, NoChannelOK
  <2> HIDE DEF r
  <2>6. QED  BY <2>1, <2>5, AskOK
<1>6. CASE AnswerCall(c)
  <2>1. c \in Chans(pvt)
    BY <1>6 DEF AnswerCall
  <2>2. \/ Ask(Enque(p, "answer", c, 0))
        \/ Ask(Enque(p, "answerWaiting", c, pvt.cpvt[c].idx))
    BY <1>6 DEF AnswerCall
  <2> HIDE DEF p
  <2>3. "answer" \in Kind /\ "answerWaiting" \in Kind /\ PvtOK(p) /\ c \in Chans(p)
    BY <1>3, <2>1, CallKinds
  <2>4. PvtOK(Enque(p, "answer", c, 0)) /\ PvtOK(Enque(p, "answerWaiting", c, pvt.cpvt[c].idx))
    BY <1>1, <1>2, <2>3, EnqueOK
  <2>5. QED  BY <2>2, <2>4, AskOK
<1>7. CASE ActivateCall(c)
  <2>1. c \in Chans(pvt) /\ Ask(Enque(pvt, "activate", c, pvt.cpvt[c].idx))
    BY <1>7 DEF ActivateCall
  <2>2. "activate" \in Kind
    BY CallKinds
  <2>3. PvtOK(Enque(pvt, "activate", c, pvt.cpvt[c].idx))
    BY <1>1, <2>1, <2>2, EnqueOK
  <2>4. QED  BY <2>1, <2>3, AskOK
<1>8. ASSUME NEW opts \in Opts, Request(c, opts) PROVE CallsInv'
  <2> DEFINE new == [Free EXCEPT !.idx = PseudoCallIdx(pvt), !.state = "init",
                                 !.opts = opts, !.channel = TRUE]
             r == CpvtAlloc(pvt, c, new)
  <2>1. c \in Cpvt \ Chans(pvt) /\ Ask(r)
    BY <1>8 DEF Request, Unused
  <2>2. new \in CpvtRec
    <3>1. opts \in SUBSET DialOption /\ PseudoCallIdx(pvt) \in 0..MaxCallIdx
      BY CallsAssumption, PseudoCallIdxOK
    <3>2. QED  BY <3>1, FreeIsRec, CallStates DEF CpvtRec
  <2> HIDE DEF new
  <2>3. PvtOK(r)
    BY <1>1, <2>1, <2>2, CpvtAllocOK
  <2> HIDE DEF r
  <2>4. QED  BY <2>1, <2>3, AskOK
<1>9. QED  BY <1>4, <1>5, <1>6, <1>7, <1>8 DEF ChannelAsks

LEMMA HandleStep ==
  ASSUME NewIdLeft, CallsInv, Handle
  PROVE  CallsInv'
<1>1. PvtOK(pvt) /\ pvt \in PvtRec
  BY DEF CallsInv, PvtOK
<1>2. CASE HandleOk
  <2> DEFINE c == HeadTarget(pvt).cpvt
  <2>1. tty # << >> /\ NonEmpty(pvt.q)
    BY <1>2 DEF HandleOk, Received
  <2>2. c \in Chans(pvt) \cup {Sys}
    BY <1>1, <2>1, HeadTargetOK
  <2> DEFINE d1 == [pvt EXCEPT !.dialing = TRUE, !.lastDialed = IF c = Sys THEN @ ELSE c]
             ld == IF c = Sys THEN pvt.lastDialed ELSE c
             d2 == [pvt EXCEPT !.dialing = TRUE, !.lastDialed = ld]
             d3 == [pvt EXCEPT !.volSync = (@ + 1) % 3]
             vs == (pvt.volSync + 1) % 3
  <2>3. \/ Answered(SetNeedHangup(d1, c, TRUE), "OK")
        \/ Answered(SetNeedHangup(pvt, c, TRUE), "OK")
        \/ Answered(SetNeedHangup(pvt, c, FALSE), "OK")
        \/ Answered(d3, "OK")
        \/ Answered(pvt, "OK")
    BY <1>2 DEF HandleOk
  <2>4. PvtOK(d1) /\ Chans(d1) = Chans(pvt)
    <3>1. d1 = d2
      BY <1>1 DEF PvtRec
    <3>2. ld \in Chans(pvt) \cup {NoCpvt}
      BY <1>1, <2>2 DEF PvtOK, RefOK
    <3> HIDE DEF ld, c
    <3>3. PvtOK(d2) /\ Chans(d2) = Chans(pvt)
      BY <1>1, <3>2, DialedOK
    <3>4. QED  BY <3>1, <3>3
  <2>5. PvtOK(d3)
    <3>1. pvt.volSync \in 0..2
      BY <1>1, PvtFields
    <3>2. vs \in 0..2
      BY <3>1
    <3>3. d3 = [pvt EXCEPT !.volSync = vs]
      OBVIOUS
    <3> HIDE DEF vs
    <3>4. QED  BY <1>1, <3>2, <3>3, VolSyncOK
  <2> HIDE DEF c, d1, d3
  <2>6. /\ PvtOK(SetNeedHangup(d1, c, TRUE)) /\ PvtOK(SetNeedHangup(pvt, c, TRUE))
        /\ PvtOK(SetNeedHangup(pvt, c, FALSE))
    BY <1>1, <2>2, <2>4, SetNeedHangupOK
  <2>7. QED  BY <1>1, <2>1, <2>3, <2>5, <2>6, AnsweredOK
<1>3. CASE HandleError
  <2> DEFINE d == [pvt EXCEPT !.volSync = 0]
  <2>1. tty # << >> /\ (Answered(d, "ERROR") \/ Answered(pvt, "ERROR"))
    BY <1>3 DEF HandleError, Received
  <2>2. 0 \in 0..2
    OBVIOUS
  <2>3. PvtOK(d)
    BY <1>1, <2>2, VolSyncOK
  <2> HIDE DEF d
  <2>4. QED  BY <1>1, <2>1, <2>3, AnsweredOK
<1>4. CASE HandleOrig
  <2> DEFINE c == pvt.lastDialed
             p == [pvt EXCEPT !.lastDialed = NoCpvt]
             e == [p EXCEPT !.cpvt[c].idx = Head(tty).idx]
             d == ChangeState(e, c, "dialing")
             v == IF d.volSync = 0 THEN SyncVolume(d, c) ELSE d
  <2>1. Received("ORIG")
    BY <1>4 DEF HandleOrig
  <2>2. tty # << >> /\ Head(tty).idx \in 0..MaxCallIdx
    BY <2>1, ReceivedOK
  <2>3. Handled(p) \/ (c # NoCpvt /\ Handled(RequestClcc(v)))
    BY <1>4 DEF HandleOrig
  <2>4. PvtOK(p) /\ Chans(p) = Chans(pvt)
    BY <1>1, LastDialedOK
  <2>5. c # NoCpvt => c \in Chans(pvt)
    BY <1>1 DEF PvtOK, RefOK
  <2> HIDE DEF c, p
  <2>6. ASSUME c # NoCpvt PROVE PvtOK(RequestClcc(v))
    <3>1. PvtOK(e) /\ Chans(e) = Chans(pvt)
      BY <2>2, <2>4, <2>5, <2>6, IdxOK
    <3> HIDE DEF e
    <3>2. PvtOK(d) /\ Chans(d) = Chans(pvt)
      BY <2>5, <2>6, <3>1, ChangeStateOK, CallStates
    <3> HIDE DEF d
    <3>3. PvtOK(SyncVolume(d, c))
      BY <2>5, <2>6, <3>2, SyncVolumeOK
    <3>4. PvtOK(v)
      BY <3>2, <3>3
    <3> HIDE DEF v
    <3>5. QED  BY <3>4, RequestClccOK
  <2> HIDE DEF v
  <2>7. QED  BY <2>2, <2>3, <2>4, <2>6, HandledOK
<1>5. CASE HandleConn
  <2> DEFINE i == Head(tty).idx
             e == [pvt EXCEPT !.ring = FALSE, !.dialing = FALSE, !.cwaiting = FALSE]
             p == RequestClcc(e)
             c == FindCpvt(p, i)
             d == ChangeState(p, c, "active")
             r == IF "conference" \in d.cpvt[c].opts THEN Enque(d, "conference", c, 0) ELSE d
  <2>1. Received("CONN")
    BY <1>5 DEF HandleConn
  <2>2. tty # << >> /\ i \in 0..MaxCallIdx
    BY <2>1, ReceivedOK
  <2>3. Handled(EnqueHangup(p, Sys, i)) \/ (c # NoCpvt /\ Handled(r))
    BY <1>5 DEF HandleConn
  <2>4. PvtOK(e)
    BY <1>1, RingingOK
  <2> HIDE DEF e, i
  <2>5. PvtOK(p)
    BY <2>4, RequestClccOK
  <2> HIDE DEF p
  <2>6. c \in Chans(p) \cup {NoCpvt}
    BY <2>5, FindCpvtOK
  <2>7. PvtOK(EnqueHangup(p, Sys, i))
    BY <2>2, <2>5, EnqueHangupOK
  <2> HIDE DEF c
  <2>8. ASSUME c # NoCpvt PROVE PvtOK(r)
    <3>1. PvtOK(d) /\ Chans(d) = Chans(p)
      BY <2>5, <2>6, <2>8, ChangeStateOK, CallStates
    <3> HIDE DEF d
    <3>2. "conference" \in Kind /\ 0 \in 0..MaxCallIdx
      BY CallKinds, CallsAssumption
    <3>3. PvtOK(Enque(d, "conference", c, 0))
      BY <2>6, <2>8, <3>1, <3>2, EnqueOK
    <3>4. QED  BY <3>1, <3>3
  <2> HIDE DEF r
  <2>9. QED  BY <2>2, <2>3, <2>7, <2>8, HandledOK
<1>6. CASE HandleCend
  <2> DEFINE p == RequestClcc(pvt)
             c == FindCpvt(p, Head(tty).idx)
             d == SetNeedHangup(p, c, FALSE)
             r == ChangeState(d, c, "released")
  <2>1. tty # << >> /\ Handled(IF c = NoCpvt THEN p ELSE r)
    BY <1>6 DEF HandleCend, Received
  <2>2. PvtOK(p)
    BY <1>1, RequestClccOK
  <2> HIDE DEF p
  <2>3. c \in Chans(p) \cup {NoCpvt}
    BY <2>2, FindCpvtOK
  <2> HIDE DEF c
  <2>4. ASSUME c # NoCpvt PROVE PvtOK(r)
    <3>1. PvtOK(d) /\ Chans(d) = Chans(p)
      BY <2>2, <2>3, <2>4, SetNeedHangupOK
    <3> HIDE DEF d
    <3>2. QED  BY <2>3, <2>4, <3>1, ChangeStateOK, CallStates
  <2> HIDE DEF r
  <2>5. PvtOK(IF c = NoCpvt THEN p ELSE r)
    BY <2>2, <2>4
  <2>6. QED  BY <2>1, <2>5, HandledOK
<1>7. CASE HandleClcc
  <2>1. Received("CLCC")
    BY <1>7 DEF HandleClcc
  <2>2. tty # << >> /\ Head(tty).list \in CallTable
    BY <2>1, ReceivedOK
  <2>3. PICK failed :
          Handled((CHOOSE line :
                     line = [n \in 0..ModemCalls |->
                               IF n = 0 THEN pvt
                               ELSE ClccLine(line[n - 1], n, Head(tty).list[n],
                                             n \in failed)])[ModemCalls])
    BY <1>7 DEF HandleClcc
  <2> DEFINE f == CHOOSE g : IsLine(g, ModemCalls, pvt, Head(tty).list, failed)
  <2>4. Handled(f[ModemCalls])
    BY <2>3 DEF IsLine
  <2>5. IsLine(f, ModemCalls, pvt, Head(tty).list, failed)
    BY ModemAssumption, LineExists
  <2> HIDE DEF f
  <2>6. PvtOK(f[ModemCalls])
    BY <1>1, <2>2, <2>5, LinesOK
  <2>7. QED  BY <2>2, <2>4, <2>6, HandledOK
<1>8. CASE HandleRing
  <2> DEFINE e == [pvt EXCEPT !.ring = TRUE, !.dialing = FALSE, !.cwaiting = FALSE]
             p == RequestClcc(e)
  <2>1. tty # << >> /\ (Handled(SyncVolume(p, Sys)) \/ Handled(p))
    BY <1>8 DEF HandleRing, Received
  <2>2. PvtOK(e)
    BY <1>1, RingingOK
  <2> HIDE DEF e
  <2>3. PvtOK(p)
    BY <2>2, RequestClccOK
  <2> HIDE DEF p
  <2>4. PvtOK(SyncVolume(p, Sys))
    BY <2>3, SyncVolumeOK
  <2>5. QED  BY <2>1, <2>3, <2>4, HandledOK
<1>9. CASE HandleCcwa
  <2> DEFINE e == [pvt EXCEPT !.cwaiting = TRUE]
  <2>1. tty # << >> /\ Handled(RequestClcc(e))
    BY <1>9 DEF HandleCcwa, Received
  <2>2. PvtOK(e)
    <3>1. e \in PvtRec
      BY <1>1 DEF PvtRec
    <3>2. /\ e.chans = pvt.chans /\ e.chansno = pvt.chansno /\ e.count = pvt.count
          /\ e.cpvt = pvt.cpvt /\ e.q = pvt.q /\ e.target = pvt.target
          /\ e.lastDialed = pvt.lastDialed
      BY <1>1 DEF PvtRec
    <3> HIDE DEF e
    <3>3. QED  BY <1>1, <3>1, <3>2, FlagsOK DEF PvtOK, RefOK
  <2> HIDE DEF e
  <2>3. PvtOK(RequestClcc(e))
    BY <2>2, RequestClccOK
  <2>4. QED  BY <2>1, <2>3, HandledOK
<1>10. QED
  BY <1>2, <1>3, <1>4, <1>5, <1>6, <1>7, <1>8, <1>9 DEF Handle

LEMMA DisconnectStep ==
  ASSUME CallsInv, Disconnect
  PROVE  CallsInv'
<1> DEFINE N == Len(pvt.chans)
           f == CHOOSE g : IsReleased(g, N, pvt)
           p == f[N]
           x == AtQueueFlush(p.q)
           d == WithQueue(p, x)
           r == [d EXCEPT !.lastDialed = NoCpvt, !.ring = FALSE, !.dialing = FALSE,
                          !.cwaiting = FALSE, !.volSync = 0]
<1>1. PvtOK(pvt) /\ N \in Nat
  BY PvtFields DEF CallsInv, PvtOK
<1>2. pvt' = r
  BY DEF Disconnect, IsReleased
<1>3. IsReleased(f, N, pvt)
  BY <1>1, ReleasedExists
<1> HIDE DEF f
<1>4. PvtOK(p)
  BY <1>1, <1>3, ReleasedOK
<1> HIDE DEF p
<1>5. QueueOK(x)
  <2>1. x = EmptyQueue
    BY <1>4, FlushEmpties DEF PvtOK
  <2>2. QED  BY <2>1, EmptyQueueOK
<1> HIDE DEF x
<1>6. PvtOK(d) /\ d \in PvtRec
  BY <1>4, <1>5, WithQueueOK DEF PvtOK
<1> HIDE DEF d
<1>7. r \in PvtRec
  <2>1. NoCpvt \in Cpvt \cup {NoCpvt} /\ 0 \in 0..2
    OBVIOUS
  <2> DEFINE e == [d EXCEPT !.lastDialed = NoCpvt, !.volSync = 0]
  <2>2. e \in PvtRec
    BY <1>6, <2>1 DEF PvtRec
  <2>3. r = [e EXCEPT !.ring = FALSE, !.dialing = FALSE, !.cwaiting = FALSE]
    BY <1>6 DEF PvtRec
  <2> HIDE DEF e
  <2>4. QED  BY <2>2, <2>3 DEF PvtRec
<1>8. /\ r.chans = d.chans /\ r.chansno = d.chansno /\ r.count = d.count /\ r.cpvt = d.cpvt
      /\ r.q = d.q /\ r.target = d.target /\ r.lastDialed = NoCpvt
  BY <1>6 DEF PvtRec
<1> HIDE DEF r
<1>9. PvtOK(r)
  BY <1>6, <1>7, <1>8, FlagsOK
<1>10. tty' \in Seq(CallResult)
  BY DEF Disconnect
<1>11. calls' \in CallTable
  BY EndsOK DEF Disconnect, CallsInv
<1>12. QED  BY <1>2, <1>9, <1>10, <1>11 DEF CallsInv

LEMMA ModemStep ==
  ASSUME CallsInv,
         ModemExecutes \/ PeerCalls \/ RingsAgain \/ PeerAlerts \/ PeerAnswers \/ PeerEnds
  PROVE  CallsInv'
<1>1. tty \in Seq(CallResult) /\ calls \in CallTable
  BY DEF CallsInv
<1>2. pvt' = pvt
  BY DEF ModemExecutes, PeerCalls, RingsAgain, PeerAlerts, PeerAnswers, PeerEnds, Network
<1>3. SUFFICES tty' \in Seq(CallResult) /\ calls' \in CallTable
  BY <1>2 DEF CallsInv
<1>4. ASSUME NEW m \in CallTable, NEW out \in Seq(CallResult), Network(m, out)
      PROVE  tty' \in Seq(CallResult) /\ calls' \in CallTable
  BY <1>1, <1>4, ConcatProperties DEF Network
<1>5. CASE ModemExecutes
  <2> DEFINE done == Execute(HeadCmd(pvt.q), HeadTarget(pvt).idx, calls)
  <2>1. \/ calls' = done.calls /\ tty' = tty \o done.out
        \/ calls' = calls /\ tty' = Append(tty, Error)
    BY <1>5 DEF ModemExecutes
  <2>2. Well(done)
    BY <1>1, ExecuteOK
  <2> HIDE DEF done
  <2>3. done.calls \in CallTable /\ tty \o done.out \in Seq(CallResult)
    BY <1>1, <2>2, ConcatProperties DEF Well
  <2>4. Append(tty, Error) \in Seq(CallResult)
    BY <1>1, Results, AppendProperties
  <2>5. QED  BY <1>1, <2>1, <2>3, <2>4
<1>6. CASE PeerCalls
  <2> DEFINE i == Min(FreeIdx(calls))
             waits == LiveCalls(calls) # {}
             m == [calls EXCEPT ![i] = [dir |-> "in",
                                        state |-> IF waits THEN "waiting" ELSE "incoming"]]
             out == << [res |-> IF waits THEN "CCWA" ELSE "RING"] >>
  <2>1. FreeIdx(calls) # {} /\ Network(m, out)
    BY <1>6 DEF PeerCalls
  <2>2. i \in ModemIdx
    BY <1>1, <2>1, FreeIdxOK
  <2> HIDE DEF i
  <2>3. m \in CallTable
    BY <1>1, <2>2 DEF CallTable, ModemCall, Dir
  <2>4. out \in Seq(CallResult)
    BY Results
  <2> HIDE DEF m, out
  <2>5. QED  BY <1>4, <2>1, <2>3, <2>4
<1>7. CASE RingsAgain
  <2>1. << [res |-> "RING"] >> \in Seq(CallResult)
    BY Results
  <2>2. QED  BY <1>1, <1>4, <1>7, <2>1 DEF RingsAgain
<1>8. CASE PeerAlerts
  <2>1. PICK i \in CallsIn(calls, {"dialing"}) : Network(Move(calls, {i}, "alerting"), << >>)
    BY <1>8 DEF PeerAlerts
  <2>2. {i} \in SUBSET LiveCalls(calls)
    BY LiveParts
  <2>3. Move(calls, {i}, "alerting") \in CallTable /\ << >> \in Seq(CallResult)
    BY <1>1, <2>2, MoveOK
  <2>4. QED  BY <1>4, <2>1, <2>3
<1>9. CASE PeerAnswers
  <2>1. PICK i \in CallsIn(calls, {"alerting"}) :
               Network(Move(calls, {i}, "active"), << About("CONN", i) >>)
    BY <1>9 DEF PeerAnswers
  <2>2. {i} \in SUBSET LiveCalls(calls) /\ i \in ModemIdx
    BY LiveParts
  <2>3. Move(calls, {i}, "active") \in CallTable /\ << About("CONN", i) >> \in Seq(CallResult)
    BY <1>1, <2>2, MoveOK, Results
  <2>4. QED  BY <1>4, <2>1, <2>3
<1>10. CASE PeerEnds
  <2>1. PICK i \in LiveCalls(calls) : Network(Ends(calls, {i}), Cends({i}))
    BY <1>10 DEF PeerEnds
  <2>2. {i} \in SUBSET ModemIdx
    BY LiveParts
  <2>3. Ends(calls, {i}) \in CallTable /\ Cends({i}) \in Seq(CallResult)
    BY <1>1, <2>2, EndsOK, CendsOK
  <2>4. QED  BY <1>4, <2>1, <2>3
<1>11. QED  BY <1>5, <1>6, <1>7, <1>8, <1>9, <1>10

LEMMA NextOK ==
  ASSUME NewIdLeft, CallsInv, [Next]_vars
  PROVE  CallsInv'
<1>1. CASE \E c \in Cpvt : ChannelAsks(c) \/ \E opts \in Opts : Request(c, opts)
  BY <1>1, ChannelStep
<1>2. CASE Handle
  BY <1>2, HandleStep
<1>3. CASE Disconnect
  BY <1>3, DisconnectStep
<1>4. CASE ModemExecutes \/ PeerCalls \/ RingsAgain \/ PeerAlerts \/ PeerAnswers \/ PeerEnds
  BY <1>4, ModemStep
<1>5. CASE UNCHANGED vars
  BY <1>5 DEF CallsInv, vars
<1>6. QED  BY <1>1, <1>2, <1>3, <1>4, <1>5 DEF Next

-----------------------------------------------------------------------------
(* The theorems.                                                             *)

LEMMA InvHolds ==
  ASSUME NewIdLeft
  PROVE  Spec => []CallsInv
<1>1. Init => CallsInv
  BY InitOK
<1>2. CallsInv /\ [Next]_vars => CallsInv'
  BY NextOK
<1>3. QED  BY <1>1, <1>2, PTL DEF Spec

(* The device, the unread results and the modem's calls are what the code's  *)
(* types let them be: no count of calls goes below 0 in any order of hanging *)
(* up, events and disconnects, and every task is for a cpvt or sys_chan.      *)
THEOREM CallsTyped ==
  ASSUME NewIdLeft
  PROVE  Spec => []TypeOK
<1>1. CallsInv => TypeOK
  BY PvtFields DEF CallsInv, PvtOK, TypeOK
<1>2. QED  BY <1>1, InvHolds, PTL

LEMMA ListIsCounted ==
  ASSUME NEW p, PvtOK(p)
  PROVE  Cardinality(Chans(p)) = Len(p.chans)
<1> DEFINE f == [n \in 1..Len(p.chans) |-> p.chans[n]]
<1>1. Len(p.chans) \in Nat /\ Once(p.chans)
  BY PvtFields DEF PvtOK
<1>2. f \in Bijection(1..Len(p.chans), Chans(p))
  BY <1>1 DEF Bijection, Injection, Surjection, IsInjective, Once, Chans
<1>3. ExistsBijection(1..Len(p.chans), Chans(p))
  BY <1>2 DEF ExistsBijection
<1>4. QED  BY <1>1, <1>3, FS_CountingElements

(* chansno and the counts per state, by which the driver decides how a call  *)
(* is dialed, hung up and refused, are those of the list of cpvts.            *)
THEOREM CountsHold ==
  ASSUME NewIdLeft
  PROVE  Spec => []CountsAgree
<1>1. CallsInv => CountsAgree
  <2>1. SUFFICES ASSUME CallsInv PROVE CountsAgree
    OBVIOUS
  <2>2. PvtOK(pvt) /\ CountOK(pvt)
    BY <2>1 DEF CallsInv, PvtOK
  <2>3. Cardinality(Chans(pvt)) = Len(pvt.chans)
    BY <2>2, ListIsCounted
  <2>4. QED  BY <2>2, <2>3 DEF CountsAgree, CountOK, InState
<1>2. QED  BY <1>1, InvHolds, PTL

(* No queued task and not last_dialed_cpvt points to a cpvt that was freed,  *)
(* whatever ends the call first: its channel, ^CEND, +CLCC or the loss of    *)
(* the device.                                                               *)
THEOREM NothingDangles ==
  ASSUME NewIdLeft
  PROVE  Spec => []NoDangling
<1>1. CallsInv => NoDangling
  <2>1. SUFFICES ASSUME CallsInv PROVE NoDangling
    OBVIOUS
  <2>2. RefOK(pvt) /\ QueueOK(pvt.q)
    BY <2>1 DEF CallsInv, PvtOK
  <2>3. Queued(pvt.q) \subseteq TaskIds
    <3>1. \A i \in 1..Len(pvt.q.tasks) : pvt.q.tasks[i] \in Task
      BY <2>2, QueueFields, ElementOfSeq
    <3>2. QED  BY <3>1 DEF Queued, Task
  <2>4. QED  BY <2>2, <2>3 DEF NoDangling, RefOK
<1>2. QED  BY <1>1, InvHolds, PTL

=============================================================================
