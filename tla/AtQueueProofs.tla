--------------------------- MODULE AtQueueProofs ---------------------------
(***************************************************************************)
(* What the operations of the command queue preserve, for every set of      *)
(* identities and all scripts: the lemmas the proofs about the monitor cite. *)
(***************************************************************************)
EXTENDS AtQueue, FiniteSetTheorems, SequenceTheorems, TLAPS

(* The queue as every lock region of the source leaves it: counters that    *)
(* match, distinct tasks, none begun but the head.                          *)
Distinct(s) == \A i, j \in 1..Len(s) : s[i].id = s[j].id => i = j

Untouched(t) == t.idx = 1 /\ ~t.sent

QueueOK(x) ==
  /\ x \in Queue
  /\ x.ntasks = Len(x.tasks)
  /\ x.ncmds = CmdsLeft(x.tasks)
  /\ Distinct(x.tasks)
  /\ \A i \in 2..Len(x.tasks) : Untouched(x.tasks[i])

-----------------------------------------------------------------------------
(* Every script has a first command, and its commands are those of Cmd.      *)
LEMMA ScriptType == \A k \in Kind : Script(k) \in Seq(Cmd) /\ Len(Script(k)) \in Nat \ {0}
<1>1. InitScript \in Seq(Cmd) /\ NoVoiceScript \in Seq(Cmd)
  BY ScriptAssumption, SeqMonotonic DEF Cmd
<1>2. Len(InitScript) \in Nat \ {0} /\ Len(NoVoiceScript) \in Nat \ {0}
  BY <1>1, ScriptAssumption, EmptySeq
<1>3. \A a \in Cmd : << a >> \in Seq(Cmd) /\ Len(<< a >>) = 1
  OBVIOUS
<1>4. \A a, b \in Cmd : << a, b >> \in Seq(Cmd) /\ Len(<< a, b >>) = 2
  OBVIOUS
<1>5. SUFFICES ASSUME NEW k \in Kind
               PROVE  Script(k) \in Seq(Cmd) /\ Len(Script(k)) \in Nat \ {0}
  OBVIOUS
<1>6. CASE k \in {"init", "noVoice"}
  BY <1>1, <1>2, <1>6 DEF Script, Scripts
<1>7. CASE k \in {"ping", "cops", "ussd", "dtmf", "reset", "answerWaiting", "clcc", "read", "user"}
  <2>1. \E a \in Cmd : Script(k) = << a >>
    BY <1>7 DEF Script, Scripts, Cmd
  <2>2. QED  BY <1>3, <2>1
<1>8. CASE k \in {"ccwa", "sms", "answer", "activate", "flip", "hangup", "hangup1",
                  "volsync", "conference", "retrieve"}
  <2>1. \E a, b \in Cmd : Script(k) = << a, b >>
    BY <1>8 DEF Script, Scripts, Cmd
  <2>2. QED  BY <1>4, <2>1
<1>9. CASE k \in {"dial", "dialPlain", "dialHeld", "dialPlainHeld"}
  <2>1. {"CHLD_2", "CLIR", "D", "CLCC", "DDSETEX"} \subseteq Cmd
    BY DEF Cmd
  <2>2. \A a, b, c, d, e \in Cmd :
          /\ << a, b, c >> \in Seq(Cmd) /\ Len(<< a, b, c >>) = 3
          /\ << a, b, c, d >> \in Seq(Cmd) /\ Len(<< a, b, c, d >>) = 4
          /\ << a, b, c, d, e >> \in Seq(Cmd) /\ Len(<< a, b, c, d, e >>) = 5
    OBVIOUS
  <2>3. CASE k = "dial"
    BY <2>1, <2>2, <2>3 DEF Script, Scripts
  <2>4. CASE k = "dialPlain"
    BY <2>1, <2>2, <2>4 DEF Script, Scripts
  <2>5. CASE k = "dialHeld"
    BY <2>1, <2>2, <2>5 DEF Script, Scripts
  <2>6. CASE k = "dialPlainHeld"
    BY <2>1, <2>2, <2>6 DEF Script, Scripts
  <2>7. QED  BY <1>9, <2>3, <2>4, <2>5, <2>6
<1>10. QED  BY <1>6, <1>7, <1>8, <1>9 DEF Kind

LEMMA TaskType ==
  ASSUME NEW t \in Task
  PROVE  /\ t.id \in TaskIds /\ t.kind \in Kind /\ t.idx \in Nat \ {0} /\ t.sent \in BOOLEAN
         /\ Len(Script(t.kind)) \in Nat \ {0} /\ t.idx <= Len(Script(t.kind))
         /\ CmdOf(t) \in Cmd
         /\ Remaining(t) \in Nat \ {0}
<1>1. /\ t.id \in TaskIds /\ t.kind \in Kind /\ t.idx \in Nat \ {0} /\ t.sent \in BOOLEAN
      /\ t.idx <= Len(Script(t.kind))
  BY DEF Task
<1>2. Len(Script(t.kind)) \in Nat \ {0} /\ Script(t.kind) \in Seq(Cmd)
  BY <1>1, ScriptType
<1>3. t.idx \in 1..Len(Script(t.kind))
  BY <1>1, <1>2
<1>4. CmdOf(t) \in Cmd
  BY <1>2, <1>3, ElementOfSeq DEF CmdOf
<1>5. QED  BY <1>1, <1>2, <1>4 DEF Remaining

LEMMA NewTaskType ==
  ASSUME NEW id \in TaskIds, NEW k \in Kind
  PROVE  /\ NewTask(id, k) \in Task
         /\ NewTask(id, k).id = id /\ NewTask(id, k).kind = k /\ Untouched(NewTask(id, k))
  BY ScriptType DEF NewTask, Task, Untouched

-----------------------------------------------------------------------------
(* The open commands, and their number.                                      *)
LEMMA CmdsOfCount ==
  ASSUME NEW t \in Task
  PROVE  IsFiniteSet(CmdsOf(t)) /\ Cardinality(CmdsOf(t)) = Remaining(t)
<1> DEFINE I == t.idx .. Len(Script(t.kind))
<1>1. IsFiniteSet(I) /\ Cardinality(I) = Remaining(t)
  <2>1. t.idx \in Int /\ Len(Script(t.kind)) \in Int /\ t.idx <= Len(Script(t.kind))
    BY TaskType
  <2>2. QED  BY <2>1, FS_Interval DEF Remaining
<1>2. IsFiniteSet({t.id}) /\ Cardinality({t.id}) = 1
  BY FS_Singleton
<1>3. IsFiniteSet({t.id} \X I) /\ Cardinality({t.id} \X I) = 1 * Remaining(t)
  BY <1>1, <1>2, FS_Product, ZenonT(30)
<1>4. QED  BY <1>3, TaskType DEF CmdsOf

LEMMA OpenCmdsFinite ==
  ASSUME NEW s \in Seq(Task)
  PROVE  IsFiniteSet(OpenCmds(s)) /\ CmdsLeft(s) \in Nat
<1> DEFINE S == { CmdsOf(s[i]) : i \in 1..Len(s) }
           f == [i \in 1..Len(s) |-> CmdsOf(s[i])]
<1>1. Len(s) \in Nat
  BY LenProperties
<1>2. IsFiniteSet(1..Len(s))
  BY <1>1, FS_Interval
<1>3. f \in Surjection(1..Len(s), S)
  BY DEF Surjection
<1>4. IsFiniteSet(S)
  BY <1>2, <1>3, FS_Surjection
<1>5. \A T \in S : IsFiniteSet(T)
  BY CmdsOfCount, ElementOfSeq
<1>6. IsFiniteSet(UNION S)
  BY <1>4, <1>5, FS_UNION
<1>7. QED  BY <1>6, FS_CardinalityType DEF OpenCmds, CmdsLeft

LEMMA OpenCmdsOfNone == OpenCmds(<< >>) = {} /\ CmdsLeft(<< >>) = 0
<1>1. Len(<< >>) = 0
  BY EmptySeq
<1>2. OpenCmds(<< >>) = {}
  BY <1>1 DEF OpenCmds
<1>3. QED  BY <1>2, FS_EmptySet DEF CmdsLeft

(* A task put anywhere among the others adds its commands.                   *)
LEMMA OpenCmdsInserted ==
  ASSUME NEW s \in Seq(Task), NEW u \in Seq(Task), NEW t \in Task,
         NEW p \in 1..Len(s)+1,
         Len(u) = Len(s) + 1,
         \A i \in 1..Len(s)+1 : u[i] = IF i < p THEN s[i] ELSE IF i = p THEN t ELSE s[i-1],
         \A i \in 1..Len(s) : s[i].id # t.id
  PROVE  CmdsLeft(u) = CmdsLeft(s) + Remaining(t)
<1>0. Len(s) \in Nat
  BY LenProperties
<1>1. OpenCmds(u) = OpenCmds(s) \cup CmdsOf(t)
  <2>1. \A c : c \in OpenCmds(u) => c \in OpenCmds(s) \cup CmdsOf(t)
    <3>1. SUFFICES ASSUME NEW i \in 1..Len(s)+1, NEW c \in CmdsOf(u[i])
                   PROVE  c \in OpenCmds(s) \cup CmdsOf(t)
      BY DEF OpenCmds
    <3>2. CASE i < p
      <4>1. i \in 1..Len(s) /\ u[i] = s[i]
        BY <1>0, <3>2
      <4>2. QED  BY <4>1 DEF OpenCmds
    <3>3. CASE i = p
      BY <3>3
    <3>4. CASE i > p
      <4>1. i-1 \in 1..Len(s) /\ u[i] = s[i-1]
        BY <1>0, <3>4
      <4>2. QED  BY <4>1 DEF OpenCmds
    <3>5. QED  BY <3>2, <3>3, <3>4
  <2>2. \A c : c \in OpenCmds(s) => c \in OpenCmds(u)
    <3>1. SUFFICES ASSUME NEW i \in 1..Len(s), NEW c \in CmdsOf(s[i])
                   PROVE  c \in OpenCmds(u)
      BY DEF OpenCmds
    <3>2. CASE i < p
      <4>1. i \in 1..Len(u) /\ u[i] = s[i]
        BY <1>0, <3>2
      <4>2. QED  BY <4>1 DEF OpenCmds
    <3>3. CASE i >= p
      <4>1. i+1 \in 1..Len(u) /\ u[i+1] = s[i]
        BY <1>0, <3>3
      <4>2. QED  BY <4>1 DEF OpenCmds
    <3>4. QED  BY <3>2, <3>3
  <2>3. \A c : c \in CmdsOf(t) => c \in OpenCmds(u)
    <3>1. p \in 1..Len(u) /\ u[p] = t
      BY <1>0
    <3>2. QED  BY <3>1 DEF OpenCmds
  <2>4. QED  BY <2>1, <2>2, <2>3
<1>2. OpenCmds(s) \cap CmdsOf(t) = {}
  BY DEF OpenCmds, CmdsOf
<1>3. IsFiniteSet(OpenCmds(s)) /\ Cardinality(OpenCmds(s)) \in Nat
  BY OpenCmdsFinite DEF CmdsLeft
<1>4. IsFiniteSet(CmdsOf(t)) /\ Cardinality(CmdsOf(t)) = Remaining(t)
  BY CmdsOfCount
<1>5. Cardinality(OpenCmds(s) \cup CmdsOf(t)) = Cardinality(OpenCmds(s)) + Remaining(t) - 0
  BY <1>2, <1>3, <1>4, FS_Union, FS_EmptySet
<1>6. QED  BY <1>1, <1>3, <1>5, TaskType DEF CmdsLeft

(* The head taken away takes its commands.                                   *)
LEMMA OpenCmdsOfTail ==
  ASSUME NEW s \in Seq(Task), s # << >>, Distinct(s)
  PROVE  CmdsLeft(s) = CmdsLeft(Tail(s)) + Remaining(Head(s))
<1> DEFINE u == Tail(s)
<1>1. /\ Len(s) \in Nat \ {0} /\ u \in Seq(Task) /\ Len(u) = Len(s) - 1
      /\ Head(s) \in Task /\ Head(s) = s[1]
      /\ \A i \in 1..Len(u) : u[i] = s[i+1]
  BY EmptySeq, HeadTailProperties
<1>2. \A i \in 1..Len(u)+1 : s[i] = IF i < 1 THEN u[i] ELSE IF i = 1 THEN Head(s) ELSE u[i-1]
  <2>1. SUFFICES ASSUME NEW i \in 2..Len(s) PROVE s[i] = u[i-1]
    BY <1>1
  <2>2. i-1 \in 1..Len(u)
    BY <1>1
  <2>3. QED  BY <1>1, <2>2
<1>3. \A i \in 1..Len(u) : u[i].id # Head(s).id
  BY <1>1 DEF Distinct
<1>4. Len(s) = Len(u) + 1 /\ 1 \in 1..Len(u)+1
  BY <1>1
<1> HIDE DEF u
<1>5. QED  BY <1>1, <1>2, <1>3, <1>4, OpenCmdsInserted DEF u

-----------------------------------------------------------------------------
(* The operations keep QueueOK.                                              *)
LEMMA EmptyQueueOK == QueueOK(EmptyQueue)
<1>1. << >> \in Seq(Task) /\ Len(<< >>) = 0
  BY EmptySeq
<1>2. QED  BY <1>1, OpenCmdsOfNone DEF QueueOK, EmptyQueue, Queue, Distinct

LEMMA QueueFields ==
  ASSUME NEW x, QueueOK(x)
  PROVE  /\ x = [tasks |-> x.tasks, ntasks |-> x.ntasks, ncmds |-> x.ncmds]
         /\ x.tasks \in Seq(Task) /\ Len(x.tasks) \in Nat
         /\ x.ntasks \in Nat /\ x.ncmds \in Int
         /\ NonEmpty(x) => /\ Len(x.tasks) \in Nat \ {0}
                           /\ Head(x.tasks) \in Task /\ Head(x.tasks) = x.tasks[1]
  BY LenProperties, EmptySeq, HeadTailProperties DEF QueueOK, Queue, NonEmpty

LEMMA AddKeepsOK ==
  ASSUME NEW x, QueueOK(x), NEW id \in TaskIds, id \notin Queued(x), NEW k \in Kind
  PROVE  /\ QueueOK(AtQueueAdd(x, id, k))
         /\ NonEmpty(AtQueueAdd(x, id, k))
         /\ NonEmpty(x) => Head(AtQueueAdd(x, id, k).tasks) = Head(x.tasks)
<1> DEFINE s == x.tasks
           t == NewTask(id, k)
           y == AtQueueAdd(x, id, k)
           u == y.tasks
<1>1. /\ s \in Seq(Task) /\ Len(s) \in Nat /\ Distinct(s) /\ x.ncmds = CmdsLeft(s)
      /\ x.ntasks = Len(s) /\ \A i \in 2..Len(s) : Untouched(s[i])
      /\ s # << >> => Head(s) \in Task /\ Head(s) = s[1] /\ Len(s) \in Nat \ {0}
  BY QueueFields DEF QueueOK, NonEmpty
<1>2. t \in Task /\ t.id = id /\ t.kind = k /\ Untouched(t)
  BY NewTaskType
<1>3. \A i \in 1..Len(s) : s[i].id # t.id
  BY <1>2 DEF Queued
<1>4. \E p \in 1..Len(s)+1 :
        /\ u \in Seq(Task) /\ Len(u) = Len(s) + 1
        /\ p = 1 => s = << >>
        /\ \A i \in 1..Len(s)+1 : u[i] = IF i < p THEN s[i] ELSE IF i = p THEN t ELSE s[i-1]
  <2>1. CASE k \in Prio /\ s # << >>
    <3>1. u = << Head(s), t >> \o Tail(s)
      BY <2>1 DEF AtQueueAdd, NonEmpty
    <3>2. << Head(s), t >> \in Seq(Task) /\ Len(<< Head(s), t >>) = 2
      BY <1>1, <1>2, <2>1
    <3>3. Tail(s) \in Seq(Task) /\ Len(Tail(s)) = Len(s) - 1
          /\ \A i \in 1..Len(Tail(s)) : Tail(s)[i] = s[i+1]
      BY <1>1, <2>1, HeadTailProperties
    <3>4. /\ u \in Seq(Task) /\ Len(u) = 2 + Len(Tail(s))
          /\ \A i \in 1..2 + Len(Tail(s)) :
               u[i] = IF i <= 2 THEN << Head(s), t >>[i] ELSE Tail(s)[i - 2]
      BY <3>1, <3>2, <3>3, ConcatProperties
    <3>5. \A i \in 1..Len(s)+1 : u[i] = IF i < 2 THEN s[i] ELSE IF i = 2 THEN t ELSE s[i-1]
      <4>1. SUFFICES ASSUME NEW i \in 1..Len(s)+1
                     PROVE  u[i] = IF i < 2 THEN s[i] ELSE IF i = 2 THEN t ELSE s[i-1]
        OBVIOUS
      <4>2. CASE i = 1
        BY <1>1, <2>1, <3>3, <3>4, <4>2
      <4>3. CASE i = 2
        BY <1>1, <2>1, <3>3, <3>4, <4>3
      <4>4. CASE i > 2
        <5>1. i - 2 \in 1..Len(Tail(s)) /\ i \in 1..2+Len(Tail(s)) /\ (i-2)+1 = i-1
          BY <1>1, <3>3, <4>4
        <5>2. QED  BY <1>1, <3>3, <3>4, <4>4, <5>1
      <4>5. QED  BY <1>1, <4>2, <4>3, <4>4
    <3>6. 2 \in 1..Len(s)+1
      BY <1>1, <2>1
    <3>7. QED  BY <1>1, <3>3, <3>4, <3>5, <3>6
  <2>2. CASE ~(k \in Prio /\ s # << >>)
    <3>1. u = Append(s, t)
      BY <2>2 DEF AtQueueAdd, NonEmpty
    <3>2. /\ u \in Seq(Task) /\ Len(u) = Len(s) + 1
          /\ \A i \in 1..Len(s) : u[i] = s[i]
          /\ u[Len(s)+1] = t
      BY <1>1, <1>2, <3>1, AppendProperties
    <3>3. \A i \in 1..Len(s)+1 :
            u[i] = IF i < Len(s)+1 THEN s[i] ELSE IF i = Len(s)+1 THEN t ELSE s[i-1]
      BY <1>1, <3>2
    <3>4. Len(s)+1 \in 1..Len(s)+1 /\ (Len(s)+1 = 1 => s = << >>)
      BY <1>1
    <3>5. QED  BY <3>2, <3>3, <3>4
  <2>3. QED  BY <2>1, <2>2
<1>5. PICK p \in 1..Len(s)+1 :
        /\ u \in Seq(Task) /\ Len(u) = Len(s) + 1
        /\ p = 1 => s = << >>
        /\ \A i \in 1..Len(s)+1 : u[i] = IF i < p THEN s[i] ELSE IF i = p THEN t ELSE s[i-1]
  BY <1>4
<1>6. /\ y = [tasks |-> u, ntasks |-> x.ntasks + 1, ncmds |-> x.ncmds + Remaining(t)]
  BY <1>2, ScriptType DEF AtQueueAdd, NewTask, Remaining
<1> HIDE DEF s, t, u, y
<1>7. CmdsLeft(u) = CmdsLeft(s) + Remaining(t)
  BY <1>1, <1>2, <1>3, <1>5, OpenCmdsInserted
<1>8. y \in Queue /\ y.ntasks = Len(u) /\ y.ncmds = CmdsLeft(u)
  BY <1>1, <1>2, <1>5, <1>6, <1>7, TaskType, OpenCmdsFinite DEF Queue
<1>9. Distinct(u)
  <2>1. SUFFICES ASSUME NEW i \in 1..Len(s)+1, NEW j \in 1..Len(s)+1, u[i].id = u[j].id
                 PROVE  i = j
    BY <1>5 DEF Distinct
  <2>2. \A n \in 1..Len(s)+1 : n # p =>
           \E m \in 1..Len(s) : u[n] = s[m] /\ m = IF n < p THEN n ELSE n-1
    <3>1. SUFFICES ASSUME NEW n \in 1..Len(s)+1, n # p
                   PROVE  \E m \in 1..Len(s) : u[n] = s[m] /\ m = IF n < p THEN n ELSE n-1
      OBVIOUS
    <3>2. CASE n < p
      BY <1>1, <1>5, <3>2
    <3>3. CASE n > p
      <4>1. n-1 \in 1..Len(s) /\ u[n] = s[n-1]
        BY <1>1, <1>5, <3>3
      <4>2. QED  BY <3>3, <4>1
    <3>4. QED  BY <3>1, <3>2, <3>3, <1>1
  <2>3. u[p] = t
    BY <1>1, <1>5
  <2>4. CASE i = p \/ j = p
    BY <1>3, <2>1, <2>2, <2>3, <2>4
  <2>5. CASE i # p /\ j # p
    <3>1. PICK m \in 1..Len(s) : u[i] = s[m] /\ m = IF i < p THEN i ELSE i-1
      BY <2>2, <2>5
    <3>2. PICK n \in 1..Len(s) : u[j] = s[n] /\ n = IF j < p THEN j ELSE j-1
      BY <2>2, <2>5
    <3>3. m = n
      BY <1>1, <2>1, <3>1, <3>2 DEF Distinct
    <3>4. QED  BY <1>1, <2>5, <3>1, <3>2, <3>3
  <2>6. QED  BY <2>4, <2>5
<1>10. \A i \in 2..Len(u) : Untouched(u[i])
  <2>1. SUFFICES ASSUME NEW i \in 2..Len(s)+1 PROVE Untouched(u[i])
    BY <1>5
  <2>2. CASE i < p
    BY <1>1, <1>5, <2>2
  <2>3. CASE i = p
    BY <1>1, <1>2, <1>5, <2>3
  <2>4. CASE i > p
    <3>1. p # 1
      BY <1>1, <1>5, <2>4, EmptySeq
    <3>2. i-1 \in 2..Len(s) /\ u[i] = s[i-1]
      BY <1>1, <1>5, <2>4, <3>1
    <3>3. QED  BY <1>1, <3>2
  <2>5. QED  BY <1>1, <2>2, <2>3, <2>4
<1>11. QueueOK(y)
  BY <1>8, <1>9, <1>10, <1>5, <1>6 DEF QueueOK
<1>12. u # << >>
  BY <1>1, <1>5, EmptySeq
<1>13. s # << >> => Head(u) = Head(s)
  BY <1>1, <1>5, <1>12, HeadTailProperties
<1>14. QED  BY <1>11, <1>12, <1>13, <1>6 DEF y, u, s, NonEmpty

LEMMA RemoveKeepsOK ==
  ASSUME NEW x, QueueOK(x), NonEmpty(x)
  PROVE  /\ QueueOK(AtQueueRemove(x))
         /\ Queued(AtQueueRemove(x)) \subseteq Queued(x)
         /\ NonEmpty(AtQueueRemove(x)) => Untouched(Head(AtQueueRemove(x).tasks))
<1> DEFINE s == x.tasks
           y == AtQueueRemove(x)
           u == Tail(s)
<1>1. /\ s \in Seq(Task) /\ Len(s) \in Nat \ {0} /\ Distinct(s) /\ x.ncmds = CmdsLeft(s)
      /\ x.ntasks = Len(s) /\ \A i \in 2..Len(s) : Untouched(s[i])
      /\ s # << >> /\ Head(s) \in Task
  BY QueueFields DEF QueueOK, NonEmpty
<1>2. /\ u \in Seq(Task) /\ Len(u) = Len(s) - 1
      /\ \A i \in 1..Len(u) : i+1 \in 2..Len(s) /\ u[i] = s[i+1]
  BY <1>1, HeadTailProperties
<1>3. y = [tasks |-> u, ntasks |-> x.ntasks - 1, ncmds |-> x.ncmds - Remaining(Head(s))]
  BY DEF AtQueueRemove
<1> HIDE DEF s, u, y
<1>4. CmdsLeft(s) = CmdsLeft(u) + Remaining(Head(s))
  BY <1>1, OpenCmdsOfTail DEF u
<1>5. y \in Queue /\ y.ntasks = Len(u) /\ y.ncmds = CmdsLeft(u) /\ y.tasks = u
  BY <1>1, <1>2, <1>3, <1>4, TaskType, OpenCmdsFinite DEF Queue
<1>6. Distinct(u)
  BY <1>1, <1>2 DEF Distinct
<1>7. \A i \in 1..Len(u) : Untouched(u[i])
  BY <1>1, <1>2
<1>8. QueueOK(y)
  BY <1>1, <1>2, <1>5, <1>6, <1>7 DEF QueueOK
<1>9. Queued(y) \subseteq Queued(x)
  <2>1. SUFFICES ASSUME NEW i \in 1..Len(u) PROVE \E j \in 1..Len(s) : u[i].id = s[j].id
    BY <1>5 DEF Queued, s
  <2>2. QED  BY <1>1, <1>2
<1>10. u # << >> => Untouched(Head(u))
  <2>1. HAVE u # << >>
  <2>2. Len(u) \in Nat \ {0} /\ Head(u) = u[1]
    BY <1>2, <2>1, EmptySeq
  <2>3. QED  BY <1>7, <2>2
<1>11. QED  BY <1>5, <1>8, <1>9, <1>10 DEF y, NonEmpty

(* The head moved on to its next command.                                    *)
LEMMA NextKeepsOK ==
  ASSUME NEW x, QueueOK(x), NonEmpty(x),
         Head(x.tasks).idx < Len(Script(Head(x.tasks).kind))
  PROVE  /\ QueueOK(AtQueueNext(x)) /\ NonEmpty(AtQueueNext(x))
         /\ Queued(AtQueueNext(x)) = Queued(x)
         /\ Head(AtQueueNext(x).tasks) =
               [Head(x.tasks) EXCEPT !.idx = @ + 1, !.sent = FALSE]
<1> DEFINE s == x.tasks
           t == Head(s)
           v == [t EXCEPT !.idx = @ + 1, !.sent = FALSE]
           u == << v >> \o Tail(s)
           y == AtQueueNext(x)
<1>1. /\ s \in Seq(Task) /\ Len(s) \in Nat \ {0} /\ Distinct(s) /\ x.ncmds = CmdsLeft(s)
      /\ x.ntasks = Len(s) /\ \A i \in 2..Len(s) : Untouched(s[i])
      /\ s # << >> /\ t \in Task /\ t = s[1] /\ x.ncmds \in Int
  BY QueueFields DEF QueueOK, NonEmpty
<1>2. /\ v \in Task /\ v.id = t.id /\ v.kind = t.kind /\ v.idx = t.idx + 1 /\ v.sent = FALSE
      /\ Remaining(t) = Remaining(v) + 1
  <2>1. t.idx + 1 <= Len(Script(t.kind)) /\ t.idx + 1 \in Nat \ {0}
    BY <1>1, TaskType
  <2>2. t \in [id : TaskIds, kind : Kind, idx : Nat \ {0}, sent : BOOLEAN]
    BY <1>1 DEF Task
  <2>3. /\ v \in [id : TaskIds, kind : Kind, idx : Nat \ {0}, sent : BOOLEAN]
        /\ v.id = t.id /\ v.kind = t.kind /\ v.idx = t.idx + 1 /\ v.sent = FALSE
    BY <2>1, <2>2
  <2>4. v \in Task
    BY <2>1, <2>3 DEF Task
  <2>5. QED  BY <1>1, <2>3, <2>4, TaskType DEF Remaining
<1> HIDE DEF v
<1>3. /\ u \in Seq(Task) /\ Len(u) = Len(s) /\ u[1] = v
      /\ \A i \in 2..Len(s) : u[i] = s[i]
      /\ Tail(u) = Tail(s) /\ Head(u) = v /\ u # << >>
  <2>1. /\ Tail(s) \in Seq(Task) /\ Len(Tail(s)) = Len(s) - 1
        /\ \A i \in 1..Len(Tail(s)) : Tail(s)[i] = s[i+1]
    BY <1>1, HeadTailProperties
  <2>2. << v >> \in Seq(Task) /\ Len(<< v >>) = 1 /\ << v >>[1] = v
    BY <1>2
  <2>3. /\ u \in Seq(Task) /\ Len(u) = Len(s)
        /\ \A i \in 1..Len(s) : u[i] = IF i <= 1 THEN v ELSE Tail(s)[i - 1]
    BY <1>1, <2>1, <2>2, ConcatProperties
  <2>4. \A i \in 2..Len(s) : u[i] = s[i]
    <3>1. SUFFICES ASSUME NEW i \in 2..Len(s) PROVE u[i] = s[i]
      OBVIOUS
    <3>2. i - 1 \in 1..Len(Tail(s)) /\ (i - 1) + 1 = i /\ i \in 1..Len(s) /\ ~(i <= 1)
      BY <1>1, <2>1
    <3>3. u[i] = Tail(s)[i - 1] /\ Tail(s)[i - 1] = s[(i - 1) + 1]
      BY <2>1, <2>3, <3>2
    <3>4. QED  BY <3>2, <3>3
  <2>5. u # << >> /\ u[1] = v /\ Head(u) = v
    BY <1>1, <2>3, EmptySeq
  <2>6. Tail(u) = Tail(s)
    <3>1. /\ Tail(u) \in Seq(Task) /\ Len(Tail(u)) = Len(u) - 1
          /\ \A i \in 1..Len(Tail(u)) : Tail(u)[i] = u[i+1]
      BY <2>3, <2>5, HeadTailProperties
    <3>2. \A i \in 1..Len(Tail(u)) : Tail(u)[i] = Tail(s)[i]
      <4>1. SUFFICES ASSUME NEW i \in 1..Len(Tail(u)) PROVE Tail(u)[i] = Tail(s)[i]
        OBVIOUS
      <4>2. i + 1 \in 2..Len(s) /\ i \in 1..Len(Tail(s))
        BY <1>1, <2>1, <2>3, <3>1
      <4>3. QED  BY <2>1, <2>4, <3>1, <4>2
    <3>3. QED  BY <2>1, <2>3, <3>1, <3>2, SeqEqual
  <2>7. QED  BY <2>3, <2>4, <2>5, <2>6
<1>4. y = [tasks |-> u, ntasks |-> x.ntasks, ncmds |-> x.ncmds - 1]
  BY DEF AtQueueNext, v
<1> HIDE DEF u, y
<1>5. Distinct(u)
  BY <1>1, <1>2, <1>3 DEF Distinct
<1>6. CmdsLeft(u) = CmdsLeft(s) - 1
  <2>1. CmdsLeft(s) = CmdsLeft(Tail(s)) + Remaining(t)
    BY <1>1, OpenCmdsOfTail
  <2>2. CmdsLeft(u) = CmdsLeft(Tail(s)) + Remaining(v)
    BY <1>3, <1>5, OpenCmdsOfTail
  <2>3. CmdsLeft(Tail(s)) \in Nat /\ Remaining(v) \in Nat
    BY <1>1, <1>2, HeadTailProperties, OpenCmdsFinite, TaskType
  <2>4. QED  BY <1>2, <2>1, <2>2, <2>3
<1>7. y \in Queue /\ y.ntasks = Len(u) /\ y.ncmds = CmdsLeft(u) /\ y.tasks = u
  BY <1>1, <1>3, <1>4, <1>6 DEF Queue
<1>8. QueueOK(y)
  BY <1>1, <1>3, <1>5, <1>7 DEF QueueOK
<1>9. Queued(y) = Queued(x)
  <2>1. \A i \in 1..Len(s) : u[i].id = s[i].id
    BY <1>1, <1>2, <1>3
  <2>2. QED  BY <1>3, <1>7, <2>1 DEF Queued, s
<1>10. QED  BY <1>3, <1>7, <1>8, <1>9 DEF y, v, NonEmpty

(* Past its last command, a task leaves with nothing left to count.          *)
LEMMA RemoveOfNext ==
  ASSUME NEW x, QueueOK(x), NonEmpty(x)
  PROVE  AtQueueRemove(AtQueueNext(x)) = AtQueueRemove(x)
<1> DEFINE s == x.tasks
           t == Head(s)
           v == [t EXCEPT !.idx = @ + 1, !.sent = FALSE]
<1>1. s \in Seq(Task) /\ s # << >> /\ t \in Task /\ x.ncmds \in Int /\ x.ntasks \in Nat
  BY QueueFields DEF NonEmpty
<1>2. v.kind = t.kind /\ v.idx = t.idx + 1
  <2>1. t \in [id : TaskIds, kind : Kind, idx : Nat \ {0}, sent : BOOLEAN]
    BY <1>1 DEF Task
  <2>2. QED  BY <2>1
<1> HIDE DEF v
<1>3. Remaining(v) = Remaining(t) - 1 /\ Remaining(t) \in Nat
  BY <1>1, <1>2, TaskType DEF Remaining
<1> DEFINE u == << v >> \o Tail(s)
<1>4. Head(u) = v /\ Tail(u) = Tail(s)
  <2>1. Tail(s) \in Seq(Task) /\ Len(Tail(s)) \in Nat
    BY <1>1, HeadTailProperties, LenProperties
  <2> DEFINE S == Task \cup {v}
  <2>2. Tail(s) \in Seq(S)
    BY <2>1, SeqMonotonic
  <2>3. << v >> \in Seq(S) /\ Len(<< v >>) = 1 /\ << v >>[1] = v
    OBVIOUS
  <2>4. /\ u \in Seq(S) /\ Len(u) = 1 + Len(Tail(s))
        /\ \A i \in 1..1 + Len(Tail(s)) : u[i] = IF i <= 1 THEN << v >>[i] ELSE Tail(s)[i - 1]
    BY <2>2, <2>3, ConcatProperties
  <2>5. u # << >> /\ Head(u) = v
    BY <2>1, <2>3, <2>4, EmptySeq
  <2>6. /\ Tail(u) \in Seq(S) /\ Len(Tail(u)) = Len(u) - 1
        /\ \A i \in 1..Len(Tail(u)) : Tail(u)[i] = u[i+1]
    BY <2>4, <2>5, HeadTailProperties
  <2>7. \A i \in 1..Len(Tail(u)) : Tail(u)[i] = Tail(s)[i]
    <3>1. SUFFICES ASSUME NEW i \in 1..Len(Tail(s)) PROVE Tail(u)[i] = Tail(s)[i]
      BY <2>1, <2>4, <2>6
    <3>2. i+1 \in 1..1 + Len(Tail(s)) /\ i \in 1..Len(Tail(u)) /\ (i+1) - 1 = i /\ ~(i+1 <= 1)
      BY <2>1, <2>4, <2>6
    <3>3. u[i+1] = Tail(s)[(i+1) - 1]
      BY <2>4, <3>2
    <3>4. QED  BY <2>6, <3>2, <3>3
  <2>8. Len(Tail(u)) = Len(Tail(s))
    BY <2>1, <2>4, <2>6
  <2>9. QED  BY <2>2, <2>5, <2>6, <2>7, <2>8, SeqEqual
<1>5. AtQueueNext(x) = [tasks |-> u, ntasks |-> x.ntasks, ncmds |-> x.ncmds - 1]
  BY DEF AtQueueNext, v
<1> HIDE DEF u
<1>6. AtQueueRemove(AtQueueNext(x)) =
        [tasks |-> Tail(s), ntasks |-> x.ntasks - 1, ncmds |-> (x.ncmds - 1) - Remaining(v)]
  <2>1. /\ AtQueueNext(x).tasks = u /\ AtQueueNext(x).ntasks = x.ntasks
        /\ AtQueueNext(x).ncmds = x.ncmds - 1
    BY <1>5
  <2>2. QED  BY <1>4, <2>1, Zenon DEF AtQueueRemove
<1>7. (x.ncmds - 1) - Remaining(v) = x.ncmds - Remaining(t)
  BY <1>1, <1>3
<1>8. QED  BY <1>6, <1>7, Zenon DEF AtQueueRemove

(* The head command done, the new head, if any, is not written yet.          *)
LEMMA RemoveCmdKeepsOK ==
  ASSUME NEW x, QueueOK(x), NEW res
  PROVE  /\ QueueOK(AtQueueRemoveCmd(x, res))
         /\ Queued(AtQueueRemoveCmd(x, res)) \subseteq Queued(x)
         /\ NonEmpty(x) => ~HeadSent(AtQueueRemoveCmd(x, res))
<1> DEFINE t == Head(x.tasks)
           over == \/ t.idx >= Len(Script(t.kind))
                   \/ Expect(CmdOf(t)) # res /\ CmdOf(t) \notin Ignore
<1>1. CASE ~NonEmpty(x)
  BY <1>1 DEF AtQueueRemoveCmd
<1>2. CASE NonEmpty(x) /\ over
  <2>1. AtQueueRemoveCmd(x, res) = AtQueueRemove(x)
    BY <1>2, RemoveOfNext, Zenon DEF AtQueueRemoveCmd
  <2>2. QED  BY <1>2, <2>1, RemoveKeepsOK DEF HeadSent, Untouched
<1>3. CASE NonEmpty(x) /\ ~over
  <2>1. AtQueueRemoveCmd(x, res) = AtQueueNext(x)
    BY <1>3, Zenon DEF AtQueueRemoveCmd
  <2>2. t \in Task /\ ~(t.idx >= Len(Script(t.kind)))
    BY <1>3, QueueFields
  <2>3. t.idx < Len(Script(t.kind))
    BY <2>2, TaskType
  <2>4. QueueOK(AtQueueNext(x)) /\ Queued(AtQueueNext(x)) = Queued(x)
    BY <1>3, <2>3, NextKeepsOK
  <2>5. ~Head(AtQueueNext(x).tasks).sent
    <3>1. t \in [id : TaskIds, kind : Kind, idx : Nat \ {0}, sent : BOOLEAN]
      BY <2>2 DEF Task
    <3>2. Head(AtQueueNext(x).tasks) = [t EXCEPT !.idx = @ + 1, !.sent = FALSE]
      BY <1>3, <2>3, NextKeepsOK
    <3>3. QED  BY <3>1, <3>2
  <2>6. QED  BY <2>1, <2>4, <2>5 DEF HeadSent
<1>4. QED  BY <1>1, <1>2, <1>3

(* The head command marked as written.                                       *)
LEMMA SentKeepsOK ==
  ASSUME NEW x, QueueOK(x), NonEmpty(x)
  PROVE  LET y == [x EXCEPT !.tasks[1].sent = TRUE]
         IN  /\ QueueOK(y) /\ Queued(y) = Queued(x) /\ HeadSent(y)
             /\ Head(y.tasks).id = Head(x.tasks).id /\ Head(y.tasks).idx = Head(x.tasks).idx
             /\ Head(y.tasks).kind = Head(x.tasks).kind
<1> DEFINE s == x.tasks
           t == Head(s)
           v == [t EXCEPT !.sent = TRUE]
           u == [s EXCEPT ![1] = v]
           y == [x EXCEPT !.tasks[1].sent = TRUE]
<1>1. /\ s \in Seq(Task) /\ Len(s) \in Nat \ {0} /\ Distinct(s) /\ x.ncmds = CmdsLeft(s)
      /\ x.ntasks = Len(s) /\ \A i \in 2..Len(s) : Untouched(s[i])
      /\ s # << >> /\ t \in Task /\ t = s[1] /\ x.ncmds \in Int /\ x.ntasks \in Nat
      /\ x = [tasks |-> s, ntasks |-> x.ntasks, ncmds |-> x.ncmds]
  BY QueueFields DEF QueueOK, NonEmpty
<1>2. /\ v \in Task /\ v.id = t.id /\ v.kind = t.kind /\ v.idx = t.idx /\ v.sent
      /\ CmdsOf(v) = CmdsOf(t)
  <2>1. t \in [id : TaskIds, kind : Kind, idx : Nat \ {0}, sent : BOOLEAN]
    BY <1>1 DEF Task
  <2>2. /\ v \in [id : TaskIds, kind : Kind, idx : Nat \ {0}, sent : BOOLEAN]
        /\ v.id = t.id /\ v.kind = t.kind /\ v.idx = t.idx /\ v.sent
    BY <2>1
  <2>3. v \in Task
    BY <1>1, <2>2 DEF Task
  <2>4. QED  BY <2>2, <2>3 DEF CmdsOf
<1>3. y = [tasks |-> u, ntasks |-> x.ntasks, ncmds |-> x.ncmds]
  <2>1. y = [x EXCEPT !.tasks = u]
    BY <1>1
  <2>2. x \in [tasks : Seq(Task), ntasks : Nat, ncmds : Int]
    BY DEF QueueOK, Queue
  <2> HIDE DEF s, u, y
  <2>3. QED  BY <2>1, <2>2
<1> HIDE DEF v
<1>4. /\ u \in Seq(Task) /\ Len(u) = Len(s)
      /\ \A i \in 1..Len(s) : u[i] = IF i = 1 THEN v ELSE s[i]
      /\ u # << >> /\ Head(u) = v
  <2>1. /\ u \in Seq(Task) /\ Len(u) = Len(s)
        /\ \A i \in 1..Len(s) : u[i] = IF i = 1 THEN v ELSE s[i]
    BY <1>1, <1>2, ExceptSeq
  <2>2. QED  BY <1>1, <2>1, EmptySeq
<1> HIDE DEF u, y
<1>5. \A i \in 1..Len(s) : u[i].id = s[i].id /\ CmdsOf(u[i]) = CmdsOf(s[i])
  BY <1>1, <1>2, <1>4
<1>6. Distinct(u)
  BY <1>1, <1>4, <1>5 DEF Distinct
<1>7. CmdsLeft(u) = CmdsLeft(s)
  <2>1. \A c : c \in OpenCmds(u) <=> c \in OpenCmds(s)
    BY <1>4, <1>5 DEF OpenCmds
  <2>2. QED  BY <2>1 DEF CmdsLeft
<1>8. y \in Queue /\ y.ntasks = Len(u) /\ y.ncmds = CmdsLeft(u) /\ y.tasks = u
  BY <1>1, <1>3, <1>4, <1>7 DEF Queue
<1>9. \A i \in 2..Len(u) : Untouched(u[i])
  BY <1>1, <1>4
<1>10. QueueOK(y)
  BY <1>6, <1>8, <1>9 DEF QueueOK
<1>11. Queued(y) = Queued(x)
  BY <1>4, <1>5, <1>8 DEF Queued, s
<1>12. QED  BY <1>2, <1>4, <1>8, <1>10, <1>11 DEF y, HeadSent, NonEmpty

LEMMA RunKeepsOK ==
  ASSUME NEW x, QueueOK(x), NEW ok \in BOOLEAN
  PROVE  QueueOK(AtQueueRun(x, ok)) /\ Queued(AtQueueRun(x, ok)) \subseteq Queued(x)
<1>1. CASE ~MustWrite(x)
  BY <1>1 DEF AtQueueRun
<1>2. CASE MustWrite(x) /\ ok
  <2>1. AtQueueRun(x, ok) = [x EXCEPT !.tasks[1].sent = TRUE] /\ NonEmpty(x)
    BY <1>2 DEF AtQueueRun, MustWrite
  <2>2. QED  BY <2>1, SentKeepsOK
<1>3. CASE MustWrite(x) /\ ~ok
  <2>1. AtQueueRun(x, ok) = AtQueueRemoveCmd(x, "unwritten")
    BY <1>3 DEF AtQueueRun
  <2>2. QED  BY <2>1, RemoveCmdKeepsOK
<1>4. QED  BY <1>1, <1>2, <1>3

(* A flush leaves the queue as pvt_create made it: nothing queued, nothing   *)
(* counted.                                                                  *)
LEMMA FlushEmpties ==
  ASSUME NEW x, QueueOK(x)
  PROVE  AtQueueFlush(x) = EmptyQueue
<1>1. x.ntasks = Len(x.tasks) /\ x.ntasks \in Nat /\ x.ncmds = CmdsLeft(x.tasks) /\ x.ncmds \in Int
  BY QueueFields DEF QueueOK
<1>2. QED  BY <1>1 DEF AtQueueFlush, EmptyQueue

-----------------------------------------------------------------------------
(* Which task sends an SMS: its prompt and its text are the two commands of   *)
(* one script, and of no other.                                              *)
LEMMA InitHasNoSms == \A c \in InitCmd : c # "CMGS" /\ c # "SMSTEXT"
<1>1. Len(FullInit) = 23
  BY DEF FullInit
<1>2. SUFFICES ASSUME NEW i \in 1..23
               PROVE  FullInit[i] # "CMGS" /\ FullInit[i] # "SMSTEXT"
  BY <1>1 DEF InitCmd
<1>3. QED  BY DEF FullInit

LEMMA SmsScript ==
  ASSUME NEW k \in Kind, NEW i \in 1..Len(Script(k))
  PROVE  /\ Script(k)[i] = "CMGS"    <=> k = "sms" /\ i = 1
         /\ Script(k)[i] = "SMSTEXT" <=> k = "sms" /\ i = 2
<1>1. CASE k \in {"init", "noVoice"}
  <2>1. Script(k) \in Seq(InitCmd)
    BY <1>1, ScriptAssumption DEF Script, Scripts
  <2>2. Script(k)[i] \in InitCmd
    BY <2>1, ElementOfSeq
  <2>3. QED  BY <1>1, <2>2, InitHasNoSms
<1>2. CASE k = "sms"
  <2>1. Script(k) = << "CMGS", "SMSTEXT" >>
    BY <1>2 DEF Script, Scripts
  <2>2. QED  BY <1>2, <2>1
<1>3. CASE k \in Kind \ {"init", "noVoice", "sms"}
  <2>1. CASE k \in {"ping", "cops", "ussd", "dtmf", "reset", "answerWaiting", "clcc", "read", "user"}
    BY <2>1 DEF Script, Scripts
  <2>2. CASE k \in {"ccwa", "answer", "activate", "flip", "hangup", "hangup1",
                    "volsync", "conference", "retrieve"}
    BY <2>2 DEF Script, Scripts
  <2>3. CASE k = "dial"
    <3>1. Script(k) = << "CLIR", "D", "CLCC", "DDSETEX" >>
      BY <2>3 DEF Script, Scripts
    <3>2. QED  BY <2>3, <3>1
  <2>4. CASE k = "dialPlain"
    <3>1. Script(k) = << "D", "CLCC", "DDSETEX" >>
      BY <2>4 DEF Script, Scripts
    <3>2. QED  BY <2>4, <3>1
  <2>5. CASE k = "dialHeld"
    <3>1. Script(k) = << "CHLD_2", "CLIR", "D", "CLCC", "DDSETEX" >>
      BY <2>5 DEF Script, Scripts
    <3>2. QED  BY <2>5, <3>1
  <2>6. CASE k = "dialPlainHeld"
    <3>1. Script(k) = << "CHLD_2", "D", "CLCC", "DDSETEX" >>
      BY <2>6 DEF Script, Scripts
    <3>2. QED  BY <2>6, <3>1
  <2>7. QED  BY <1>3, <2>1, <2>2, <2>3, <2>4, <2>5, <2>6 DEF Kind
<1>4. QED  BY <1>1, <1>2, <1>3

LEMMA SmsTask ==
  ASSUME NEW t \in Task
  PROVE  /\ CmdOf(t) = "CMGS"    <=> t.kind = "sms" /\ t.idx = 1
         /\ CmdOf(t) = "SMSTEXT" <=> t.kind = "sms" /\ t.idx = 2
<1>1. t.kind \in Kind /\ t.idx \in 1..Len(Script(t.kind))
  BY TaskType
<1>2. QED  BY <1>1, SmsScript DEF CmdOf

-----------------------------------------------------------------------------
(* Two queues with the same begun or waiting task in front.                  *)
SameHead(x, y) ==
  /\ NonEmpty(x) /\ NonEmpty(y)
  /\ Head(y.tasks).id = Head(x.tasks).id /\ Head(y.tasks).kind = Head(x.tasks).kind
  /\ Head(y.tasks).idx = Head(x.tasks).idx

(* The head of x is at a later command in y, not yet written.                *)
HeadAdvanced(x, y) ==
  /\ NonEmpty(x) /\ NonEmpty(y)
  /\ Head(y.tasks).id = Head(x.tasks).id /\ Head(y.tasks).kind = Head(x.tasks).kind
  /\ Head(y.tasks).idx = Head(x.tasks).idx + 1

(* The head of x is over, and a task that has not begun is next, if any is.  *)
HeadOver(x, y) ==
  /\ NonEmpty(x) /\ Head(x.tasks).id \notin Queued(y)
  /\ NonEmpty(y) => Head(y.tasks).idx = 1

LEMMA HeadQueued ==
  ASSUME NEW x, QueueOK(x), NonEmpty(x)
  PROVE  Head(x.tasks).id \in Queued(x)
  BY QueueFields DEF Queued


(* What a result does to the head: it goes on, if this was what it expected  *)
(* or may be ignored, or it is over.                                         *)
LEMMA RemoveCmdHead ==
  ASSUME NEW x, QueueOK(x), NonEmpty(x), NEW res
  PROVE  LET y == AtQueueRemoveCmd(x, res)
         IN  /\ ~HeadSent(y)
             /\ \/ /\ HeadAdvanced(x, y) /\ Head(x.tasks).id \in Queued(y)
                   /\ Expect(HeadCmd(x)) = res \/ HeadCmd(x) \in Ignore
                \/ HeadOver(x, y)
<1> DEFINE t == Head(x.tasks)
           y == AtQueueRemoveCmd(x, res)
           over == \/ t.idx >= Len(Script(t.kind))
                   \/ Expect(CmdOf(t)) # res /\ CmdOf(t) \notin Ignore
<1>1. ~HeadSent(y) /\ QueueOK(y)
  BY RemoveCmdKeepsOK
<1>2. CASE over
  <2>1. y = AtQueueRemove(x)
    BY <1>2, RemoveOfNext, Zenon DEF AtQueueRemoveCmd
  <2>2. NonEmpty(y) => Head(y.tasks).idx = 1
    BY <2>1, RemoveKeepsOK DEF Untouched
  <2>3. t.id \notin Queued(y)
    <3>1. /\ x.tasks \in Seq(Task) /\ x.tasks # << >> /\ t = x.tasks[1] /\ Distinct(x.tasks)
          /\ Len(x.tasks) \in Nat \ {0}
      BY QueueFields DEF QueueOK, NonEmpty
    <3>2. /\ Len(Tail(x.tasks)) = Len(x.tasks) - 1
          /\ \A i \in 1..Len(Tail(x.tasks)) : Tail(x.tasks)[i] = x.tasks[i+1]
      BY <3>1, HeadTailProperties
    <3>3. y.tasks = Tail(x.tasks)
      BY <2>1 DEF AtQueueRemove
    <3>4. SUFFICES ASSUME NEW i \in 1..Len(Tail(x.tasks)) PROVE Tail(x.tasks)[i].id # t.id
      BY <3>3 DEF Queued
    <3>5. i+1 \in 1..Len(x.tasks) /\ 1 \in 1..Len(x.tasks) /\ i+1 # 1
      BY <3>1, <3>2
    <3>6. QED  BY <3>1, <3>2, <3>5 DEF Distinct
  <2>4. QED  BY <1>1, <2>2, <2>3 DEF HeadOver
<1>3. CASE ~over
  <2>1. y = AtQueueNext(x)
    BY <1>3, Zenon DEF AtQueueRemoveCmd
  <2>2. t \in Task /\ ~(t.idx >= Len(Script(t.kind)))
    BY <1>3, QueueFields
  <2>3. t.idx < Len(Script(t.kind))
    BY <2>2, TaskType
  <2>4. /\ NonEmpty(y) /\ Queued(y) = Queued(x)
        /\ Head(y.tasks) = [t EXCEPT !.idx = @ + 1, !.sent = FALSE]
    BY <2>1, <2>3, NextKeepsOK
  <2>5. t \in [id : TaskIds, kind : Kind, idx : Nat \ {0}, sent : BOOLEAN]
    BY <2>2 DEF Task
  <2>6. HeadAdvanced(x, y)
    BY <2>4, <2>5 DEF HeadAdvanced
  <2>7. Expect(HeadCmd(x)) = res \/ HeadCmd(x) \in Ignore
    BY <1>3 DEF HeadCmd
  <2>8. QED  BY <1>1, <2>4, <2>6, <2>7, HeadQueued
<1>4. QED  BY <1>2, <1>3

(* A text is current only after its prompt: no other result brings it up.    *)
LEMMA NoTextUnasked ==
  ASSUME NEW x, QueueOK(x), NonEmpty(x), NEW res, HeadCmd(x) = "CMGS" => res # "PROMPT",
         NonEmpty(AtQueueRemoveCmd(x, res))
  PROVE  HeadCmd(AtQueueRemoveCmd(x, res)) # "SMSTEXT"
<1> DEFINE y == AtQueueRemoveCmd(x, res)
<1>1. QueueOK(y) /\ Head(y.tasks) \in Task /\ Head(x.tasks) \in Task
  BY RemoveCmdKeepsOK, QueueFields
<1>2. CASE HeadOver(x, y)
  BY <1>1, <1>2, SmsTask DEF HeadOver, HeadCmd
<1>3. CASE HeadAdvanced(x, y) /\ (Expect(HeadCmd(x)) = res \/ HeadCmd(x) \in Ignore)
  <2>1. HeadCmd(x) # "CMGS"
    BY <1>3 DEF Expect, Ignore
  <2>2. ~(Head(x.tasks).kind = "sms" /\ Head(x.tasks).idx = 1)
    BY <1>1, <2>1, SmsTask DEF HeadCmd
  <2>3. ~(Head(y.tasks).kind = "sms" /\ Head(y.tasks).idx = 2)
    BY <1>1, <1>3, <2>2, TaskType DEF HeadAdvanced
  <2>4. QED  BY <1>1, <2>3, SmsTask DEF HeadCmd
<1>4. QED  BY <1>2, <1>3, RemoveCmdHead

(* After its prompt the text is the head command, not yet written.           *)
LEMMA TextAfterPrompt ==
  ASSUME NEW x, QueueOK(x), NonEmpty(x), HeadCmd(x) = "CMGS"
  PROVE  LET y == AtQueueRemoveCmd(x, "PROMPT")
         IN  MustWrite(y) /\ HeadCmd(y) = "SMSTEXT" /\ HeadAdvanced(x, y)
<1> DEFINE t == Head(x.tasks)
           y == AtQueueRemoveCmd(x, "PROMPT")
<1>1. t \in Task /\ t.kind = "sms" /\ t.idx = 1
  BY QueueFields, SmsTask DEF HeadCmd
<1>2. Len(Script(t.kind)) = 2
  BY <1>1 DEF Script, Scripts
<1>3. t.idx < Len(Script(t.kind)) /\ t.idx \in Nat /\ Len(Script(t.kind)) \in Nat
  <2>1. 1 < 2 /\ 1 \in Nat /\ 2 \in Nat
    OBVIOUS
  <2>2. QED  BY <1>1, <1>2, <2>1, Zenon
<1>4. y = AtQueueNext(x)
  <2>1. Expect(CmdOf(t)) = "PROMPT"
    BY DEF HeadCmd, Expect
  <2>2. ~(t.idx >= Len(Script(t.kind)))
    BY <1>3
  <2>3. QED  BY <2>1, <2>2, Zenon DEF AtQueueRemoveCmd
<1>5. /\ QueueOK(y) /\ NonEmpty(y)
      /\ Head(y.tasks) = [t EXCEPT !.idx = @ + 1, !.sent = FALSE]
  BY <1>3, <1>4, NextKeepsOK
<1>6. t \in [id : TaskIds, kind : Kind, idx : Nat \ {0}, sent : BOOLEAN]
  BY <1>1 DEF Task
<1>7. /\ Head(y.tasks).kind = "sms" /\ Head(y.tasks).idx = 2 /\ Head(y.tasks).id = t.id
      /\ ~Head(y.tasks).sent
  <2>1. 1 + 1 = 2
    OBVIOUS
  <2> HIDE DEF t, y
  <2>2. /\ Head(y.tasks).kind = t.kind /\ Head(y.tasks).idx = t.idx + 1
        /\ Head(y.tasks).id = t.id /\ ~Head(y.tasks).sent
    BY <1>5, <1>6
  <2>3. QED  BY <1>1, <2>1, <2>2, Zenon
<1>8. HeadCmd(y) = "SMSTEXT"
  BY <1>5, <1>7, QueueFields, SmsTask DEF HeadCmd
<1>9. QED  BY <1>1, <1>5, <1>7, <1>8 DEF MustWrite, HeadAdvanced

(* A task added keeps the head, or is the head, not begun.                   *)
LEMMA AddHead ==
  ASSUME NEW x, QueueOK(x), NEW id \in TaskIds, id \notin Queued(x), NEW k \in Kind
  PROVE  LET y == AtQueueAdd(x, id, k)
         IN  /\ NonEmpty(x)  => Head(y.tasks) = Head(x.tasks)
             /\ ~NonEmpty(x) => Head(y.tasks) = NewTask(id, k)
<1>1. NonEmpty(x) => Head(AtQueueAdd(x, id, k).tasks) = Head(x.tasks)
  BY AddKeepsOK
<1>2. CASE ~NonEmpty(x)
  <2>1. AtQueueAdd(x, id, k).tasks = Append(<< >>, NewTask(id, k))
    BY <1>2 DEF AtQueueAdd, NonEmpty
  <2>2. Append(<< >>, NewTask(id, k)) = << NewTask(id, k) >>
    OBVIOUS
  <2>3. QED  BY <1>2, <2>1, <2>2
<1>3. QED  BY <1>1, <1>2

(* A run of the queue: a written head stays, another one is written, or goes *)
(* as a failed one does.                                                     *)
LEMMA RunHead ==
  ASSUME NEW x, QueueOK(x), NEW ok \in BOOLEAN
  PROVE  LET y == AtQueueRun(x, ok)
         IN  /\ ~MustWrite(x) => y = x
             /\ MustWrite(x) /\ ok =>
                  SameHead(x, y) /\ HeadSent(y) /\ Queued(y) = Queued(x)
             /\ MustWrite(x) /\ ~ok =>
                  y = AtQueueRemoveCmd(x, "unwritten")
<1>1. MustWrite(x) => NonEmpty(x)
  BY DEF MustWrite
<1>2. CASE MustWrite(x) /\ ok
  <2>1. AtQueueRun(x, ok) = [x EXCEPT !.tasks[1].sent = TRUE]
    BY <1>2 DEF AtQueueRun
  <2>2. QED  BY <1>1, <1>2, <2>1, SentKeepsOK DEF SameHead, HeadSent
<1>3. CASE ~(MustWrite(x) /\ ok)
  BY <1>3 DEF AtQueueRun
<1>4. QED  BY <1>2, <1>3


(* A queue without SMS tasks stays without while none is added.              *)
NoSms(x) == x.tasks \in Seq({ t \in Task : t.kind # "sms" })

LEMMA NoSmsHead ==
  ASSUME NEW x, NoSms(x), NonEmpty(x)
  PROVE  HeadCmd(x) # "CMGS" /\ HeadCmd(x) # "SMSTEXT"
<1>1. Head(x.tasks) \in { t \in Task : t.kind # "sms" }
  BY HeadTailProperties DEF NoSms, NonEmpty
<1>2. QED  BY <1>1, SmsTask DEF HeadCmd

LEMMA AddNoSms ==
  ASSUME NEW x, NoSms(x), NEW id \in TaskIds, NEW k \in Kind, k # "sms"
  PROVE  NoSms(AtQueueAdd(x, id, k))
<1> DEFINE S == { t \in Task : t.kind # "sms" }
           n == NewTask(id, k)
<1>1. n \in S
  BY NewTaskType
<1> HIDE DEF n
<1>2. x.tasks \in Seq(S)
  BY DEF NoSms
<1> HIDE DEF S
<1>3. CASE k \in Prio /\ NonEmpty(x)
  <2>1. Head(x.tasks) \in S /\ Tail(x.tasks) \in Seq(S)
    BY <1>2, <1>3, HeadTailProperties DEF NonEmpty
  <2>2. << Head(x.tasks), n >> \in Seq(S)
    BY <1>1, <2>1
  <2>3. << Head(x.tasks), n >> \o Tail(x.tasks) \in Seq(S)
    BY <2>1, <2>2, ConcatProperties
  <2>4. QED  BY <1>3, <2>3 DEF AtQueueAdd, NoSms, S, n
<1>4. CASE ~(k \in Prio /\ NonEmpty(x))
  <2>1. Append(x.tasks, n) \in Seq(S)
    BY <1>1, <1>2, AppendProperties
  <2>2. QED  BY <1>4, <2>1 DEF AtQueueAdd, NoSms, S, n
<1>5. QED  BY <1>3, <1>4

LEMMA RunNoSms ==
  ASSUME NEW x, QueueOK(x), NoSms(x), NEW ok \in BOOLEAN
  PROVE  NoSms(AtQueueRun(x, ok))
<1> DEFINE S == { t \in Task : t.kind # "sms" }
           t == Head(x.tasks)
           y == AtQueueRun(x, ok)
<1>1. x.tasks \in Seq(S)
  BY DEF NoSms
<1>2. CASE ~MustWrite(x)
  BY <1>2 DEF AtQueueRun
<1>3. CASE MustWrite(x) /\ ok
  <2> DEFINE v == [t EXCEPT !.sent = TRUE]
  <2>1. /\ x.tasks # << >> /\ t = x.tasks[1] /\ t \in S /\ 1 \in 1..Len(x.tasks)
        /\ x = [tasks |-> x.tasks, ntasks |-> x.ntasks, ncmds |-> x.ncmds]
    BY <1>1, <1>3, QueueFields, HeadTailProperties DEF MustWrite, NonEmpty
  <2>2. v \in S
    <3>1. t \in [id : TaskIds, kind : Kind, idx : Nat \ {0}, sent : BOOLEAN] /\ t \in Task
      BY <2>1 DEF Task
    <3>2. v \in [id : TaskIds, kind : Kind, idx : Nat \ {0}, sent : BOOLEAN]
          /\ v.kind = t.kind /\ v.idx = t.idx
      BY <3>1
    <3>3. v \in Task
      BY <3>1, <3>2 DEF Task
    <3>4. QED  BY <2>1, <3>2, <3>3
  <2>3. y.tasks = [x.tasks EXCEPT ![1] = v]
    <3>1. y = [x EXCEPT !.tasks[1].sent = TRUE]
      BY <1>3 DEF AtQueueRun
    <3>2. [x EXCEPT !.tasks[1].sent = TRUE] = [x EXCEPT !.tasks = [x.tasks EXCEPT ![1] = v]]
      BY <2>1
    <3>3. x \in [tasks : Seq(Task), ntasks : Nat, ncmds : Int]
      BY DEF QueueOK, Queue
    <3> HIDE DEF v, y
    <3>4. QED  BY <3>1, <3>2, <3>3
  <2> HIDE DEF v, y, S, t
  <2>4. [x.tasks EXCEPT ![1] = v] \in Seq(S)
    BY <1>1, <2>1, <2>2, ExceptSeq
  <2>5. QED  BY <2>3, <2>4 DEF NoSms, y, S
<1>4. CASE MustWrite(x) /\ ~ok
  <2>1. NonEmpty(x) /\ y = AtQueueRemoveCmd(x, "unwritten")
    BY <1>4 DEF AtQueueRun, MustWrite
  <2>2. t \in S /\ Tail(x.tasks) \in Seq(S)
    BY <1>1, <2>1, HeadTailProperties DEF NonEmpty
  <2> DEFINE over == \/ t.idx >= Len(Script(t.kind))
                     \/ Expect(CmdOf(t)) # "unwritten" /\ CmdOf(t) \notin Ignore
  <2>3. CASE over
    <3>1. y = AtQueueRemove(x)
      BY <2>1, <2>3, RemoveOfNext, Zenon DEF AtQueueRemoveCmd
    <3>2. QED  BY <2>2, <3>1 DEF AtQueueRemove, NoSms
  <2>4. CASE ~over
    <3> DEFINE v == [t EXCEPT !.idx = @ + 1, !.sent = FALSE]
    <3>1. y = AtQueueNext(x)
      BY <2>1, <2>4, Zenon DEF AtQueueRemoveCmd
    <3>2. t \in Task /\ t.kind # "sms" /\ ~(t.idx >= Len(Script(t.kind)))
      BY <2>2, <2>4
    <3>3. t.idx < Len(Script(t.kind))
      BY <3>2, TaskType
    <3>4. QueueOK(y) /\ NonEmpty(y) /\ Head(y.tasks) = v
      BY <2>1, <3>1, <3>3, NextKeepsOK
    <3>5. t \in [id : TaskIds, kind : Kind, idx : Nat \ {0}, sent : BOOLEAN]
      BY <3>2 DEF Task
    <3>6. v \in S
      <4>1. v.kind = t.kind
        BY <3>5
      <4>2. v \in Task
        BY <3>4, QueueFields
      <4>3. QED  BY <3>2, <4>1, <4>2
    <3>7. y.tasks = << v >> \o Tail(x.tasks)
      BY <3>1 DEF AtQueueNext
    <3> HIDE DEF v, y, S
    <3>8. << v >> \in Seq(S)
      BY <3>6
    <3>9. << v >> \o Tail(x.tasks) \in Seq(S)
      BY <2>2, <3>8, ConcatProperties
    <3>10. QED  BY <3>7, <3>9 DEF NoSms, y, S
  <2>5. QED  BY <2>3, <2>4
<1>5. QED  BY <1>2, <1>3, <1>4

-----------------------------------------------------------------------------
(* The queue as a set: of each task who it is, what it does and how far it    *)
(* has come.  Where a property does not depend on the order of the tasks       *)
(* behind the head, the operations are what they do to this set.               *)
Job(t)     == [id |-> t.id, kind |-> t.kind, idx |-> t.idx]
JobsIn(s)  == { Job(s[i]) : i \in 1..Len(s) }
Jobs(x)    == JobsIn(x.tasks)
HeadJob(x) == Job(Head(x.tasks))

LEMMA JobsInEmpty == JobsIn(<< >>) = {}
  BY EmptySeq DEF JobsIn

LEMMA JobsInAppend ==
  ASSUME NEW s \in Seq(Task), NEW t \in Task
  PROVE  JobsIn(Append(s, t)) = JobsIn(s) \cup {Job(t)}
<1> DEFINE u == Append(s, t)
<1>1. /\ Len(s) \in Nat /\ Len(u) = Len(s) + 1
      /\ (\A i \in 1..Len(s) : u[i] = s[i]) /\ u[Len(s) + 1] = t
  BY AppendProperties
<1> HIDE DEF u
<1>2. 1..Len(u) = (1..Len(s)) \cup {Len(s) + 1}
  BY <1>1
<1>3. QED  BY <1>1, <1>2 DEF JobsIn, u

LEMMA JobsInConcat ==
  ASSUME NEW s \in Seq(Task), NEW u \in Seq(Task)
  PROVE  JobsIn(s \o u) = JobsIn(s) \cup JobsIn(u)
<1> DEFINE v == s \o u
<1>1. /\ Len(s) \in Nat /\ Len(u) \in Nat /\ Len(v) = Len(s) + Len(u)
      /\ \A i \in 1..Len(s) + Len(u) : v[i] = IF i <= Len(s) THEN s[i] ELSE u[i - Len(s)]
  BY ConcatProperties
<1> HIDE DEF v
<1>2. ASSUME NEW i \in 1..Len(v) PROVE Job(v[i]) \in JobsIn(s) \cup JobsIn(u)
  <2>1. CASE i <= Len(s)
    BY <1>1, <2>1 DEF JobsIn
  <2>2. CASE ~(i <= Len(s))
    <3>1. i - Len(s) \in 1..Len(u) /\ v[i] = u[i - Len(s)]
      BY <1>1, <2>2
    <3>2. QED  BY <3>1 DEF JobsIn
  <2>3. QED  BY <2>1, <2>2
<1>3. ASSUME NEW i \in 1..Len(s) PROVE Job(s[i]) \in JobsIn(v)
  <2>1. i \in 1..Len(v) /\ v[i] = s[i]
    BY <1>1
  <2>2. QED  BY <2>1 DEF JobsIn
<1>4. ASSUME NEW i \in 1..Len(u) PROVE Job(u[i]) \in JobsIn(v)
  <2>1. i + Len(s) \in 1..Len(v) /\ ~(i + Len(s) <= Len(s)) /\ (i + Len(s)) - Len(s) = i
        /\ i + Len(s) \in 1..Len(s) + Len(u)
    BY <1>1
  <2>2. v[i + Len(s)] = u[i]
    BY <1>1, <2>1
  <2>3. QED  BY <2>1, <2>2 DEF JobsIn
<1>5. QED  BY <1>2, <1>3, <1>4 DEF JobsIn, v

LEMMA JobsInOne ==
  ASSUME NEW t \in Task, NEW u \in Task
  PROVE  JobsIn(<< t >>) = {Job(t)} /\ JobsIn(<< t, u >>) = {Job(t), Job(u)}
<1>1. Len(<< t >>) = 1 /\ Len(<< t, u >>) = 2
  OBVIOUS
<1>2. 1..1 = {1} /\ 1..2 = {1, 2}
  OBVIOUS
<1>3. << t >>[1] = t /\ << t, u >>[1] = t /\ << t, u >>[2] = u
  OBVIOUS
<1>4. JobsIn(<< t >>) = { Job(<< t >>[i]) : i \in {1} }
  BY <1>1, <1>2 DEF JobsIn
<1>5. JobsIn(<< t, u >>) = { Job(<< t, u >>[i]) : i \in {1, 2} }
  BY <1>1, <1>2 DEF JobsIn
<1>6. QED  BY <1>3, <1>4, <1>5

LEMMA JobsInTail ==
  ASSUME NEW s \in Seq(Task), s # << >>
  PROVE  /\ Head(s) \in Task /\ Tail(s) \in Seq(Task) /\ s = << Head(s) >> \o Tail(s)
         /\ JobsIn(s) = {Job(Head(s))} \cup JobsIn(Tail(s))
<1>1. Head(s) \in Task /\ Tail(s) \in Seq(Task) /\ s = << Head(s) >> \o Tail(s)
  BY HeadTailProperties
<1>2. << Head(s) >> \in Seq(Task) /\ JobsIn(<< Head(s) >>) = {Job(Head(s))}
  <2>1. JobsIn(<< Head(s) >>) = {Job(Head(s))}
    BY <1>1, JobsInOne, Zenon
  <2>2. QED  BY <1>1, <2>1
<1>3. JobsIn(<< Head(s) >> \o Tail(s)) = JobsIn(<< Head(s) >>) \cup JobsIn(Tail(s))
  BY <1>1, <1>2, JobsInConcat
<1>4. QED  BY <1>1, <1>2, <1>3

LEMMA JobsFacts ==
  ASSUME NEW x, QueueOK(x)
  PROVE  /\ Queued(x) = { j.id : j \in Jobs(x) }
         /\ \A j, k \in Jobs(x) : j.id = k.id => j = k
         /\ \A j \in Jobs(x) : /\ j.id \in TaskIds /\ j.kind \in Kind /\ j.idx \in Nat \ {0}
                               /\ j.idx <= Len(Script(j.kind))
         /\ NonEmpty(x) => /\ HeadJob(x) \in Jobs(x) /\ HeadJob(x).id = Head(x.tasks).id
                           /\ CmdOf(HeadJob(x)) = HeadCmd(x)
                           /\ \A j \in Jobs(x) : j # HeadJob(x) => j.idx = 1
         /\ ~NonEmpty(x) => Jobs(x) = {} /\ Queued(x) = {}
<1>1. x.tasks \in Seq(Task) /\ Distinct(x.tasks) /\ \A i \in 2..Len(x.tasks) : x.tasks[i].idx = 1
  BY QueueFields DEF QueueOK, Untouched
<1>2. \A i \in 1..Len(x.tasks) : x.tasks[i] \in Task
  BY <1>1
<1>3. Queued(x) = { j.id : j \in Jobs(x) }
  <2>1. \A t : Job(t).id = t.id
    BY DEF Job
  <2>2. QED  BY <2>1 DEF Queued, Jobs, JobsIn
<1>4. \A j, k \in Jobs(x) : j.id = k.id => j = k
  BY <1>1 DEF Jobs, JobsIn, Job, Distinct
<1>5. \A j \in Jobs(x) : /\ j.id \in TaskIds /\ j.kind \in Kind /\ j.idx \in Nat \ {0}
                         /\ j.idx <= Len(Script(j.kind))
  BY <1>2, TaskType DEF Jobs, JobsIn, Job
<1>6. NonEmpty(x) => /\ HeadJob(x) \in Jobs(x) /\ HeadJob(x).id = Head(x.tasks).id
                     /\ CmdOf(HeadJob(x)) = HeadCmd(x)
                     /\ \A j \in Jobs(x) : j # HeadJob(x) => j.idx = 1
  <2>1. ASSUME NonEmpty(x)
        PROVE  1 \in 1..Len(x.tasks) /\ Head(x.tasks) = x.tasks[1] /\ Len(x.tasks) \in Nat
    BY <2>1, QueueFields
  <2>2. \A t : CmdOf(Job(t)) = CmdOf(t)
    BY DEF CmdOf, Job
  <2>3. ASSUME NonEmpty(x), NEW j \in Jobs(x), j # HeadJob(x) PROVE j.idx = 1
    <3>1. PICK i \in 1..Len(x.tasks) : j = Job(x.tasks[i])
      BY DEF Jobs, JobsIn
    <3>2. i \in 2..Len(x.tasks)
      <4>1. i # 1
        BY <2>1, <2>3, <3>1 DEF HeadJob
      <4>2. QED  BY <2>1, <2>3, <4>1
    <3>3. QED  BY <1>1, <3>1, <3>2 DEF Job
  <2>4. NonEmpty(x) => HeadJob(x) \in Jobs(x) /\ HeadJob(x).id = Head(x.tasks).id
    BY <2>1 DEF HeadJob, Jobs, JobsIn, Job
  <2>5. QED  BY <2>2, <2>3, <2>4 DEF HeadCmd, HeadJob
<1>7. ~NonEmpty(x) => Jobs(x) = {}
  BY JobsInEmpty DEF NonEmpty, Jobs
<1>8. QED  BY <1>3, <1>4, <1>5, <1>6, <1>7

LEMMA JobsOfAdd ==
  ASSUME NEW x, QueueOK(x), NEW id \in TaskIds, id \notin Queued(x), NEW k \in Kind
  PROVE  Jobs(AtQueueAdd(x, id, k)) = Jobs(x) \cup {[id |-> id, kind |-> k, idx |-> 1]}
<1> DEFINE s == x.tasks
           t == NewTask(id, k)
           u == AtQueueAdd(x, id, k).tasks
<1>1. s \in Seq(Task) /\ t \in Task
  BY QueueFields, NewTaskType
<1>2. Job(t) = [id |-> id, kind |-> k, idx |-> 1]
  BY DEF Job, NewTask
<1>3. CASE k \in Prio /\ NonEmpty(x)
  <2>1. u = << Head(s), t >> \o Tail(s)
    BY <1>3 DEF AtQueueAdd
  <2>2. Head(s) \in Task /\ Tail(s) \in Seq(Task)
        /\ JobsIn(s) = {Job(Head(s))} \cup JobsIn(Tail(s))
    BY <1>1, <1>3, JobsInTail DEF NonEmpty
  <2> HIDE DEF t, s, u
  <2>3. << Head(s), t >> \in Seq(Task) /\ JobsIn(<< Head(s), t >>) = {Job(Head(s)), Job(t)}
    <3>1. JobsIn(<< Head(s), t >>) = {Job(Head(s)), Job(t)}
      BY <1>1, <2>2, JobsInOne, Zenon
    <3>2. QED  BY <1>1, <2>2, <3>1
  <2>4. JobsIn(u) = {Job(Head(s)), Job(t)} \cup JobsIn(Tail(s))
    BY <2>1, <2>2, <2>3, JobsInConcat
  <2>5. JobsIn(u) = JobsIn(s) \cup {Job(t)}
    BY <2>2, <2>4
  <2>6. QED  BY <1>2, <2>5 DEF Jobs, s, u
<1>4. CASE ~(k \in Prio /\ NonEmpty(x))
  <2>1. u = Append(s, t)
    BY <1>4 DEF AtQueueAdd
  <2> HIDE DEF t, s, u
  <2>2. JobsIn(u) = JobsIn(s) \cup {Job(t)}
    BY <1>1, <2>1, JobsInAppend
  <2>3. QED  BY <1>2, <2>2 DEF Jobs, s, u
<1>5. QED  BY <1>3, <1>4

(* A result takes the head or moves it on; the others stay.                  *)
LEMMA JobsOfRemoveCmd ==
  ASSUME NEW x, QueueOK(x), NonEmpty(x), NEW res
  PROVE  LET y    == AtQueueRemoveCmd(x, res)
             h    == HeadJob(x)
             rest == { j \in Jobs(x) : j.id # h.id }
         IN  \/ /\ \/ h.idx >= Len(Script(h.kind))
                   \/ Expect(CmdOf(h)) # res /\ CmdOf(h) \notin Ignore
                /\ Jobs(y) = rest
             \/ /\ h.idx < Len(Script(h.kind))
                /\ Expect(CmdOf(h)) = res \/ CmdOf(h) \in Ignore
                /\ NonEmpty(y) /\ HeadJob(y) = [h EXCEPT !.idx = @ + 1]
                /\ Jobs(y) = rest \cup {HeadJob(y)}
<1> DEFINE y    == AtQueueRemoveCmd(x, res)
           h    == HeadJob(x)
           rest == { j \in Jobs(x) : j.id # h.id }
           t    == Head(x.tasks)
           over == \/ t.idx >= Len(Script(t.kind))
                   \/ Expect(CmdOf(t)) # res /\ CmdOf(t) \notin Ignore
<1>1. /\ x.tasks \in Seq(Task) /\ x.tasks # << >> /\ t \in Task /\ Tail(x.tasks) \in Seq(Task)
      /\ Jobs(x) = {h} \cup JobsIn(Tail(x.tasks))
  BY QueueFields, JobsInTail DEF NonEmpty, Jobs, HeadJob
<1>2. h.idx = t.idx /\ h.kind = t.kind /\ h.id = t.id /\ CmdOf(h) = CmdOf(t)
  BY DEF HeadJob, Job, CmdOf
<1>3. JobsIn(Tail(x.tasks)) = rest
  <2>1. \A j \in JobsIn(Tail(x.tasks)) : j.id # h.id
    <3>1. ASSUME NEW i \in 1..Len(Tail(x.tasks)) PROVE Tail(x.tasks)[i].id # t.id
      <4>1. /\ Len(x.tasks) \in Nat \ {0} /\ t = x.tasks[1] /\ Len(Tail(x.tasks)) = Len(x.tasks) - 1
            /\ Tail(x.tasks)[i] = x.tasks[i + 1] /\ Distinct(x.tasks)
        BY <1>1, EmptySeq, HeadTailProperties DEF QueueOK
      <4>2. i + 1 \in 1..Len(x.tasks) /\ 1 \in 1..Len(x.tasks) /\ i + 1 # 1
        BY <4>1
      <4>3. QED  BY <4>1, <4>2 DEF Distinct
    <3>2. QED  BY <1>2, <3>1 DEF JobsIn, Job
  <2>2. QED  BY <1>1, <2>1
<1>4. CASE over
  <2>1. y = AtQueueRemove(x)
    BY <1>4, RemoveOfNext, Zenon DEF AtQueueRemoveCmd
  <2>2. Jobs(y) = rest
    BY <1>3, <2>1 DEF Jobs, AtQueueRemove
  <2>3. QED  BY <1>2, <1>4, <2>2
<1>5. CASE ~over
  <2>1. y = AtQueueNext(x)
    BY <1>5, Zenon DEF AtQueueRemoveCmd
  <2>2. t.idx < Len(Script(t.kind)) /\ (Expect(CmdOf(t)) = res \/ CmdOf(t) \in Ignore)
    BY <1>1, <1>5, TaskType
  <2> DEFINE v == [t EXCEPT !.idx = @ + 1, !.sent = FALSE]
  <2>3. QueueOK(y) /\ NonEmpty(y) /\ Head(y.tasks) = v
    BY <2>1, <2>2, NextKeepsOK
  <2>4. v \in Task
    BY <2>3, QueueFields
  <2>5. y.tasks = << v >> \o Tail(x.tasks)
    BY <2>1 DEF AtQueueNext
  <2>6. Job(v) = [h EXCEPT !.idx = @ + 1]
    <3>1. t \in [id : TaskIds, kind : Kind, idx : Nat \ {0}, sent : BOOLEAN]
      BY <1>1 DEF Task
    <3>2. v.id = t.id /\ v.kind = t.kind /\ v.idx = t.idx + 1
      BY <3>1
    <3>3. h = [id |-> t.id, kind |-> t.kind, idx |-> t.idx]
      BY DEF HeadJob, Job
    <3> HIDE DEF v, h
    <3>4. QED  BY <3>2, <3>3 DEF Job
  <2> HIDE DEF v
  <2>7. << v >> \in Seq(Task) /\ JobsIn(<< v >>) = {Job(v)}
    <3>1. JobsIn(<< v >>) = {Job(v)}
      BY <2>4, JobsInOne, Zenon
    <3>2. QED  BY <2>4, <3>1
  <2>8. Jobs(y) = {Job(v)} \cup rest
    BY <1>1, <1>3, <2>5, <2>7, JobsInConcat DEF Jobs
  <2>9. HeadJob(y) = Job(v)
    BY <2>3 DEF HeadJob, v
  <2>10. QED  BY <1>2, <2>2, <2>3, <2>6, <2>8, <2>9
<1>6. QED  BY <1>4, <1>5

(* Writing the head changes nobody's progress.                               *)
LEMMA JobsOfRun ==
  ASSUME NEW x, QueueOK(x), NEW ok \in BOOLEAN, ~RunFails(x, ok)
  PROVE  LET y == AtQueueRun(x, ok)
         IN  /\ Jobs(y) = Jobs(x) /\ (NonEmpty(y) <=> NonEmpty(x))
             /\ NonEmpty(x) => HeadJob(y) = HeadJob(x)
<1> DEFINE y == AtQueueRun(x, ok)
<1>1. CASE ~MustWrite(x)
  BY <1>1 DEF AtQueueRun
<1>2. CASE MustWrite(x) /\ ok
  <2> DEFINE t == Head(x.tasks)
             v == [t EXCEPT !.sent = TRUE]
  <2>1. /\ NonEmpty(x) /\ x.tasks \in Seq(Task) /\ t \in Task /\ t = x.tasks[1]
        /\ Len(x.tasks) \in Nat \ {0}
    BY <1>2, QueueFields DEF MustWrite
  <2>2. v \in Task /\ Job(v) = Job(t)
    <3>1. t \in [id : TaskIds, kind : Kind, idx : Nat \ {0}, sent : BOOLEAN]
      BY <2>1 DEF Task
    <3>2. v \in [id : TaskIds, kind : Kind, idx : Nat \ {0}, sent : BOOLEAN]
          /\ v.kind = t.kind /\ v.idx = t.idx /\ v.id = t.id
      BY <3>1
    <3>3. v \in Task
      BY <2>1, <3>2 DEF Task
    <3>4. QED  BY <3>2, <3>3 DEF Job
  <2>3. y.tasks = [x.tasks EXCEPT ![1] = v]
    <3>1. y = [x EXCEPT !.tasks[1].sent = TRUE]
      BY <1>2 DEF AtQueueRun
    <3>2. [x EXCEPT !.tasks[1].sent = TRUE] = [x EXCEPT !.tasks = [x.tasks EXCEPT ![1] = v]]
      BY <2>1
    <3>3. x \in [tasks : Seq(Task), ntasks : Nat, ncmds : Int]
      BY DEF QueueOK, Queue
    <3> HIDE DEF v, y
    <3>4. QED  BY <3>1, <3>2, <3>3
  <2> HIDE DEF v, y, t
  <2>4. /\ y.tasks \in Seq(Task) /\ Len(y.tasks) = Len(x.tasks)
        /\ \A i \in 1..Len(x.tasks) : y.tasks[i] = IF i = 1 THEN v ELSE x.tasks[i]
    BY <2>1, <2>2, <2>3, ExceptSeq
  <2>5. \A i \in 1..Len(x.tasks) : Job(y.tasks[i]) = Job(x.tasks[i])
    BY <2>1, <2>2, <2>4
  <2>6. Jobs(y) = Jobs(x)
    BY <2>4, <2>5 DEF Jobs, JobsIn
  <2>7. y.tasks # << >> /\ Head(y.tasks) = y.tasks[1]
    BY <2>1, <2>4, EmptySeq, HeadTailProperties
  <2>8. HeadJob(y) = HeadJob(x)
    BY <2>1, <2>2, <2>4, <2>7 DEF HeadJob, t
  <2>9. QED  BY <2>1, <2>6, <2>7, <2>8 DEF NonEmpty, y
<1>3. QED  BY <1>1, <1>2 DEF RunFails

=============================================================================
