--------------------------- MODULE MonitorProofs ---------------------------
(***************************************************************************)
(* The two halves of a device's monitor thread.                             *)
(*                                                                          *)
(* The command line, for every set of identities, all scripts and every     *)
(* choice of the faults: the queue's counters are exact, only its head has   *)
(* begun, answers stay in step with commands, a text is written at its own   *)
(* prompt, and the queue with the modem implements the line that serves one  *)
(* command at a time (SerialLine).                                          *)
(*                                                                          *)
(* The reading of what the modem sends, for every size of the ring, any     *)
(* messages and any way they are spread over the reads (AtRead).            *)
(***************************************************************************)
EXTENDS Monitor, AtRead, AtQueueProofs, WellFoundedInduction

(* The inductive invariant: the queue as QueueOK has it, which the counters *)
(* and the order of the tasks both need, and a result in hand whenever the   *)
(* monitor is about to handle one.                                          *)
IInv ==
  /\ TypeOK
  /\ QueueOK(q)
  /\ mpc = "handle" => inbuf # << >>

-----------------------------------------------------------------------------
LEMMA HeadRefType ==
  ASSUME NEW x, QueueOK(x), NonEmpty(x)
  PROVE  HeadRef(x) \in CmdRef /\ HeadCmd(x) \in Cmd
<1>1. Head(x.tasks) \in Task
  BY QueueFields
<1>2. QED  BY <1>1, TaskType DEF HeadRef, HeadCmd, CmdRef

LEMMA AfterWriteType ==
  ASSUME NEW x, QueueOK(x), NEW ok \in BOOLEAN, NEW m \in ModemState
  PROVE  AfterWrite(x, ok, m) \in ModemState
<1>1. CASE MustWrite(x) /\ ok
  <2> DEFINE e == [for |-> HeadRef(x), cmd |-> HeadCmd(x)]
  <2>1. e \in [for : CmdRef, cmd : Cmd]
    BY <1>1, HeadRefType DEF MustWrite
  <2> HIDE DEF e
  <2>2. m.running \in Seq([for : CmdRef, cmd : Cmd]) /\ m.mode \in {"command", "text"}
    BY DEF ModemState
  <2>3. Append(m.running, e) \in Seq([for : CmdRef, cmd : Cmd])
    BY <2>1, <2>2, AppendProperties
  <2>4. [m EXCEPT !.running = Append(@, e)] \in ModemState
    BY <2>2, <2>3 DEF ModemState
  <2>5. QED  BY <1>1, <2>4 DEF AfterWrite, Written, e
<1>2. CASE ~(MustWrite(x) /\ ok)
  BY <1>2 DEF AfterWrite
<1>3. QED  BY <1>1, <1>2

LEMMA WriteOutcomeType == WriteOutcome \subseteq BOOLEAN
  BY DEF WriteOutcome

(* The end of a connection brings everything back to the start. *)
LEMMA DisconnectKeeps ==
  ASSUME IInv, Disconnect
  PROVE  IInv'
<1>1. q' = EmptyQueue
  BY FlushEmpties DEF IInv, Disconnect
<1>2. QueueOK(q')
  BY <1>1, EmptyQueueOK
<1>3. IdleModem \in ModemState
  BY EmptySeq DEF IdleModem, ModemState
<1>4. TypeOK'
  <2>1. q' \in Queue
    BY <1>2 DEF QueueOK
  <2>2. << >> \in Seq(Message)
    BY EmptySeq
  <2>3. QED  BY <1>3, <2>1, <2>2 DEF IInv, Disconnect, TypeOK, MonitorPc
<1>5. mpc' = "off"
  BY DEF Disconnect
<1>6. QED  BY <1>2, <1>4, <1>5 DEF IInv

LEMMA FinishKeeps ==
  ASSUME IInv, mpc = "handle", NEW x, QueueOK(x), NEW m \in ModemState,
         NEW init \in BOOLEAN, NEW ok \in BOOLEAN, Finish(x, m, init, ok)
  PROVE  IInv'
<1>1. CASE RunFails(x, ok)
  BY <1>1, DisconnectKeeps DEF Finish
<1>2. CASE ~RunFails(x, ok)
  <2>1. /\ initialized' = init
        /\ SetQueue(AtQueueRun(x, ok), AfterWrite(x, ok, m))
        /\ inbuf' = Tail(inbuf)
        /\ mpc' = IF Tail(inbuf) = << >> THEN "top" ELSE "handle"
        /\ UNCHANGED << armed, tty, urcs >>
    BY <1>2 DEF Finish
  <2>2. QueueOK(q') /\ modem' \in ModemState
    BY <2>1, RunKeepsOK, AfterWriteType DEF SetQueue
  <2>3. inbuf' \in Seq(Message)
    BY <2>1, HeadTailProperties DEF IInv, TypeOK
  <2>4. expired' \in BOOLEAN
    BY <2>1 DEF SetQueue
  <2>5. TypeOK'
    BY <2>1, <2>2, <2>3, <2>4 DEF IInv, TypeOK, QueueOK, MonitorPc
  <2>6. mpc' = "handle" => inbuf' # << >>
    BY <2>1
  <2>7. QED  BY <2>2, <2>5, <2>6 DEF IInv
<1>3. QED  BY <1>1, <1>2

-----------------------------------------------------------------------------
(* The steps of the monitor that handle a result.                            *)
LEMMA HandleKeeps ==
  ASSUME IInv, HandleOk \/ HandleError \/ HandlePrompt \/ HandleCmgr \/ HandleUrc
  PROVE  IInv'
<1>0. /\ QueueOK(q) /\ modem \in ModemState /\ initialized \in BOOLEAN
      /\ WriteOutcome \subseteq BOOLEAN
      /\ \A res : QueueOK(AtQueueRemoveCmd(q, res))
  BY WriteOutcomeType, RemoveCmdKeepsOK DEF IInv, TypeOK
<1>1. CASE HandleOk
  <2> DEFINE taken == NonEmpty(q) /\ Expect(HeadCmd(q)) \in {"OK", "CMGR"}
             x     == IF taken THEN AtQueueRemoveCmd(q, "OK") ELSE q
             init  == initialized \/ (taken /\ HeadCmd(q) \in {"CNMI", "DDSETEX"})
  <2>1. PICK ok \in WriteOutcome : Finish(x, modem, init, ok)
    BY <1>1 DEF HandleOk
  <2>2. QueueOK(x) /\ init \in BOOLEAN /\ ok \in BOOLEAN /\ mpc = "handle"
    BY <1>0, <1>1 DEF HandleOk
  <2> HIDE DEF x, init
  <2>3. QED  BY <1>0, <2>1, <2>2, FinishKeeps
<1>2. CASE HandleError
  <2>1. CASE ErrorIsFatal
    BY <1>2, <2>1, DisconnectKeeps DEF HandleError
  <2>2. CASE ~ErrorIsFatal /\ NonEmpty(q) /\ HeadCmd(q) = "CVOICE" /\ ~initialized
    <3>1. PICK ok \in WriteOutcome, id \in TaskIds :
            /\ Fresh(id)
            /\ Finish(AtQueueRemoveCmd(AtQueueAdd(q, id, "noVoice"), "ERROR"),
                      modem, initialized, ok)
      BY <1>2, <2>2 DEF HandleError
    <3>2. QueueOK(AtQueueAdd(q, id, "noVoice"))
      BY <1>0, <3>1, AddKeepsOK DEF Fresh, Kind
    <3>3. QueueOK(AtQueueRemoveCmd(AtQueueAdd(q, id, "noVoice"), "ERROR"))
      BY <3>2, RemoveCmdKeepsOK
    <3>4. QED  BY <1>0, <1>2, <3>1, <3>3, FinishKeeps DEF HandleError
  <2>3. CASE ~ErrorIsFatal /\ ~(NonEmpty(q) /\ HeadCmd(q) = "CVOICE" /\ ~initialized)
    <3>1. PICK ok \in WriteOutcome :
            Finish(AtQueueRemoveCmd(q, "ERROR"), modem, initialized, ok)
      BY <1>2, <2>3 DEF HandleError
    <3>2. QED  BY <1>0, <1>2, <3>1, FinishKeeps DEF HandleError
  <2>4. QED  BY <2>1, <2>2, <2>3
<1>3. CASE HandlePrompt
  <2> DEFINE taken == NonEmpty(q) /\ Expect(HeadCmd(q)) = "PROMPT"
             x     == IF taken THEN AtQueueRemoveCmd(q, "PROMPT") ELSE q
  <2>1. PICK ok \in WriteOutcome : Finish(x, modem, initialized, ok)
    BY <1>3 DEF HandlePrompt
  <2>2. QueueOK(x) /\ mpc = "handle"
    BY <1>0, <1>3 DEF HandlePrompt
  <2> HIDE DEF x
  <2>3. QED  BY <1>0, <2>1, <2>2, FinishKeeps
<1>4. CASE HandleCmgr
  <2> DEFINE taken == NonEmpty(q) /\ (Expect(HeadCmd(q)) = "CMGR" \/ HeadCmd(q) = "USER")
             x     == IF taken THEN AtQueueRemoveCmd(q, "CMGR") ELSE q
  <2>1. PICK ok \in WriteOutcome : Finish(x, modem, initialized, ok)
    BY <1>4 DEF HandleCmgr
  <2>2. QueueOK(x) /\ mpc = "handle"
    BY <1>0, <1>4 DEF HandleCmgr
  <2> HIDE DEF x
  <2>3. QED  BY <1>0, <2>1, <2>2, FinishKeeps
<1>5. CASE HandleUrc
  <2>1. CASE \E ok \in WriteOutcome : Finish(q, modem, initialized, ok)
    BY <1>0, <1>5, <2>1, FinishKeeps DEF HandleUrc
  <2>2. CASE \E k \in UrcKinds, id \in TaskIds, ok1, ok2 \in WriteOutcome :
               /\ Fresh(id)
               /\ LET x == AtQueueAdd(q, id, k)
                  IN  IF k = "retrieve" /\ RunFails(x, ok1) THEN Disconnect
                      ELSE Finish(AtQueueRun(x, ok1), AfterWrite(x, ok1, modem),
                                  initialized, ok2)
    <3>1. PICK k \in UrcKinds, id \in TaskIds, ok1 \in WriteOutcome, ok2 \in WriteOutcome :
            /\ Fresh(id)
            /\ LET x == AtQueueAdd(q, id, k)
               IN  IF k = "retrieve" /\ RunFails(x, ok1) THEN Disconnect
                   ELSE Finish(AtQueueRun(x, ok1), AfterWrite(x, ok1, modem),
                               initialized, ok2)
      BY <2>2
    <3> DEFINE x == AtQueueAdd(q, id, k)
    <3>2. QueueOK(x)
      BY <1>0, <3>1, AddKeepsOK, KindsAssumption DEF Fresh
    <3>3. CASE k = "retrieve" /\ RunFails(x, ok1)
      BY <3>1, <3>3, DisconnectKeeps
    <3>4. CASE ~(k = "retrieve" /\ RunFails(x, ok1))
      <4>1. Finish(AtQueueRun(x, ok1), AfterWrite(x, ok1, modem), initialized, ok2)
        BY <3>1, <3>4
      <4>2. QueueOK(AtQueueRun(x, ok1)) /\ AfterWrite(x, ok1, modem) \in ModemState
        BY <1>0, <3>2, RunKeepsOK, AfterWriteType
      <4> HIDE DEF x
      <4>3. QED  BY <1>0, <1>5, <4>1, <4>2, FinishKeeps DEF HandleUrc
    <3>5. QED  BY <3>3, <3>4
  <2>3. QED  BY <1>5, <2>1, <2>2 DEF HandleUrc
<1>6. QED  BY <1>1, <1>2, <1>3, <1>4, <1>5

(* A task queued by MonitorStart, MonitorPing or Insert, and run at once.    *)
LEMMA AddRunKeeps ==
  ASSUME IInv, NEW id \in TaskIds, Fresh(id), NEW k \in Kind, NEW ok \in WriteOutcome
  PROVE  /\ QueueOK(AtQueueRun(AtQueueAdd(q, id, k), ok))
         /\ AfterWrite(AtQueueAdd(q, id, k), ok, modem) \in ModemState
<1>1. QueueOK(AtQueueAdd(q, id, k)) /\ ok \in BOOLEAN
  BY AddKeepsOK, WriteOutcomeType DEF IInv, Fresh
<1>2. QED  BY <1>1, RunKeepsOK, AfterWriteType DEF IInv, TypeOK

LEMMA InitHolds == Init => IInv
<1>1. << >> \in Seq(Message) /\ IdleModem \in ModemState
  BY EmptySeq DEF IdleModem, ModemState
<1>2. QueueOK(EmptyQueue) /\ EmptyQueue \in Queue
  BY EmptyQueueOK DEF QueueOK
<1>3. SUFFICES ASSUME Init PROVE IInv
  OBVIOUS
<1>4. QueueOK(q) /\ q \in Queue /\ mpc # "handle"
  BY <1>2, <1>3 DEF Init
<1>5. /\ initialized \in BOOLEAN /\ expired \in BOOLEAN /\ armed \in BOOLEAN
      /\ mpc \in MonitorPc /\ urcs \in Nat
  BY <1>3 DEF Init, MonitorPc
<1>6. inbuf \in Seq(Message) /\ tty \in Seq(Message) /\ modem \in ModemState
  BY <1>1, <1>3 DEF Init
<1>7. QED  BY <1>4, <1>5, <1>6 DEF IInv, TypeOK

LEMMA StepKeeps == IInv /\ [Next]_vars => IInv'
<1> SUFFICES ASSUME IInv, [Next]_vars PROVE IInv'
  OBVIOUS
<1>1. CASE Connect
  BY <1>1 DEF Connect, IInv, TypeOK, MonitorPc
<1>2. CASE MonitorStart
  <2>1. PICK id \in TaskIds, ok \in WriteOutcome :
          /\ Fresh(id)
          /\ LET x == AtQueueAdd(q, id, "init")
             IN  IF RunFails(x, ok) THEN Disconnect
                 ELSE /\ SetQueue(AtQueueRun(x, ok), AfterWrite(x, ok, modem))
                      /\ mpc' = "top" /\ tty' = << >>
                      /\ UNCHANGED << initialized, armed, inbuf, urcs >>
    BY <1>2 DEF MonitorStart
  <2> DEFINE x == AtQueueAdd(q, id, "init")
  <2>2. CASE RunFails(x, ok)
    BY <2>1, <2>2, DisconnectKeeps
  <2>3. CASE ~RunFails(x, ok)
    <3>1. QueueOK(AtQueueRun(x, ok)) /\ AfterWrite(x, ok, modem) \in ModemState
      BY <2>1, AddRunKeeps DEF Kind
    <3>2. /\ SetQueue(AtQueueRun(x, ok), AfterWrite(x, ok, modem))
          /\ mpc' = "top" /\ tty' = << >>
          /\ UNCHANGED << initialized, armed, inbuf, urcs >>
      BY <2>1, <2>3
    <3>3. << >> \in Seq(Message)
      BY EmptySeq
    <3> HIDE DEF x
    <3>4. QED  BY <3>1, <3>2, <3>3 DEF SetQueue, IInv, TypeOK, MonitorPc, QueueOK
  <2>4. QED  BY <2>2, <2>3
<1>3. CASE MonitorTop
  BY <1>3, DisconnectKeeps DEF MonitorTop, IInv, TypeOK, MonitorPc, HeadSent, NonEmpty,
                               QueueOK, Queue, Task
<1>4. CASE MonitorRead
  <2>1. << >> \in Seq(Message)
    BY EmptySeq
  <2>2. QED  BY <1>4, <2>1, DisconnectKeeps DEF MonitorRead, IInv, TypeOK, MonitorPc
<1>5. CASE MonitorWaitOver
  BY <1>5 DEF MonitorWaitOver, IInv, TypeOK, MonitorPc
<1>6. CASE MonitorTimedOut
  BY <1>6, DisconnectKeeps DEF MonitorTimedOut
<1>7. CASE MonitorPing
  <2>1. PICK id \in TaskIds, ok \in WriteOutcome :
          /\ Fresh(id)
          /\ SetQueue(AtQueueRun(AtQueueAdd(q, id, "ping"), ok),
                      AfterWrite(AtQueueAdd(q, id, "ping"), ok, modem))
          /\ mpc' = "top"
          /\ UNCHANGED << initialized, armed, inbuf, tty, urcs >>
    BY <1>7 DEF MonitorPing
  <2>2. /\ QueueOK(AtQueueRun(AtQueueAdd(q, id, "ping"), ok))
        /\ AfterWrite(AtQueueAdd(q, id, "ping"), ok, modem) \in ModemState
    BY <2>1, AddRunKeeps DEF Kind
  <2>3. QED  BY <2>1, <2>2 DEF SetQueue, IInv, TypeOK, MonitorPc, QueueOK
<1>8. CASE HandleOk \/ HandleError \/ HandlePrompt \/ HandleCmgr \/ HandleUrc
  BY <1>8, HandleKeeps
<1>9. ASSUME NEW k \in Kinds, Insert(k) PROVE IInv'
  <2>1. PICK id \in TaskIds, ok \in WriteOutcome :
          /\ Fresh(id)
          /\ SetQueue(AtQueueRun(AtQueueAdd(q, id, k), ok),
                      AfterWrite(AtQueueAdd(q, id, k), ok, modem))
    BY <1>9 DEF Insert
  <2>2. /\ QueueOK(AtQueueRun(AtQueueAdd(q, id, k), ok))
        /\ AfterWrite(AtQueueAdd(q, id, k), ok, modem) \in ModemState
    BY <2>1, AddRunKeeps, KindsAssumption
  <2>3. UNCHANGED << mpc, initialized, armed, inbuf, tty, urcs >>
    BY <1>9 DEF Insert
  <2>4. q' = AtQueueRun(AtQueueAdd(q, id, k), ok) /\ modem' \in ModemState /\ expired' \in BOOLEAN
    BY <2>1, <2>2 DEF SetQueue
  <2>5. QED  BY <2>2, <2>3, <2>4 DEF IInv, TypeOK, QueueOK
<1>10. CASE Expire
  BY <1>10 DEF Expire, IInv, TypeOK
<1>11. CASE ModemAnswers
  <2> DEFINE c == Head(modem.running)
  <2>1. PICK r \in Answers(c.cmd) :
          /\ modem' = [running |-> Tail(modem.running),
                       mode    |-> IF r = "PROMPT" THEN "text" ELSE "command"]
          /\ tty' = IF mpc = "off" THEN tty ELSE Append(tty, [res |-> r, for |-> c.for])
    BY <1>11 DEF ModemAnswers
  <2>2. /\ modem.running \in Seq([for : CmdRef, cmd : Cmd]) /\ modem.running # << >>
        /\ UNCHANGED << q, initialized, expired, mpc, armed, inbuf, urcs >>
    BY <1>11 DEF ModemAnswers, IInv, TypeOK, ModemState
  <2>3. c \in [for : CmdRef, cmd : Cmd] /\ Tail(modem.running) \in Seq([for : CmdRef, cmd : Cmd])
    BY <2>2, HeadTailProperties
  <2>4. modem' \in ModemState
    BY <2>1, <2>3 DEF ModemState
  <2>5. r \in Result
    BY <2>1 DEF Answers, Result
  <2>6. [res |-> r, for |-> c.for] \in Message
    BY <2>3, <2>5 DEF Message
  <2>7. tty' \in Seq(Message)
    BY <2>1, <2>6, AppendProperties DEF IInv, TypeOK
  <2>8. QED  BY <2>2, <2>4, <2>7 DEF IInv, TypeOK
<1>12. CASE ModemTells
  <2>1. [res |-> "URC", for |-> NoRef] \in Message
    BY DEF Message
  <2>2. tty' \in Seq(Message)
    BY <1>12, <2>1, AppendProperties DEF ModemTells, IInv, TypeOK
  <2>3. QED  BY <1>12, <2>2 DEF ModemTells, IInv, TypeOK
<1>13. CASE UNCHANGED vars
  BY <1>13 DEF vars, IInv, TypeOK
<1>14. QED
  BY <1>1, <1>2, <1>3, <1>4, <1>5, <1>6, <1>7, <1>8, <1>9, <1>10, <1>11, <1>12, <1>13
  DEF Next, MonitorNext

(* Every reachable state satisfies the invariant: whatever the threads, the  *)
(* modem and the faults do, in whatever order.                               *)
THEOREM InvHolds == Spec => []IInv
<1>1. QED  BY InitHolds, StepKeeps, PTL DEF Spec

(* The variables keep their types; among them at_tasks, an unsigned counter  *)
(* that is decremented for every task removed, never passes below zero.      *)
THEOREM TypeCorrect == Spec => []TypeOK
<1>1. IInv => TypeOK
  BY DEF IInv
<1>2. QED  BY InvHolds, <1>1, PTL

(* The counters of at_queue_add, at_queue_remove and at_queue_remove_cmd are *)
(* exact after every one of their calls, in any order.                       *)
THEOREM CountersExact == Spec => []CountersMatch
<1>1. IInv => CountersMatch
  BY DEF IInv, QueueOK, CountersMatch
<1>2. QED  BY InvHolds, <1>1, PTL

(* A priority task never overtakes one that has begun.                       *)
THEOREM HeadKept == Spec => []BegunIsHead
<1>1. IInv => BegunIsHead
  BY DEF IInv, QueueOK, Untouched, BegunIsHead
<1>2. QED  BY InvHolds, <1>1, PTL

-----------------------------------------------------------------------------
(* The modem and the results under way, in step with the queue.  What        *)
(* AnswersInStep and TextMeetsPrompt say is not inductive: an answer must     *)
(* also be one its command can have, the modem be in text mode exactly from   *)
(* its prompt to the text, and the text never wait at the head.              *)
AnswersFor(x, s) ==
  /\ \A i \in Final(s) :
       HeadSent(x) /\ s[i].for = HeadRef(x) /\ s[i].res \in Answers(HeadCmd(x))
  /\ \A i, j \in Final(s) : i = j

HasPrompt(s) == \E i \in Final(s) : s[i].res = "PROMPT"

Running(x, m) ==
  /\ \A i \in DOMAIN m.running :
       HeadSent(x) /\ m.running[i] = [for |-> HeadRef(x), cmd |-> HeadCmd(x)]
  /\ Len(m.running) <= 1

InStep(x, m, a, b) ==
  /\ Running(x, m) /\ AnswersFor(x, a) /\ AnswersFor(x, b)
  /\ m.running # << >> => Final(a) = {} /\ Final(b) = {}
  /\ Final(a) # {} => Final(b) = {}
  /\ m.mode = "text" <=>
       \/ m.running # << >> /\ HeadCmd(x) = "SMSTEXT"
       \/ HasPrompt(a) \/ HasPrompt(b)
  /\ NonEmpty(x) /\ HeadCmd(x) = "SMSTEXT" => HeadSent(x)

(* Nothing is on the line.  *)
Quiet(m, a, b) ==
  m.running = << >> /\ Final(a) = {} /\ Final(b) = {} /\ m.mode = "command"

SyncInv ==
  /\ InStep(q, modem, tty, inbuf)
  /\ mpc # "handle" => inbuf = << >>
  /\ mpc = "off" => q = EmptyQueue /\ tty = << >> /\ modem = IdleModem
  /\ mpc \in {"off", "start"} => ~initialized /\ NoSms(q)

-----------------------------------------------------------------------------
(* The answers of a buffer, as results leave it at the front and come at its  *)
(* end.                                                                      *)
LEMMA FinalNone == Final(<< >>) = {}
  BY DEF Final

LEMMA FinalTail ==
  ASSUME NEW s \in Seq(Message), s # << >>
  PROVE  /\ \A i : i \in Final(Tail(s)) => i+1 \in Final(s) /\ i+1 # 1 /\ Tail(s)[i] = s[i+1]
         /\ Head(s).res # "URC" => 1 \in Final(s) /\ s[1] = Head(s)
         /\ Head(s).res = "URC" =>
              \A j \in Final(s) : \E i \in Final(Tail(s)) : j = i+1 /\ Tail(s)[i] = s[j]
<1>1. /\ Len(s) \in Nat \ {0} /\ Head(s) = s[1] /\ DOMAIN s = 1..Len(s)
      /\ DOMAIN Tail(s) = 1..Len(Tail(s)) /\ Len(Tail(s)) = Len(s) - 1
      /\ \A i \in 1..Len(Tail(s)) : Tail(s)[i] = s[i+1]
  BY EmptySeq, HeadTailProperties, LenProperties
<1>2. ASSUME NEW i, i \in Final(Tail(s))
      PROVE  i+1 \in Final(s) /\ i+1 # 1 /\ Tail(s)[i] = s[i+1]
  <2>1. i \in 1..Len(Tail(s)) /\ Tail(s)[i].res # "URC"
    BY <1>1, <1>2 DEF Final
  <2>2. i+1 \in 1..Len(s) /\ i+1 # 1
    BY <1>1, <2>1
  <2>3. QED  BY <1>1, <2>1, <2>2 DEF Final
<1>3. Head(s).res # "URC" => 1 \in Final(s) /\ s[1] = Head(s)
  BY <1>1 DEF Final
<1>4. ASSUME Head(s).res = "URC", NEW j \in Final(s)
      PROVE  \E i \in Final(Tail(s)) : j = i+1 /\ Tail(s)[i] = s[j]
  <2>1. j \in 1..Len(s) /\ s[j].res # "URC"
    BY <1>1 DEF Final
  <2>2. j-1 \in 1..Len(Tail(s)) /\ j = (j-1)+1
    BY <1>1, <1>4, <2>1
  <2>3. Tail(s)[j-1] = s[j] /\ j-1 \in Final(Tail(s))
    BY <1>1, <2>1, <2>2 DEF Final
  <2>4. QED  BY <2>2, <2>3
<1>5. QED  BY <1>2, <1>3, <1>4

LEMMA FinalAppend ==
  ASSUME NEW s \in Seq(Message), NEW e \in Message
  PROVE  LET u == Append(s, e)
         IN  /\ \A i \in Final(s) : i \in Final(u) /\ u[i] = s[i]
             /\ \A i \in Final(u) : \/ i \in Final(s) /\ u[i] = s[i]
                                    \/ i = Len(s)+1 /\ u[i] = e /\ e.res # "URC"
             /\ e.res # "URC" => Len(s)+1 \in Final(u) /\ u[Len(s)+1] = e
<1> DEFINE u == Append(s, e)
<1>1. /\ Len(s) \in Nat /\ DOMAIN s = 1..Len(s)
      /\ DOMAIN u = 1..Len(s)+1 /\ u[Len(s)+1] = e /\ \A i \in 1..Len(s) : u[i] = s[i]
  BY AppendProperties, LenProperties
<1> HIDE DEF u
<1>2. \A i \in 1..Len(s)+1 : i \in 1..Len(s) \/ i = Len(s)+1
  BY <1>1
<1>3. \A i \in 1..Len(s) : i \in 1..Len(s)+1
  BY <1>1
<1>4. Len(s)+1 \in 1..Len(s)+1
  BY <1>1
<1>5. QED  BY <1>1, <1>2, <1>3, <1>4, Zenon DEF Final, u

LEMMA AnswersTail ==
  ASSUME NEW x, NEW s \in Seq(Message), s # << >>, AnswersFor(x, s)
  PROVE  /\ AnswersFor(x, Tail(s))
         /\ Head(s).res = "URC" => /\ HasPrompt(Tail(s)) <=> HasPrompt(s)
                                   /\ Final(Tail(s)) = {} <=> Final(s) = {}
         /\ Head(s).res # "URC" =>
              /\ Final(Tail(s)) = {} /\ Final(s) # {} /\ HeadSent(x)
              /\ Head(s).for = HeadRef(x) /\ Head(s).res \in Answers(HeadCmd(x))
              /\ HasPrompt(s) <=> Head(s).res = "PROMPT"
<1>1. \A i : i \in Final(Tail(s)) => i+1 \in Final(s) /\ i+1 # 1 /\ Tail(s)[i] = s[i+1]
  BY FinalTail
<1>2. AnswersFor(x, Tail(s))
  <2>1. \A i \in Final(Tail(s)) : i \in Int
    BY LenProperties, HeadTailProperties DEF Final
  <2>2. \A i, j \in Final(Tail(s)) : i+1 = j+1 => i = j
    BY <2>1
  <2>3. QED  BY <1>1, <2>2 DEF AnswersFor
<1>3. CASE Head(s).res = "URC"
  <2>1. \A j \in Final(s) : \E i \in Final(Tail(s)) : j = i+1 /\ Tail(s)[i] = s[j]
    BY <1>3, FinalTail
  <2>2. QED  BY <1>1, <1>2, <1>3, <2>1 DEF HasPrompt
<1>4. CASE Head(s).res # "URC"
  <2>1. 1 \in Final(s) /\ s[1] = Head(s)
    BY <1>4, FinalTail
  <2>2. Final(Tail(s)) = {}
    BY <1>1, <2>1 DEF AnswersFor
  <2>3. HasPrompt(s) <=> Head(s).res = "PROMPT"
    BY <2>1 DEF HasPrompt, AnswersFor
  <2>4. QED  BY <1>2, <1>4, <2>1, <2>2, <2>3 DEF AnswersFor
<1>5. QED  BY <1>3, <1>4

LEMMA UrcAppended ==
  ASSUME NEW s \in Seq(Message), NEW x
  PROVE  LET u == Append(s, [res |-> "URC", for |-> NoRef])
         IN  /\ Final(u) = Final(s) /\ (HasPrompt(u) <=> HasPrompt(s))
             /\ AnswersFor(x, s) => AnswersFor(x, u)
<1> DEFINE e == [res |-> "URC", for |-> NoRef]
           u == Append(s, e)
<1>1. e \in Message /\ e.res = "URC"
  BY DEF Message
<1> HIDE DEF e
<1>2. /\ \A i \in Final(s) : i \in Final(u) /\ u[i] = s[i]
      /\ \A i \in Final(u) : i \in Final(s) /\ u[i] = s[i]
  BY <1>1, FinalAppend
<1> HIDE DEF u
<1>3. Final(u) = Final(s)
  BY <1>2
<1>4. HasPrompt(u) <=> HasPrompt(s)
  BY <1>2, <1>3 DEF HasPrompt
<1>5. AnswersFor(x, s) => AnswersFor(x, u)
  BY <1>2, <1>3 DEF AnswersFor
<1>6. QED  BY <1>3, <1>4, <1>5 DEF u, e


-----------------------------------------------------------------------------
(* What the operations of the queue do to InStep.                            *)
LEMMA UnsentQuiet ==
  ASSUME NEW x, NEW m \in ModemState, NEW a, NEW b, InStep(x, m, a, b), ~HeadSent(x)
  PROVE  Quiet(m, a, b) /\ (NonEmpty(x) => HeadCmd(x) # "SMSTEXT")
<1>1. m.running \in Seq([for : CmdRef, cmd : Cmd]) /\ m.mode \in {"command", "text"}
  BY DEF ModemState
<1>2. DOMAIN m.running = {} /\ Final(a) = {} /\ Final(b) = {}
  BY DEF InStep, Running, AnswersFor
<1>3. m.running = << >>
  <2>1. DOMAIN m.running = 1..Len(m.running) /\ Len(m.running) \in Nat
    BY <1>1, LenProperties
  <2>2. ~(1 \in 1..Len(m.running))
    BY <1>2, <2>1
  <2>3. Len(m.running) = 0
    BY <2>1, <2>2
  <2>4. QED  BY <1>1, <2>3, EmptySeq
<1>4. m.mode # "text"
  BY <1>2, <1>3 DEF InStep, HasPrompt
<1>5. QED  BY <1>1, <1>2, <1>3, <1>4 DEF Quiet, InStep

LEMMA QuietInStep ==
  ASSUME NEW x, NEW m, NEW a, NEW b, Quiet(m, a, b),
         NonEmpty(x) /\ HeadCmd(x) = "SMSTEXT" => HeadSent(x)
  PROVE  InStep(x, m, a, b)
<1>1. DOMAIN m.running = {} /\ Len(m.running) = 0
  BY DEF Quiet
<1>2. Running(x, m)
  BY <1>1 DEF Running
<1>3. AnswersFor(x, a) /\ AnswersFor(x, b) /\ ~HasPrompt(a) /\ ~HasPrompt(b)
  BY DEF Quiet, AnswersFor, HasPrompt
<1>4. QED  BY <1>2, <1>3 DEF Quiet, InStep

LEMMA SameHeadInStep ==
  ASSUME NEW x, NEW y, NEW m, NEW a, NEW b, InStep(x, m, a, b),
         NonEmpty(x), NonEmpty(y), Head(y.tasks) = Head(x.tasks)
  PROVE  InStep(y, m, a, b)
<1>1. HeadSent(y) = HeadSent(x) /\ HeadRef(y) = HeadRef(x) /\ HeadCmd(y) = HeadCmd(x)
  BY DEF HeadSent, HeadRef, HeadCmd
<1>2. \A s : AnswersFor(x, s) => AnswersFor(y, s)
  BY <1>1 DEF AnswersFor
<1>3. Running(x, m) => Running(y, m)
  BY <1>1 DEF Running
<1>4. QED  BY <1>1, <1>2, <1>3 DEF InStep

LEMMA AddInStep ==
  ASSUME NEW x, QueueOK(x), NEW id \in TaskIds, id \notin Queued(x), NEW k \in Kind,
         NEW m \in ModemState, NEW a, NEW b, InStep(x, m, a, b)
  PROVE  InStep(AtQueueAdd(x, id, k), m, a, b)
<1> DEFINE y == AtQueueAdd(x, id, k)
<1>1. NonEmpty(y)
  BY AddKeepsOK
<1>2. CASE NonEmpty(x)
  <2>1. Head(y.tasks) = Head(x.tasks)
    BY <1>2, AddHead
  <2> HIDE DEF y
  <2>2. QED  BY <1>1, <1>2, <2>1, SameHeadInStep DEF y
<1>3. CASE ~NonEmpty(x)
  <2>1. Head(y.tasks) = NewTask(id, k) /\ NewTask(id, k) \in Task
    BY <1>3, AddHead, NewTaskType
  <2>2. HeadCmd(y) # "SMSTEXT"
    BY <2>1, SmsTask DEF HeadCmd, NewTask
  <2>3. Quiet(m, a, b)
    BY <1>3, UnsentQuiet DEF HeadSent
  <2> HIDE DEF y
  <2>4. QED  BY <2>2, <2>3, QuietInStep DEF y
<1>4. QED  BY <1>2, <1>3

(* A written command is on an idle modem's line, and the only one.           *)
LEMMA WrittenInStep ==
  ASSUME NEW x, QueueOK(x), NEW m \in ModemState, NEW a, NEW b,
         MustWrite(x), m.running = << >>, Final(a) = {}, Final(b) = {},
         m.mode = "text" <=> HeadCmd(x) = "SMSTEXT"
  PROVE  InStep(AtQueueRun(x, TRUE), AfterWrite(x, TRUE, m), a, b)
<1> DEFINE y == AtQueueRun(x, TRUE)
           n == AfterWrite(x, TRUE, m)
           e == [for |-> HeadRef(x), cmd |-> HeadCmd(x)]
<1>1. /\ SameHead(x, y) /\ HeadSent(y)
  BY RunHead
<1>2. HeadRef(y) = HeadRef(x) /\ HeadCmd(y) = HeadCmd(x)
  BY <1>1 DEF SameHead, HeadRef, HeadCmd, CmdOf
<1>3. n.running = << e >> /\ n.mode = m.mode
  <2>1. n = [m EXCEPT !.running = Append(@, e)]
    BY DEF AfterWrite, Written
  <2>2. m = [running |-> m.running, mode |-> m.mode]
    BY DEF ModemState
  <2> HIDE DEF e, n
  <2>3. n = [running |-> Append(m.running, e), mode |-> m.mode]
    BY <2>1, <2>2
  <2>4. Append(<< >>, e) = << e >>
    OBVIOUS
  <2>5. QED  BY <2>3, <2>4
<1> HIDE DEF y, n
<1>4. Running(y, n)
  BY <1>1, <1>2, <1>3 DEF Running
<1>5. AnswersFor(y, a) /\ AnswersFor(y, b) /\ ~HasPrompt(a) /\ ~HasPrompt(b)
  BY DEF AnswersFor, HasPrompt
<1>6. n.running # << >>
  BY <1>3
<1>7. InStep(y, n, a, b)
  BY <1>1, <1>2, <1>3, <1>4, <1>5, <1>6 DEF InStep
<1>8. QED  BY <1>7 DEF y, n

LEMMA RunInStep ==
  ASSUME NEW x, QueueOK(x), NEW ok \in BOOLEAN, NEW m \in ModemState, NEW a, NEW b,
         InStep(x, m, a, b)
  PROVE  InStep(AtQueueRun(x, ok), AfterWrite(x, ok, m), a, b)
<1>1. CASE ~MustWrite(x)
  BY <1>1 DEF AtQueueRun, AfterWrite
<1>2. CASE MustWrite(x)
  <2>1. Quiet(m, a, b) /\ NonEmpty(x) /\ HeadCmd(x) # "SMSTEXT"
    BY <1>2, UnsentQuiet DEF MustWrite, HeadSent
  <2>2. CASE ok = TRUE
    BY <1>2, <2>1, <2>2, WrittenInStep DEF Quiet
  <2>3. CASE ok = FALSE
    <3> DEFINE y == AtQueueRemoveCmd(x, "unwritten")
    <3>1. AtQueueRun(x, ok) = y /\ AfterWrite(x, ok, m) = m
      BY <1>2, <2>3 DEF AtQueueRun, AfterWrite
    <3>2. NonEmpty(y) => HeadCmd(y) # "SMSTEXT"
      BY <2>1, NoTextUnasked
    <3> HIDE DEF y
    <3>3. QED  BY <2>1, <3>1, <3>2, QuietInStep
  <2>4. QED  BY <2>2, <2>3
<1>3. QED  BY <1>1, <1>2


-----------------------------------------------------------------------------
(* The steps of the monitor, the other threads and the modem.                *)
LEMMA DisconnectSync ==
  ASSUME ModemForgets, IInv, Disconnect
  PROVE  SyncInv'
<1>1. q' = EmptyQueue
  BY FlushEmpties DEF IInv, Disconnect
<1>2. modem' = IdleModem /\ tty' = << >> /\ inbuf' = << >>
  BY DEF Disconnect
<1>3. Quiet(IdleModem, << >>, << >>)
  BY FinalNone DEF Quiet, IdleModem
<1>4. ~NonEmpty(EmptyQueue)
  BY DEF NonEmpty, EmptyQueue
<1>5. InStep(EmptyQueue, IdleModem, << >>, << >>)
  BY <1>3, <1>4, QuietInStep
<1>6. NoSms(EmptyQueue)
  BY EmptySeq DEF NoSms, EmptyQueue
<1>7. QED  BY <1>1, <1>2, <1>5, <1>6 DEF SyncInv, Disconnect

LEMMA FinishSync ==
  ASSUME ModemForgets, IInv, mpc = "handle", NEW x, QueueOK(x), NEW m \in ModemState,
         InStep(x, m, tty, Tail(inbuf)), NEW init, NEW ok \in BOOLEAN, Finish(x, m, init, ok)
  PROVE  SyncInv'
<1>1. CASE RunFails(x, ok)
  BY <1>1, DisconnectSync DEF Finish
<1>2. CASE ~RunFails(x, ok)
  <2>1. /\ q' = AtQueueRun(x, ok) /\ modem' = AfterWrite(x, ok, m)
        /\ inbuf' = Tail(inbuf) /\ tty' = tty
        /\ mpc' = IF Tail(inbuf) = << >> THEN "top" ELSE "handle"
    BY <1>2 DEF Finish, SetQueue
  <2>2. InStep(q', modem', tty', inbuf')
    BY <2>1, RunInStep
  <2>3. QED  BY <2>1, <2>2 DEF SyncInv
<1>3. QED  BY <1>1, <1>2

(* An answer in hand is the one to the written head; nothing else is under   *)
(* way, and the modem waits for a text exactly if it is the prompt.          *)
LEMMA AnswerInHand ==
  ASSUME IInv, SyncInv, mpc = "handle", Result1 # "URC"
  PROVE  /\ modem.running = << >> /\ Final(tty) = {} /\ Final(Tail(inbuf)) = {}
         /\ modem.mode \in {"command", "text"} /\ (modem.mode = "text" <=> Result1 = "PROMPT")
         /\ HeadSent(q) /\ NonEmpty(q)
         /\ Head(inbuf).for = HeadRef(q) /\ Result1 \in Answers(HeadCmd(q))
         /\ Final(inbuf) # {}
<1>1. inbuf \in Seq(Message) /\ inbuf # << >> /\ modem.mode \in {"command", "text"}
  BY DEF IInv, TypeOK, ModemState
<1>2. InStep(q, modem, tty, inbuf)
  BY DEF SyncInv
<1>3. /\ Final(Tail(inbuf)) = {} /\ Final(inbuf) # {} /\ HeadSent(q)
      /\ Head(inbuf).for = HeadRef(q) /\ Result1 \in Answers(HeadCmd(q))
      /\ HasPrompt(inbuf) <=> Result1 = "PROMPT"
  BY <1>1, <1>2, AnswersTail DEF InStep, Result1
<1>4. modem.running = << >> /\ Final(tty) = {}
  BY <1>2, <1>3 DEF InStep
<1>5. ~HasPrompt(tty)
  BY <1>4 DEF HasPrompt
<1>6. modem.mode = "text" <=> Result1 = "PROMPT"
  BY <1>2, <1>3, <1>4, <1>5 DEF InStep
<1>7. QED  BY <1>1, <1>3, <1>4, <1>6 DEF HeadSent

LEMMA RemovedInStep ==
  ASSUME NEW x, QueueOK(x), NonEmpty(x), NEW res, res # "PROMPT",
         NEW m, NEW a, NEW b, Quiet(m, a, b)
  PROVE  InStep(AtQueueRemoveCmd(x, res), m, a, b)
<1> DEFINE y == AtQueueRemoveCmd(x, res)
<1>1. NonEmpty(y) => HeadCmd(y) # "SMSTEXT"
  BY NoTextUnasked
<1> HIDE DEF y
<1>2. QED  BY <1>1, QuietInStep DEF y

(* Between two results of one read, the first of them not an answer.         *)
LEMMA UrcInHand ==
  ASSUME IInv, SyncInv, mpc = "handle", Result1 = "URC"
  PROVE  /\ InStep(q, modem, tty, Tail(inbuf))
         /\ Final(Tail(inbuf)) = {} <=> Final(inbuf) = {}
<1>1. inbuf \in Seq(Message) /\ inbuf # << >> /\ InStep(q, modem, tty, inbuf)
  BY DEF IInv, TypeOK, SyncInv
<1>2. /\ AnswersFor(q, Tail(inbuf)) /\ (HasPrompt(Tail(inbuf)) <=> HasPrompt(inbuf))
      /\ Final(Tail(inbuf)) = {} <=> Final(inbuf) = {}
  BY <1>1, AnswersTail DEF InStep, Result1
<1>3. QED  BY <1>1, <1>2 DEF InStep


(* Every answer a command can have is one at_response takes for it.          *)
LEMMA AnswersTaken ==
  ASSUME NEW c
  PROVE  /\ "OK" \in Answers(c) => Expect(c) \in {"OK", "CMGR"}
         /\ "PROMPT" \in Answers(c) => c = "CMGS" /\ Expect(c) = "PROMPT"
         /\ "CMGR" \in Answers(c) => Expect(c) = "CMGR" \/ c = "USER"
         /\ "URC" \notin Answers(c)
  BY DEF Answers, Expect

LEMMA HandleSync ==
  ASSUME ModemForgets, IInv, SyncInv,
         HandleOk \/ HandleError \/ HandlePrompt \/ HandleCmgr \/ HandleUrc
  PROVE  SyncInv'
<1>0. /\ QueueOK(q) /\ modem \in ModemState /\ initialized \in BOOLEAN /\ mpc = "handle"
      /\ WriteOutcome \subseteq BOOLEAN
      /\ \A res : QueueOK(AtQueueRemoveCmd(q, res))
  BY WriteOutcomeType, RemoveCmdKeepsOK
  DEF IInv, TypeOK, HandleOk, HandleError, HandlePrompt, HandleCmgr, HandleUrc
<1>1. CASE HandleOk
  <2>1. Result1 = "OK"
    BY <1>1 DEF HandleOk
  <2>2. NonEmpty(q) /\ "OK" \in Answers(HeadCmd(q)) /\ Quiet(modem, tty, Tail(inbuf))
    BY <1>0, <2>1, AnswerInHand DEF Quiet
  <2>3. Expect(HeadCmd(q)) \in {"OK", "CMGR"}
    BY <2>2, AnswersTaken
  <2>4. PICK ok \in WriteOutcome, init \in BOOLEAN :
          Finish(AtQueueRemoveCmd(q, "OK"), modem, init, ok)
    <3> DEFINE i0 == initialized \/ HeadCmd(q) \in {"CNMI", "DDSETEX"}
    <3>1. \E ok \in WriteOutcome : Finish(AtQueueRemoveCmd(q, "OK"), modem, i0, ok)
      BY <1>1, <2>2, <2>3 DEF HandleOk
    <3>2. i0 \in BOOLEAN
      BY <1>0
    <3> HIDE DEF i0
    <3>3. QED  BY <3>1, <3>2
  <2>5. InStep(AtQueueRemoveCmd(q, "OK"), modem, tty, Tail(inbuf))
    BY <1>0, <2>2, RemovedInStep
  <2>6. QED  BY <1>0, <2>4, <2>5, FinishSync
<1>2. CASE HandleError
  <2>1. Result1 = "ERROR"
    BY <1>2 DEF HandleError
  <2>2. NonEmpty(q) /\ Quiet(modem, tty, Tail(inbuf))
    BY <1>0, <2>1, AnswerInHand DEF Quiet
  <2>3. CASE ErrorIsFatal
    BY <1>2, <2>3, DisconnectSync DEF HandleError
  <2>4. CASE ~ErrorIsFatal /\ HeadCmd(q) = "CVOICE" /\ ~initialized
    <3>1. PICK ok \in WriteOutcome, id \in TaskIds :
            /\ Fresh(id)
            /\ Finish(AtQueueRemoveCmd(AtQueueAdd(q, id, "noVoice"), "ERROR"),
                      modem, initialized, ok)
      BY <1>2, <2>2, <2>4 DEF HandleError
    <3> DEFINE x == AtQueueAdd(q, id, "noVoice")
    <3>2. QueueOK(x) /\ NonEmpty(x)
      BY <1>0, <3>1, AddKeepsOK DEF Fresh, Kind
    <3>3. Finish(AtQueueRemoveCmd(x, "ERROR"), modem, initialized, ok)
      BY <3>1
    <3> HIDE DEF x
    <3>4. QueueOK(AtQueueRemoveCmd(x, "ERROR"))
      BY <3>2, RemoveCmdKeepsOK
    <3>5. InStep(AtQueueRemoveCmd(x, "ERROR"), modem, tty, Tail(inbuf))
      BY <2>2, <3>2, RemovedInStep
    <3>6. QED  BY <1>0, <3>3, <3>4, <3>5, FinishSync
  <2>5. CASE ~ErrorIsFatal /\ ~(HeadCmd(q) = "CVOICE" /\ ~initialized)
    <3>1. PICK ok \in WriteOutcome :
            Finish(AtQueueRemoveCmd(q, "ERROR"), modem, initialized, ok)
      BY <1>2, <2>5 DEF HandleError
    <3>2. InStep(AtQueueRemoveCmd(q, "ERROR"), modem, tty, Tail(inbuf))
      BY <1>0, <2>2, RemovedInStep
    <3>3. QED  BY <1>0, <3>1, <3>2, FinishSync
  <2>6. QED  BY <2>3, <2>4, <2>5
<1>3. CASE HandlePrompt
  <2>1. Result1 = "PROMPT"
    BY <1>3 DEF HandlePrompt
  <2>2. /\ NonEmpty(q) /\ "PROMPT" \in Answers(HeadCmd(q)) /\ modem.running = << >>
        /\ Final(tty) = {} /\ Final(Tail(inbuf)) = {} /\ modem.mode = "text"
    BY <1>0, <2>1, AnswerInHand
  <2>3. HeadCmd(q) = "CMGS" /\ Expect(HeadCmd(q)) = "PROMPT"
    BY <2>2, AnswersTaken
  <2> DEFINE x == AtQueueRemoveCmd(q, "PROMPT")
  <2>4. PICK ok \in WriteOutcome : Finish(x, modem, initialized, ok)
    BY <1>3, <2>2, <2>3 DEF HandlePrompt
  <2>5. QueueOK(x) /\ MustWrite(x) /\ HeadCmd(x) = "SMSTEXT"
    BY <1>0, <2>2, <2>3, TextAfterPrompt
  <2> HIDE DEF x
  <2>6. CASE ok = FALSE
    <3>1. Disconnect
      BY <2>4, <2>5, <2>6 DEF Finish, RunFails
    <3>2. QED  BY <3>1, DisconnectSync
  <2>7. CASE ok = TRUE
    <3>1. /\ q' = AtQueueRun(x, TRUE) /\ modem' = AfterWrite(x, TRUE, modem)
          /\ inbuf' = Tail(inbuf) /\ tty' = tty
          /\ mpc' = IF Tail(inbuf) = << >> THEN "top" ELSE "handle"
      BY <2>4, <2>5, <2>7 DEF Finish, RunFails, SetQueue
    <3>2. InStep(AtQueueRun(x, TRUE), AfterWrite(x, TRUE, modem), tty, Tail(inbuf))
      BY <1>0, <2>2, <2>5, WrittenInStep
    <3>3. QED  BY <3>1, <3>2 DEF SyncInv
  <2>8. QED  BY <1>0, <2>4, <2>6, <2>7
<1>4. CASE HandleCmgr
  <2>1. Result1 = "CMGR"
    BY <1>4 DEF HandleCmgr
  <2>2. NonEmpty(q) /\ "CMGR" \in Answers(HeadCmd(q)) /\ Quiet(modem, tty, Tail(inbuf))
    BY <1>0, <2>1, AnswerInHand DEF Quiet
  <2>3. Expect(HeadCmd(q)) = "CMGR" \/ HeadCmd(q) = "USER"
    BY <2>2, AnswersTaken
  <2>4. PICK ok \in WriteOutcome :
          Finish(AtQueueRemoveCmd(q, "CMGR"), modem, initialized, ok)
    BY <1>4, <2>2, <2>3 DEF HandleCmgr
  <2>5. InStep(AtQueueRemoveCmd(q, "CMGR"), modem, tty, Tail(inbuf))
    BY <1>0, <2>2, RemovedInStep
  <2>6. QED  BY <1>0, <2>4, <2>5, FinishSync
<1>5. CASE HandleUrc
  <2>1. InStep(q, modem, tty, Tail(inbuf))
    BY <1>0, <1>5, UrcInHand DEF HandleUrc
  <2>2. CASE \E ok \in WriteOutcome : Finish(q, modem, initialized, ok)
    BY <1>0, <2>1, <2>2, FinishSync
  <2>3. CASE \E k \in UrcKinds, id \in TaskIds, ok1, ok2 \in WriteOutcome :
               /\ Fresh(id)
               /\ LET x == AtQueueAdd(q, id, k)
                  IN  IF k = "retrieve" /\ RunFails(x, ok1) THEN Disconnect
                      ELSE Finish(AtQueueRun(x, ok1), AfterWrite(x, ok1, modem),
                                  initialized, ok2)
    <3>1. PICK k \in UrcKinds, id \in TaskIds, ok1 \in WriteOutcome, ok2 \in WriteOutcome :
            /\ Fresh(id)
            /\ LET x == AtQueueAdd(q, id, k)
               IN  IF k = "retrieve" /\ RunFails(x, ok1) THEN Disconnect
                   ELSE Finish(AtQueueRun(x, ok1), AfterWrite(x, ok1, modem),
                               initialized, ok2)
      BY <2>3
    <3> DEFINE x == AtQueueAdd(q, id, k)
    <3>2. QueueOK(x) /\ InStep(x, modem, tty, Tail(inbuf))
      BY <1>0, <2>1, <3>1, AddKeepsOK, AddInStep, KindsAssumption DEF Fresh
    <3>3. CASE k = "retrieve" /\ RunFails(x, ok1)
      BY <3>1, <3>3, DisconnectSync
    <3>4. CASE ~(k = "retrieve" /\ RunFails(x, ok1))
      <4>1. Finish(AtQueueRun(x, ok1), AfterWrite(x, ok1, modem), initialized, ok2)
        BY <3>1, <3>4
      <4> HIDE DEF x
      <4>2. /\ QueueOK(AtQueueRun(x, ok1)) /\ AfterWrite(x, ok1, modem) \in ModemState
            /\ InStep(AtQueueRun(x, ok1), AfterWrite(x, ok1, modem), tty, Tail(inbuf))
        BY <1>0, <3>2, RunKeepsOK, AfterWriteType, RunInStep
      <4>3. QED  BY <1>0, <4>1, <4>2, FinishSync
    <3>5. QED  BY <3>3, <3>4
  <2>4. QED  BY <1>5, <2>2, <2>3 DEF HandleUrc
<1>6. QED  BY <1>1, <1>2, <1>3, <1>4, <1>5

(* A task queued and run at once, by the monitor or by another thread.       *)
LEMMA AddRunInStep ==
  ASSUME IInv, NEW id \in TaskIds, Fresh(id), NEW k \in Kind, NEW ok \in WriteOutcome,
         NEW a, NEW b, InStep(q, modem, a, b)
  PROVE  LET x == AtQueueAdd(q, id, k)
         IN  InStep(AtQueueRun(x, ok), AfterWrite(x, ok, modem), a, b)
<1> DEFINE x == AtQueueAdd(q, id, k)
<1>1. QueueOK(x) /\ InStep(x, modem, a, b) /\ ok \in BOOLEAN
  BY AddKeepsOK, AddInStep, WriteOutcomeType DEF IInv, TypeOK, Fresh
<1> HIDE DEF x
<1>2. InStep(AtQueueRun(x, ok), AfterWrite(x, ok, modem), a, b)
  BY <1>1, RunInStep DEF IInv, TypeOK
<1>3. QED  BY <1>2 DEF x


LEMMA SyncInit == Init => SyncInv
<1>1. SUFFICES ASSUME Init PROVE SyncInv
  OBVIOUS
<1>2. Quiet(IdleModem, << >>, << >>) /\ ~NonEmpty(EmptyQueue) /\ NoSms(EmptyQueue)
  BY FinalNone, EmptySeq DEF Quiet, IdleModem, NonEmpty, NoSms, EmptyQueue
<1>3. InStep(EmptyQueue, IdleModem, << >>, << >>)
  BY <1>2, QuietInStep
<1>4. QED  BY <1>1, <1>2, <1>3 DEF Init, SyncInv

LEMMA MonitorSync ==
  ASSUME ModemForgets, IInv, SyncInv, MonitorNext
  PROVE  SyncInv'
<1>0. InStep(q, modem, tty, inbuf) /\ modem \in ModemState /\ QueueOK(q)
  BY DEF SyncInv, IInv, TypeOK
<1>1. CASE MonitorStart
  <2>1. PICK id \in TaskIds, ok \in WriteOutcome :
          /\ Fresh(id)
          /\ LET x == AtQueueAdd(q, id, "init")
             IN  IF RunFails(x, ok) THEN Disconnect
                 ELSE /\ SetQueue(AtQueueRun(x, ok), AfterWrite(x, ok, modem))
                      /\ mpc' = "top" /\ tty' = << >>
                      /\ UNCHANGED << initialized, armed, inbuf, urcs >>
    BY <1>1 DEF MonitorStart
  <2> DEFINE x == AtQueueAdd(q, id, "init")
  <2>2. CASE RunFails(x, ok)
    BY <2>1, <2>2, DisconnectSync
  <2>3. CASE ~RunFails(x, ok)
    <3>1. /\ q' = AtQueueRun(x, ok) /\ modem' = AfterWrite(x, ok, modem)
          /\ mpc' = "top" /\ tty' = << >> /\ inbuf' = inbuf
      BY <2>1, <2>3 DEF SetQueue
    <3>2. inbuf = << >> /\ NoSms(q)
      BY <1>1 DEF MonitorStart, SyncInv
    <3>3. InStep(q, modem, << >>, inbuf)
      <4>1. ~HasPrompt(tty) /\ ~HasPrompt(inbuf)
        <5>1. "PROMPT" \notin Answers(HeadCmd(q)) \/ ~NonEmpty(q)
          BY <3>2, NoSmsHead, AnswersTaken
        <5>2. QED  BY <1>0, <5>1 DEF InStep, AnswersFor, HasPrompt, HeadSent
      <4>2. ~HasPrompt(<< >>) /\ AnswersFor(q, << >>)
        BY FinalNone DEF HasPrompt, AnswersFor
      <4>3. QED  BY <1>0, <3>2, <4>1, <4>2, FinalNone DEF InStep
    <3> HIDE DEF x
    <3>4. InStep(q', modem', tty', inbuf')
      BY <2>1, <3>1, <3>3, AddRunInStep DEF Kind, x
    <3>5. QED  BY <3>1, <3>2, <3>4 DEF SyncInv
  <2>4. QED  BY <2>2, <2>3
<1>2. CASE MonitorTop
  BY <1>0, <1>2, DisconnectSync DEF MonitorTop, SyncInv
<1>3. CASE MonitorRead
  <2>1. inbuf = << >>
    BY <1>3 DEF MonitorRead, SyncInv
  <2>2. InStep(q, modem, << >>, tty)
    BY <1>0, <2>1, FinalNone DEF InStep
  <2>3. QED  BY <1>3, <2>1, <2>2, DisconnectSync DEF MonitorRead, SyncInv
<1>4. CASE MonitorWaitOver
  BY <1>0, <1>4 DEF MonitorWaitOver, SyncInv
<1>5. CASE MonitorTimedOut
  BY <1>5, DisconnectSync DEF MonitorTimedOut
<1>6. CASE MonitorPing
  <2>1. PICK id \in TaskIds, ok \in WriteOutcome :
          /\ Fresh(id)
          /\ q' = AtQueueRun(AtQueueAdd(q, id, "ping"), ok)
          /\ modem' = AfterWrite(AtQueueAdd(q, id, "ping"), ok, modem)
          /\ mpc' = "top" /\ inbuf' = inbuf /\ tty' = tty
    BY <1>6 DEF MonitorPing, SetQueue
  <2>2. inbuf = << >>
    BY <1>6 DEF MonitorPing, SyncInv
  <2>3. InStep(q', modem', tty, inbuf)
    BY <1>0, <2>1, AddRunInStep DEF Kind
  <2>4. QED  BY <2>1, <2>2, <2>3 DEF SyncInv
<1>7. CASE HandleOk \/ HandleError \/ HandlePrompt \/ HandleCmgr \/ HandleUrc
  BY <1>7, HandleSync
<1>8. QED  BY <1>1, <1>2, <1>3, <1>4, <1>5, <1>6, <1>7 DEF MonitorNext

LEMMA InsertSync ==
  ASSUME IInv, SyncInv, NEW k \in Kinds, Insert(k)
  PROVE  SyncInv'
<1>1. PICK id \in TaskIds, ok \in WriteOutcome :
        /\ Fresh(id)
        /\ q' = AtQueueRun(AtQueueAdd(q, id, k), ok)
        /\ modem' = AfterWrite(AtQueueAdd(q, id, k), ok, modem)
  BY DEF Insert, SetQueue
<1>2. /\ UNCHANGED << mpc, initialized, inbuf, tty >> /\ mpc # "off" /\ k \in Kind
      /\ initialized \/ k \in {"reset", "user"}
  BY KindsAssumption DEF Insert
<1>3. InStep(q', modem', tty, inbuf)
  BY <1>1, <1>2, AddRunInStep DEF SyncInv
<1>4. mpc = "start" => ~initialized /\ NoSms(q')
  <2>1. HAVE mpc = "start"
  <2>2. NoSms(q) /\ ~initialized /\ k # "sms"
    BY <1>2, <2>1 DEF SyncInv
  <2>3. QueueOK(AtQueueAdd(q, id, k)) /\ ok \in BOOLEAN
    BY <1>1, <1>2, AddKeepsOK, WriteOutcomeType DEF IInv, Fresh
  <2>4. NoSms(AtQueueAdd(q, id, k))
    BY <1>2, <2>2, AddNoSms
  <2>5. NoSms(q')
    BY <1>1, <2>3, <2>4, RunNoSms
  <2>6. QED  BY <2>2, <2>5
<1>5. QED  BY <1>2, <1>3, <1>4 DEF SyncInv

LEMMA ModemSync ==
  ASSUME IInv, SyncInv, ModemAnswers \/ ModemTells
  PROVE  SyncInv'
<1>0. InStep(q, modem, tty, inbuf) /\ tty \in Seq(Message)
  BY DEF SyncInv, IInv, TypeOK
<1>1. CASE ModemAnswers
  <2> DEFINE c == Head(modem.running)
  <2>1. PICK r \in Answers(c.cmd) :
          /\ modem' = [running |-> Tail(modem.running),
                       mode    |-> IF r = "PROMPT" THEN "text" ELSE "command"]
          /\ tty' = IF mpc = "off" THEN tty ELSE Append(tty, [res |-> r, for |-> c.for])
    BY <1>1 DEF ModemAnswers
  <2>2. modem.running # << >> /\ UNCHANGED << q, initialized, mpc, inbuf >>
    BY <1>1 DEF ModemAnswers
  <2>3. mpc # "off"
    BY <2>2 DEF SyncInv, IdleModem
  <2>4. /\ modem.running \in Seq([for : CmdRef, cmd : Cmd]) /\ Len(modem.running) \in Nat \ {0}
        /\ c \in [for : CmdRef, cmd : Cmd] /\ c = modem.running[1] /\ 1 \in DOMAIN modem.running
        /\ Tail(modem.running) \in Seq([for : CmdRef, cmd : Cmd])
        /\ Len(Tail(modem.running)) = Len(modem.running) - 1
    <3> DEFINE w == modem.running
               W == [for : CmdRef, cmd : Cmd]
    <3>1. w \in Seq(W) /\ w # << >>
      BY <2>2 DEF IInv, TypeOK, ModemState
    <3> HIDE DEF w, W
    <3>2. Len(w) \in Nat \ {0} /\ DOMAIN w = 1..Len(w)
      BY <3>1, EmptySeq, LenProperties
    <3>3. Head(w) \in W /\ Tail(w) \in Seq(W) /\ Len(Tail(w)) = Len(w) - 1 /\ Head(w) = w[1]
      BY <3>1, HeadTailProperties
    <3>4. 1 \in DOMAIN w
      BY <3>2
    <3>5. QED  BY <3>1, <3>2, <3>3, <3>4 DEF w, W
  <2>5. HeadSent(q) /\ c.for = HeadRef(q) /\ c.cmd = HeadCmd(q)
    BY <1>0, <2>4 DEF InStep, Running
  <2>6. Tail(modem.running) = << >>
    <3>1. Len(modem.running) <= 1
      BY <1>0 DEF InStep, Running
    <3>2. Len(Tail(modem.running)) = 0
      <4> DEFINE n == Len(modem.running)
      <4>1. n \in Nat \ {0} /\ n <= 1 /\ Len(Tail(modem.running)) = n - 1
        BY <2>4, <3>1
      <4> HIDE DEF n
      <4>2. n - 1 = 0
        BY <4>1
      <4>3. QED  BY <4>1, <4>2
    <3>3. Tail(modem.running) \in Seq([for : CmdRef, cmd : Cmd])
      BY <2>4
    <3>4. QED  BY <3>2, <3>3, EmptySeq
  <2> DEFINE e == [res |-> r, for |-> HeadRef(q)]
  <2>7. e \in Message /\ e.res = r /\ e.for = HeadRef(q) /\ r # "URC" /\ r \in Answers(HeadCmd(q))
    <3>1. r \in Result /\ r # "URC"
      BY <2>1 DEF Answers, Result
    <3>2. c.for \in CmdRef
      BY <2>4
    <3>3. QED  BY <2>1, <2>5, <3>1, <3>2 DEF Message
  <2>8. tty' = Append(tty, e) /\ modem'.running = << >>
        /\ (modem'.mode = "text" <=> r = "PROMPT")
    BY <2>1, <2>3, <2>5, <2>6
  <2> HIDE DEF c, e
  <2>9. /\ Final(tty) = {} /\ Final(inbuf) = {}
        /\ NonEmpty(q) /\ HeadCmd(q) = "SMSTEXT" => HeadSent(q)
    BY <1>0, <2>2 DEF InStep
  <2>10. \A i \in Final(tty') : i = Len(tty)+1 /\ tty'[i] = e
    BY <1>0, <2>7, <2>8, <2>9, FinalAppend
  <2>11. Len(tty)+1 \in Final(tty') /\ tty'[Len(tty)+1] = e
    BY <1>0, <2>7, <2>8, FinalAppend
  <2>12. AnswersFor(q, tty')
    BY <2>5, <2>7, <2>10 DEF AnswersFor
  <2>13. HasPrompt(tty') <=> r = "PROMPT"
    BY <2>7, <2>10, <2>11 DEF HasPrompt
  <2>14. AnswersFor(q, inbuf) /\ ~HasPrompt(inbuf)
    BY <2>9 DEF AnswersFor, HasPrompt
  <2>15. Running(q, modem')
    <3>1. DOMAIN modem'.running = {} /\ Len(modem'.running) = 0
      BY <2>8
    <3>2. QED  BY <3>1 DEF Running
  <2>16. InStep(q, modem', tty', inbuf)
    BY <2>8, <2>9, <2>12, <2>13, <2>14, <2>15 DEF InStep
  <2>17. QED  BY <2>2, <2>3, <2>16 DEF SyncInv
<1>2. CASE ModemTells
  <2>1. /\ tty' = Append(tty, [res |-> "URC", for |-> NoRef]) /\ mpc # "off"
        /\ UNCHANGED << q, initialized, mpc, inbuf, modem >>
    BY <1>2 DEF ModemTells
  <2>2. /\ Final(tty') = Final(tty) /\ (HasPrompt(tty') <=> HasPrompt(tty))
        /\ AnswersFor(q, tty) => AnswersFor(q, tty')
    <3> DEFINE u == Append(tty, [res |-> "URC", for |-> NoRef])
    <3>1. /\ Final(u) = Final(tty) /\ (HasPrompt(u) <=> HasPrompt(tty))
          /\ AnswersFor(q, tty) => AnswersFor(q, u)
      BY <1>0, UrcAppended
    <3> HIDE DEF u
    <3>2. QED  BY <2>1, <3>1, Zenon DEF u
  <2>3. InStep(q, modem, tty', inbuf)
    BY <1>0, <2>2 DEF InStep
  <2>4. QED  BY <2>1, <2>3 DEF SyncInv
<1>3. QED  BY <1>1, <1>2

LEMMA SyncStep ==
  ASSUME ModemForgets
  PROVE  IInv /\ SyncInv /\ [Next]_vars => SyncInv'
<1> SUFFICES ASSUME IInv, SyncInv, [Next]_vars PROVE SyncInv'
  OBVIOUS
<1>1. CASE Connect
  BY <1>1 DEF Connect, SyncInv
<1>2. CASE MonitorNext
  BY <1>2, MonitorSync
<1>3. CASE \E k \in Kinds : Insert(k)
  BY <1>3, InsertSync
<1>4. CASE Expire
  BY <1>4 DEF Expire, SyncInv
<1>5. CASE ModemAnswers \/ ModemTells
  BY <1>5, ModemSync
<1>6. CASE UNCHANGED vars
  BY <1>6 DEF vars, SyncInv
<1>7. QED  BY <1>1, <1>2, <1>3, <1>4, <1>5, <1>6 DEF Next

THEOREM SyncHolds == ASSUME ModemForgets PROVE Spec => []SyncInv
<1>1. IInv /\ SyncInv /\ [Next]_vars => SyncInv'
  BY SyncStep
<1>2. QED  BY <1>1, SyncInit, InvHolds, PTL DEF Spec

(* With a modem that abandons its command when the port is closed, every     *)
(* answer the monitor handles or has before it is that of the head command,  *)
(* in whatever order results, insertions, timeouts and losses come.          *)
THEOREM AnswersAreInStep == ASSUME ModemForgets PROVE Spec => []AnswersInStep
<1>1. IInv /\ SyncInv => AnswersInStep
  <2>1. SUFFICES ASSUME IInv, SyncInv PROVE AnswersInStep
    OBVIOUS
  <2>2. InStep(q, modem, tty, inbuf)
    BY <2>1 DEF SyncInv
  <2>3. QED  BY <2>2 DEF InStep, Running, AnswersFor, AnswersInStep
<1>2. QED  BY <1>1, InvHolds, SyncHolds, PTL

(* Under the same assumption the text of an SMS meets a modem at its prompt, *)
(* and only it does.                                                         *)
THEOREM TextMeetsItsPrompt == ASSUME ModemForgets PROVE Spec => []TextMeetsPrompt
<1>1. IInv /\ SyncInv => TextMeetsPrompt
  <2>1. SUFFICES ASSUME IInv, SyncInv PROVE TextMeetsPrompt
    OBVIOUS
  <2>2. InStep(q, modem, tty, inbuf)
    BY <2>1 DEF SyncInv
  <2>3. \A s : AnswersFor(q, s) /\ HasPrompt(s) => HeadSent(q) /\ HeadCmd(q) = "CMGS"
    BY AnswersTaken DEF AnswersFor, HasPrompt
  <2>4. modem.running # << >> => HeadSent(q)
    <3>1. HAVE modem.running # << >>
    <3>2. modem.running \in Seq([for : CmdRef, cmd : Cmd])
      BY <2>1 DEF IInv, TypeOK, ModemState
    <3>3. 1 \in DOMAIN modem.running
      BY <3>1, <3>2, EmptySeq, LenProperties
    <3>4. QED  BY <2>2, <3>3 DEF InStep, Running
  <2>5. modem.mode = "text" => NonEmpty(q) /\ HeadCmd(q) \in {"CMGS", "SMSTEXT"}
    BY <2>2, <2>3, <2>4 DEF InStep, HeadSent
  <2>6. ASSUME NEW i \in DOMAIN modem.running
        PROVE  modem.running[i].cmd = "SMSTEXT" <=> modem.mode = "text"
    <3>1. modem.running[i].cmd = HeadCmd(q)
      BY <2>2 DEF InStep, Running
    <3>2. modem.running # << >>
      BY EmptySeq
    <3>3. ~HasPrompt(tty) /\ ~HasPrompt(inbuf)
      BY <2>2, <3>2 DEF InStep, HasPrompt
    <3>4. QED  BY <2>2, <3>1, <3>2, <3>3 DEF InStep
  <2>7. QED  BY <2>5, <2>6 DEF TextMeetsPrompt
<1>2. QED  BY <1>1, InvHolds, SyncHolds, PTL


-----------------------------------------------------------------------------
(* What any step does to the line, unless it ends the connection.  The head  *)
(* of the queue stays, goes on to a later command, or is over.               *)
Moved(x, y) ==
  \/ ~NonEmpty(x)
  \/ SameHead(x, y) /\ (HeadSent(x) => HeadSent(y))
  \/ /\ NonEmpty(y) /\ Head(y.tasks).id = Head(x.tasks).id
     /\ Head(y.tasks).idx > Head(x.tasks).idx
  \/ Head(x.tasks).id \notin Queued(y)

Serves ==
  /\ Moved(q, q')
  /\ HeadSent(q) /\ SameHead(q, q') /\ Outstanding' => Outstanding
  /\ HeadSent(q') => Outstanding' \/ (HeadSent(q) /\ SameHead(q, q'))
  /\ HeadSent(q) => \/ SameHead(q, q') /\ HeadSent(q')
                    \/ mpc = "handle" /\ Result1 # "URC"

LEMMA RemovedMoved ==
  ASSUME NEW x, QueueOK(x), NonEmpty(x), NEW res
  PROVE  ~HeadSent(AtQueueRemoveCmd(x, res)) /\ Moved(x, AtQueueRemoveCmd(x, res))
<1> DEFINE y == AtQueueRemoveCmd(x, res)
<1>1. ~HeadSent(y) /\ (HeadAdvanced(x, y) \/ HeadOver(x, y))
  BY RemoveCmdHead
<1>2. Head(x.tasks).idx \in Nat
  BY QueueFields, TaskType
<1> HIDE DEF y
<1>3. Moved(x, y)
  BY <1>1, <1>2 DEF HeadAdvanced, HeadOver, Moved
<1>4. QED  BY <1>1, <1>3 DEF y

(* A run that does not fail leaves the queue as it is or writes its head.    *)
LEMMA RunWrites ==
  ASSUME NEW x, QueueOK(x), NEW m \in ModemState, NEW ok \in BOOLEAN, ~RunFails(x, ok)
  PROVE  LET y == AtQueueRun(x, ok)
             n == AfterWrite(x, ok, m)
         IN  \/ y = x /\ n = m /\ (NonEmpty(x) => HeadSent(x))
             \/ /\ ~HeadSent(x) /\ SameHead(x, y) /\ HeadSent(y) /\ Queued(y) = Queued(x)
                /\ n.running # << >>
<1> DEFINE y == AtQueueRun(x, ok)
           n == AfterWrite(x, ok, m)
<1>1. CASE ~MustWrite(x)
  <2>1. y = x /\ n = m
    BY <1>1 DEF AtQueueRun, AfterWrite
  <2>2. NonEmpty(x) => HeadSent(x)
    BY <1>1 DEF MustWrite, HeadSent
  <2>3. QED  BY <2>1, <2>2
<1>2. CASE MustWrite(x)
  <2>1. ok = TRUE /\ ~HeadSent(x)
    BY <1>2 DEF RunFails, MustWrite, HeadSent
  <2>2. SameHead(x, y) /\ HeadSent(y) /\ Queued(y) = Queued(x)
    BY <1>2, <2>1, RunHead
  <2>3. n.running # << >>
    <3> DEFINE e == [for |-> HeadRef(x), cmd |-> HeadCmd(x)]
    <3>1. n = [m EXCEPT !.running = Append(@, e)]
      BY <1>2, <2>1 DEF AfterWrite, Written
    <3>2. m = [running |-> m.running, mode |-> m.mode] /\ m.running \in Seq([for : CmdRef, cmd : Cmd])
      BY DEF ModemState
    <3>3. e \in [for : CmdRef, cmd : Cmd]
      BY <1>2, HeadRefType DEF MustWrite
    <3> HIDE DEF e, n
    <3>4. n.running = Append(m.running, e)
      BY <3>1, <3>2
    <3>5. Append(m.running, e) # << >>
      <4>1. Len(Append(m.running, e)) = Len(m.running) + 1 /\ Len(m.running) \in Nat
        BY <3>2, <3>3, AppendProperties, LenProperties
      <4>2. Len(Append(m.running, e)) # 0
        BY <4>1
      <4>3. QED  BY <4>2, EmptySeq
    <3>6. QED  BY <3>4, <3>5
  <2>4. QED  BY <2>1, <2>2, <2>3
<1>3. QED  BY <1>1, <1>2

LEMMA ThenSameHead ==
  ASSUME NEW x, NEW y, NEW z, Moved(x, y), ~HeadSent(x) \/ ~SameHead(x, y),
         SameHead(y, z), Queued(z) = Queued(y)
  PROVE  Moved(x, z)
  BY DEF Moved, SameHead

(* A task queued and run at once.                                            *)
LEMMA AddRunMoved ==
  ASSUME IInv, NEW id \in TaskIds, Fresh(id), NEW k \in Kind, NEW ok \in WriteOutcome
  PROVE  LET x == AtQueueAdd(q, id, k)
             y == AtQueueRun(x, ok)
             n == AfterWrite(x, ok, modem)
         IN  /\ QueueOK(y) /\ n \in ModemState
             /\ Moved(q, y)
             /\ HeadSent(q) => SameHead(q, y) /\ HeadSent(y) /\ n = modem
             /\ HeadSent(y) => HeadSent(q) \/ n.running # << >>
<1> DEFINE x == AtQueueAdd(q, id, k)
           y == AtQueueRun(x, ok)
           n == AfterWrite(x, ok, modem)
<1>1. /\ QueueOK(q) /\ QueueOK(x) /\ NonEmpty(x) /\ QueueOK(y) /\ n \in ModemState
      /\ modem \in ModemState /\ ok \in BOOLEAN /\ id \notin Queued(q)
  BY AddKeepsOK, AddRunKeeps, WriteOutcomeType DEF IInv, TypeOK, Fresh
<1>2. /\ NonEmpty(q) => Head(x.tasks) = Head(q.tasks)
      /\ ~NonEmpty(q) => ~Head(x.tasks).sent
  <2>1. NewTask(id, k).sent = FALSE
    BY DEF NewTask
  <2>2. QED  BY <1>1, <2>1, AddHead
<1> HIDE DEF x
<1>3. HeadSent(x) <=> HeadSent(q)
  BY <1>1, <1>2 DEF HeadSent
<1>4. CASE RunFails(x, ok)
  <2>1. MustWrite(x) /\ y = AtQueueRemoveCmd(x, "unwritten") /\ ~HeadSent(q)
    BY <1>3, <1>4, <1>1, RunHead DEF RunFails, MustWrite, HeadSent
  <2>2. ~HeadSent(y) /\ Moved(x, y)
    BY <1>1, <2>1, RemovedMoved
  <2>3. Moved(q, y)
    BY <1>1, <1>2, <1>3, <2>1, <2>2 DEF Moved, SameHead
  <2>4. QED  BY <1>1, <2>1, <2>2, <2>3 DEF x
<1>5. CASE ~RunFails(x, ok)
  <2>1. \/ y = x /\ n = modem /\ HeadSent(x)
        \/ ~HeadSent(x) /\ SameHead(x, y) /\ HeadSent(y) /\ n.running # << >>
    BY <1>1, <1>5, RunWrites
  <2> HIDE DEF y, n
  <2>2. NonEmpty(q) => SameHead(q, y)
    BY <1>1, <1>2, <2>1 DEF SameHead
  <2>3. HeadSent(q) => SameHead(q, y) /\ HeadSent(y) /\ n = modem
    BY <1>3, <2>1, <2>2 DEF HeadSent
  <2>4. Moved(q, y)
    BY <2>2, <2>3 DEF Moved
  <2>5. HeadSent(y) => HeadSent(q) \/ n.running # << >>
    BY <1>3, <2>1
  <2>6. QED  BY <1>1, <2>3, <2>4, <2>5 DEF x, y, n
<1>6. QED  BY <1>4, <1>5


(* Finish runs the queue x that at_response left, with the modem as m.       *)
LEMMA FinishServes ==
  ASSUME IInv, SyncInv, mpc = "handle", NEW x, QueueOK(x), NEW m \in ModemState,
         NEW init, NEW ok \in BOOLEAN, Finish(x, m, init, ok),
         Moved(q, x),
         HeadSent(q) => (SameHead(q, x) /\ m = modem) \/ Result1 # "URC",
         HeadSent(x) => Result1 = "URC" /\ (HeadSent(q) \/ m.running # << >>)
  PROVE  Disconnect \/ Serves
<1>1. CASE RunFails(x, ok)
  BY <1>1 DEF Finish
<1>2. CASE ~RunFails(x, ok)
  <2> DEFINE y == AtQueueRun(x, ok)
             n == AfterWrite(x, ok, m)
  <2>1. q' = y /\ modem' = n /\ inbuf' = Tail(inbuf) /\ tty' = tty
    BY <1>2 DEF Finish, SetQueue
  <2>2. \/ y = x /\ n = m /\ (NonEmpty(x) => HeadSent(x))
        \/ /\ ~HeadSent(x) /\ SameHead(x, y) /\ HeadSent(y) /\ Queued(y) = Queued(x)
           /\ n.running # << >>
    BY <1>2, RunWrites
  <2> HIDE DEF y, n
  <2>3. Result1 # "URC" => Outstanding
    BY AnswerInHand DEF Outstanding
  <2>4. Result1 = "URC" => (Final(Tail(inbuf)) = {} <=> Final(inbuf) = {})
    BY UrcInHand
  <2>5. CASE y = x /\ n = m /\ (NonEmpty(x) => HeadSent(x))
    <3>1. Moved(q, q')
      BY <2>1, <2>5
    <3>2. HeadSent(q) /\ SameHead(q, q') /\ Outstanding' => Outstanding
      <4>1. CASE Result1 = "URC" /\ HeadSent(q)
        <5>1. modem' = modem
          BY <2>1, <2>5, <4>1
        <5>2. QED  BY <2>1, <2>4, <4>1, <5>1 DEF Outstanding
      <4>2. QED  BY <2>3, <4>1
    <3>3. HeadSent(q') => Outstanding' \/ (HeadSent(q) /\ SameHead(q, q'))
      BY <2>1, <2>5 DEF Outstanding
    <3>4. HeadSent(q) => \/ SameHead(q, q') /\ HeadSent(q')
                         \/ mpc = "handle" /\ Result1 # "URC"
      BY <2>1, <2>5 DEF SameHead
    <3>5. QED  BY <3>1, <3>2, <3>3, <3>4 DEF Serves
  <2>6. CASE /\ ~HeadSent(x) /\ SameHead(x, y) /\ HeadSent(y) /\ Queued(y) = Queued(x)
             /\ n.running # << >>
    <3>1. HeadSent(q) => ~SameHead(q, x)
      <4>1. SUFFICES ASSUME HeadSent(q), SameHead(q, x) PROVE FALSE
        OBVIOUS
      <4>2. Head(q.tasks).idx \in Nat /\ Head(x.tasks).id \in Queued(x)
        BY <4>1, QueueFields, TaskType, HeadQueued DEF IInv, SameHead
      <4>3. QED  BY <2>6, <4>1, <4>2 DEF Moved, SameHead, HeadSent
    <3>2. Moved(q, q')
      <4>1. CASE ~HeadSent(q) \/ ~SameHead(q, x)
        BY <2>1, <2>6, <4>1, ThenSameHead
      <4>2. CASE HeadSent(q) /\ SameHead(q, x)
        BY <2>1, <2>6, <4>2 DEF Moved, SameHead
      <4>3. QED  BY <4>1, <4>2
    <3>3. Outstanding'
      BY <2>1, <2>6 DEF Outstanding
    <3>4. HeadSent(q) => Result1 # "URC"
      <4>1. HAVE HeadSent(q)
      <4>2. CASE SameHead(q, x)
        BY <3>1, <4>1, <4>2
      <4>3. CASE ~SameHead(q, x)
        BY <4>1, <4>3
      <4>4. QED  BY <4>2, <4>3
    <3>5. QED  BY <2>3, <3>2, <3>3, <3>4 DEF Serves
  <2>7. QED  BY <2>2, <2>5, <2>6
<1>3. QED  BY <1>1, <1>2

(* An answer removes the head command, of q or of q with a task behind.      *)
LEMMA AnswerServes ==
  ASSUME IInv, SyncInv, mpc = "handle", Result1 # "URC",
         NEW x, QueueOK(x), NonEmpty(x), Head(x.tasks) = Head(q.tasks),
         NEW res, NEW init, NEW ok \in BOOLEAN, Finish(AtQueueRemoveCmd(x, res), modem, init, ok)
  PROVE  Disconnect \/ Serves
<1> DEFINE y == AtQueueRemoveCmd(x, res)
<1>1. QueueOK(y) /\ ~HeadSent(y) /\ Moved(x, y)
  BY RemovedMoved, RemoveCmdKeepsOK
<1> HIDE DEF y
<1>2. Moved(q, y)
  BY <1>1 DEF Moved, SameHead, HeadSent
<1>3. Finish(y, modem, init, ok) /\ modem \in ModemState
  BY DEF y, IInv, TypeOK
<1>4. QED  BY <1>1, <1>2, <1>3, FinishServes

LEMMA HandleServes ==
  ASSUME IInv, SyncInv, HandleOk \/ HandleError \/ HandlePrompt \/ HandleCmgr \/ HandleUrc
  PROVE  Disconnect \/ Serves
<1>0. /\ QueueOK(q) /\ modem \in ModemState /\ mpc = "handle" /\ WriteOutcome \subseteq BOOLEAN
  BY WriteOutcomeType
  DEF IInv, TypeOK, HandleOk, HandleError, HandlePrompt, HandleCmgr, HandleUrc
<1>1. CASE HandleOk
  <2>1. Result1 = "OK"
    BY <1>1 DEF HandleOk
  <2>2. NonEmpty(q) /\ Expect(HeadCmd(q)) \in {"OK", "CMGR"}
    BY <1>0, <2>1, AnswerInHand, AnswersTaken
  <2>3. \E init : \E ok \in WriteOutcome :
          Finish(AtQueueRemoveCmd(q, "OK"), modem, init, ok)
    BY <1>1, <2>2 DEF HandleOk
  <2>4. QED  BY <1>0, <2>1, <2>2, <2>3, AnswerServes
<1>2. CASE HandleError
  <2>1. Result1 = "ERROR"
    BY <1>2 DEF HandleError
  <2>2. NonEmpty(q)
    BY <1>0, <2>1, AnswerInHand
  <2>3. CASE ErrorIsFatal
    BY <1>2, <2>3 DEF HandleError
  <2>4. CASE ~ErrorIsFatal /\ HeadCmd(q) = "CVOICE" /\ ~initialized
    <3>1. PICK ok \in WriteOutcome, id \in TaskIds :
            /\ Fresh(id)
            /\ Finish(AtQueueRemoveCmd(AtQueueAdd(q, id, "noVoice"), "ERROR"),
                      modem, initialized, ok)
      BY <1>2, <2>2, <2>4 DEF HandleError
    <3> DEFINE x == AtQueueAdd(q, id, "noVoice")
    <3>2. QueueOK(x) /\ NonEmpty(x) /\ Head(x.tasks) = Head(q.tasks)
      BY <1>0, <2>2, <3>1, AddKeepsOK DEF Fresh, Kind
    <3>3. Finish(AtQueueRemoveCmd(x, "ERROR"), modem, initialized, ok)
      BY <3>1
    <3> HIDE DEF x
    <3>4. QED  BY <1>0, <2>1, <3>2, <3>3, AnswerServes
  <2>5. CASE ~ErrorIsFatal /\ ~(HeadCmd(q) = "CVOICE" /\ ~initialized)
    <3>1. PICK ok \in WriteOutcome :
            Finish(AtQueueRemoveCmd(q, "ERROR"), modem, initialized, ok)
      BY <1>2, <2>5 DEF HandleError
    <3>2. QED  BY <1>0, <2>1, <2>2, <3>1, AnswerServes
  <2>6. QED  BY <2>3, <2>4, <2>5
<1>3. CASE HandlePrompt
  <2>1. Result1 = "PROMPT"
    BY <1>3 DEF HandlePrompt
  <2>2. NonEmpty(q) /\ Expect(HeadCmd(q)) = "PROMPT"
    BY <1>0, <2>1, AnswerInHand, AnswersTaken
  <2>3. PICK ok \in WriteOutcome :
          Finish(AtQueueRemoveCmd(q, "PROMPT"), modem, initialized, ok)
    BY <1>3, <2>2 DEF HandlePrompt
  <2>4. QED  BY <1>0, <2>1, <2>2, <2>3, AnswerServes
<1>4. CASE HandleCmgr
  <2>1. Result1 = "CMGR"
    BY <1>4 DEF HandleCmgr
  <2>2. NonEmpty(q) /\ (Expect(HeadCmd(q)) = "CMGR" \/ HeadCmd(q) = "USER")
    BY <1>0, <2>1, AnswerInHand, AnswersTaken
  <2>3. PICK ok \in WriteOutcome :
          Finish(AtQueueRemoveCmd(q, "CMGR"), modem, initialized, ok)
    BY <1>4, <2>2 DEF HandleCmgr
  <2>4. QED  BY <1>0, <2>1, <2>2, <2>3, AnswerServes
<1>5. CASE HandleUrc
  <2>1. Result1 = "URC"
    BY <1>5 DEF HandleUrc
  <2>2. Moved(q, q) /\ (HeadSent(q) => SameHead(q, q))
    BY DEF Moved, SameHead, HeadSent
  <2>3. CASE \E ok \in WriteOutcome : Finish(q, modem, initialized, ok)
    BY <1>0, <2>1, <2>2, <2>3, FinishServes
  <2>4. CASE \E k \in UrcKinds, id \in TaskIds, ok1, ok2 \in WriteOutcome :
               /\ Fresh(id)
               /\ LET x == AtQueueAdd(q, id, k)
                  IN  IF k = "retrieve" /\ RunFails(x, ok1) THEN Disconnect
                      ELSE Finish(AtQueueRun(x, ok1), AfterWrite(x, ok1, modem),
                                  initialized, ok2)
    <3>1. PICK k \in UrcKinds, id \in TaskIds, ok1 \in WriteOutcome, ok2 \in WriteOutcome :
            /\ Fresh(id)
            /\ LET x == AtQueueAdd(q, id, k)
               IN  IF k = "retrieve" /\ RunFails(x, ok1) THEN Disconnect
                   ELSE Finish(AtQueueRun(x, ok1), AfterWrite(x, ok1, modem),
                               initialized, ok2)
      BY <2>4
    <3> DEFINE y == AtQueueRun(AtQueueAdd(q, id, k), ok1)
               n == AfterWrite(AtQueueAdd(q, id, k), ok1, modem)
    <3>2. Disconnect \/ Finish(y, n, initialized, ok2)
      BY <3>1
    <3>3. /\ QueueOK(y) /\ n \in ModemState /\ Moved(q, y)
          /\ HeadSent(q) => SameHead(q, y) /\ HeadSent(y) /\ n = modem
          /\ HeadSent(y) => HeadSent(q) \/ n.running # << >>
      BY <3>1, AddRunMoved, KindsAssumption
    <3> HIDE DEF y, n
    <3>4. QED  BY <1>0, <2>1, <3>1, <3>2, <3>3, FinishServes
  <2>5. QED  BY <1>5, <2>3, <2>4 DEF HandleUrc
<1>6. QED  BY <1>1, <1>2, <1>3, <1>4, <1>5


LEMMA IdleServes ==
  ASSUME UNCHANGED q, HeadSent(q) /\ Outstanding' => Outstanding
  PROVE  Serves
<1>1. NonEmpty(q) => SameHead(q, q)
  BY DEF SameHead
<1>2. HeadSent(q) => NonEmpty(q)
  BY DEF HeadSent
<1>3. QED  BY <1>1, <1>2 DEF Serves, Moved

LEMMA StepServes ==
  ASSUME IInv, SyncInv, Next
  PROVE  Disconnect \/ Serves
<1>0. tty \in Seq(Message)
  BY DEF IInv, TypeOK
<1>1. CASE Connect
  BY <1>1, IdleServes DEF Connect, Outstanding
<1>2. CASE MonitorStart
  <2>1. PICK id \in TaskIds, ok \in WriteOutcome :
          /\ Fresh(id)
          /\ \/ Disconnect
             \/ /\ q' = AtQueueRun(AtQueueAdd(q, id, "init"), ok)
                /\ modem' = AfterWrite(AtQueueAdd(q, id, "init"), ok, modem)
                /\ tty' = << >> /\ inbuf' = inbuf
    BY <1>2 DEF MonitorStart, SetQueue
  <2>2. CASE ~Disconnect
    <3>1. /\ Moved(q, q')
          /\ HeadSent(q) => SameHead(q, q') /\ HeadSent(q') /\ modem' = modem
          /\ HeadSent(q') => HeadSent(q) \/ modem'.running # << >>
      BY <2>1, <2>2, AddRunMoved DEF Kind
    <3>2. Final(tty') = {} /\ inbuf' = inbuf
      BY <2>1, <2>2, FinalNone
    <3>3. QED  BY <3>1, <3>2 DEF Serves, Outstanding
  <2>3. QED  BY <2>2
<1>3. CASE MonitorTop
  BY <1>3, IdleServes DEF MonitorTop, Outstanding
<1>4. CASE MonitorRead
  <2>1. CASE ~Disconnect
    <3>1. q' = q /\ inbuf' = tty /\ tty' = << >> /\ modem' = modem
      BY <1>4, <2>1 DEF MonitorRead
    <3>2. Outstanding' => Outstanding
      BY <3>1, FinalNone DEF Outstanding
    <3>3. QED  BY <3>1, <3>2, IdleServes
  <2>2. QED  BY <2>1
<1>5. CASE MonitorWaitOver
  BY <1>5, IdleServes DEF MonitorWaitOver, Outstanding
<1>6. CASE MonitorTimedOut
  BY <1>6 DEF MonitorTimedOut
<1>7. CASE MonitorPing \/ \E k \in Kinds : Insert(k)
  <2>1. PICK k \in Kind, id \in TaskIds, ok \in WriteOutcome :
          /\ Fresh(id)
          /\ q' = AtQueueRun(AtQueueAdd(q, id, k), ok)
          /\ modem' = AfterWrite(AtQueueAdd(q, id, k), ok, modem)
          /\ tty' = tty /\ inbuf' = inbuf
    <3>1. CASE MonitorPing
      BY <3>1 DEF MonitorPing, SetQueue, Kind
    <3>2. ASSUME NEW k \in Kinds, Insert(k)
          PROVE  \E id \in TaskIds, ok \in WriteOutcome :
                   /\ Fresh(id)
                   /\ q' = AtQueueRun(AtQueueAdd(q, id, k), ok)
                   /\ modem' = AfterWrite(AtQueueAdd(q, id, k), ok, modem)
                   /\ tty' = tty /\ inbuf' = inbuf
      BY <3>2 DEF Insert, SetQueue
    <3>3. Kinds \subseteq Kind
      BY KindsAssumption
    <3>4. QED  BY <1>7, <3>1, <3>2, <3>3
  <2>2. /\ Moved(q, q')
        /\ HeadSent(q) => SameHead(q, q') /\ HeadSent(q') /\ modem' = modem
        /\ HeadSent(q') => HeadSent(q) \/ modem'.running # << >>
    BY <2>1, AddRunMoved
  <2>3. QED  BY <2>1, <2>2 DEF Serves, Outstanding
<1>8. CASE HandleOk \/ HandleError \/ HandlePrompt \/ HandleCmgr \/ HandleUrc
  BY <1>8, HandleServes
<1>9. CASE Expire
  BY <1>9, IdleServes DEF Expire, Outstanding
<1>10. CASE ModemAnswers
  BY <1>10, IdleServes DEF ModemAnswers, Outstanding
<1>11. CASE ModemTells
  <2>1. tty' = Append(tty, [res |-> "URC", for |-> NoRef]) /\ UNCHANGED << q, inbuf, modem >>
    BY <1>11 DEF ModemTells
  <2>2. Final(tty') = Final(tty)
    <3> DEFINE u == Append(tty, [res |-> "URC", for |-> NoRef])
    <3>1. Final(u) = Final(tty)
      BY <1>0, UrcAppended
    <3> HIDE DEF u
    <3>2. QED  BY <2>1, <3>1, Zenon DEF u
  <2>3. QED  BY <2>1, <2>2, IdleServes DEF Outstanding
<1>12. QED
  BY <1>1, <1>2, <1>3, <1>4, <1>5, <1>6, <1>7, <1>8, <1>9, <1>10, <1>11
  DEF Next, MonitorNext

(* A written command leaves the head of the queue only with its own answer   *)
(* in the monitor's hands, or with the connection: neither an unsolicited    *)
(* result nor another thread's insertion ever ends it.                       *)
THEOREM NoneDroppedUnanswered == ASSUME ModemForgets PROVE Spec => NothingDroppedUnanswered
<1> DEFINE Kept ==
      HeadSent(q) /\ ~(HeadSent(q') /\ HeadRef(q') = HeadRef(q))
        => \/ mpc' = "off"
           \/ mpc = "handle" /\ Head(inbuf).res # "URC" /\ Head(inbuf).for = HeadRef(q)
<1>1. IInv /\ SyncInv /\ [Next]_vars => [Kept]_vars
  <2>1. SUFFICES ASSUME IInv, SyncInv, Next PROVE Kept
    OBVIOUS
  <2>2. CASE Disconnect
    BY <2>2 DEF Disconnect
  <2>3. CASE Serves
    <3>1. SameHead(q, q') /\ HeadSent(q') => HeadRef(q') = HeadRef(q)
      BY DEF SameHead, HeadRef
    <3>2. mpc = "handle" /\ Result1 # "URC" => Head(inbuf).for = HeadRef(q)
      BY <2>1, AnswerInHand
    <3>3. QED  BY <2>3, <3>1, <3>2 DEF Serves, Result1
  <2>4. QED  BY <2>1, <2>2, <2>3, StepServes
<1>2. QED  BY <1>1, InvHolds, SyncHolds, PTL DEF Spec, NothingDroppedUnanswered

-----------------------------------------------------------------------------
(* The refinement.  What is on the line belongs to the written head.         *)
LEMMA OutstandingIsHead ==
  ASSUME NEW x, NEW m \in ModemState, NEW a, NEW b, InStep(x, m, a, b),
         m.running # << >> \/ Final(a) # {} \/ Final(b) # {}
  PROVE  HeadSent(x)
<1>1. ~HeadSent(x) => Quiet(m, a, b)
  BY UnsentQuiet
<1>2. QED  BY <1>1 DEF Quiet

LEMMA BegunFacts ==
  ASSUME NEW x, QueueOK(x)
  PROVE  /\ HeadSent(x) => NonEmpty(x) /\ Head(x.tasks).sent
         /\ HeadRef(x) # NoRef
         /\ HeadRef(x)[1] = Head(x.tasks).id /\ HeadRef(x)[2] = Head(x.tasks).idx
         /\ NonEmpty(x) => Head(x.tasks).id \in Queued(x) /\ Head(x.tasks).idx \in Nat \ {0}
         /\ Queued(x) \subseteq TaskIds
<1>1. NonEmpty(x) => Head(x.tasks).id \in Queued(x) /\ Head(x.tasks).idx \in Nat \ {0}
  BY HeadQueued, QueueFields, TaskType
<1>2. Queued(x) \subseteq TaskIds
  <2>1. \A i \in 1..Len(x.tasks) : x.tasks[i] \in Task
    BY QueueFields, ElementOfSeq
  <2>2. QED  BY <2>1, TaskType DEF Queued
<1>3. QED  BY <1>1, <1>2 DEF HeadSent, HeadRef, NoRef

LEMMA ServesLine ==
  ASSUME IInv, IInv', SyncInv, SyncInv', Serves
  PROVE  Line!Next
<1> DEFINE c == IF Begun THEN HeadRef(q) ELSE NoRef
           l == IF Outstanding THEN "busy" ELSE IF HeadSent(q) THEN "lost" ELSE "free"
           h == Head(q.tasks)
           g == Head(q.tasks)'
<1>1. /\ HeadSent(q) <=> NonEmpty(q) /\ h.sent
      /\ Begun <=> NonEmpty(q) /\ (h.idx > 1 \/ h.sent)
      /\ HeadRef(q) # NoRef /\ HeadRef(q)[1] = h.id /\ HeadRef(q)[2] = h.idx
      /\ NonEmpty(q) => h.id \in Queued(q) /\ h.idx \in Nat \ {0}
  BY BegunFacts DEF IInv, HeadSent, Begun
<1>2. /\ HeadSent(q)' <=> NonEmpty(q)' /\ g.sent
      /\ Begun' <=> NonEmpty(q)' /\ (g.idx > 1 \/ g.sent)
      /\ HeadRef(q)' # NoRef /\ HeadRef(q)'[1] = g.id /\ HeadRef(q)'[2] = g.idx
      /\ NonEmpty(q)' => g.id \in Queued(q)' /\ g.idx \in Nat \ {0}
      /\ Queued(q)' \subseteq TaskIds
  BY BegunFacts DEF IInv, HeadSent, Begun
<1>3. (Outstanding => HeadSent(q)) /\ (Outstanding' => HeadSent(q)')
  BY OutstandingIsHead DEF IInv, TypeOK, SyncInv, Outstanding
<1>4. /\ HeadSent(q) /\ SameHead(q, q') /\ Outstanding' => Outstanding
      /\ HeadSent(q)' => Outstanding' \/ (HeadSent(q) /\ SameHead(q, q'))
      /\ HeadSent(q) => (SameHead(q, q') /\ HeadSent(q)') \/ Outstanding
      /\ SameHead(q, q') => /\ NonEmpty(q) /\ NonEmpty(q)'
                            /\ g.id = h.id /\ g.idx = h.idx
  BY AnswerInHand DEF Serves, Outstanding, SameHead
<1>5. /\ c = (IF Begun THEN HeadRef(q) ELSE NoRef)
      /\ c' = (IF Begun' THEN HeadRef(q)' ELSE NoRef)
      /\ l = (IF Outstanding THEN "busy" ELSE IF HeadSent(q) THEN "lost" ELSE "free")
      /\ l' = (IF Outstanding' THEN "busy" ELSE IF HeadSent(q)' THEN "lost" ELSE "free")
      /\ Queued(q)' \in SUBSET TaskIds
  BY <1>2
<1>6. CASE ~NonEmpty(q) \/ Head(q.tasks).id \notin Queued(q)'
  BY <1>1, <1>2, <1>3, <1>4, <1>6 DEF Line!Next, Line!Switch, Line!NoTask, NoRef
<1>7. CASE SameHead(q, q') /\ (HeadSent(q) => HeadSent(q)')
  <2>1. CASE HeadSent(q)
    BY <1>1, <1>2, <1>3, <1>4, <1>7, <2>1
    DEF Line!Next, Line!Hold, Line!Lose, Line!NoTask, NoRef, HeadRef
  <2>2. CASE ~HeadSent(q) /\ HeadSent(q)'
    BY <1>1, <1>2, <1>3, <1>4, <1>7, <2>2
    DEF Line!Next, Line!Switch, Line!GoOn, Line!NoTask, NoRef, HeadRef
  <2>3. CASE ~HeadSent(q) /\ ~HeadSent(q)'
    BY <1>1, <1>2, <1>3, <1>4, <1>7, <2>3 DEF Line!Next, Line!Hold, Line!NoTask, NoRef, HeadRef
  <2>4. QED  BY <1>7, <2>1, <2>2, <2>3
<1>8. CASE NonEmpty(q) /\ NonEmpty(q)' /\ g.id = h.id /\ g.idx > h.idx
  <2>1. ~SameHead(q, q')
    BY <1>1, <1>4, <1>8
  <2>2. g.idx > 1
    BY <1>1, <1>2, <1>8
  <2>3. QED
    BY <1>1, <1>2, <1>3, <1>4, <1>8, <2>1, <2>2
    DEF Line!Next, Line!GoOn, Line!Switch, Line!NoTask, NoRef
<1>9. QED  BY <1>6, <1>7, <1>8 DEF Serves, Moved

LEMMA ResetLine ==
  ASSUME ModemForgets, IInv, Disconnect
  PROVE  Line!Next
<1>1. q' = EmptyQueue
  BY FlushEmpties DEF IInv, Disconnect
<1>2. /\ modem' = IdleModem /\ tty' = << >> /\ inbuf' = << >>
  BY DEF Disconnect
<1>3. ~Outstanding'
  BY <1>2, FinalNone DEF Outstanding, IdleModem
<1>4. Len(<< >>) = 0
  OBVIOUS
<1>5. Queued(q)' = {} /\ ~Begun' /\ ~HeadSent(q)'
  BY <1>1, <1>4 DEF EmptyQueue, Queued, Begun, HeadSent, NonEmpty
<1>6. QED  BY <1>3, <1>5 DEF Line!Next, Line!Reset, Line!NoTask, NoRef

(* The queue serves its tasks one after the other, as SerialLine has it: of  *)
(* all that the threads have queued one task at a time is under way, command *)
(* after answer, and no other begins before it is over.                      *)
THEOREM ServiceIsSerial == ASSUME ModemForgets PROVE Spec => SerialService
<1>1. Init => Line!Init
  <2>1. SUFFICES ASSUME Init PROVE Line!Init
    OBVIOUS
  <2>2. q = EmptyQueue /\ modem = IdleModem /\ tty = << >> /\ inbuf = << >>
    BY <2>1 DEF Init
  <2>3. ~Outstanding
    BY <2>2, FinalNone DEF Outstanding, IdleModem
  <2>4. Len(<< >>) = 0
    OBVIOUS
  <2>5. Queued(q) = {} /\ ~Begun /\ ~HeadSent(q)
    BY <2>2, <2>4 DEF EmptyQueue, Queued, Begun, HeadSent, NonEmpty
  <2>6. QED  BY <2>3, <2>5 DEF Line!Init, Line!NoTask, NoRef
<1>2. IInv /\ IInv' /\ SyncInv /\ SyncInv' /\ [Next]_vars => [Line!Next]_(Line!vars)
  <2>1. SUFFICES ASSUME IInv, IInv', SyncInv, SyncInv', [Next]_vars, ~UNCHANGED Line!vars
                 PROVE  Line!Next
    OBVIOUS
  <2>2. CASE Next
    BY <2>1, <2>2, StepServes, ServesLine, ResetLine
  <2>3. CASE UNCHANGED vars
    <3>1. UNCHANGED Line!vars
      BY <2>3 DEF vars, Line!vars, Begun, Outstanding, HeadSent, NonEmpty, HeadRef, Queued
    <3>2. QED  BY <2>1, <3>1
  <2>4. QED  BY <2>1, <2>2, <2>3
<1>3. QED  BY <1>1, <1>2, InvHolds, SyncHolds, PTL DEF Spec, SerialService, Line!Spec

-----------------------------------------------------------------------------
(* The ring buffer as a text.                                                *)

(* The slot of the i-th character in the ring, and the text they make.  *)
Cell(r, i) == IF r.read + i > Size THEN r.read + i - 1 - Size ELSE r.read + i - 1
Held(r)    == [i \in 1..r.used |-> r.buffer[Cell(r, i)]]

(* write follows from read and used; only free slots are blank.  *)
RingOK(r) ==
  /\ r \in [buffer : [Slot -> Char \cup {Blank}], used : 0..Size, read : Slot, write : 0..Size]
  /\ r.write = IF r.read + r.used > Size THEN r.read + r.used - Size ELSE r.read + r.used
  /\ \A i \in 1..r.used : r.buffer[Cell(r, i)] \in Char

LEMMA RingFields ==
  ASSUME NEW r, RingOK(r)
  PROVE  /\ r.buffer \in [Slot -> Char \cup {Blank}] /\ r.used \in 0..Size /\ r.read \in Slot
         /\ r.write \in 0..Size /\ Size \in Nat \ {0} /\ RbFree(r) = Size - r.used
  BY RingBufferAssumption DEF RingOK, RbFree

LEMMA CellInSlot ==
  ASSUME NEW r, RingOK(r), NEW i \in 1..Size
  PROVE  Cell(r, i) \in Slot
  BY RingFields DEF Cell, Slot

LEMMA HeldText ==
  ASSUME NEW r, RingOK(r)
  PROVE  /\ Held(r) \in Seq(Char) /\ Len(Held(r)) = r.used
         /\ \A i \in 1..r.used : Held(r)[i] = r.buffer[Cell(r, i)]
<1>1. r.used \in Nat
  BY RingFields
<1>2. \A i \in 1..r.used : r.buffer[Cell(r, i)] \in Char
  BY DEF RingOK
<1>3. QED  BY <1>1, <1>2 DEF Held

(* rb_read_n_iov points at the first n characters, in two pieces.  *)
LEMMA Pieces ==
  ASSUME NEW r, RingOK(r), NEW n \in 0..r.used
  PROVE  LET iov == RbReadN(r, n)
         IN  /\ iov[1] \in Seq(Char) /\ iov[2] \in Seq(Char)
             /\ Len(iov[1]) + Len(iov[2]) = n
             /\ \A i \in 1..Len(iov[1]) : iov[1][i] = Held(r)[i]
             /\ \A i \in 1..Len(iov[2]) : iov[2][i] = Held(r)[Len(iov[1]) + i]
<1> DEFINE k == IF r.read + n > Size THEN Size - r.read ELSE n
           h == IF r.read + n > Size THEN r.read + n - Size ELSE 0
           tail == [i \in 1..k |-> r.buffer[r.read + i - 1]]
           head == [i \in 1..h |-> r.buffer[i - 1]]
<1>1. /\ r.used \in 0..Size /\ r.read \in 0..(Size - 1) /\ Size \in Nat \ {0}
  BY RingFields DEF Slot
<1>2. k \in Nat /\ h \in Nat /\ k + h = n /\ r.read + k <= Size
  BY <1>1
<1>3. \A i \in 1..k : i \in 1..r.used /\ Cell(r, i) = r.read + i - 1
  BY <1>1, <1>2 DEF Cell
<1>4. \A i \in 1..h : k + i \in 1..r.used /\ Cell(r, k + i) = i - 1
  BY <1>1, <1>2 DEF Cell
<1>5. RbReadN(r, n) = << tail, head >>
  BY DEF RbReadN, ToTheEnd, FromTheStart
<1> HIDE DEF k, h
<1>6. \A i \in 1..r.used : Held(r)[i] = r.buffer[Cell(r, i)] /\ r.buffer[Cell(r, i)] \in Char
  BY HeldText DEF RingOK
<1>7. tail \in Seq(Char) /\ Len(tail) = k /\ \A i \in 1..k : tail[i] = Held(r)[i]
  BY <1>2, <1>3, <1>6
<1>8. head \in Seq(Char) /\ Len(head) = h /\ \A i \in 1..h : head[i] = Held(r)[k + i]
  BY <1>2, <1>4, <1>6
<1> HIDE DEF tail, head
<1>9. /\ Len(tail) + Len(head) = n
      /\ \A i \in 1..Len(tail) : tail[i] = Held(r)[i]
      /\ \A i \in 1..Len(head) : head[i] = Held(r)[Len(tail) + i]
  BY <1>2, <1>7, <1>8
<1>10. RbReadN(r, n)[1] = tail /\ RbReadN(r, n)[2] = head
  BY <1>5
<1>11. QED  BY <1>7, <1>8, <1>9, <1>10

LEMMA ReadNText ==
  ASSUME NEW r, RingOK(r), NEW n \in 0..r.used
  PROVE  /\ Text(RbReadN(r, n)) \in Seq(Char) /\ Len(Text(RbReadN(r, n))) = n
         /\ \A i \in 1..n : Text(RbReadN(r, n))[i] = Held(r)[i]
<1> DEFINE a == RbReadN(r, n)[1]
           b == RbReadN(r, n)[2]
<1>1. /\ a \in Seq(Char) /\ b \in Seq(Char) /\ Len(a) + Len(b) = n
      /\ \A i \in 1..Len(a) : a[i] = Held(r)[i]
      /\ \A i \in 1..Len(b) : b[i] = Held(r)[Len(a) + i]
  BY Pieces
<1>2. Text(RbReadN(r, n)) = a \o b
  BY DEF Text
<1> HIDE DEF a, b
<1>3. /\ a \o b \in Seq(Char) /\ Len(a \o b) = n
      /\ \A i \in 1..n : (a \o b)[i] = IF i <= Len(a) THEN a[i] ELSE b[i - Len(a)]
  BY <1>1, ConcatProperties
<1>4. ASSUME NEW i \in 1..n
      PROVE  (a \o b)[i] = Held(r)[i]
  <2>1. Len(a) \in Nat /\ Len(b) \in Nat /\ i \in Nat
    BY <1>1, LenProperties, RingFields
  <2>2. CASE i <= Len(a)
    BY <1>1, <1>3, <2>1, <2>2
  <2>3. CASE i > Len(a)
    <3>1. i - Len(a) \in 1..Len(b) /\ Len(a) + (i - Len(a)) = i
      BY <1>1, <2>1, <2>3
    <3>2. b[i - Len(a)] = Held(r)[i]
      BY <1>1, <3>1
    <3>3. QED  BY <1>3, <2>1, <2>3, <3>2
  <2>4. i <= Len(a) \/ i > Len(a)
    BY <2>1
  <2>5. QED  BY <2>2, <2>3, <2>4, Zenon
<1>5. QED  BY <1>2, <1>3, <1>4

LEMMA ReadAllText ==
  ASSUME NEW r, RingOK(r)
  PROVE  Text(RbReadAll(r)) = Held(r)
<1>1. r.used \in Nat /\ r.used \in 0..r.used
  BY RingFields
<1>2. /\ Text(RbReadAll(r)) \in Seq(Char) /\ Len(Text(RbReadAll(r))) = r.used
      /\ \A i \in 1..r.used : Text(RbReadAll(r))[i] = Held(r)[i]
  BY <1>1, ReadNText DEF RbReadAll
<1>3. QED  BY <1>2, HeldText, SeqEqual

(* rb_memcmp compares with the start of the text.  *)
LEMMA StartsText ==
  ASSUME NEW r, RingOK(r), NEW mem \in Seq(Char)
  PROVE  RbStarts(r, mem) <=> /\ r.used >= Len(mem)
                              /\ \A i \in 1..Len(mem) : Held(r)[i] = mem[i]
<1>1. r.used \in Nat /\ Len(mem) \in Nat
  BY RingFields, LenProperties
<1>2. CASE r.used < Len(mem)
  <2>1. RbStarts(r, mem) => r.used >= Len(mem)
    BY DEF RbStarts
  <2>2. QED  BY <1>1, <1>2, <2>1
<1>3. CASE r.used >= Len(mem)
  <2> DEFINE a == RbReadN(r, Len(mem))[1]
             b == RbReadN(r, Len(mem))[2]
             s == SubSeq(mem, 1, Len(a))
             t == SubSeq(mem, Len(a) + 1, Len(mem))
  <2>1. /\ a \in Seq(Char) /\ b \in Seq(Char) /\ Len(a) + Len(b) = Len(mem)
        /\ \A i \in 1..Len(a) : a[i] = Held(r)[i]
        /\ \A i \in 1..Len(b) : b[i] = Held(r)[Len(a) + i]
    <3>1. Len(mem) \in 0..r.used
      BY <1>1, <1>3
    <3>2. QED  BY <3>1, Pieces
  <2>2. RbStarts(r, mem) <=> a = s /\ b = t
    BY <1>3 DEF RbStarts
  <2> HIDE DEF a, b
  <2>3. Len(a) \in Nat /\ Len(b) \in Nat
    BY <2>1, LenProperties
  <2>4. s \in Seq(Char) /\ Len(s) = Len(a) /\ \A i \in 1..Len(a) : s[i] = mem[i]
    <3>1. \A i \in 1..Len(a) : mem[i] \in Char
      BY <1>1, <2>1, <2>3, ElementOfSeq
    <3>2. QED  BY <2>3, <3>1, SubSeqProperties
  <2>5. t \in Seq(Char) /\ Len(t) = Len(b) /\ \A i \in 1..Len(b) : t[i] = mem[Len(a) + i]
    <3>1. \A i \in (Len(a) + 1)..Len(mem) : mem[i] \in Char
      BY <1>1, <2>1, <2>3, ElementOfSeq
    <3>2. /\ t \in Seq(Char)
          /\ Len(t) = IF Len(a) + 1 <= Len(mem) THEN Len(mem) - (Len(a) + 1) + 1 ELSE 0
          /\ \A i \in 1..(Len(mem) - (Len(a) + 1) + 1) : t[i] = mem[Len(a) + 1 + i - 1]
      BY <1>1, <2>3, <3>1, SubSeqProperties
    <3>3. QED  BY <1>1, <2>1, <2>3, <3>2
  <2> HIDE DEF s, t
  <2>6. a = s <=> \A i \in 1..Len(a) : Held(r)[i] = mem[i]
    <3>1. a = s <=> \A i \in 1..Len(a) : a[i] = s[i]
      BY <2>1, <2>4, SeqEqual
    <3>2. QED  BY <2>1, <2>4, <3>1
  <2>7. b = t <=> \A i \in 1..Len(b) : Held(r)[Len(a) + i] = mem[Len(a) + i]
    <3>1. b = t <=> \A i \in 1..Len(b) : b[i] = t[i]
      BY <2>1, <2>5, SeqEqual
    <3>2. QED  BY <2>1, <2>5, <3>1
  <2>8. (\A i \in 1..Len(b) : Held(r)[Len(a) + i] = mem[Len(a) + i])
          <=> \A i \in (Len(a) + 1)..Len(mem) : Held(r)[i] = mem[i]
    <3>1. ASSUME \A i \in 1..Len(b) : Held(r)[Len(a) + i] = mem[Len(a) + i],
                 NEW i \in (Len(a) + 1)..Len(mem)
          PROVE  Held(r)[i] = mem[i]
      <4>1. i - Len(a) \in 1..Len(b) /\ Len(a) + (i - Len(a)) = i
        BY <1>1, <2>1, <2>3
      <4>2. QED  BY <3>1, <4>1
    <3>2. ASSUME \A i \in (Len(a) + 1)..Len(mem) : Held(r)[i] = mem[i], NEW i \in 1..Len(b)
          PROVE  Held(r)[Len(a) + i] = mem[Len(a) + i]
      BY <1>1, <2>1, <2>3, <3>2, SMTT(30)
    <3>3. QED  BY <3>1, <3>2
  <2>9. (\A i \in 1..Len(mem) : Held(r)[i] = mem[i])
          <=> /\ \A i \in 1..Len(a) : Held(r)[i] = mem[i]
              /\ \A i \in (Len(a) + 1)..Len(mem) : Held(r)[i] = mem[i]
    <3>1. \A i \in 1..Len(mem) : i \in 1..Len(a) \/ i \in (Len(a) + 1)..Len(mem)
      BY <1>1, <2>3
    <3>2. /\ \A i \in 1..Len(a) : i \in 1..Len(mem)
          /\ \A i \in (Len(a) + 1)..Len(mem) : i \in 1..Len(mem)
      BY <1>1, <2>1, <2>3
    <3>3. QED  BY <3>1, <3>2, Zenon
  <2>10. QED  BY <1>3, <2>2, <2>6, <2>7, <2>8, <2>9
<1>4. QED  BY <1>1, <1>2, <1>3

-----------------------------------------------------------------------------
(* What is written and taken.                                                *)

LEMMA ModSize ==
  ASSUME NEW k \in Nat \ {0}, NEW x \in Int
  PROVE  /\ 0 <= x /\ x < k => x % k = x
         /\ -k <= x /\ x < 0 => x % k = x + k
<1>1. ASSUME 0 <= x, x < k PROVE x % k = x
  BY <1>1
<1>2. ASSUME -k <= x, x < 0 PROVE x % k = x + k
  BY <1>2
<1>3. QED  BY <1>1, <1>2

(* The slots that are written are not in use.  *)
LEMMA SlotInUse ==
  ASSUME NEW size \in Nat \ {0}, NEW from \in 0..(size - 1), NEW used \in 0..size,
         NEW n \in 0..(size - used), NEW i \in 1..used,
         NEW w, w = IF from + used > size THEN from + used - size ELSE from + used,
         NEW c, c = IF from + i > size THEN from + i - 1 - size ELSE from + i - 1
  PROVE  (IF c >= w THEN c - w + 1 ELSE c + size - w + 1) \notin 1..n
  OBVIOUS

(* What is read into the ring goes behind what it holds.  *)
LEMMA FillText ==
  ASSUME NEW r, RingOK(r), NEW bytes \in Seq(Char), Len(bytes) <= RbFree(r)
  PROVE  RingOK(RbFill(r, bytes)) /\ Held(RbFill(r, bytes)) = Held(r) \o bytes
<1> DEFINE n == Len(bytes)
           s == r.write + n
           w == IF s > Size THEN s - Size ELSE s
           At(p) == IF p >= r.write THEN p - r.write + 1 ELSE p + Size - r.write + 1
           buf == [p \in Slot |-> IF At(p) \in 1..n THEN bytes[At(p)] ELSE r.buffer[p]]
           f == RbFill(r, bytes)
<1>0. n \in 0..(Size - r.used)
  BY RingFields, LenProperties
<1>1. /\ r.used \in 0..Size /\ r.read \in 0..(Size - 1) /\ r.write \in 0..Size
      /\ Size \in Nat \ {0} /\ n \in Nat /\ n <= Size - r.used
      /\ r.buffer \in [Slot -> Char \cup {Blank}]
  BY RingFields, LenProperties DEF Slot
<1>2. f = [r EXCEPT !.used = r.used + n, !.write = w, !.buffer = buf]
  BY DEF RbFill
<1>3. /\ f.used = r.used + n /\ f.write = w /\ f.buffer = buf /\ f.read = r.read
      /\ f = [buffer |-> buf, used |-> r.used + n, read |-> r.read, write |-> w]
  BY <1>2 DEF RingOK
<1>4. r.write = IF r.read + r.used > Size THEN r.read + r.used - Size ELSE r.read + r.used
  BY DEF RingOK
<1>5. ASSUME NEW i \in 1..r.used
      PROVE  buf[Cell(r, i)] = r.buffer[Cell(r, i)]
  <2>1. Cell(r, i) \in Slot
    BY <1>1, CellInSlot
  <2>2. At(Cell(r, i)) \notin 1..n
    <3> HIDE DEF n
    <3> DEFINE c == Cell(r, i)
    <3>1. c = IF r.read + i > Size THEN r.read + i - 1 - Size ELSE r.read + i - 1
      BY DEF Cell
    <3> HIDE DEF c
    <3>2. At(c) \notin 1..n
      BY <1>0, <1>1, <1>4, <3>1, SlotInUse
    <3>3. QED  BY <3>2 DEF c
  <2>3. QED  BY <2>1, <2>2
<1>6. ASSUME NEW j \in 1..n
      PROVE  buf[Cell(r, r.used + j)] = bytes[j]
  <2>1. Cell(r, r.used + j) \in Slot
    <3>1. r.used + j \in 1..Size
      BY <1>1
    <3>2. QED  BY <3>1, CellInSlot
  <2>2. At(Cell(r, r.used + j)) = j
    <3> HIDE DEF n
    <3> DEFINE from == r.read
               used == r.used
               v    == r.write
               c    == Cell(r, r.used + j)
    <3>1. c = IF from + (used + j) > Size THEN from + (used + j) - 1 - Size
                                          ELSE from + (used + j) - 1
      BY DEF Cell
    <3>2. /\ v = IF from + used > Size THEN from + used - Size ELSE from + used
          /\ Size \in Nat \ {0} /\ from \in 0..(Size - 1) /\ used \in 0..Size
          /\ n \in 0..(Size - used)
      BY <1>0, <1>1, <1>4
    <3> HIDE DEF from, used, v, c
    <3>3. (IF c >= v THEN c - v + 1 ELSE c + Size - v + 1) = j
      BY <3>1, <3>2
    <3>4. QED  BY <3>3 DEF c, v
  <2>3. QED  BY <2>1, <2>2
<1>7. buf \in [Slot -> Char \cup {Blank}]
  <2>1. ASSUME NEW p \in Slot
        PROVE  buf[p] \in Char \cup {Blank}
    <3> DEFINE k == At(p)
    <3>1. k \in 1..n => bytes[k] \in Char
      BY ElementOfSeq
    <3>2. buf[p] = IF k \in 1..n THEN bytes[k] ELSE r.buffer[p]
      OBVIOUS
    <3>3. r.buffer[p] \in Char \cup {Blank}
      BY <1>1
    <3> HIDE DEF k, buf, n
    <3>4. CASE k \in 1..n
      <4>1. buf[p] = bytes[k]
        BY <3>2, <3>4, Zenon
      <4>2. QED  BY <3>1, <3>4, <4>1, Zenon
    <3>5. CASE k \notin 1..n
      <4>1. buf[p] = r.buffer[p]
        BY <3>2, <3>5, Zenon
      <4>2. QED  BY <3>3, <4>1, Zenon
    <3>6. QED  BY <3>4, <3>5, Zenon
  <2>2. buf = [p \in Slot |-> buf[p]]
    OBVIOUS
  <2> HIDE DEF buf
  <2>3. QED  BY <2>1, <2>2, Zenon
<1>8. /\ w \in 0..Size /\ f.used \in 0..Size
      /\ w = IF f.read + f.used > Size THEN f.read + f.used - Size ELSE f.read + f.used
  <2> HIDE DEF n, f, buf
  <2>1. r.used + n \in 0..Size
    BY <1>0, <1>1
  <2> DEFINE from == r.read
             used == r.used
             v    == r.write
  <2>2. /\ v = IF from + used > Size THEN from + used - Size ELSE from + used
        /\ Size \in Nat \ {0} /\ from \in 0..(Size - 1) /\ used \in 0..Size
        /\ n \in 0..(Size - used) /\ w = IF v + n > Size THEN v + n - Size ELSE v + n
    BY <1>0, <1>1, <1>4
  <2> HIDE DEF w, from, used, v
  <2>3. /\ w \in 0..Size
        /\ w = IF from + (used + n) > Size THEN from + (used + n) - Size
                                          ELSE from + (used + n)
    BY <2>2
  <2>4. QED  BY <1>3, <2>1, <2>3 DEF from, used
<1> HIDE DEF w, buf, f, At, s
<1>9. ASSUME NEW i \in 1..f.used
      PROVE  f.buffer[Cell(f, i)] = IF i <= r.used THEN Held(r)[i] ELSE bytes[i - r.used]
  <2>1. Cell(f, i) = Cell(r, i)
    BY <1>3 DEF Cell
  <2>2. CASE i <= r.used
    <3>1. i \in 1..r.used
      BY <1>1, <2>2
    <3>2. Held(r)[i] = r.buffer[Cell(r, i)]
      BY <3>1, HeldText
    <3>3. QED  BY <1>3, <1>5, <2>1, <2>2, <3>1, <3>2
  <2>3. CASE i > r.used
    <3>1. i - r.used \in 1..n /\ r.used + (i - r.used) = i /\ ~(i <= r.used)
      BY <1>1, <1>3, <2>3
    <3>2. buf[Cell(r, i)] = bytes[i - r.used]
      BY <1>6, <3>1
    <3>3. QED  BY <1>3, <2>1, <3>1, <3>2
  <2>4. i <= r.used \/ i > r.used
    BY <1>1, <1>3
  <2>5. QED  BY <2>2, <2>3, <2>4
<1>10. ASSUME NEW i \in 1..f.used
       PROVE  f.buffer[Cell(f, i)] \in Char
  <2>1. CASE i <= r.used
    <3>1. i \in 1..r.used
      BY <1>1, <2>1
    <3>2. Held(r)[i] \in Char
      BY <3>1, HeldText DEF RingOK
    <3>3. QED  BY <1>9, <2>1, <3>2
  <2>2. CASE ~(i <= r.used)
    <3>1. i - r.used \in 1..n
      BY <1>1, <1>3, <2>2
    <3>2. bytes[i - r.used] \in Char
      BY <3>1, ElementOfSeq
    <3>3. QED  BY <1>9, <2>2, <3>2
  <2>3. QED  BY <2>1, <2>2
<1>11. RingOK(f)
  BY <1>1, <1>3, <1>7, <1>8, <1>10 DEF RingOK, Slot
<1>12. Held(f) = Held(r) \o bytes
  <2>1. /\ Held(f) \in Seq(Char) /\ Len(Held(f)) = f.used
        /\ \A i \in 1..f.used : Held(f)[i] = f.buffer[Cell(f, i)]
    BY <1>11, HeldText
  <2>2. Held(r) \in Seq(Char) /\ Len(Held(r)) = r.used
    BY HeldText
  <2>3. /\ Held(r) \o bytes \in Seq(Char) /\ Len(Held(r) \o bytes) = r.used + n
        /\ \A i \in 1..(r.used + n) : (Held(r) \o bytes)[i] =
             IF i <= r.used THEN Held(r)[i] ELSE bytes[i - r.used]
    <3>1. /\ Held(r) \o bytes \in Seq(Char) /\ Len(Held(r) \o bytes) = Len(Held(r)) + n
          /\ \A i \in 1..(Len(Held(r)) + n) : (Held(r) \o bytes)[i] =
               IF i <= Len(Held(r)) THEN Held(r)[i] ELSE bytes[i - Len(Held(r))]
      BY <2>2, ConcatProperties
    <3>2. QED  BY <2>2, <3>1
  <2>4. \A i \in 1..f.used : Held(f)[i] = (Held(r) \o bytes)[i]
    BY <1>3, <1>9, <2>1, <2>3
  <2>5. QED  BY <1>3, <2>1, <2>3, <2>4, SeqEqual
<1>13. QED  BY <1>11, <1>12 DEF f

(* rb_read_upd drops characters from the front, at most all.  *)
LEMMA UpdText ==
  ASSUME NEW r, RingOK(r), NEW len \in Nat
  PROVE  LET n == IF r.used < len THEN r.used ELSE len
             u == RbReadUpd(r, len)
         IN  /\ RingOK(u) /\ u.used = r.used - n
             /\ \A i \in 1..u.used : Held(u)[i] = Held(r)[n + i]
<1> DEFINE n == IF r.used < len THEN r.used ELSE len
           left == r.used - n
           s == r.read + n
           Gone(p) == (p - r.read) % Size < n
           buf == [p \in Slot |-> IF Gone(p) THEN Blank ELSE r.buffer[p]]
           read == IF n > 0 /\ left = 0 THEN 0 ELSE IF s >= Size THEN s - Size ELSE s
           write == IF n > 0 /\ left = 0 THEN 0 ELSE r.write
           u == RbReadUpd(r, len)
<1>1. /\ r.used \in 0..Size /\ r.read \in 0..(Size - 1) /\ r.write \in 0..Size
      /\ Size \in Nat \ {0} /\ r.buffer \in [Slot -> Char \cup {Blank}]
  BY RingFields DEF Slot
<1>2. n \in 0..r.used /\ left \in 0..Size
  BY <1>1
<1>3. u = [buffer |-> buf, used |-> left, read |-> read, write |-> write]
  BY DEF RbReadUpd
<1>4. r.write = IF r.read + r.used > Size THEN r.read + r.used - Size ELSE r.read + r.used
  BY DEF RingOK
<1> HIDE DEF n
<1>5. /\ read \in 0..(Size - 1) /\ write \in 0..Size
      /\ write = IF read + left > Size THEN read + left - Size ELSE read + left
  BY <1>1, <1>2, <1>4
<1>6. u.buffer = buf /\ u.used = left /\ u.read = read /\ u.write = write
  BY <1>3
<1>7. ASSUME NEW i \in 1..left
      PROVE  buf[Cell(u, i)] = Held(r)[n + i] /\ buf[Cell(u, i)] \in Char
  <2>1. n + i \in 1..r.used
    BY <1>1, <1>2
  <2>2. Cell(u, i) = Cell(r, n + i)
    BY <1>1, <1>2, <1>6 DEF Cell
  <2> DEFINE p == Cell(r, n + i)
  <2>3. p \in 0..(Size - 1)
    <3>1. n + i \in 1..Size
      BY <1>1, <2>1
    <3>2. QED  BY <3>1, CellInSlot DEF Slot
  <2>4. \/ p - r.read = n + i - 1 /\ 0 <= p - r.read
        \/ p - r.read = n + i - 1 - Size /\ p - r.read < 0
    BY <1>1, <1>2, <2>1 DEF Cell
  <2> HIDE DEF p
  <2>5. (p - r.read) % Size = n + i - 1
    <3>1. p - r.read \in Int /\ p - r.read < Size /\ -Size <= p - r.read
      BY <1>1, <2>3
    <3>2. /\ 0 <= p - r.read => (p - r.read) % Size = p - r.read
          /\ p - r.read < 0 => (p - r.read) % Size = p - r.read + Size
      BY <1>1, <3>1, ModSize
    <3>3. QED  BY <1>1, <1>2, <2>4, <3>2
  <2>6. ~Gone(p)
    BY <1>1, <1>2, <2>5
  <2>7. buf[p] = r.buffer[p]
    BY <2>3, <2>6 DEF Slot
  <2>8. Held(r)[n + i] = r.buffer[p] /\ r.buffer[p] \in Char
    BY <2>1, HeldText DEF RingOK, p
  <2>9. QED  BY <2>2, <2>7, <2>8 DEF p
<1>8. buf \in [Slot -> Char \cup {Blank}]
  BY <1>1
<1> HIDE DEF buf, read, write, left
<1>9. RingOK(u)
  <2>1. \A i \in 1..u.used : u.buffer[Cell(u, i)] \in Char
    BY <1>6, <1>7
  <2>2. u \in [buffer : [Slot -> Char \cup {Blank}], used : 0..Size, read : Slot, write : 0..Size]
    BY <1>2, <1>3, <1>5, <1>8 DEF Slot
  <2>3. QED  BY <1>5, <1>6, <2>1, <2>2 DEF RingOK
<1>10. \A i \in 1..u.used : Held(u)[i] = Held(r)[n + i]
  <2>1. \A i \in 1..u.used : Held(u)[i] = u.buffer[Cell(u, i)]
    BY <1>9, HeldText
  <2>2. QED  BY <1>6, <1>7, <2>1
<1>11. u.used = r.used - n
  BY <1>6 DEF left
<1>12. QED  BY <1>9, <1>10, <1>11 DEF n, u

LEMMA RingEmpty == RingOK(RbInit) /\ Held(RbInit) = << >> /\ RbInit.used = 0
  BY RingBufferAssumption DEF RingOK, RbInit, Held, Slot

-----------------------------------------------------------------------------
(* The order of the bytes.                                                   *)

(* What the monitor has not taken yet, and that it is the end of the wire.  *)
Unread(r, l) == Held(r) \o l

EndOf(rest, text) ==
  /\ Len(rest) <= Len(text)
  /\ \A i \in 1..Len(rest) : rest[i] = text[Len(text) - Len(rest) + i]

Classes   == {"ok", "unknown", "prompt", "cssi", "cssu", "cmgr", "clcc"}
AResult   == [res : Classes, text : Seq(Char)]
ResultSeq == Seq(AResult)
Record    == [msg : MessageKinds, wire : Seq(Char), due : ResultSeq]

ReadType ==
  /\ RingOK(rb) /\ line \in Seq(Char) /\ sent \in Seq(Record)
  /\ readResult \in BOOLEAN /\ astray \in BOOLEAN
  /\ pc \in {"wait", "search", "overflow", "lost"}
  /\ results \in ResultSeq

LEMMA UnreadText ==
  ASSUME NEW r, RingOK(r), NEW l \in Seq(Char)
  PROVE  /\ Unread(r, l) \in Seq(Char) /\ Len(Unread(r, l)) = r.used + Len(l)
         /\ \A i \in 1..(r.used + Len(l)) :
              Unread(r, l)[i] = IF i <= r.used THEN Held(r)[i] ELSE l[i - r.used]
<1>1. Held(r) \in Seq(Char) /\ Len(Held(r)) = r.used
  BY HeldText
<1>2. /\ Held(r) \o l \in Seq(Char) /\ Len(Held(r) \o l) = Len(Held(r)) + Len(l)
      /\ \A i \in 1..(Len(Held(r)) + Len(l)) : (Held(r) \o l)[i] =
           IF i <= Len(Held(r)) THEN Held(r)[i] ELSE l[i - Len(Held(r))]
  BY <1>1, ConcatProperties
<1>3. QED  BY <1>1, <1>2 DEF Unread

(* Reading moves characters from the line to the ring.  *)
LEMMA UnreadAfterRead ==
  ASSUME NEW r, RingOK(r), NEW l \in Seq(Char), NEW n \in 0..Len(l), n <= RbFree(r)
  PROVE  /\ RingOK(RbFill(r, SubSeq(l, 1, n)))
         /\ SubSeq(l, n + 1, Len(l)) \in Seq(Char)
         /\ Unread(RbFill(r, SubSeq(l, 1, n)), SubSeq(l, n + 1, Len(l))) = Unread(r, l)
         /\ RbFill(r, SubSeq(l, 1, n)).used = r.used + n
         /\ Held(RbFill(r, SubSeq(l, 1, n))) = Held(r) \o SubSeq(l, 1, n)
<1> DEFINE a == SubSeq(l, 1, n)
           b == SubSeq(l, n + 1, Len(l))
           f == RbFill(r, a)
<1>1. Len(l) \in Nat /\ n \in Nat /\ n <= Len(l) /\ \A i \in 1..Len(l) : l[i] \in Char
  BY LenProperties, ElementOfSeq
<1>2. a \in Seq(Char) /\ Len(a) = n /\ \A i \in 1..n : a[i] = l[i]
  BY <1>1, SubSeqProperties
<1>3. b \in Seq(Char) /\ Len(b) = Len(l) - n /\ \A i \in 1..(Len(l) - n) : b[i] = l[n + i]
  <2>1. \A i \in (n + 1)..Len(l) : l[i] \in Char
    BY <1>1
  <2>2. /\ b \in Seq(Char)
        /\ Len(b) = IF n + 1 <= Len(l) THEN Len(l) - (n + 1) + 1 ELSE 0
        /\ \A i \in 1..(Len(l) - (n + 1) + 1) : b[i] = l[n + 1 + i - 1]
    BY <1>1, <2>1, SubSeqProperties
  <2>3. QED  BY <1>1, <2>2
<1> HIDE DEF a, b
<1>4. RingOK(f) /\ Held(f) = Held(r) \o a
  BY <1>2, FillText
<1>5. Held(r) \in Seq(Char)
  BY HeldText
<1>6. a \o b = l
  <2>1. /\ a \o b \in Seq(Char) /\ Len(a \o b) = Len(a) + Len(b)
        /\ \A i \in 1..(Len(a) + Len(b)) : (a \o b)[i] = IF i <= Len(a) THEN a[i] ELSE b[i - Len(a)]
    BY <1>2, <1>3, ConcatProperties
  <2>2. ASSUME NEW i \in 1..Len(l) PROVE (a \o b)[i] = l[i]
    <3>1. CASE i <= n
      BY <1>1, <1>2, <1>3, <2>1, <3>1
    <3>2. CASE i > n
      <4>1. i - n \in 1..(Len(l) - n) /\ n + (i - n) = i
        BY <1>1, <3>2
      <4>2. b[i - n] = l[i]
        BY <1>3, <4>1
      <4>3. QED  BY <1>1, <1>2, <1>3, <2>1, <3>2, <4>2
    <3>3. i <= n \/ i > n
      BY <1>1
    <3>4. QED  BY <3>1, <3>2, <3>3, Zenon
  <2>3. Len(a \o b) = Len(l)
    BY <1>1, <1>2, <1>3, <2>1
  <2>4. QED  BY <2>1, <2>2, <2>3, SeqEqual
<1>7. (Held(r) \o a) \o b = Held(r) \o (a \o b)
  <2> DEFINE h == Held(r)
  <2>1. a \in Seq(Char) /\ b \in Seq(Char) /\ h \in Seq(Char)
    BY <1>2, <1>3, <1>5
  <2> HIDE DEF h
  <2>2. (h \o a) \o b = h \o (a \o b)
    BY <2>1, ConcatAssociative
  <2>3. QED  BY <2>2 DEF h
<1>8. f.used = r.used + n
  <2>1. Len(Held(f)) = f.used /\ Len(Held(r)) = r.used
    BY <1>4, HeldText
  <2>2. Len(Held(r) \o a) = Len(Held(r)) + Len(a)
    BY <1>2, <1>5, ConcatProperties
  <2>3. QED  BY <1>2, <1>4, <2>1, <2>2
<1>9. Unread(f, b) = Unread(r, l)
  BY <1>4, <1>6, <1>7 DEF Unread
<1>10. QED  BY <1>3, <1>4, <1>8, <1>9 DEF a, b, f

(* Dropping characters drops them from the front.  *)
LEMMA UnreadAfterUpd ==
  ASSUME NEW r, RingOK(r), NEW l \in Seq(Char), NEW len \in Nat
  PROVE  \E n \in 0..r.used : LET u == RbReadUpd(r, len) IN
           /\ n = IF r.used < len THEN r.used ELSE len
           /\ RingOK(u) /\ u.used = r.used - n
           /\ Len(Unread(u, l)) = Len(Unread(r, l)) - n
           /\ \A i \in 1..Len(Unread(u, l)) : Unread(u, l)[i] = Unread(r, l)[n + i]
<1> DEFINE n == IF r.used < len THEN r.used ELSE len
           u == RbReadUpd(r, len)
<1>1. RingOK(u) /\ u.used = r.used - n /\ \A i \in 1..u.used : Held(u)[i] = Held(r)[n + i]
  BY UpdText
<1>2. r.used \in Nat /\ n \in 0..r.used /\ Len(l) \in Nat
  BY RingFields, LenProperties
<1> HIDE DEF n, u
<1>3. /\ Len(Unread(u, l)) = u.used + Len(l)
      /\ \A i \in 1..(u.used + Len(l)) :
           Unread(u, l)[i] = IF i <= u.used THEN Held(u)[i] ELSE l[i - u.used]
  BY <1>1, UnreadText
<1>4. /\ Len(Unread(r, l)) = r.used + Len(l)
      /\ \A i \in 1..(r.used + Len(l)) :
           Unread(r, l)[i] = IF i <= r.used THEN Held(r)[i] ELSE l[i - r.used]
  BY UnreadText
<1>5. ASSUME NEW i \in 1..(u.used + Len(l))
      PROVE  Unread(u, l)[i] = Unread(r, l)[n + i]
  <2>1. n + i \in 1..(r.used + Len(l)) /\ (i <= u.used <=> n + i <= r.used)
        /\ i - u.used = (n + i) - r.used
    BY <1>1, <1>2
  <2>2. CASE i <= u.used
    <3>1. i \in 1..u.used
      BY <1>1, <1>2, <2>2
    <3>2. QED  BY <1>1, <1>3, <1>4, <2>1, <2>2, <3>1
  <2>3. CASE ~(i <= u.used)
    BY <1>3, <1>4, <2>1, <2>3
  <2>4. QED  BY <2>2, <2>3
<1>6. Len(Unread(u, l)) = Len(Unread(r, l)) - n
  BY <1>1, <1>2, <1>3, <1>4
<1>7. n = IF r.used < len THEN r.used ELSE len
  BY DEF n
<1>8. QED  BY <1>1, <1>2, <1>3, <1>5, <1>6, <1>7 DEF u

LEMMA EndOfShorter ==
  ASSUME NEW a \in Seq(Char), NEW b \in Seq(Char), NEW text \in Seq(Char), EndOf(a, text),
         NEW n \in Nat, Len(b) = Len(a) - n, \A i \in 1..Len(b) : b[i] = a[n + i]
  PROVE  EndOf(b, text)
<1>1. Len(a) \in Nat /\ Len(b) \in Nat /\ Len(text) \in Nat
  BY LenProperties
<1>2. ASSUME NEW i \in 1..Len(b) PROVE b[i] = text[Len(text) - Len(b) + i]
  <2>1. n + i \in 1..Len(a) /\ Len(text) - Len(a) + (n + i) = Len(text) - Len(b) + i
    BY <1>1
  <2>2. a[n + i] = text[Len(text) - Len(b) + i]
    BY <2>1 DEF EndOf
  <2>3. QED  BY <2>2
<1>3. Len(b) <= Len(text)
  BY <1>1 DEF EndOf
<1>4. QED  BY <1>2, <1>3 DEF EndOf

LEMMA EndOfLonger ==
  ASSUME NEW a \in Seq(Char), NEW text \in Seq(Char), NEW more \in Seq(Char), EndOf(a, text)
  PROVE  EndOf(a \o more, text \o more)
<1>1. Len(a) \in Nat /\ Len(more) \in Nat /\ Len(text) \in Nat /\ Len(a) <= Len(text)
  BY LenProperties DEF EndOf
<1>2. /\ Len(a \o more) = Len(a) + Len(more)
      /\ \A i \in 1..(Len(a) + Len(more)) :
           (a \o more)[i] = IF i <= Len(a) THEN a[i] ELSE more[i - Len(a)]
  BY ConcatProperties
<1>3. /\ Len(text \o more) = Len(text) + Len(more)
      /\ \A i \in 1..(Len(text) + Len(more)) :
           (text \o more)[i] = IF i <= Len(text) THEN text[i] ELSE more[i - Len(text)]
  BY ConcatProperties
<1>4. ASSUME NEW i \in 1..(Len(a) + Len(more))
      PROVE  (a \o more)[i] = (text \o more)[Len(text) - Len(a) + i]
  <2> DEFINE j == Len(text) - Len(a) + i
  <2>1. /\ j \in 1..(Len(text) + Len(more)) /\ (i <= Len(a) <=> j <= Len(text))
        /\ j - Len(text) = i - Len(a)
    BY <1>1
  <2> HIDE DEF j
  <2>2. CASE i <= Len(a)
    <3>1. i \in 1..Len(a)
      BY <1>1, <2>2
    <3>2. a[i] = text[j]
      BY <3>1 DEF EndOf, j
    <3>3. QED  BY <1>2, <1>3, <2>1, <2>2, <3>2 DEF j
  <2>3. CASE ~(i <= Len(a))
    BY <1>2, <1>3, <2>1, <2>3 DEF j
  <2>4. QED  BY <2>2, <2>3
<1>5. Len(text \o more) - Len(a \o more) = Len(text) - Len(a) /\ Len(a \o more) <= Len(text \o more)
  BY <1>1, <1>2, <1>3
<1>6. QED  BY <1>2, <1>4, <1>5 DEF EndOf

-----------------------------------------------------------------------------
(* The search.                                                               *)

Occurs(text, k, mem) ==
  k + Len(mem) <= Len(text) /\ \A i \in 1..Len(mem) : text[k + i] = mem[i]

FirstAt(text, k, mem) ==
  k \in Nat /\ Occurs(text, k, mem) /\ \A l \in Nat : Occurs(text, l, mem) => k <= l

(* text in two parts.  *)
Parts(tail, head, text) ==
  /\ tail \in Seq(Char) /\ head \in Seq(Char) /\ text \in Seq(Char)
  /\ Len(tail) + Len(head) = Len(text)
  /\ \A i \in 1..Len(tail) : tail[i] = text[i]
  /\ \A i \in 1..Len(head) : head[i] = text[Len(tail) + i]

LEMMA FoundText ==
  ASSUME NEW text \in Seq(Char), NEW mem \in Seq(Char), NEW k
  PROVE  k \in Found(text, mem) <=> k \in Nat /\ Occurs(text, k, mem)
<1>1. Len(text) \in Nat /\ Len(mem) \in Nat
  BY LenProperties
<1>2. k \in 0..(Len(text) - Len(mem)) <=> k \in Nat /\ k + Len(mem) <= Len(text)
  BY <1>1
<1>3. ASSUME k \in Nat, k + Len(mem) <= Len(text)
      PROVE  SubSeq(text, k + 1, k + Len(mem)) = mem
               <=> \A i \in 1..Len(mem) : text[k + i] = mem[i]
  <2> DEFINE a == SubSeq(text, k + 1, k + Len(mem))
  <2>1. \A i \in (k + 1)..(k + Len(mem)) : text[i] \in Char
    BY <1>1, <1>3, ElementOfSeq
  <2>2. /\ a \in Seq(Char)
        /\ Len(a) = IF k + 1 <= k + Len(mem) THEN k + Len(mem) - (k + 1) + 1 ELSE 0
        /\ \A i \in 1..(k + Len(mem) - (k + 1) + 1) : a[i] = text[k + 1 + i - 1]
    BY <1>1, <1>3, <2>1, SubSeqProperties
  <2> HIDE DEF a
  <2>3. Len(a) = Len(mem) /\ \A i \in 1..Len(mem) : a[i] = text[k + i]
    BY <1>1, <1>3, <2>2
  <2>4. a = mem <=> \A i \in 1..Len(mem) : a[i] = mem[i]
    BY <2>2, <2>3, SeqEqual
  <2>5. QED  BY <2>3, <2>4 DEF a
<1>4. QED  BY <1>2, <1>3 DEF Found, Occurs

LEMMA LeastOf ==
  ASSUME NEW S \in SUBSET Nat, S # {}
  PROVE  \E k \in S : \A j \in S : k <= j
<1> DEFINE R == OpToRel(<, Nat)
<1>1. IsWellFoundedOn(R, Nat)
  BY NatLessThanWellFounded
<1>2. \A x, y \in Nat : x < y => << x, y >> \in R
  BY DEF OpToRel
<1> HIDE DEF R
<1>3. PICK k \in S : \A j \in S : ~(<< j, k >> \in R)
  BY <1>1, WFMin
<1>4. \A j \in S : k <= j
  <2>1. SUFFICES ASSUME NEW j \in S, ~(k <= j) PROVE FALSE
    OBVIOUS
  <2>2. j < k
    BY <2>1
  <2>3. QED  BY <1>2, <1>3, <2>2
<1>5. QED  BY <1>4

LEMMA FirstOf ==
  ASSUME NEW text \in Seq(Char), NEW mem \in Seq(Char), NEW l \in Nat, Occurs(text, l, mem)
  PROVE  \E k \in Nat : FirstAt(text, k, mem)
<1> DEFINE S == {k \in Nat : Occurs(text, k, mem)}
<1>1. S \in SUBSET Nat /\ S # {}
  OBVIOUS
<1>2. PICK k \in S : \A j \in S : k <= j
  BY <1>1, LeastOf
<1>3. QED  BY <1>2 DEF FirstAt

LEMMA BeforeText ==
  ASSUME NEW text \in Seq(Char), NEW mem \in Seq(Char), NEW k, FirstAt(text, k, mem)
  PROVE  /\ Found(text, mem) # {}
         /\ Before(text, mem) \in Seq(Char) /\ Len(Before(text, mem)) = k
         /\ \A i \in 1..k : Before(text, mem)[i] = text[i]
<1> DEFINE F == Found(text, mem)
           c == CHOOSE c \in F : \A l \in F : c <= l
<1>1. \A l : l \in F <=> l \in Nat /\ Occurs(text, l, mem)
  BY FoundText
<1>2. k \in F /\ \A l \in F : k <= l
  BY <1>1 DEF FirstAt
<1>3. c \in F /\ \A l \in F : c <= l
  BY <1>2
<1>4. Before(text, mem) = SubSeq(text, 1, c)
  BY DEF Before
<1> HIDE DEF F, c
<1>5. c = k
  BY <1>1, <1>2, <1>3
<1>6. k \in Nat /\ Len(mem) \in Nat /\ Len(text) \in Nat /\ k <= Len(text)
  BY LenProperties DEF FirstAt, Occurs
<1>7. \A i \in 1..k : text[i] \in Char
  BY <1>6, ElementOfSeq
<1>8. /\ SubSeq(text, 1, k) \in Seq(Char)
      /\ Len(SubSeq(text, 1, k)) = IF 1 <= k THEN k - 1 + 1 ELSE 0
      /\ \A i \in 1..(k - 1 + 1) : SubSeq(text, 1, k)[i] = text[1 + i - 1]
  BY <1>6, <1>7, SubSeqProperties
<1>9. QED  BY <1>2, <1>4, <1>5, <1>6, <1>8 DEF F

LEMMA FoundNone ==
  ASSUME NEW text \in Seq(Char), NEW mem \in Seq(Char)
  PROVE  Found(text, mem) = {} <=> \A k \in Nat : ~Occurs(text, k, mem)
BY FoundText

LEMMA OccursTail ==
  ASSUME NEW tail, NEW head, NEW text, Parts(tail, head, text), NEW mem \in Seq(Char), NEW k \in Nat
  PROVE  Occurs(tail, k, mem) <=> Occurs(text, k, mem) /\ k + Len(mem) <= Len(tail)
<1>1. Len(text) \in Nat /\ Len(mem) \in Nat /\ Len(tail) \in Nat /\ Len(tail) <= Len(text)
  BY LenProperties DEF Parts
<1>2. ASSUME k + Len(mem) <= Len(tail), NEW i \in 1..Len(mem)
      PROVE  tail[k + i] = text[k + i]
  BY <1>1, <1>2 DEF Parts
<1>3. QED  BY <1>1, <1>2 DEF Occurs

LEMMA OccursHead ==
  ASSUME NEW tail, NEW head, NEW text, Parts(tail, head, text), NEW mem \in Seq(Char), NEW k \in Nat
  PROVE  Occurs(head, k, mem) <=> Occurs(text, Len(tail) + k, mem)
<1>1. /\ Len(text) \in Nat /\ Len(mem) \in Nat /\ Len(tail) \in Nat /\ Len(head) \in Nat
      /\ Len(tail) + Len(head) = Len(text)
  BY LenProperties DEF Parts
<1>2. k + Len(mem) <= Len(head) <=> Len(tail) + k + Len(mem) <= Len(text)
  BY <1>1
<1>3. ASSUME k + Len(mem) <= Len(head), NEW i \in 1..Len(mem)
      PROVE  head[k + i] = text[Len(tail) + k + i]
  <2>1. k + i \in 1..Len(head) /\ Len(tail) + (k + i) = Len(tail) + k + i
    BY <1>1, <1>3
  <2>2. QED  BY <2>1 DEF Parts
<1>4. QED  BY <1>2, <1>3 DEF Occurs

LEMMA RingParts ==
  ASSUME NEW r, RingOK(r)
  PROVE  Parts(RbReadAll(r)[1], RbReadAll(r)[2], Held(r))
<1>1. r.used \in 0..r.used
  BY RingFields
<1>2. QED  BY <1>1, Pieces, HeldText DEF Parts, RbReadAll

(* What the modem writes: an "O" comes with its "K", and a "K" with its line end. *)
Chained(text) ==
  \A i \in 1..Len(text) :
    /\ text[i] = "O" /\ i + 1 <= Len(text) => text[i + 1] = "K"
    /\ text[i] = "K" /\ i + 1 <= Len(text) => text[i + 1] = "\r"
    /\ text[i] = "K" /\ i + 2 <= Len(text) => text[i + 2] = "\n"

(* What the search is used for.  *)
Searched == {CrLf, EndOfList, << "\r" >>}

LEMMA CharsIn ==
  /\ "\r" \in Char /\ "\n" \in Char /\ "O" \in Char /\ "K" \in Char /\ ">" \in Char
  /\ "sp" \in Char /\ ":" \in Char /\ "x" \in Char
  /\ "+R" \in Char /\ "+L" \in Char /\ "+I" \in Char /\ "+S" \in Char
  BY AtReadAssumption DEF Chars

LEMMA SearchedSeq ==
  /\ CrLf \in Seq(Char) /\ EndOfList \in Seq(Char) /\ << "\r" >> \in Seq(Char)
  /\ Len(CrLf) = 2 /\ Len(EndOfList) = 7 /\ Len(<< "\r" >>) = 1
  /\ CrLf[1] = "\r" /\ CrLf[2] = "\n"
  /\ EndOfList[1] = "\n" /\ EndOfList[2] = "\r" /\ EndOfList[3] = "\n" /\ EndOfList[4] = "O"
  /\ EndOfList[5] = "K" /\ EndOfList[6] = "\r" /\ EndOfList[7] = "\n"
<1>1. CrLf \in Seq(Char) /\ EndOfList \in Seq(Char) /\ << "\r" >> \in Seq(Char)
  BY CharsIn DEF EndOfList, CrLf
<1>2. QED  BY <1>1 DEF EndOfList, CrLf

(* The part of mem before the end of the buffer and the part behind it.  *)
LEMMA AcrossText ==
  ASSUME NEW r, RingOK(r), NEW mem \in Seq(Char), NEW i
  PROVE  LET t == Len(RbReadAll(r)[1])
         IN  i \in FoundAcross(RbReadAll(r), mem) <=>
               /\ i \in 1..(Len(mem) - 1) /\ 2 * i <= Len(mem)
               /\ Len(mem) - i <= t /\ t + i <= r.used
               /\ \A j \in 1..(Len(mem) - i) : Held(r)[t - (Len(mem) - i) + j] = mem[j]
               /\ \A j \in 1..i : Held(r)[t + j] = mem[i + j]
<1> DEFINE tail == RbReadAll(r)[1]
           head == RbReadAll(r)[2]
           m == Len(mem)
           t == Len(tail)
<1>1. Parts(tail, head, Held(r)) /\ Len(Held(r)) = r.used
  BY RingParts, HeldText
<1> HIDE DEF tail, head
<1>2. /\ t \in Nat /\ Len(head) \in Nat /\ m \in Nat /\ t + Len(head) = r.used
      /\ tail \in Seq(Char) /\ head \in Seq(Char)
      /\ \A j \in 1..t : tail[j] = Held(r)[j]
      /\ \A j \in 1..Len(head) : head[j] = Held(r)[t + j]
      /\ \A j \in 1..t : tail[j] \in Char
      /\ \A j \in 1..Len(head) : head[j] \in Char
      /\ \A j \in 1..m : mem[j] \in Char
  BY <1>1, LenProperties, ElementOfSeq DEF Parts
<1> HIDE DEF m, t
<1>3. ASSUME i \in 1..(m - 1), m - i <= t
      PROVE  SubSeq(tail, t - (m - i) + 1, t) = SubSeq(mem, 1, m - i)
               <=> \A j \in 1..(m - i) : Held(r)[t - (m - i) + j] = mem[j]
  <2> DEFINE a == SubSeq(tail, t - (m - i) + 1, t)
             b == SubSeq(mem, 1, m - i)
             d == t - (m - i)
  <2>0. d \in Nat /\ d <= t /\ t - d = m - i
    BY <1>2, <1>3
  <2> HIDE DEF d
  <2>1. /\ SubSeq(tail, d + 1, t) \in Seq(Char)
        /\ Len(SubSeq(tail, d + 1, t)) = IF d + 1 <= t THEN t - (d + 1) + 1 ELSE 0
        /\ \A j \in 1..(t - (d + 1) + 1) : SubSeq(tail, d + 1, t)[j] = tail[d + 1 + j - 1]
    <3>1. \A j \in (d + 1)..t : tail[j] \in Char
      BY <1>2, <2>0
    <3>2. QED  BY <1>2, <2>0, <3>1, SubSeqProperties, SMTT(30)
  <2>2. /\ b \in Seq(Char)
        /\ Len(b) = IF 1 <= m - i THEN m - i - 1 + 1 ELSE 0
        /\ \A j \in 1..(m - i - 1 + 1) : b[j] = mem[1 + j - 1]
    <3>1. \A j \in 1..(m - i) : mem[j] \in Char
      BY <1>2, <1>3
    <3>2. QED  BY <1>2, <1>3, <3>1, SubSeqProperties
  <2>3. a \in Seq(Char) /\ Len(a) = m - i /\ \A j \in 1..(m - i) : a[j] = tail[d + j]
    <3> DEFINE c == SubSeq(tail, d + 1, t)
    <3>1. a = c
      BY DEF d
    <3>2. i \in Int /\ t - (d + 1) + 1 = m - i /\ (d + 1 <= t <=> 1 <= m - i)
      BY <1>2, <1>3, <2>0
    <3> HIDE DEF a, c
    <3>3. \A j \in 1..(m - i) : d + 1 + j - 1 = d + j
      BY <2>0
    <3>4. Len(c) = m - i
      BY <1>2, <1>3, <2>1, <3>2 DEF c
    <3>5. \A j \in 1..(m - i) : c[j] = tail[d + j]
      BY <2>1, <3>2, <3>3 DEF c
    <3>6. QED  BY <2>1, <3>1, <3>4, <3>5 DEF c
  <2>4. Len(b) = m - i /\ \A j \in 1..(m - i) : b[j] = mem[j]
    BY <1>2, <1>3, <2>2
  <2> HIDE DEF a, b
  <2>5. a = b <=> \A j \in 1..(m - i) : a[j] = b[j]
    BY <2>2, <2>3, <2>4, SeqEqual
  <2>6. \A j \in 1..(m - i) : tail[d + j] = Held(r)[d + j]
    BY <1>2, <1>3, <2>0
  <2>7. QED  BY <2>3, <2>4, <2>5, <2>6 DEF a, b, d
<1>4. ASSUME i \in 1..(m - 1), i <= Len(head), 2 * i <= m
      PROVE  SubSeq(head, 1, i) = SubSeq(mem, i + 1, 2 * i)
               <=> \A j \in 1..i : Held(r)[t + j] = mem[i + j]
  <2> DEFINE a == SubSeq(head, 1, i)
             b == SubSeq(mem, i + 1, 2 * i)
  <2>1. /\ a \in Seq(Char)
        /\ Len(a) = IF 1 <= i THEN i - 1 + 1 ELSE 0
        /\ \A j \in 1..(i - 1 + 1) : a[j] = head[1 + j - 1]
    <3>1. \A j \in 1..i : head[j] \in Char
      BY <1>2, <1>4
    <3>2. QED  BY <1>2, <1>4, <3>1, SubSeqProperties
  <2>2. /\ b \in Seq(Char)
        /\ Len(b) = IF i + 1 <= 2 * i THEN 2 * i - (i + 1) + 1 ELSE 0
        /\ \A j \in 1..(2 * i - (i + 1) + 1) : b[j] = mem[i + 1 + j - 1]
    <3>1. \A j \in (i + 1)..(2 * i) : mem[j] \in Char
      BY <1>2, <1>4
    <3>2. QED  BY <1>2, <1>4, <3>1, SubSeqProperties
  <2>3. Len(a) = i /\ \A j \in 1..i : a[j] = head[j]
    BY <1>2, <1>4, <2>1
  <2>4. Len(b) = i /\ \A j \in 1..i : b[j] = mem[i + j]
    BY <1>2, <1>4, <2>2
  <2> HIDE DEF a, b
  <2>5. a = b <=> \A j \in 1..i : a[j] = b[j]
    BY <2>1, <2>2, <2>3, <2>4, SeqEqual
  <2>6. \A j \in 1..i : head[j] = Held(r)[t + j]
    BY <1>2, <1>4
  <2>7. QED  BY <2>3, <2>4, <2>5, <2>6 DEF a, b
<1>5. i \in FoundAcross(RbReadAll(r), mem) <=>
        /\ i \in 1..(m - 1)
        /\ i <= Len(head) /\ m - i <= t
        /\ SubSeq(tail, t - (m - i) + 1, t) = SubSeq(mem, 1, m - i)
        /\ 2 * i <= m /\ SubSeq(head, 1, i) = SubSeq(mem, i + 1, 2 * i)
  BY DEF FoundAcross, tail, head, m, t
<1>6. i \in 1..(m - 1) => (i <= Len(head) <=> t + i <= r.used)
  BY <1>2
<1>7. i \in FoundAcross(RbReadAll(r), mem) <=>
               /\ i \in 1..(m - 1) /\ 2 * i <= m
               /\ m - i <= t /\ t + i <= r.used
               /\ \A j \in 1..(m - i) : Held(r)[t - (m - i) + j] = mem[j]
               /\ \A j \in 1..i : Held(r)[t + j] = mem[i + j]
  BY <1>3, <1>4, <1>5, <1>6, Zenon
<1>8. QED  BY <1>7 DEF m, t, tail

(* Of a list's end nothing is found across the end of the buffer, because of *)
(* what stands behind an "O" or a "K"; of a line's end all that is there is.  *)
LEMMA AcrossList ==
  ASSUME NEW r, RingOK(r), Chained(Held(r))
  PROVE  FoundAcross(RbReadAll(r), EndOfList) = {}
<1> DEFINE t == Len(RbReadAll(r)[1])
           h == Held(r)
<1>1. SUFFICES ASSUME NEW i, i \in FoundAcross(RbReadAll(r), EndOfList) PROVE FALSE
  OBVIOUS
<1>2. /\ i \in 1..6 /\ 2 * i <= 7 /\ 7 - i <= t /\ t + i <= r.used
      /\ \A j \in 1..(7 - i) : h[t - (7 - i) + j] = EndOfList[j]
      /\ \A j \in 1..i : h[t + j] = EndOfList[i + j]
  <2>1. EndOfList \in Seq(Char) /\ Len(EndOfList) = 7
    BY SearchedSeq
  <2> DEFINE m == Len(EndOfList)
  <2>2. \A k : k \in FoundAcross(RbReadAll(r), EndOfList) <=>
               /\ k \in 1..(m - 1) /\ 2 * k <= m
               /\ m - k <= t /\ t + k <= r.used
               /\ \A j \in 1..(m - k) : h[t - (m - k) + j] = EndOfList[j]
               /\ \A j \in 1..k : h[t + j] = EndOfList[k + j]
    BY <2>1, AcrossText, Zenon
  <2>3. m = 7
    BY <2>1
  <2> HIDE DEF m, t, h
  <2>4. QED  BY <1>1, <2>2, <2>3
<1>3. /\ t \in Nat /\ r.used \in Nat /\ Len(h) = r.used
  BY RingParts, LenProperties, RingFields, HeldText DEF Parts
<1>4. /\ \A k \in 1..r.used : h[k] = "O" /\ k + 1 <= r.used => h[k + 1] = "K"
      /\ \A k \in 1..r.used : h[k] = "K" /\ k + 1 <= r.used => h[k + 1] = "\r"
      /\ \A k \in 1..r.used : h[k] = "K" /\ k + 2 <= r.used => h[k + 2] = "\n"
  BY <1>3 DEF Chained
<1> HIDE DEF t, h
<1>5. CASE i = 1
  <2>1. t - 6 + 5 = t - 1 /\ 5 \in 1..6 /\ 1 \in 1..1
    BY <1>3
  <2>2. h[t - 1] = "K" /\ h[t + 1] = "\r"
    BY <1>2, <1>5, <2>1, SearchedSeq
  <2>3. t - 1 \in 1..r.used /\ t - 1 + 2 = t + 1 /\ t + 1 <= r.used
    BY <1>2, <1>3, <1>5
  <2>4. h[t + 1] = "\n"
    BY <1>4, <2>2, <2>3
  <2>5. QED  BY <2>2, <2>4
<1>6. CASE i = 2
  <2>1. t - 5 + 5 = t /\ 5 \in 1..5 /\ 1 \in 1..2
    BY <1>3
  <2>2. h[t] = "K" /\ h[t + 1] = "\n"
    BY <1>2, <1>6, <2>1, SearchedSeq
  <2>3. t \in 1..r.used /\ t + 1 <= r.used
    BY <1>2, <1>3, <1>6
  <2>4. h[t + 1] = "\r"
    BY <1>4, <2>2, <2>3
  <2>5. QED  BY <2>2, <2>4
<1>7. CASE i = 3
  <2>1. t - 4 + 4 = t /\ 4 \in 1..4 /\ 1 \in 1..3
    BY <1>3
  <2>2. h[t] = "O" /\ h[t + 1] = "O"
    BY <1>2, <1>7, <2>1, SearchedSeq
  <2>3. t \in 1..r.used /\ t + 1 <= r.used
    BY <1>2, <1>3, <1>7
  <2>4. h[t + 1] = "K"
    BY <1>4, <2>2, <2>3
  <2>5. QED  BY <2>2, <2>4
<1>8. QED  BY <1>2, <1>5, <1>6, <1>7

LEMMA AcrossLine ==
  ASSUME NEW r, RingOK(r)
  PROVE  LET t == Len(RbReadAll(r)[1])
             across == FoundAcross(RbReadAll(r), CrLf)
         IN  /\ across \subseteq {1}
             /\ across # {} <=> t >= 1 /\ Occurs(Held(r), t - 1, CrLf)
<1> DEFINE t == Len(RbReadAll(r)[1])
           h == Held(r)
           across == FoundAcross(RbReadAll(r), CrLf)
<1>1. /\ t \in Nat /\ r.used \in Nat /\ Len(h) = r.used
  BY RingParts, LenProperties, RingFields, HeldText DEF Parts
<1>2. \A i : i \in across <=>
               /\ i \in 1..(2 - 1) /\ 2 * i <= 2
               /\ 2 - i <= t /\ t + i <= r.used
               /\ \A j \in 1..(2 - i) : h[t - (2 - i) + j] = CrLf[j]
               /\ \A j \in 1..i : h[t + j] = CrLf[i + j]
  <2>1. CrLf \in Seq(Char) /\ Len(CrLf) = 2
    BY SearchedSeq
  <2> DEFINE m == Len(CrLf)
  <2>2. \A i : i \in across <=>
               /\ i \in 1..(m - 1) /\ 2 * i <= m
               /\ m - i <= t /\ t + i <= r.used
               /\ \A j \in 1..(m - i) : h[t - (m - i) + j] = CrLf[j]
               /\ \A j \in 1..i : h[t + j] = CrLf[i + j]
    BY <2>1, AcrossText, Zenon
  <2>3. m = 2
    BY <2>1
  <2> HIDE DEF m, t, h, across
  <2>4. QED  BY <2>2, <2>3
<1> HIDE DEF t, h, across
<1>3. across \subseteq {1}
  BY <1>2
<1>4. 1 \in across <=> t >= 1 /\ t + 1 <= r.used /\ h[t] = CrLf[1] /\ h[t + 1] = CrLf[2]
  <2>1. 1 \in across <=>
          /\ 2 - 1 <= t /\ t + 1 <= r.used
          /\ \A j \in 1..1 : h[t - 1 + j] = CrLf[j]
          /\ \A j \in 1..1 : h[t + j] = CrLf[1 + j]
    BY <1>2
  <2>2. t - 1 + 1 = t
    BY <1>1
  <2>3. QED  BY <1>1, <2>1, <2>2
<1>5. Occurs(h, t - 1, CrLf) <=> t + 1 <= r.used /\ h[t] = CrLf[1] /\ h[t + 1] = CrLf[2]
  <2>1. t - 1 + 2 = t + 1 /\ t - 1 + 1 = t
    BY <1>1
  <2>2. Len(CrLf) = 2
    BY SearchedSeq
  <2>3. Occurs(h, t - 1, CrLf) <=> t - 1 + 2 <= r.used /\ \A i \in 1..2 : h[t - 1 + i] = CrLf[i]
    BY <1>1, <2>2 DEF Occurs
  <2>4. QED  BY <2>1, <2>3
<1>6. QED  BY <1>3, <1>4, <1>5 DEF t, h, across

(* What rb_read_until_mem_iov finds is a text at the front of the ring.  *)
IsFront(text, n, r) ==
  /\ text \in Seq(Char) /\ Len(text) = n /\ n \in 0..r.used
  /\ \A i \in 1..n : text[i] = Held(r)[i]

LEMMA FrontOfTail ==
  ASSUME NEW r, RingOK(r), NEW tail, NEW head, Parts(tail, head, Held(r)),
         NEW a \in Seq(Char), Len(a) <= Len(tail), \A i \in 1..Len(a) : a[i] = tail[i]
  PROVE  IsFront(a \o << >>, Len(a), r)
<1>1. /\ Len(a) \in Nat /\ Len(tail) \in Nat /\ r.used \in Nat /\ Len(tail) <= r.used
      /\ a \o << >> = a
  BY LenProperties, RingFields, HeldText, ConcatEmptySeq DEF Parts
<1>2. ASSUME NEW i \in 1..Len(a) PROVE a[i] = Held(r)[i]
  <2>1. i \in 1..Len(tail)
    BY <1>1
  <2>2. QED  BY <2>1 DEF Parts
<1>3. QED  BY <1>1, <1>2 DEF IsFront

LEMMA FrontWithTail ==
  ASSUME NEW r, RingOK(r), NEW tail, NEW head, Parts(tail, head, Held(r)),
         NEW a \in Seq(Char), Len(a) <= Len(head), \A i \in 1..Len(a) : a[i] = head[i]
  PROVE  IsFront(tail \o a, Len(tail) + Len(a), r)
<1>1. /\ Len(a) \in Nat /\ Len(tail) \in Nat /\ Len(head) \in Nat /\ r.used \in Nat
      /\ Len(tail) + Len(head) = r.used
  BY LenProperties, RingFields, HeldText DEF Parts
<1>2. /\ tail \o a \in Seq(Char) /\ Len(tail \o a) = Len(tail) + Len(a)
      /\ \A i \in 1..(Len(tail) + Len(a)) :
           (tail \o a)[i] = IF i <= Len(tail) THEN tail[i] ELSE a[i - Len(tail)]
  BY ConcatProperties DEF Parts
<1>3. ASSUME NEW i \in 1..(Len(tail) + Len(a)) PROVE (tail \o a)[i] = Held(r)[i]
  <2>1. CASE i <= Len(tail)
    <3>1. i \in 1..Len(tail)
      BY <1>1, <2>1
    <3>2. tail[i] = Held(r)[i]
      BY <3>1 DEF Parts
    <3>3. QED  BY <1>2, <2>1, <3>2
  <2>2. CASE ~(i <= Len(tail))
    <3> DEFINE j == i - Len(tail)
    <3>1. j \in 1..Len(a) /\ j \in 1..Len(head) /\ Len(tail) + j = i
      BY <1>1, <2>2
    <3>2. (tail \o a)[i] = a[j]
      BY <1>2, <2>2
    <3> HIDE DEF j
    <3>3. a[j] = head[j] /\ head[j] = Held(r)[i]
      BY <3>1 DEF Parts
    <3>4. QED  BY <3>2, <3>3
  <2>3. QED  BY <2>1, <2>2
<1>4. Len(tail) + Len(a) \in 0..r.used
  BY <1>1
<1>5. QED  BY <1>2, <1>3, <1>4 DEF IsFront


(* What the search does, by where mem occurs.  *)
LEMMA UntilNone ==
  ASSUME NEW r, RingOK(r), NEW mem \in Seq(Char), FoundAcross(RbReadAll(r), mem) = {},
         \A k \in Nat : ~Occurs(Held(r), k, mem)
  PROVE  RbReadUntil(r, mem) = << >>
<1> DEFINE tail == RbReadAll(r)[1]
           head == RbReadAll(r)[2]
<1>1. Parts(tail, head, Held(r))
  BY RingParts
<1>2. RbReadUntil(r, mem) =
        IF Found(tail, mem) # {} THEN << Before(tail, mem), << >> >>
        ELSE IF Found(head, mem) # {} THEN << tail, Before(head, mem) >> ELSE << >>
  BY DEF RbReadUntil
<1> HIDE DEF tail, head
<1>3. tail \in Seq(Char) /\ head \in Seq(Char) /\ Len(tail) \in Nat
  BY <1>1, LenProperties DEF Parts
<1>4. \A k \in Nat : ~Occurs(tail, k, mem) /\ ~Occurs(head, k, mem)
  <2>1. \A k \in Nat : Len(tail) + k \in Nat
    BY <1>3
  <2>2. QED  BY <1>1, <2>1, OccursTail, OccursHead
<1>5. Found(tail, mem) = {} /\ Found(head, mem) = {}
  BY <1>3, <1>4, FoundNone
<1>6. QED  BY <1>2, <1>5

(* The first mem is in one of the two parts.  *)
LEMMA UntilFirst ==
  ASSUME NEW r, RingOK(r), NEW mem \in Seq(Char), NEW k, FirstAt(Held(r), k, mem), Len(mem) > 0,
         LET t == Len(RbReadAll(r)[1])
         IN  k + Len(mem) <= t \/ (t <= k /\ FoundAcross(RbReadAll(r), mem) = {})
  PROVE  RbReadUntil(r, mem) # << >> /\ IsFront(Text(RbReadUntil(r, mem)), k, r)
<1> DEFINE tail == RbReadAll(r)[1]
           head == RbReadAll(r)[2]
           t == Len(tail)
<1>1. Parts(tail, head, Held(r))
  BY RingParts
<1>2. /\ Found(tail, mem) # {} => RbReadUntil(r, mem) = << Before(tail, mem), << >> >>
      /\ Found(tail, mem) = {} /\ FoundAcross(RbReadAll(r), mem) = {} /\ Found(head, mem) # {}
           => RbReadUntil(r, mem) = << tail, Before(head, mem) >>
  BY DEF RbReadUntil
<1>3. k + Len(mem) <= t \/ (t <= k /\ FoundAcross(RbReadAll(r), mem) = {})
  OBVIOUS
<1> HIDE DEF tail, head, t
<1>4. /\ tail \in Seq(Char) /\ head \in Seq(Char) /\ t \in Nat /\ Len(mem) \in Nat
      /\ k \in Nat /\ Occurs(Held(r), k, mem) /\ \A l \in Nat : Occurs(Held(r), l, mem) => k <= l
  BY <1>1, LenProperties DEF Parts, FirstAt, t
<1>5. /\ \A l \in Nat : Occurs(tail, l, mem) <=> Occurs(Held(r), l, mem) /\ l + Len(mem) <= t
      /\ \A l \in Nat : Occurs(head, l, mem) <=> Occurs(Held(r), t + l, mem)
  BY <1>1, OccursTail, OccursHead DEF t
<1>6. CASE k + Len(mem) <= t
  <2>1. FirstAt(tail, k, mem)
    BY <1>4, <1>5, <1>6 DEF FirstAt
  <2> DEFINE b == Before(tail, mem)
  <2>2. Found(tail, mem) # {} /\ b \in Seq(Char) /\ Len(b) = k /\ \A i \in 1..k : b[i] = tail[i]
    BY <1>4, <2>1, BeforeText
  <2>3. RbReadUntil(r, mem) = << b, << >> >>
    BY <1>2, <2>2
  <2> HIDE DEF b
  <2>4. IsFront(b \o << >>, Len(b), r)
    <3>1. Len(b) <= Len(tail)
      BY <1>4, <1>6, <2>2 DEF t
    <3>2. QED  BY <1>1, <2>2, <3>1, FrontOfTail
  <2>5. QED  BY <2>2, <2>3, <2>4 DEF Text
<1>7. CASE t <= k /\ FoundAcross(RbReadAll(r), mem) = {}
  <2>1. Found(tail, mem) = {}
    <3>1. ASSUME NEW l \in Nat PROVE ~Occurs(tail, l, mem)
      <4>1. SUFFICES ASSUME Occurs(tail, l, mem) PROVE FALSE
        OBVIOUS
      <4>2. k <= l /\ l + Len(mem) <= t
        BY <1>4, <1>5, <4>1
      <4>3. QED  BY <1>4, <1>7, <4>2
    <3>2. QED  BY <1>4, <3>1, FoundNone
  <2> DEFINE c == k - t
  <2>2. c \in Nat /\ t + c = k
    BY <1>4, <1>7
  <2> HIDE DEF c
  <2>3. FirstAt(head, c, mem)
    <3>1. Occurs(head, c, mem)
      BY <1>4, <1>5, <2>2
    <3>2. ASSUME NEW l \in Nat, Occurs(head, l, mem) PROVE c <= l
      <4>1. t + l \in Nat /\ Occurs(Held(r), t + l, mem)
        BY <1>4, <1>5, <3>2
      <4>2. k <= t + l
        BY <1>4, <4>1
      <4>3. QED  BY <1>4, <2>2, <4>2
    <3>3. QED  BY <2>2, <3>1, <3>2 DEF FirstAt
  <2> DEFINE b == Before(head, mem)
  <2>4. Found(head, mem) # {} /\ b \in Seq(Char) /\ Len(b) = c /\ \A i \in 1..c : b[i] = head[i]
    BY <1>4, <2>3, BeforeText
  <2>5. RbReadUntil(r, mem) = << tail, b >>
    BY <1>2, <1>7, <2>1, <2>4
  <2>6. c <= Len(head)
    BY <1>4, <2>2, <2>3, LenProperties DEF FirstAt, Occurs
  <2> HIDE DEF b
  <2>7. IsFront(tail \o b, Len(tail) + Len(b), r)
    BY <1>1, <2>4, <2>6, FrontWithTail
  <2>8. QED  BY <2>2, <2>4, <2>5, <2>7 DEF Text, t
<1>8. QED  BY <1>3, <1>6, <1>7

LEMMA UntilLine ==
  ASSUME NEW r, RingOK(r)
  PROVE  LET iov == RbReadUntil(r, CrLf)
         IN  /\ (\A k \in Nat : ~Occurs(Held(r), k, CrLf)) => iov = << >>
             /\ \A k : FirstAt(Held(r), k, CrLf) => iov # << >> /\ IsFront(Text(iov), k, r)
<1> DEFINE iov == RbReadUntil(r, CrLf)
           tail == RbReadAll(r)[1]
           head == RbReadAll(r)[2]
           t == Len(tail)
           across == FoundAcross(RbReadAll(r), CrLf)
<1>1. CrLf \in Seq(Char) /\ Len(CrLf) = 2
  BY SearchedSeq
<1>2. across \subseteq {1} /\ (across # {} <=> t >= 1 /\ Occurs(Held(r), t - 1, CrLf))
  BY AcrossLine
<1>3. Parts(tail, head, Held(r)) /\ t \in Nat /\ tail \in Seq(Char)
  BY RingParts, LenProperties DEF Parts
<1>4. ASSUME \A k \in Nat : ~Occurs(Held(r), k, CrLf) PROVE iov = << >>
  <2>1. across = {}
    <3>1. t >= 1 => t - 1 \in Nat
      BY <1>3
    <3>2. QED  BY <1>2, <1>4, <3>1
  <2>2. QED  BY <1>1, <1>4, <2>1, UntilNone
<1>5. ASSUME NEW k, FirstAt(Held(r), k, CrLf) PROVE iov # << >> /\ IsFront(Text(iov), k, r)
  <2>1. k \in Nat /\ Occurs(Held(r), k, CrLf) /\ \A l \in Nat : Occurs(Held(r), l, CrLf) => k <= l
    BY <1>5 DEF FirstAt
  <2>2. CASE k + 2 <= t \/ (t <= k /\ across = {})
    <3>1. k + Len(CrLf) <= t \/ (t <= k /\ across = {})
      BY <1>1, <2>2
    <3>2. Len(CrLf) > 0
      BY <1>1
    <3>3. QED  BY <1>1, <1>5, <3>1, <3>2, UntilFirst
  <2>3. CASE ~(k + 2 <= t) /\ ~(t <= k /\ across = {})
    <3>1. t >= 1 /\ k = t - 1 /\ across = {1}
      <4>1. CASE t <= k
        <5>1. t >= 1 /\ Occurs(Held(r), t - 1, CrLf)
          BY <1>2, <2>3, <4>1
        <5>2. t - 1 \in Nat
          BY <1>3, <5>1
        <5>3. k <= t - 1
          BY <2>1, <5>1, <5>2
        <5>4. QED  BY <1>3, <2>1, <4>1, <5>3
      <4>2. CASE ~(t <= k)
        <5>1. t >= 1 /\ k = t - 1
          BY <1>3, <2>1, <2>3, <4>2
        <5>2. QED  BY <1>2, <2>1, <5>1
      <4>3. QED  BY <4>1, <4>2
    <3>2. Found(tail, CrLf) = {}
      <4>1. ASSUME NEW l \in Nat PROVE ~Occurs(tail, l, CrLf)
        <5>1. SUFFICES ASSUME Occurs(tail, l, CrLf) PROVE FALSE
          OBVIOUS
        <5>2. Occurs(Held(r), l, CrLf) /\ l + Len(CrLf) <= t
          BY <1>1, <1>3, <5>1, OccursTail
        <5>3. k <= l
          BY <2>1, <5>2
        <5>4. QED  BY <1>1, <1>3, <3>1, <5>2, <5>3
      <4>2. QED  BY <1>1, <1>3, <4>1, FoundNone
    <3> DEFINE i == CHOOSE i \in across : \A l \in across : i <= l
               b == SubSeq(tail, 1, Len(tail) - (Len(CrLf) - i))
    <3>3. iov = << b, << >> >>
      BY <3>1, <3>2 DEF RbReadUntil
    <3>4. i = 1
      BY <3>1
    <3> HIDE DEF iov, tail, head, across, i
    <3>5. b = SubSeq(tail, 1, t - 1)
      BY <1>1, <1>3, <3>4
    <3> HIDE DEF b
    <3>6. b \in Seq(Char) /\ Len(b) = k /\ \A j \in 1..k : b[j] = tail[j]
      <4>1. \A j \in 1..(t - 1) : tail[j] \in Char
        BY <1>3, ElementOfSeq
      <4>2. /\ SubSeq(tail, 1, t - 1) \in Seq(Char)
            /\ Len(SubSeq(tail, 1, t - 1)) = IF 1 <= t - 1 THEN t - 1 - 1 + 1 ELSE 0
            /\ \A j \in 1..(t - 1 - 1 + 1) : SubSeq(tail, 1, t - 1)[j] = tail[1 + j - 1]
        BY <1>3, <4>1, SubSeqProperties
      <4>3. t \in Nat /\ 1 <= t /\ k = t - 1
        BY <1>3, <3>1
      <4> HIDE DEF t
      <4>4. Len(b) = k
        BY <3>5, <4>2, <4>3
      <4>5. \A j \in 1..k : b[j] = tail[j]
        BY <3>5, <4>2, <4>3
      <4>6. QED  BY <3>5, <4>2, <4>4, <4>5
    <3>7. IsFront(b \o << >>, Len(b), r)
      <4>1. Len(b) <= Len(tail)
        BY <1>3, <3>1, <3>6
      <4>2. QED  BY <1>3, <3>6, <4>1, FrontOfTail
    <3>8. QED  BY <3>3, <3>6, <3>7 DEF Text
  <2>4. QED  BY <2>2, <2>3
<1>6. QED  BY <1>4, <1>5

LEMMA AcrossChar == \A iov : FoundAcross(iov, << "\r" >>) = {}
  BY SearchedSeq DEF FoundAcross

(* The first mem across the end of the buffer.  *)
LEMMA LiesWhere ==
  ASSUME NEW r, RingOK(r), NEW mem \in Seq(Char), NEW k, FirstAt(Held(r), k, mem)
  PROVE  LET t == Len(RbReadAll(r)[1]) IN LiesAcross(r, mem) <=> k < t /\ t < k + Len(mem)
<1>1. Text(RbReadAll(r)) = Held(r) /\ Held(r) \in Seq(Char)
  BY ReadAllText, HeldText
<1>2. Found(Held(r), mem) # {} /\ Len(Before(Held(r), mem)) = k
  BY <1>1, BeforeText
<1>3. QED  BY <1>1, <1>2 DEF LiesAcross

LEMMA UntilSearched ==
  ASSUME NEW r, RingOK(r), Chained(Held(r)), NEW mem \in Searched,
         ~(Len(mem) > 2 /\ LiesAcross(r, mem))
  PROVE  LET iov == RbReadUntil(r, mem)
         IN  /\ (\A k \in Nat : ~Occurs(Held(r), k, mem)) => iov = << >>
             /\ \A k : FirstAt(Held(r), k, mem) => iov # << >> /\ IsFront(Text(iov), k, r)
<1>1. CASE mem = CrLf
  BY <1>1, UntilLine
<1>2. CASE mem \in {EndOfList, << "\r" >>}
  <2>1. FoundAcross(RbReadAll(r), mem) = {}
    BY <1>2, AcrossList, AcrossChar
  <2>2. mem \in Seq(Char) /\ Len(mem) \in Nat /\ Len(mem) > 0 /\ (Len(mem) > 2 \/ Len(mem) = 1)
    <3>1. CASE mem = EndOfList
      BY <3>1, SearchedSeq
    <3>2. CASE mem = << "\r" >>
      BY <3>2, SearchedSeq
    <3>3. QED  BY <1>2, <3>1, <3>2
  <2>3. ASSUME NEW k, FirstAt(Held(r), k, mem)
        PROVE  RbReadUntil(r, mem) # << >> /\ IsFront(Text(RbReadUntil(r, mem)), k, r)
    <3> DEFINE t == Len(RbReadAll(r)[1])
    <3>1. t \in Nat /\ k \in Nat
      BY <2>3, RingParts, LenProperties DEF Parts, FirstAt
    <3>2. LiesAcross(r, mem) <=> k < t /\ t < k + Len(mem)
      BY <2>2, <2>3, LiesWhere
    <3> HIDE DEF t
    <3>3. k + Len(mem) <= t \/ t <= k
      <4>1. Len(mem) > 2 => ~(k < t /\ t < k + Len(mem))
        BY <3>2, Zenon
      <4> DEFINE m == Len(mem)
      <4>2. m \in Nat /\ (m > 2 \/ m = 1) /\ (m > 2 => ~(k < t /\ t < k + m))
        BY <2>2, <4>1
      <4> HIDE DEF m
      <4>3. k + m <= t \/ t <= k
        BY <3>1, <4>2
      <4>4. QED  BY <4>3 DEF m
    <3>4. k + Len(mem) <= t \/ (t <= k /\ FoundAcross(RbReadAll(r), mem) = {})
      BY <2>1, <3>3
    <3>5. QED  BY <2>2, <2>3, <3>4, UntilFirst DEF t
  <2>4. (\A k \in Nat : ~Occurs(Held(r), k, mem)) => RbReadUntil(r, mem) = << >>
    BY <2>1, <2>2, UntilNone
  <2>5. QED  BY <2>3, <2>4
<1>3. QED  BY <1>1, <1>2 DEF Searched

(* Whatever it finds is a front of the ring, a list's end across the end of  *)
(* the buffer included.                                                      *)
LEMMA UntilIsFront ==
  ASSUME NEW r, RingOK(r), Chained(Held(r)), NEW mem \in Searched, RbReadUntil(r, mem) # << >>
  PROVE  \E n \in Nat : IsFront(Text(RbReadUntil(r, mem)), n, r)
<1>1. CASE mem = CrLf
  <2>1. PICK k \in Nat : Occurs(Held(r), k, CrLf)
    BY <1>1, UntilLine
  <2>2. PICK l \in Nat : FirstAt(Held(r), l, CrLf)
    BY <2>1, FirstOf, HeldText, SearchedSeq
  <2>3. QED  BY <1>1, <2>2, UntilLine
<1>2. CASE mem \in {EndOfList, << "\r" >>}
  <2> DEFINE tail == RbReadAll(r)[1]
             head == RbReadAll(r)[2]
  <2>1. Parts(tail, head, Held(r))
    BY RingParts
  <2>2. FoundAcross(RbReadAll(r), mem) = {} /\ mem \in Seq(Char)
    BY <1>2, AcrossList, AcrossChar, SearchedSeq
  <2>3. RbReadUntil(r, mem) =
          IF Found(tail, mem) # {} THEN << Before(tail, mem), << >> >>
          ELSE IF Found(head, mem) # {} THEN << tail, Before(head, mem) >> ELSE << >>
    BY <2>2 DEF RbReadUntil
  <2> HIDE DEF tail, head
  <2>4. tail \in Seq(Char) /\ head \in Seq(Char) /\ Len(tail) \in Nat /\ Len(head) \in Nat
    BY <2>1, LenProperties DEF Parts
  <2>5. ASSUME NEW text \in Seq(Char), Found(text, mem) # {}
        PROVE  /\ Before(text, mem) \in Seq(Char) /\ Len(Before(text, mem)) <= Len(text)
               /\ \A i \in 1..Len(Before(text, mem)) : Before(text, mem)[i] = text[i]
    <3>1. PICK k \in Nat : FirstAt(text, k, mem)
      BY <2>2, <2>5, FoundNone, FirstOf
    <3>2. k <= Len(text)
      BY <2>2, <3>1, LenProperties DEF FirstAt, Occurs
    <3>3. QED  BY <2>2, <3>1, <3>2, BeforeText
  <2>6. CASE Found(tail, mem) # {}
    <3> DEFINE b == Before(tail, mem)
    <3>1. b \in Seq(Char) /\ Len(b) <= Len(tail) /\ \A i \in 1..Len(b) : b[i] = tail[i]
      BY <2>4, <2>5, <2>6
    <3>2. RbReadUntil(r, mem) = << b, << >> >>
      BY <2>3, <2>6
    <3> HIDE DEF b
    <3>3. IsFront(b \o << >>, Len(b), r) /\ Len(b) \in Nat
      BY <2>1, <3>1, FrontOfTail, LenProperties
    <3>4. QED  BY <3>2, <3>3 DEF Text
  <2>7. CASE Found(tail, mem) = {} /\ Found(head, mem) # {}
    <3> DEFINE b == Before(head, mem)
    <3>1. b \in Seq(Char) /\ Len(b) <= Len(head) /\ \A i \in 1..Len(b) : b[i] = head[i]
      BY <2>4, <2>5, <2>7
    <3>2. RbReadUntil(r, mem) = << tail, b >>
      BY <2>3, <2>7
    <3> HIDE DEF b
    <3>3. IsFront(tail \o b, Len(tail) + Len(b), r) /\ Len(tail) + Len(b) \in Nat
      BY <2>1, <2>4, <3>1, FrontWithTail, LenProperties
    <3>4. QED  BY <3>2, <3>3 DEF Text
  <2>8. QED  BY <2>3, <2>6, <2>7
<1>3. QED  BY <1>1, <1>2 DEF Searched

(* And what follows that front is what was searched for.  *)
LEMMA UntilFound ==
  ASSUME NEW r, RingOK(r), Chained(Held(r)), NEW mem \in Searched, RbReadUntil(r, mem) # << >>
  PROVE  Len(Text(RbReadUntil(r, mem))) \in Found(Held(r), mem)
<1>1. Held(r) \in Seq(Char) /\ mem \in Seq(Char)
  BY HeldText, SearchedSeq DEF Searched
<1>2. CASE mem = CrLf
  <2>1. PICK k \in Nat : Occurs(Held(r), k, CrLf)
    BY <1>2, UntilLine
  <2>2. PICK l \in Nat : FirstAt(Held(r), l, CrLf)
    BY <2>1, FirstOf, HeldText, SearchedSeq
  <2>3. IsFront(Text(RbReadUntil(r, mem)), l, r)
    BY <1>2, <2>2, UntilLine
  <2>4. Len(Text(RbReadUntil(r, mem))) = l
    BY <2>3 DEF IsFront
  <2>5. QED  BY <1>1, <1>2, <2>2, <2>4, FoundText DEF FirstAt
<1>3. CASE mem \in {EndOfList, << "\r" >>}
  <2> DEFINE tail == RbReadAll(r)[1]
             head == RbReadAll(r)[2]
  <2>1. Parts(tail, head, Held(r))
    BY RingParts
  <2>2. FoundAcross(RbReadAll(r), mem) = {}
    BY <1>3, AcrossList, AcrossChar
  <2>3. RbReadUntil(r, mem) =
          IF Found(tail, mem) # {} THEN << Before(tail, mem), << >> >>
          ELSE IF Found(head, mem) # {} THEN << tail, Before(head, mem) >> ELSE << >>
    BY <2>2 DEF RbReadUntil
  <2> HIDE DEF tail, head
  <2>4. tail \in Seq(Char) /\ head \in Seq(Char) /\ Len(tail) \in Nat
    BY <2>1, LenProperties DEF Parts
  <2>5. CASE Found(tail, mem) # {}
    <3>1. PICK k \in Nat : FirstAt(tail, k, mem)
      BY <1>1, <2>4, <2>5, FoundNone, FirstOf
    <3> DEFINE b == Before(tail, mem)
    <3>2. b \in Seq(Char) /\ Len(b) = k
      BY <1>1, <2>4, <3>1, BeforeText
    <3>3. RbReadUntil(r, mem) = << b, << >> >>
      BY <2>3, <2>5
    <3> HIDE DEF b
    <3>4. Text(<< b, << >> >>) = b
      BY <3>2, ConcatEmptySeq DEF Text
    <3>5. Occurs(Held(r), k, mem)
      BY <1>1, <2>1, <3>1, OccursTail DEF FirstAt
    <3>6. QED  BY <1>1, <3>2, <3>3, <3>4, <3>5, FoundText
  <2>6. CASE Found(tail, mem) = {} /\ Found(head, mem) # {}
    <3>1. PICK k \in Nat : FirstAt(head, k, mem)
      BY <1>1, <2>4, <2>6, FoundNone, FirstOf
    <3> DEFINE b == Before(head, mem)
    <3>2. b \in Seq(Char) /\ Len(b) = k
      BY <1>1, <2>4, <3>1, BeforeText
    <3>3. RbReadUntil(r, mem) = << tail, b >>
      BY <2>3, <2>6
    <3> HIDE DEF b
    <3>4. Len(Text(<< tail, b >>)) = Len(tail) + k
      BY <2>4, <3>2, ConcatProperties DEF Text
    <3>5. Occurs(Held(r), Len(tail) + k, mem) /\ Len(tail) + k \in Nat
      BY <1>1, <2>1, <2>4, <3>1, OccursHead DEF FirstAt
    <3>6. QED  BY <1>1, <3>3, <3>4, <3>5, FoundText
  <2>7. QED  BY <2>3, <2>5, <2>6
<1>4. QED  BY <1>2, <1>3 DEF Searched

LEMMA FindsFirst == RingOK(rb) /\ Chained(Held(rb)) => SearchFindsFirst
<1>1. SUFFICES ASSUME RingOK(rb), Chained(Held(rb)) PROVE SearchFindsFirst
  OBVIOUS
<1>2. Text(RbReadAll(rb)) = Held(rb) /\ Held(rb) \in Seq(Char)
  BY <1>1, ReadAllText, HeldText
<1>3. ASSUME NEW mem \in Searched, ~(Len(mem) > 2 /\ LiesAcross(rb, mem))
      PROVE  IF Found(Held(rb), mem) = {} THEN RbReadUntil(rb, mem) = << >>
             ELSE /\ RbReadUntil(rb, mem) # << >>
                  /\ Text(RbReadUntil(rb, mem)) = Before(Held(rb), mem)
  <2>1. mem \in Seq(Char)
    BY SearchedSeq DEF Searched
  <2>2. CASE Found(Held(rb), mem) = {}
    <3>1. \A k \in Nat : ~Occurs(Held(rb), k, mem)
      BY <1>2, <2>1, <2>2, FoundNone
    <3>2. RbReadUntil(rb, mem) = << >>
      BY <1>1, <1>3, <3>1, UntilSearched
    <3>3. QED  BY <2>2, <3>2
  <2>3. CASE Found(Held(rb), mem) # {}
    <3>1. PICK k \in Nat : FirstAt(Held(rb), k, mem)
      BY <1>2, <2>1, <2>3, FoundNone, FirstOf
    <3>2. /\ RbReadUntil(rb, mem) # << >>
          /\ IsFront(Text(RbReadUntil(rb, mem)), k, rb)
      BY <1>1, <1>3, <3>1, UntilSearched
    <3> DEFINE b == Before(Held(rb), mem)
    <3>3. b \in Seq(Char) /\ Len(b) = k /\ \A i \in 1..k : b[i] = Held(rb)[i]
      BY <1>2, <2>1, <3>1, BeforeText
    <3> HIDE DEF b
    <3>4. Text(RbReadUntil(rb, mem)) = b
      BY <3>2, <3>3, SeqEqual DEF IsFront
    <3>5. QED  BY <2>3, <3>2, <3>4 DEF b
  <2>4. QED  BY <2>2, <2>3
<1>4. ASSUME NEW mem \in Searched
      PROVE  RbReadUntil(rb, mem) = << >>
             \/ Len(Text(RbReadUntil(rb, mem))) \in Found(Held(rb), mem)
  BY <1>1, UntilFound
<1>5. QED  BY <1>2, <1>3, <1>4 DEF SearchFindsFirst, Searched

-----------------------------------------------------------------------------
(* The messages.                                                             *)

LEMMA BytesOk ==
  LET b == Bytes("ok")
  IN  /\ b \in Seq(Char) /\ Len(b) = 6
      /\ b[1] = "\r" /\ b[2] = "\n" /\ b[3] = "O" /\ b[4] = "K" /\ b[5] = "\r"
      /\ b[6] = "\n"
BY CharsIn DEF Bytes, CrLf

LEMMA BytesLine ==
  LET b == Bytes("line")
  IN  /\ b \in Seq(Char) /\ Len(b) = 5
      /\ b[1] = "\r" /\ b[2] = "\n" /\ b[3] = "x" /\ b[4] = "\r" /\ b[5] = "\n"
BY CharsIn DEF Bytes, CrLf

LEMMA BytesEcho ==
  LET b == Bytes("echo")
  IN  /\ b \in Seq(Char) /\ Len(b) = 3
      /\ b[1] = "x" /\ b[2] = "x" /\ b[3] = "\r"
BY CharsIn DEF Bytes

LEMMA BytesMore ==
  LET b == Bytes("more")
  IN  /\ b \in Seq(Char) /\ Len(b) = 3
      /\ b[1] = "x" /\ b[2] = "\r" /\ b[3] = "\n"
BY CharsIn DEF Bytes, CrLf

LEMMA BytesPrompt ==
  LET b == Bytes("prompt")
  IN  /\ b \in Seq(Char) /\ Len(b) = 4
      /\ b[1] = "\r" /\ b[2] = "\n" /\ b[3] = ">" /\ b[4] = "sp"
BY CharsIn DEF Bytes, CrLf, Prompt

LEMMA BytesCssi ==
  LET b == Bytes("cssi")
  IN  /\ b \in Seq(Char) /\ Len(b) = 6
      /\ b[1] = "\r" /\ b[2] = "\n" /\ b[3] = "+I" /\ b[4] = ":" /\ b[5] = "x"
      /\ b[6] = "x"
BY CharsIn DEF Bytes, CrLf, Cssi

LEMMA BytesCssu ==
  LET b == Bytes("cssu")
  IN  /\ b \in Seq(Char) /\ Len(b) = 9
      /\ b[1] = "\r" /\ b[2] = "\n" /\ b[3] = "\r" /\ b[4] = "\n" /\ b[5] = "+S"
      /\ b[6] = ":" /\ b[7] = "x" /\ b[8] = "\r" /\ b[9] = "\n"
BY CharsIn DEF Bytes, CrLf, Cssu

LEMMA BytesCmgr ==
  LET b == Bytes("cmgr")
  IN  /\ b \in Seq(Char) /\ Len(b) = 16
      /\ b[1] = "\r" /\ b[2] = "\n" /\ b[3] = "+R" /\ b[4] = ":" /\ b[5] = "x"
      /\ b[6] = "\r" /\ b[7] = "\n" /\ b[8] = "x" /\ b[9] = "\r" /\ b[10] = "\n"
      /\ b[11] = "\r" /\ b[12] = "\n" /\ b[13] = "O" /\ b[14] = "K" /\ b[15] = "\r"
      /\ b[16] = "\n"
BY CharsIn DEF Bytes, CrLf, Cmgr, EndOfList

LEMMA BytesClcc ==
  LET b == Bytes("clcc")
  IN  /\ b \in Seq(Char) /\ Len(b) = 13
      /\ b[1] = "\r" /\ b[2] = "\n" /\ b[3] = "+L" /\ b[4] = ":" /\ b[5] = "x"
      /\ b[6] = "\r" /\ b[7] = "\n" /\ b[8] = "\r" /\ b[9] = "\n" /\ b[10] = "O"
      /\ b[11] = "K" /\ b[12] = "\r" /\ b[13] = "\n"
BY CharsIn DEF Bytes, CrLf, Clcc, EndOfList

LEMMA BytesClcc2 ==
  LET b == Bytes("clcc2")
  IN  /\ b \in Seq(Char) /\ Len(b) = 18
      /\ b[1] = "\r" /\ b[2] = "\n" /\ b[3] = "+L" /\ b[4] = ":" /\ b[5] = "x"
      /\ b[6] = "\r" /\ b[7] = "\n" /\ b[8] = "+L" /\ b[9] = ":" /\ b[10] = "x"
      /\ b[11] = "\r" /\ b[12] = "\n" /\ b[13] = "\r" /\ b[14] = "\n"
      /\ b[15] = "O" /\ b[16] = "K" /\ b[17] = "\r" /\ b[18] = "\n"
BY CharsIn DEF Bytes, CrLf, Clcc, EndOfList

(* Every "O" and "K" of what the modem wrote has what belongs behind it.  *)
WellChained(text) ==
  \A i \in 1..Len(text) :
    /\ text[i] = "O" => i + 1 <= Len(text) /\ text[i + 1] = "K"
    /\ text[i] = "K" => i + 2 <= Len(text) /\ text[i + 1] = "\r" /\ text[i + 2] = "\n"

LEMMA ChainedLonger ==
  ASSUME NEW a \in Seq(Char), NEW b \in Seq(Char), WellChained(a), WellChained(b)
  PROVE  WellChained(a \o b)
<1> DEFINE c == a \o b
<1>1. Len(a) \in Nat /\ Len(b) \in Nat
  BY LenProperties
<1>2. /\ Len(c) = Len(a) + Len(b)
      /\ \A i \in 1..(Len(a) + Len(b)) : c[i] = IF i <= Len(a) THEN a[i] ELSE b[i - Len(a)]
  BY ConcatProperties
<1>3. \A i \in 1..Len(a) : c[i] = a[i]
  BY <1>1, <1>2
<1>4. \A i \in 1..Len(b) : c[Len(a) + i] = b[i]
  BY <1>1, <1>2
<1> HIDE DEF c
<1>5. ASSUME NEW i \in 1..Len(c)
      PROVE  /\ c[i] = "O" => i + 1 <= Len(c) /\ c[i + 1] = "K"
             /\ c[i] = "K" => i + 2 <= Len(c) /\ c[i + 1] = "\r" /\ c[i + 2] = "\n"
  <2>1. CASE i <= Len(a)
    <3>1. i \in 1..Len(a) /\ i + 1 \in Nat /\ i + 2 \in Nat
      BY <1>1, <1>2, <2>1
    <3>2. c[i] = a[i]
      BY <1>3, <3>1
    <3>3. c[i] = "O" => i + 1 <= Len(c) /\ c[i + 1] = "K"
      <4>1. SUFFICES ASSUME c[i] = "O" PROVE i + 1 <= Len(c) /\ c[i + 1] = "K"
        OBVIOUS
      <4>2. i + 1 <= Len(a) /\ a[i + 1] = "K"
        BY <3>1, <3>2, <4>1 DEF WellChained
      <4>3. i + 1 \in 1..Len(a)
        BY <1>1, <3>1, <4>2
      <4>4. QED  BY <1>1, <1>2, <1>3, <4>2, <4>3
    <3>4. c[i] = "K" => i + 2 <= Len(c) /\ c[i + 1] = "\r" /\ c[i + 2] = "\n"
      <4>1. SUFFICES ASSUME c[i] = "K"
                     PROVE  i + 2 <= Len(c) /\ c[i + 1] = "\r" /\ c[i + 2] = "\n"
        OBVIOUS
      <4>2. i + 2 <= Len(a) /\ a[i + 1] = "\r" /\ a[i + 2] = "\n"
        BY <3>1, <3>2, <4>1 DEF WellChained
      <4>3. i + 1 \in 1..Len(a) /\ i + 2 \in 1..Len(a)
        BY <1>1, <3>1, <4>2
      <4>4. QED  BY <1>1, <1>2, <1>3, <4>2, <4>3
    <3>5. QED  BY <3>3, <3>4
  <2>2. CASE i > Len(a)
    <3>1. PICK j \in 1..Len(b) : Len(a) + j = i
      <4>1. i - Len(a) \in 1..Len(b) /\ Len(a) + (i - Len(a)) = i
        BY <1>1, <1>2, <2>2
      <4>2. QED  BY <4>1
    <3>2. c[i] = b[j] /\ i + 1 = Len(a) + (j + 1) /\ i + 2 = Len(a) + (j + 2)
      <4>1. j \in Nat /\ i \in Nat
        BY <1>1
      <4>2. i + 1 = Len(a) + (j + 1) /\ i + 2 = Len(a) + (j + 2)
        BY <1>1, <3>1, <4>1
      <4>3. QED  BY <1>4, <3>1, <4>2
    <3>3. c[i] = "O" => i + 1 <= Len(c) /\ c[i + 1] = "K"
      <4>1. SUFFICES ASSUME c[i] = "O" PROVE i + 1 <= Len(c) /\ c[i + 1] = "K"
        OBVIOUS
      <4>2. j + 1 <= Len(b) /\ b[j + 1] = "K"
        BY <3>2, <4>1 DEF WellChained
      <4>3. j + 1 \in 1..Len(b)
        BY <1>1, <4>2
      <4>4. c[i + 1] = b[j + 1]
        BY <1>4, <3>2, <4>3
      <4>5. QED  BY <1>1, <1>2, <3>2, <4>2, <4>3, <4>4
    <3>4. c[i] = "K" => i + 2 <= Len(c) /\ c[i + 1] = "\r" /\ c[i + 2] = "\n"
      <4>1. SUFFICES ASSUME c[i] = "K"
                     PROVE  i + 2 <= Len(c) /\ c[i + 1] = "\r" /\ c[i + 2] = "\n"
        OBVIOUS
      <4>2. j + 2 <= Len(b) /\ b[j + 1] = "\r" /\ b[j + 2] = "\n"
        BY <3>2, <4>1 DEF WellChained
      <4>3. j + 1 \in 1..Len(b) /\ j + 2 \in 1..Len(b)
        BY <1>1, <4>2
      <4>4. c[i + 1] = b[j + 1] /\ c[i + 2] = b[j + 2]
        BY <1>4, <3>2, <4>3
      <4>5. QED  BY <1>1, <1>2, <3>2, <4>2, <4>3, <4>4
    <3>5. QED  BY <3>3, <3>4
  <2>3. i <= Len(a) \/ i > Len(a)
    BY <1>1, <1>2
  <2>4. QED  BY <2>1, <2>2, <2>3, Zenon
<1>6. QED  BY <1>5 DEF WellChained, c

LEMMA PlainChained ==
  ASSUME NEW a \in Seq(Char), \A i \in 1..Len(a) : a[i] # "O" /\ a[i] # "K"
  PROVE  WellChained(a)
BY DEF WellChained

LEMMA ListEndChained == EndOfList \in Seq(Char) /\ WellChained(EndOfList)
BY SearchedSeq DEF WellChained

LEMMA MessageBytes ==
  ASSUME NEW m \in MessageKinds
  PROVE  Bytes(m) \in Seq(Char) /\ WellChained(Bytes(m))
<1>1. CASE m = "ok"
  BY <1>1, BytesOk DEF WellChained
<1>2. CASE m = "line"
  BY <1>2, BytesLine DEF WellChained
<1>3. CASE m = "echo"
  BY <1>3, BytesEcho DEF WellChained
<1>4. CASE m = "more"
  BY <1>4, BytesMore DEF WellChained
<1>5. CASE m = "prompt"
  BY <1>5, BytesPrompt DEF WellChained
<1>6. CASE m = "cssi"
  BY <1>6, BytesCssi DEF WellChained
<1>7. CASE m = "cssu"
  BY <1>7, BytesCssu DEF WellChained
<1>8. CASE m = "cmgr"
  <2> DEFINE a == CrLf \o Cmgr \o << "x" >> \o CrLf \o << "x", "\r" >>
  <2>1. a \in Seq(Char) /\ Len(a) = 9 /\ \A i \in 1..9 : a[i] # "O" /\ a[i] # "K"
    BY CharsIn DEF CrLf, Cmgr
  <2>2. Bytes(m) = a \o EndOfList
    BY <1>8 DEF Bytes
  <2> HIDE DEF a
  <2>3. QED  BY <2>1, <2>2, PlainChained, ListEndChained, ChainedLonger, ConcatProperties
<1>9. CASE m = "clcc"
  <2> DEFINE a == CrLf \o Clcc \o << "x", "\r" >>
  <2>1. a \in Seq(Char) /\ Len(a) = 6 /\ \A i \in 1..6 : a[i] # "O" /\ a[i] # "K"
    BY CharsIn DEF CrLf, Clcc
  <2>2. Bytes(m) = a \o EndOfList
    BY <1>9 DEF Bytes
  <2> HIDE DEF a
  <2>3. QED  BY <2>1, <2>2, PlainChained, ListEndChained, ChainedLonger, ConcatProperties
<1>10. CASE m = "clcc2"
  <2> DEFINE a == CrLf \o Clcc \o << "x" >> \o CrLf
             b == a \o Clcc
             c == b \o << "x", "\r" >>
  <2>1. a \in Seq(Char) /\ Len(a) = 7 /\ \A i \in 1..7 : a[i] # "O" /\ a[i] # "K"
    BY CharsIn DEF CrLf, Clcc
  <2>2. Clcc \in Seq(Char) /\ Len(Clcc) = 2 /\ \A i \in 1..2 : Clcc[i] # "O" /\ Clcc[i] # "K"
    BY CharsIn DEF Clcc
  <2>3. << "x", "\r" >> \in Seq(Char) /\ WellChained(<< "x", "\r" >>)
    BY CharsIn DEF WellChained
  <2>4. Bytes(m) = c \o EndOfList
    BY <1>10 DEF Bytes
  <2> HIDE DEF a
  <2>5. WellChained(a) /\ WellChained(Clcc)
    BY <2>1, <2>2, PlainChained
  <2>6. b \in Seq(Char) /\ WellChained(b)
    BY <2>1, <2>2, <2>5, ChainedLonger, ConcatProperties
  <2> HIDE DEF b
  <2>7. c \in Seq(Char) /\ WellChained(c)
    BY <2>3, <2>6, ChainedLonger, ConcatProperties
  <2> HIDE DEF c
  <2>8. QED  BY <2>4, <2>7, ListEndChained, ChainedLonger, ConcatProperties
<1>11. QED  BY <1>1, <1>2, <1>3, <1>4, <1>5, <1>6, <1>7, <1>8, <1>9, <1>10 DEF MessageKinds

LEMMA MessageResults ==
  ASSUME NEW m \in MessageKinds
  PROVE  ResultsOf(m) \in ResultSeq
<1> DEFINE ok == << "O", "K", "\r" >>
<1>1. CASE m \in {"ok", "line"}
  <2> DEFINE x == << "x", "\r" >>
  <2>1. ok \in Seq(Char) /\ x \in Seq(Char)
    BY CharsIn
  <2>2. \/ ResultsOf(m) = << Taken("ok", ok) >>
        \/ ResultsOf(m) = << Taken("unknown", x) >>
    BY <1>1 DEF ResultsOf
  <2> HIDE DEF ok, x
  <2>3. Taken("ok", ok) \in AResult /\ Taken("unknown", x) \in AResult
    BY <2>1 DEF Taken, AResult, Classes
  <2>4. QED  BY <2>2, <2>3, SMTT(30) DEF ResultSeq
<1>2. CASE m \in {"echo", "more"}
  BY <1>2 DEF ResultsOf, ResultSeq
<1>3. CASE m = "prompt"
  <2>1. Prompt \in Seq(Char)
    BY CharsIn DEF Prompt
  <2>2. Taken("prompt", Prompt) \in AResult
    BY <2>1 DEF Taken, AResult, Classes
  <2>3. QED  BY <1>3, <2>2 DEF ResultsOf, ResultSeq
<1>4. CASE m = "cssi"
  <2> DEFINE t == Cssi \o << "x", "x" >>
  <2>1. t \in Seq(Char)
    BY CharsIn DEF Cssi
  <2>2. ResultsOf(m) = << Taken("cssi", t) >>
    BY <1>4 DEF ResultsOf
  <2> HIDE DEF t
  <2>3. Taken("cssi", t) \in AResult
    BY <2>1 DEF Taken, AResult, Classes
  <2>4. QED  BY <2>2, <2>3 DEF ResultSeq
<1>5. CASE m = "cssu"
  <2> DEFINE t == Cssu \o << "x", "\r" >>
  <2>1. t \in Seq(Char)
    BY CharsIn DEF Cssu
  <2>2. ResultsOf(m) = << Taken("cssu", t) >>
    BY <1>5 DEF ResultsOf
  <2> HIDE DEF t
  <2>3. Taken("cssu", t) \in AResult
    BY <2>1 DEF Taken, AResult, Classes
  <2>4. QED  BY <2>2, <2>3 DEF ResultSeq
<1>6. CASE m = "cmgr"
  <2> DEFINE t == Cmgr \o << "x" >> \o CrLf \o << "x", "\r" >>
  <2>1. t \in Seq(Char)
    BY CharsIn DEF Cmgr, CrLf
  <2>2. ResultsOf(m) = << Taken("cmgr", t) >>
    BY <1>6 DEF ResultsOf
  <2> HIDE DEF t
  <2>3. Taken("cmgr", t) \in AResult
    BY <2>1 DEF Taken, AResult, Classes
  <2>4. QED  BY <2>2, <2>3 DEF ResultSeq
<1>7. CASE m = "clcc"
  <2> DEFINE t == Clcc \o << "x", "\r" >>
  <2>1. t \in Seq(Char) /\ ok \in Seq(Char)
    BY CharsIn DEF Clcc
  <2>2. ResultsOf(m) = << Taken("clcc", t), Taken("ok", ok) >>
    BY <1>7 DEF ResultsOf
  <2> HIDE DEF t, ok
  <2>3. Taken("clcc", t) \in AResult /\ Taken("ok", ok) \in AResult
    BY <2>1 DEF Taken, AResult, Classes
  <2>4. QED  BY <2>2, <2>3 DEF ResultSeq
<1>8. CASE m = "clcc2"
  <2> DEFINE t == Clcc \o << "x" >> \o CrLf \o Clcc \o << "x", "\r" >>
  <2>1. t \in Seq(Char) /\ ok \in Seq(Char)
    BY CharsIn DEF Clcc, CrLf
  <2>2. ResultsOf(m) = << Taken("clcc", t), Taken("ok", ok) >>
    BY <1>8 DEF ResultsOf
  <2> HIDE DEF t, ok
  <2>3. Taken("clcc", t) \in AResult /\ Taken("ok", ok) \in AResult
    BY <2>1 DEF Taken, AResult, Classes
  <2>4. QED  BY <2>2, <2>3 DEF ResultSeq
<1>9. QED  BY <1>1, <1>2, <1>3, <1>4, <1>5, <1>6, <1>7, <1>8 DEF MessageKinds

(* The ring holds a stretch of the wire.  *)
LEMMA RingChained ==
  ASSUME NEW r, RingOK(r), NEW l \in Seq(Char), NEW text \in Seq(Char),
         EndOf(Unread(r, l), text), WellChained(text)
  PROVE  Chained(Held(r))
<1> DEFINE h == Held(r)
           p == Len(text) - (r.used + Len(l))
<1>1. Len(text) \in Nat /\ Len(l) \in Nat /\ r.used \in Nat /\ Len(h) = r.used
  BY LenProperties, RingFields, HeldText
<1>2. p \in Nat /\ p + r.used <= Len(text) /\ \A i \in 1..r.used : h[i] = text[p + i]
  <2>1. /\ Len(Unread(r, l)) = r.used + Len(l)
        /\ \A i \in 1..(r.used + Len(l)) :
             Unread(r, l)[i] = IF i <= r.used THEN Held(r)[i] ELSE l[i - r.used]
    BY UnreadText
  <2>2. /\ r.used + Len(l) <= Len(text)
        /\ \A i \in 1..(r.used + Len(l)) : Unread(r, l)[i] = text[p + i]
    BY <2>1 DEF EndOf
  <2>3. \A i \in 1..r.used : i \in 1..(r.used + Len(l)) /\ i <= r.used
    BY <1>1
  <2>4. \A i \in 1..r.used : h[i] = text[p + i]
    BY <2>1, <2>2, <2>3
  <2>5. QED  BY <1>1, <2>2, <2>4
<1> HIDE DEF h, p
<1>3. ASSUME NEW i \in 1..r.used
      PROVE  /\ h[i] = "O" /\ i + 1 <= r.used => h[i + 1] = "K"
             /\ h[i] = "K" /\ i + 1 <= r.used => h[i + 1] = "\r"
             /\ h[i] = "K" /\ i + 2 <= r.used => h[i + 2] = "\n"
  <2>1. p + i \in 1..Len(text) /\ h[i] = text[p + i]
    BY <1>1, <1>2
  <2>2. /\ text[p + i] = "O" => text[p + i + 1] = "K"
        /\ text[p + i] = "K" => text[p + i + 1] = "\r" /\ text[p + i + 2] = "\n"
    BY <2>1 DEF WellChained
  <2>3. p + i + 1 = p + (i + 1) /\ p + i + 2 = p + (i + 2)
    BY <1>1, <1>2
  <2>4. i + 1 <= r.used => i + 1 \in 1..r.used /\ h[i + 1] = text[p + (i + 1)]
    BY <1>1, <1>2
  <2>5. i + 2 <= r.used => i + 2 \in 1..r.used /\ h[i + 2] = text[p + (i + 2)]
    BY <1>1, <1>2
  <2>6. QED  BY <2>1, <2>2, <2>3, <2>4, <2>5
<1>4. QED  BY <1>1, <1>3 DEF Chained, h

-----------------------------------------------------------------------------
(* The bytes are kept in order, whatever is read and taken.                  *)

BytesInv ==
  /\ ReadType
  /\ Wire \in Seq(Char) /\ Due \in ResultSeq /\ WellChained(Wire)
  /\ EndOf(Unread(rb, line), Wire)

LEMMA InvChained == BytesInv => RingOK(rb) /\ Chained(Held(rb))
BY RingChained DEF BytesInv, ReadType

LEMMA BytesInit == ReadInit => BytesInv
<1>1. SUFFICES ASSUME ReadInit PROVE BytesInv
  OBVIOUS
<1>2. RingOK(rb) /\ Held(rb) = << >>
  BY <1>1, RingEmpty DEF ReadInit
<1>3. /\ line = << >> /\ Wire = << >> /\ Due = << >> /\ sent = << >> /\ results = << >>
      /\ readResult = FALSE /\ astray = FALSE /\ pc = "wait"
  BY <1>1 DEF ReadInit, Wire, Due
<1>4. << >> \in Seq(Char) /\ << >> \in ResultSeq /\ << >> \in Seq(Record)
  BY DEF ResultSeq
<1>5. Unread(rb, line) = << >>
  BY <1>2, <1>3, <1>4, ConcatEmptySeq DEF Unread
<1>6. EndOf(<< >>, << >>) /\ WellChained(<< >>)
  BY DEF EndOf, WellChained
<1>7. QED  BY <1>2, <1>3, <1>4, <1>5, <1>6 DEF BytesInv, ReadType

LEMMA FrontReadN ==
  ASSUME NEW r, RingOK(r), NEW n \in 0..r.used
  PROVE  IsFront(Text(RbReadN(r, n)), n, r)
BY ReadNText DEF IsFront

LEMMA SendKeeps ==
  ASSUME BytesInv, NEW m \in Messages, ModemSends(m)
  PROVE  /\ BytesInv' /\ Wire' = Wire \o Bytes(m) /\ Due' = Due \o ResultsOf(m)
         /\ Len(sent') = Len(sent) + 1
<1>1. m \in MessageKinds
  BY AtReadAssumption
<1> DEFINE rec == [msg |-> m, wire |-> Wire \o Bytes(m), due |-> Due \o ResultsOf(m)]
<1>2. /\ Wire \in Seq(Char) /\ Due \in ResultSeq /\ line \in Seq(Char) /\ sent \in Seq(Record)
      /\ RingOK(rb) /\ WellChained(Wire) /\ EndOf(Unread(rb, line), Wire)
  BY DEF BytesInv, ReadType
<1>3. Bytes(m) \in Seq(Char) /\ WellChained(Bytes(m)) /\ ResultsOf(m) \in ResultSeq
  BY <1>1, MessageBytes, MessageResults
<1>4. Wire \o Bytes(m) \in Seq(Char) /\ line \o Bytes(m) \in Seq(Char)
  BY <1>2, <1>3, ConcatProperties
<1>5. Due \o ResultsOf(m) \in ResultSeq
  BY <1>2, <1>3, ConcatProperties DEF ResultSeq
<1>6. rec \in Record
  BY <1>1, <1>4, <1>5 DEF Record
<1>7. sent' = Append(sent, rec) /\ line' = line \o Bytes(m) /\ rb' = rb
      /\ readResult' = readResult /\ pc' = pc /\ results' = results /\ astray' = astray
  BY DEF ModemSends
<1>8. rec.wire = Wire \o Bytes(m) /\ rec.due = Due \o ResultsOf(m)
  OBVIOUS
<1> HIDE DEF rec
<1>9. /\ sent' \in Seq(Record) /\ sent' # << >> /\ Len(sent') = Len(sent) + 1
      /\ sent'[Len(sent')] = rec
  BY <1>2, <1>6, <1>7, AppendProperties
<1>10. Wire' = Wire \o Bytes(m) /\ Due' = Due \o ResultsOf(m)
  BY <1>8, <1>9 DEF Wire, Due
<1>11. WellChained(Wire')
  BY <1>2, <1>3, <1>10, ChainedLonger
<1>12. Unread(rb', line') = Unread(rb, line) \o Bytes(m)
  <2> DEFINE h == Held(rb)
  <2>1. h \in Seq(Char)
    BY <1>2, HeldText
  <2> HIDE DEF h
  <2>2. h \o (line \o Bytes(m)) = (h \o line) \o Bytes(m)
    BY <1>2, <1>3, <2>1, ConcatAssociative, SMTT(30)
  <2>3. QED  BY <1>7, <2>2 DEF Unread, h
<1>13. EndOf(Unread(rb', line'), Wire')
  <2>1. Unread(rb, line) \in Seq(Char)
    BY <1>2, UnreadText
  <2>2. EndOf(Unread(rb, line) \o Bytes(m), Wire \o Bytes(m))
    BY <1>2, <1>3, <2>1, EndOfLonger
  <2>3. QED  BY <1>10, <1>12, <2>2
<1>14. ReadType'
  BY <1>2, <1>4, <1>7, <1>9 DEF BytesInv, ReadType
<1>15. QED  BY <1>4, <1>5, <1>9, <1>10, <1>11, <1>13, <1>14 DEF BytesInv

(* Whatever is dropped from the ring, the rest is the end of the wire.  *)
LEMMA UpdKeeps ==
  ASSUME BytesInv, NEW n \in Nat, rb' = RbReadUpd(rb, n), line' = line, sent' = sent
  PROVE  /\ RingOK(rb') /\ line' \in Seq(Char) /\ sent' \in Seq(Record)
         /\ Wire' = Wire /\ Due' = Due
         /\ Wire' \in Seq(Char) /\ Due' \in ResultSeq /\ WellChained(Wire')
         /\ EndOf(Unread(rb', line'), Wire')
<1>1. /\ Wire \in Seq(Char) /\ Due \in ResultSeq /\ line \in Seq(Char) /\ sent \in Seq(Record)
      /\ RingOK(rb) /\ WellChained(Wire) /\ EndOf(Unread(rb, line), Wire)
  BY DEF BytesInv, ReadType
<1>2. Wire' = Wire /\ Due' = Due
  BY DEF Wire, Due
<1> DEFINE a == Unread(rb, line)
           u == RbReadUpd(rb, n)
           b == Unread(u, line)
<1>3. PICK k \in 0..rb.used :
        /\ k = IF rb.used < n THEN rb.used ELSE n
        /\ RingOK(u) /\ u.used = rb.used - k
        /\ Len(b) = Len(a) - k
        /\ \A i \in 1..Len(b) : b[i] = a[k + i]
  <2>1. RingOK(rb) /\ line \in Seq(Char) /\ n \in Nat
    BY <1>1
  <2>2. QED  BY ONLY <2>1, UnreadAfterUpd
<1>4. a \in Seq(Char) /\ b \in Seq(Char) /\ k \in Nat
  BY <1>1, <1>3, UnreadText, RingFields
<1>5. rb' = u
  OBVIOUS
<1> HIDE DEF a, b, u
<1>6. EndOf(b, Wire)
  BY <1>1, <1>3, <1>4, EndOfShorter DEF a
<1>7. QED  BY <1>1, <1>2, <1>3, <1>5, <1>6 DEF b

(* How much each level of the search drops.  *)
LEMMA SkipsNat ==
  ASSUME BytesInv
  PROVE  /\ SkipGarbage => \E n \in Nat : Skip(n)
         /\ SkipLeader \/ SkipMultiline \/ SkipDoubled => \E n \in Nat : Skip(n)
<1>1. RingOK(rb) /\ Chained(Held(rb)) /\ rb.used \in Nat
  BY InvChained, RingFields
<1>2. SkipGarbage => \E n \in Nat : Skip(n)
  <2> DEFINE iov == RbReadUntil(rb, << "\r" >>)
             n == IF iov = << >> THEN rb.used ELSE Len(Text(iov)) + 1
  <2>1. iov # << >> => Len(Text(iov)) \in Nat
    BY <1>1, UntilIsFront DEF Searched, IsFront
  <2>2. n \in Nat
    BY <1>1, <2>1
  <2>3. SkipGarbage => Skip(n)
    BY DEF SkipGarbage
  <2>4. QED  BY <2>2, <2>3
<1>3. SkipLeader \/ SkipMultiline \/ SkipDoubled => Skip(2) \/ Skip(1)
  BY DEF SkipLeader, SkipMultiline, SkipDoubled
<1>4. QED  BY <1>2, <1>3

LEMMA TakeIsText ==
  ASSUME BytesInv, TakeCssi \/ TakePrompt \/ TakeList \/ TakeLine
  PROVE  \E iov : Take(iov) /\ Text(iov) \in Seq(Char)
<1>1. RingOK(rb) /\ Chained(Held(rb)) /\ rb.used \in Nat
  BY InvChained, RingFields
<1>2. Len(Cssi) = 2 /\ Len(Prompt) = 2 /\ Cssi \in Seq(Char) /\ Prompt \in Seq(Char)
  BY CharsIn DEF Cssi, Prompt
<1>3. CASE TakeCssi
  <2>1. Take(RbReadN(rb, 4)) /\ 4 \in 0..rb.used
    BY <1>1, <1>2, <1>3 DEF TakeCssi
  <2>2. QED  BY <1>1, <2>1, FrontReadN DEF IsFront
<1>4. CASE TakePrompt
  <2>1. Take(RbReadN(rb, 2)) /\ 2 \in 0..rb.used
    BY <1>1, <1>2, <1>4 DEF TakePrompt, RbStarts
  <2>2. QED  BY <1>1, <2>1, FrontReadN DEF IsFront
<1>5. CASE TakeList
  <2> DEFINE iov == RbReadUntil(rb, EndOfList)
  <2>1. iov # << >> /\ Take(iov)
    BY <1>5 DEF TakeList
  <2>2. Text(iov) \in Seq(Char)
    BY <1>1, <2>1, UntilIsFront DEF Searched, IsFront
  <2>3. QED  BY <2>1, <2>2
<1>6. CASE TakeLine
  <2> DEFINE iov == RbReadUntil(rb, CrLf)
             n == Len(Text(iov)) + 1
  <2>1. iov # << >> /\ Take(RbReadN(rb, n))
    BY <1>6 DEF TakeLine
  <2>2. PICK k \in Nat : Occurs(Held(rb), k, CrLf)
    BY <1>1, <2>1, UntilLine
  <2>3. PICK l \in Nat : FirstAt(Held(rb), l, CrLf)
    BY <1>1, <2>2, FirstOf, HeldText, SearchedSeq
  <2>4. IsFront(Text(iov), l, rb)
    BY <1>1, <2>3, UntilLine
  <2>5. l + 2 <= rb.used
    BY <1>1, <2>3, HeldText, SearchedSeq DEF FirstAt, Occurs
  <2>6. n = l + 1
    BY <2>4 DEF IsFront
  <2>7. n \in 0..rb.used
    BY <1>1, <2>5, <2>6
  <2> HIDE DEF n
  <2>8. IsFront(Text(RbReadN(rb, n)), n, rb)
    BY <1>1, <2>7, FrontReadN
  <2>9. QED  BY <2>1, <2>8 DEF IsFront
<1>7. QED  BY <1>3, <1>4, <1>5, <1>6

LEMMA TakeKeeps ==
  ASSUME BytesInv, NEW iov, Take(iov), Text(iov) \in Seq(Char), astray' \in BOOLEAN
  PROVE  BytesInv'
<1> DEFINE n == Consumed(Class, Len(Text(iov)))
           res == Taken(Class, Text(iov))
<1>1. n \in Nat
  <2>1. Len(Text(iov)) \in Nat
    BY LenProperties
  <2>2. Len(Prompt) = 2 /\ Len(EndOfList) = 7 /\ Len(Cssi) = 2
    BY SearchedSeq DEF Prompt, Cssi
  <2>3. QED  BY <2>1, <2>2 DEF Consumed
<1>2. Class \in Classes
  BY DEF Class, Classes
<1>3. res \in AResult
  BY <1>2 DEF Taken, AResult
<1>4. /\ rb' = RbReadUpd(rb, n) /\ results' = Append(results, res) /\ readResult' = FALSE
      /\ sent' = sent /\ line' = line /\ pc' = pc
  BY DEF Take
<1> HIDE DEF n, res
<1>5. results \in ResultSeq /\ pc \in {"wait", "search", "overflow", "lost"}
  BY DEF BytesInv, ReadType
<1>6. results' \in ResultSeq
  BY <1>3, <1>4, <1>5, AppendProperties DEF ResultSeq
<1>7. QED  BY <1>1, <1>4, <1>5, <1>6, UpdKeeps DEF BytesInv, ReadType

LEMMA BytesNext == BytesInv /\ [ReadNext]_readVars => BytesInv'
<1>1. SUFFICES ASSUME BytesInv, [ReadNext]_readVars PROVE BytesInv'
  OBVIOUS
<1>2. /\ Wire \in Seq(Char) /\ Due \in ResultSeq /\ line \in Seq(Char) /\ sent \in Seq(Record)
      /\ RingOK(rb) /\ WellChained(Wire) /\ EndOf(Unread(rb, line), Wire)
      /\ readResult \in BOOLEAN /\ astray \in BOOLEAN /\ results \in ResultSeq
      /\ pc \in {"wait", "search", "overflow", "lost"}
  BY <1>1 DEF BytesInv, ReadType
<1>3. ASSUME NEW m \in Messages, ModemSends(m) PROVE BytesInv'
  BY <1>1, <1>3, SendKeeps
<1>4. ASSUME NEW n \in 0..Size, Read(n) PROVE BytesInv'
  <2>1. /\ n \in 0..Len(line) /\ n <= RbFree(rb)
        /\ rb' = RbFill(rb, SubSeq(line, 1, n)) /\ line' = SubSeq(line, n + 1, Len(line))
        /\ astray' = (astray \/ EndsInDoubled(n)) /\ pc' = "search"
        /\ sent' = sent /\ readResult' = readResult /\ results' = results
    BY <1>2, <1>4, LenProperties, RingFields DEF Read
  <2>2. RingOK(rb') /\ line' \in Seq(Char) /\ Unread(rb', line') = Unread(rb, line)
    BY <1>2, <2>1, UnreadAfterRead
  <2>3. Wire' = Wire /\ Due' = Due
    BY <2>1 DEF Wire, Due
  <2>4. astray' \in BOOLEAN
    BY <2>1
  <2>5. QED  BY <1>2, <2>1, <2>2, <2>3, <2>4 DEF BytesInv, ReadType
<1>5. ASSUME UNCHANGED << sent, line, rb, readResult, results >>,
             pc' \in {"wait", "search", "overflow", "lost"}, astray' \in BOOLEAN
      PROVE  BytesInv'
  <2>1. Wire' = Wire /\ Due' = Due
    BY <1>5 DEF Wire, Due
  <2>2. QED  BY <1>2, <1>5, <2>1 DEF BytesInv, ReadType
<1>6. CASE ReadOverflow \/ ReadFails \/ WaitForMore \/ UNCHANGED readVars
  <2>1. /\ UNCHANGED << sent, line, rb, readResult, results >>
        /\ pc' \in {"wait", "search", "overflow", "lost"}
        /\ astray' = astray \/ astray' = (astray \/ ListEndsAcross)
    BY <1>2, <1>6 DEF ReadOverflow, ReadFails, WaitForMore, readVars
  <2>2. astray' \in BOOLEAN
    BY <1>2, <2>1
  <2>3. QED  BY <1>5, <2>1, <2>2
<1>7. CASE SkipLeader \/ SkipMultiline \/ SkipGarbage \/ SkipDoubled
  <2>1. PICK n \in Nat : Skip(n)
    BY <1>1, <1>7, SkipsNat
  <2>2. readResult' \in BOOLEAN
    BY <1>2, <1>7 DEF SkipLeader, SkipMultiline, SkipGarbage, SkipDoubled
  <2>3. /\ rb' = RbReadUpd(rb, n) /\ sent' = sent /\ line' = line /\ pc' = pc
        /\ results' = results /\ astray' = astray
    BY <2>1 DEF Skip
  <2>4. QED  BY <1>1, <1>2, <2>2, <2>3, UpdKeeps DEF BytesInv, ReadType
<1>8. CASE TakeCssi \/ TakePrompt \/ TakeList \/ TakeLine
  <2>1. PICK iov : Take(iov) /\ Text(iov) \in Seq(Char)
    BY <1>1, <1>8, TakeIsText
  <2>2. astray' = astray \/ astray' = (astray \/ ListEndsAcross)
    BY <1>8 DEF TakeCssi, TakePrompt, TakeList, TakeLine
  <2>3. astray' \in BOOLEAN
    BY <1>2, <2>2
  <2>4. QED  BY <1>1, <2>1, <2>3, TakeKeeps
<1>9. QED  BY <1>1, <1>3, <1>4, <1>6, <1>7, <1>8 DEF ReadNext

LEMMA BytesAlways == ReadSpec => []BytesInv
BY BytesInit, BytesNext, PTL DEF ReadSpec

(* Whatever the size of the buffer and however the bytes are spread over the *)
(* reads, what is in the ring (rb_write_upd, rb_read_upd) and what the port   *)
(* still has is the end of what the modem wrote.                             *)
THEOREM RingKeepsOrder == ReadSpec => []BytesInOrder
<1>1. BytesInv => BytesInOrder
  <2>1. SUFFICES ASSUME BytesInv PROVE BytesInOrder
    OBVIOUS
  <2> DEFINE rest == Unread(rb, line)
             d == Len(Wire) - Len(rest)
  <2>2. RingOK(rb) /\ line \in Seq(Char) /\ Wire \in Seq(Char) /\ EndOf(rest, Wire)
    BY <2>1 DEF BytesInv, ReadType
  <2>3. Text(RbReadAll(rb)) \o line = rest
    BY <2>2, ReadAllText DEF Unread
  <2>4. rest \in Seq(Char) /\ Len(rest) \in Nat /\ Len(Wire) \in Nat
    BY <2>2, UnreadText, LenProperties
  <2> HIDE DEF rest
  <2>5. d \in Nat /\ d + Len(rest) = Len(Wire) /\ \A i \in 1..Len(rest) : rest[i] = Wire[d + i]
    BY <2>2, <2>4 DEF EndOf
  <2> HIDE DEF d
  <2> DEFINE c == SubSeq(Wire, d + 1, d + Len(rest))
  <2>6. c \in Seq(Char) /\ Len(c) = Len(rest) /\ \A i \in 1..Len(rest) : c[i] = Wire[d + i]
    <3> DEFINE n == Len(rest)
               last == (d + n) - (d + 1) + 1
    <3>1. \A i \in (d + 1)..(d + n) : Wire[i] \in Char
      BY <2>2, <2>4, <2>5, ElementOfSeq
    <3>2. /\ c \in Seq(Char)
          /\ Len(c) = IF d + 1 <= d + n THEN last ELSE 0
          /\ \A i \in 1..last : c[i] = Wire[(d + 1 + i) - 1]
      BY <2>4, <2>5, <3>1, SubSeqProperties
    <3> HIDE DEF c, n
    <3>3. n \in Nat /\ d \in Nat
      BY <2>4, <2>5 DEF n
    <3>4. last = n /\ (~(d + 1 <= d + n) => n = 0) /\ \A i \in 1..n : (d + 1 + i) - 1 = d + i
      BY <3>3
    <3> HIDE DEF last
    <3>5. Len(c) = n /\ \A i \in 1..n : c[i] = Wire[d + i]
      BY <3>2, <3>4
    <3>6. QED  BY <3>2, <3>5 DEF n
  <2> HIDE DEF c
  <2>7. c = rest
    BY <2>4, <2>5, <2>6, SeqEqual
  <2>8. Len(rest) <= Len(Wire) /\ IsAt(rest, Len(Wire) - Len(rest), Wire)
    BY <2>4, <2>5, <2>7 DEF IsAt, c, d
  <2>9. QED  BY <2>3, <2>8 DEF BytesInOrder
<1>2. QED  BY <1>1, BytesAlways, PTL

(* rb_read_until_mem_iov, in its three parts, never takes anything else for   *)
(* mem, and finds the first one there is, but for one of more than two        *)
(* characters across the end of the buffer, which ringbuffer.c:183 compares   *)
(* wrongly: what it finds then is still a mem, or none.                       *)
THEOREM SearchIsRight == ReadSpec => []SearchFindsFirst
<1>1. BytesInv => SearchFindsFirst
  BY InvChained, FindsFirst
<1>2. QED  BY <1>1, BytesAlways, PTL

-----------------------------------------------------------------------------
(* The results are the ones sent.                                            *)

(* Where the bytes and the results of the n-th message begin.  *)
StartOf(n) == IF n = 1 THEN 0 ELSE Len(sent[n - 1].wire)
DueFrom(n) == IF n = 1 THEN 0 ELSE Len(sent[n - 1].due)

SentOK ==
  \A n \in 1..Len(sent) :
    LET b == Bytes(sent[n].msg)
        a == ResultsOf(sent[n].msg)
    IN  /\ StartOf(n + 1) = StartOf(n) + Len(b) /\ StartOf(n + 1) <= Len(Wire)
        /\ \A i \in 1..Len(b) : Wire[StartOf(n) + i] = b[i]
        /\ DueFrom(n + 1) = DueFrom(n) + Len(a) /\ DueFrom(n + 1) <= Len(Due)
        /\ \A i \in 1..Len(a) : Due[DueFrom(n) + i] = a[i]

(* Where in a message the search can be: k of its bytes are dropped, j of its *)
(* results taken.                                                            *)
IsPlace(m, k, j, leader) ==
  \/ k = 0 /\ j = 0 /\ ~leader
  \/ k = 2 /\ j = 0 /\ (leader <=> m \notin {"echo", "more"})
  \/ m = "cssu" /\ k = 4 /\ j = 0 /\ leader
  \/ m = "clcc" /\ j = 1 /\ ((k = 7 /\ ~leader) \/ (k = 9 /\ leader))
  \/ m = "clcc2" /\ j = 1 /\ ((k = 12 /\ ~leader) \/ (k = 14 /\ leader))

(* How many bytes were skipped or taken.  *)
Gone == Len(Wire) - Len(Unread(rb, line))

At(n, k, j) ==
  /\ IF n = Len(sent) + 1 THEN k = 0 /\ j = 0 /\ ~readResult
     ELSE IsPlace(sent[n].msg, k, j, readResult)
  /\ Gone = StartOf(n) + k
  /\ Len(results) = DueFrom(n) + j /\ Len(results) <= Len(Due)
  /\ \A i \in 1..Len(results) : results[i] = Due[i]

InPlace == \E n \in 1..(Len(sent) + 1), k \in 0..14, j \in 0..1 : At(n, k, j)

(* No read has ended inside a doubled header.  *)
EndRight ==
  LET v == Len(Wire) - Len(line)
  IN  v < Len(Wire) => /\ Wire[v + 1] # "+S"
                       /\ ~(v > 0 /\ Wire[v + 1] = ":" /\ Wire[v] = "+S")

Waits == NoneYet /\ ~(readResult /\ StartsList /\ LiesAcross(rb, EndOfList))

RightInv == SentOK /\ (~astray => InPlace /\ EndRight /\ (pc = "wait" => Waits))

(* What a message begins with.  *)
LEMMA FirstByte ==
  ASSUME NEW m \in MessageKinds
  PROVE  Len(Bytes(m)) >= 3 /\ Bytes(m)[1] \in {"\r", "x"}
<1> DEFINE Right(b) == Len(b) >= 3 /\ b[1] \in {"\r", "x"}
<1>1. Right(Bytes("ok"))
  BY BytesOk
<1>2. Right(Bytes("line"))
  BY BytesLine
<1>3. Right(Bytes("echo"))
  BY BytesEcho
<1>4. Right(Bytes("more"))
  BY BytesMore
<1>5. Right(Bytes("prompt"))
  BY BytesPrompt
<1>6. Right(Bytes("cssi"))
  BY BytesCssi
<1>7. Right(Bytes("cssu"))
  BY BytesCssu
<1>8. Right(Bytes("cmgr"))
  BY BytesCmgr
<1>9. Right(Bytes("clcc"))
  BY BytesClcc
<1>10. Right(Bytes("clcc2"))
  BY BytesClcc2
<1> HIDE DEF Right
<1>11. Right(Bytes(m))
  BY <1>1, <1>2, <1>3, <1>4, <1>5, <1>6, <1>7, <1>8, <1>9, <1>10 DEF MessageKinds
<1>12. QED  BY <1>11 DEF Right

(* The ends of the messages.  *)
LEMMA StartType ==
  ASSUME BytesInv, NEW n \in 1..(Len(sent) + 1)
  PROVE  /\ StartOf(n) \in Nat /\ DueFrom(n) \in Nat
         /\ n = Len(sent) + 1 => StartOf(n) = Len(Wire) /\ DueFrom(n) = Len(Due)
         /\ n <= Len(sent) => sent[n].msg \in MessageKinds /\ n + 1 \in 1..(Len(sent) + 1)
<1>1. sent \in Seq(Record) /\ Len(sent) \in Nat /\ \A i \in 1..Len(sent) : sent[i] \in Record
  BY LenProperties, ElementOfSeq DEF BytesInv, ReadType
<1>2. \A i \in 1..Len(sent) : /\ sent[i].msg \in MessageKinds
                              /\ Len(sent[i].wire) \in Nat /\ Len(sent[i].due) \in Nat
  BY <1>1, LenProperties DEF Record, ResultSeq
<1>3. CASE n = 1
  <2>1. StartOf(n) = 0 /\ DueFrom(n) = 0
    BY <1>3 DEF StartOf, DueFrom
  <2>2. n = Len(sent) + 1 => Wire = << >> /\ Due = << >>
    BY <1>1, <1>3, EmptySeq DEF Wire, Due
  <2>3. QED  BY <1>1, <1>2, <1>3, <2>1, <2>2
<1>4. CASE n # 1
  <2>1. n - 1 \in 1..Len(sent)
    BY <1>1, <1>4
  <2>2. StartOf(n) = Len(sent[n - 1].wire) /\ DueFrom(n) = Len(sent[n - 1].due)
    BY <1>4 DEF StartOf, DueFrom
  <2>3. n = Len(sent) + 1 => n - 1 = Len(sent) /\ sent # << >>
    BY <1>1, <1>4
  <2>4. n = Len(sent) + 1 => Wire = sent[n - 1].wire /\ Due = sent[n - 1].due
    BY <2>3 DEF Wire, Due
  <2>5. n <= Len(sent) => n \in 1..Len(sent) /\ n + 1 \in 1..(Len(sent) + 1)
    BY <1>1
  <2>6. QED  BY <1>2, <2>1, <2>2, <2>4, <2>5
<1>5. QED  BY <1>3, <1>4

LEMMA InvType ==
  ASSUME BytesInv
  PROVE  /\ sent \in Seq(Record) /\ Len(sent) \in Nat /\ Wire \in Seq(Char) /\ Len(Wire) \in Nat
         /\ Due \in ResultSeq /\ Len(Due) \in Nat /\ results \in ResultSeq /\ Len(results) \in Nat
         /\ RingOK(rb) /\ Chained(Held(rb)) /\ rb.used \in Nat /\ line \in Seq(Char) /\ Len(line) \in Nat
         /\ Unread(rb, line) \in Seq(Char) /\ Len(Unread(rb, line)) = rb.used + Len(line)
         /\ rb.used + Len(line) <= Len(Wire)
         /\ Held(rb) \in Seq(Char) /\ Len(Held(rb)) = rb.used
<1>1. /\ Wire \in Seq(Char) /\ Due \in ResultSeq /\ line \in Seq(Char) /\ sent \in Seq(Record)
      /\ RingOK(rb) /\ EndOf(Unread(rb, line), Wire) /\ results \in ResultSeq
  BY DEF BytesInv, ReadType
<1>2. Chained(Held(rb)) /\ rb.used \in Nat
  BY <1>1, InvChained, RingFields
<1>3. Unread(rb, line) \in Seq(Char) /\ Len(Unread(rb, line)) = rb.used + Len(line)
  BY <1>1, UnreadText
<1>4. Held(rb) \in Seq(Char) /\ Len(Held(rb)) = rb.used
  BY <1>1, HeldText
<1>5. /\ Len(sent) \in Nat /\ Len(Wire) \in Nat /\ Len(line) \in Nat
      /\ Len(Due) \in Nat /\ Len(results) \in Nat
  BY <1>1, LenProperties DEF ResultSeq
<1>6. rb.used + Len(line) <= Len(Wire)
  BY <1>1, <1>3 DEF EndOf
<1>7. QED  BY <1>1, <1>2, <1>3, <1>4, <1>5, <1>6, Zenon

(* The ring and the line in the places of the wire.  *)
LEMMA RingOnWire ==
  ASSUME BytesInv
  PROVE  /\ Gone \in Nat /\ Gone + rb.used + Len(line) = Len(Wire)
         /\ \A i \in 1..rb.used : Held(rb)[i] = Wire[Gone + i]
         /\ \A i \in 1..Len(line) : line[i] = Wire[Gone + rb.used + i]
<1> DEFINE u == Unread(rb, line)
           w == Len(Wire)
           d == Len(u)
           g == rb.used
           c == Len(line)
           p == w - d
<1>1. /\ g \in Nat /\ c \in Nat /\ w \in Nat
      /\ d = g + c /\ g + c <= w
  BY InvType, Zenon
<1>2. \A i \in 1..(g + c) : u[i] = IF i <= g THEN Held(rb)[i] ELSE line[i - g]
  <2>1. RingOK(rb) /\ line \in Seq(Char)
    BY InvType, Zenon
  <2>2. QED  BY ONLY <2>1, UnreadText
<1>3. \A i \in 1..(g + c) : u[i] = Wire[p + i]
  BY <1>1 DEF BytesInv, EndOf
<1> HIDE DEF u, w, d, g, c
<1>4. p \in Nat /\ p + g + c = w
  BY <1>1
<1> HIDE DEF p
<1>5. ASSUME NEW i \in 1..g PROVE Held(rb)[i] = Wire[p + i]
  <2>1. i \in 1..(g + c) /\ i <= g
    BY <1>1
  <2>2. QED  BY <1>2, <1>3, <2>1
<1>6. ASSUME NEW i \in 1..c PROVE line[i] = Wire[p + g + i]
  <2> DEFINE k == g + i
  <2>1. k \in 1..(g + c) /\ ~(k <= g) /\ k - g = i /\ p + k = p + g + i
    BY <1>1, <1>4
  <2> HIDE DEF k
  <2>2. u[k] = line[k - g] /\ u[k] = Wire[p + k]
    BY <1>2, <1>3, <2>1
  <2>3. QED  BY <2>1, <2>2, Zenon
<1>7. QED  BY <1>4, <1>5, <1>6 DEF p, u, w, d, g, c, Gone

-----------------------------------------------------------------------------
(* What the search does, from what is in the ring of one message.            *)

(* The i-th character of the ring, if it is there, is x.  *)
Shows(r, i, x) == i <= r.used => Held(r)[i] = x

(* The ring holds what is left of a message of which k bytes are dropped.  *)
View(r, m, k) == \A i \in 1..Len(Bytes(m)) : i > k => Shows(r, i - k, Bytes(m)[i])

LEMMA ViewOkAt0 ==
  ASSUME NEW r, View(r, "ok", 0)
  PROVE  /\ Shows(r, 1, "\r") /\ Shows(r, 2, "\n")
<1> DEFINE b == Bytes("ok")
           P(i, x) == Shows(r, i, x)
<1>1. /\ Len(b) = 6
      /\ b[1] = "\r" /\ b[2] = "\n"
  BY BytesOk
<1>2. \A i \in 1..6 : i > 0 => P(i - 0, b[i])
  BY <1>1 DEF View
<1> HIDE DEF b, P
<1>3. /\ P(1, "\r") /\ P(2, "\n")
  BY <1>1, <1>2
<1>4. QED  BY <1>3 DEF P

LEMMA ViewOkAt2 ==
  ASSUME NEW r, View(r, "ok", 2)
  PROVE  /\ Shows(r, 1, "O") /\ Shows(r, 2, "K") /\ Shows(r, 3, "\r")
         /\ Shows(r, 4, "\n")
<1> DEFINE b == Bytes("ok")
           P(i, x) == Shows(r, i, x)
<1>1. /\ Len(b) = 6
      /\ b[3] = "O" /\ b[4] = "K" /\ b[5] = "\r" /\ b[6] = "\n"
  BY BytesOk
<1>2. \A i \in 1..6 : i > 2 => P(i - 2, b[i])
  BY <1>1 DEF View
<1> HIDE DEF b, P
<1>3. /\ P(1, "O") /\ P(2, "K") /\ P(3, "\r") /\ P(4, "\n")
  BY <1>1, <1>2
<1>4. QED  BY <1>3 DEF P

LEMMA ViewLineAt0 ==
  ASSUME NEW r, View(r, "line", 0)
  PROVE  /\ Shows(r, 1, "\r") /\ Shows(r, 2, "\n")
<1> DEFINE b == Bytes("line")
           P(i, x) == Shows(r, i, x)
<1>1. /\ Len(b) = 5
      /\ b[1] = "\r" /\ b[2] = "\n"
  BY BytesLine
<1>2. \A i \in 1..5 : i > 0 => P(i - 0, b[i])
  BY <1>1 DEF View
<1> HIDE DEF b, P
<1>3. /\ P(1, "\r") /\ P(2, "\n")
  BY <1>1, <1>2
<1>4. QED  BY <1>3 DEF P

LEMMA ViewLineAt2 ==
  ASSUME NEW r, View(r, "line", 2)
  PROVE  /\ Shows(r, 1, "x") /\ Shows(r, 2, "\r") /\ Shows(r, 3, "\n")
<1> DEFINE b == Bytes("line")
           P(i, x) == Shows(r, i, x)
<1>1. /\ Len(b) = 5
      /\ b[3] = "x" /\ b[4] = "\r" /\ b[5] = "\n"
  BY BytesLine
<1>2. \A i \in 1..5 : i > 2 => P(i - 2, b[i])
  BY <1>1 DEF View
<1> HIDE DEF b, P
<1>3. /\ P(1, "x") /\ P(2, "\r") /\ P(3, "\n")
  BY <1>1, <1>2
<1>4. QED  BY <1>3 DEF P

LEMMA ViewEchoAt0 ==
  ASSUME NEW r, View(r, "echo", 0)
  PROVE  /\ Shows(r, 1, "x") /\ Shows(r, 2, "x") /\ Shows(r, 3, "\r")
<1> DEFINE b == Bytes("echo")
           P(i, x) == Shows(r, i, x)
<1>1. /\ Len(b) = 3
      /\ b[1] = "x" /\ b[2] = "x" /\ b[3] = "\r"
  BY BytesEcho
<1>2. \A i \in 1..3 : i > 0 => P(i - 0, b[i])
  BY <1>1 DEF View
<1> HIDE DEF b, P
<1>3. /\ P(1, "x") /\ P(2, "x") /\ P(3, "\r")
  BY <1>1, <1>2
<1>4. QED  BY <1>3 DEF P

LEMMA ViewEchoAt2 ==
  ASSUME NEW r, View(r, "echo", 2)
  PROVE  /\ Shows(r, 1, "\r")
<1> DEFINE b == Bytes("echo")
           P(i, x) == Shows(r, i, x)
<1>1. /\ Len(b) = 3
      /\ b[3] = "\r"
  BY BytesEcho
<1>2. \A i \in 1..3 : i > 2 => P(i - 2, b[i])
  BY <1>1 DEF View
<1> HIDE DEF b, P
<1>3. /\ P(1, "\r")
  BY <1>1, <1>2
<1>4. QED  BY <1>3 DEF P

LEMMA ViewMoreAt0 ==
  ASSUME NEW r, View(r, "more", 0)
  PROVE  /\ Shows(r, 1, "x") /\ Shows(r, 2, "\r") /\ Shows(r, 3, "\n")
<1> DEFINE b == Bytes("more")
           P(i, x) == Shows(r, i, x)
<1>1. /\ Len(b) = 3
      /\ b[1] = "x" /\ b[2] = "\r" /\ b[3] = "\n"
  BY BytesMore
<1>2. \A i \in 1..3 : i > 0 => P(i - 0, b[i])
  BY <1>1 DEF View
<1> HIDE DEF b, P
<1>3. /\ P(1, "x") /\ P(2, "\r") /\ P(3, "\n")
  BY <1>1, <1>2
<1>4. QED  BY <1>3 DEF P

LEMMA ViewMoreAt2 ==
  ASSUME NEW r, View(r, "more", 2)
  PROVE  /\ Shows(r, 1, "\n")
<1> DEFINE b == Bytes("more")
           P(i, x) == Shows(r, i, x)
<1>1. /\ Len(b) = 3
      /\ b[3] = "\n"
  BY BytesMore
<1>2. \A i \in 1..3 : i > 2 => P(i - 2, b[i])
  BY <1>1 DEF View
<1> HIDE DEF b, P
<1>3. /\ P(1, "\n")
  BY <1>1, <1>2
<1>4. QED  BY <1>3 DEF P

LEMMA ViewPromptAt0 ==
  ASSUME NEW r, View(r, "prompt", 0)
  PROVE  /\ Shows(r, 1, "\r") /\ Shows(r, 2, "\n")
<1> DEFINE b == Bytes("prompt")
           P(i, x) == Shows(r, i, x)
<1>1. /\ Len(b) = 4
      /\ b[1] = "\r" /\ b[2] = "\n"
  BY BytesPrompt
<1>2. \A i \in 1..4 : i > 0 => P(i - 0, b[i])
  BY <1>1 DEF View
<1> HIDE DEF b, P
<1>3. /\ P(1, "\r") /\ P(2, "\n")
  BY <1>1, <1>2
<1>4. QED  BY <1>3 DEF P

LEMMA ViewPromptAt2 ==
  ASSUME NEW r, View(r, "prompt", 2)
  PROVE  /\ Shows(r, 1, ">") /\ Shows(r, 2, "sp")
<1> DEFINE b == Bytes("prompt")
           P(i, x) == Shows(r, i, x)
<1>1. /\ Len(b) = 4
      /\ b[3] = ">" /\ b[4] = "sp"
  BY BytesPrompt
<1>2. \A i \in 1..4 : i > 2 => P(i - 2, b[i])
  BY <1>1 DEF View
<1> HIDE DEF b, P
<1>3. /\ P(1, ">") /\ P(2, "sp")
  BY <1>1, <1>2
<1>4. QED  BY <1>3 DEF P

LEMMA ViewCssiAt0 ==
  ASSUME NEW r, View(r, "cssi", 0)
  PROVE  /\ Shows(r, 1, "\r") /\ Shows(r, 2, "\n")
<1> DEFINE b == Bytes("cssi")
           P(i, x) == Shows(r, i, x)
<1>1. /\ Len(b) = 6
      /\ b[1] = "\r" /\ b[2] = "\n"
  BY BytesCssi
<1>2. \A i \in 1..6 : i > 0 => P(i - 0, b[i])
  BY <1>1 DEF View
<1> HIDE DEF b, P
<1>3. /\ P(1, "\r") /\ P(2, "\n")
  BY <1>1, <1>2
<1>4. QED  BY <1>3 DEF P

LEMMA ViewCssiAt2 ==
  ASSUME NEW r, View(r, "cssi", 2)
  PROVE  /\ Shows(r, 1, "+I") /\ Shows(r, 2, ":") /\ Shows(r, 3, "x")
         /\ Shows(r, 4, "x")
<1> DEFINE b == Bytes("cssi")
           P(i, x) == Shows(r, i, x)
<1>1. /\ Len(b) = 6
      /\ b[3] = "+I" /\ b[4] = ":" /\ b[5] = "x" /\ b[6] = "x"
  BY BytesCssi
<1>2. \A i \in 1..6 : i > 2 => P(i - 2, b[i])
  BY <1>1 DEF View
<1> HIDE DEF b, P
<1>3. /\ P(1, "+I") /\ P(2, ":") /\ P(3, "x") /\ P(4, "x")
  BY <1>1, <1>2
<1>4. QED  BY <1>3 DEF P

LEMMA ViewCssuAt0 ==
  ASSUME NEW r, View(r, "cssu", 0)
  PROVE  /\ Shows(r, 1, "\r") /\ Shows(r, 2, "\n")
<1> DEFINE b == Bytes("cssu")
           P(i, x) == Shows(r, i, x)
<1>1. /\ Len(b) = 9
      /\ b[1] = "\r" /\ b[2] = "\n"
  BY BytesCssu
<1>2. \A i \in 1..9 : i > 0 => P(i - 0, b[i])
  BY <1>1 DEF View
<1> HIDE DEF b, P
<1>3. /\ P(1, "\r") /\ P(2, "\n")
  BY <1>1, <1>2
<1>4. QED  BY <1>3 DEF P

LEMMA ViewCssuAt2 ==
  ASSUME NEW r, View(r, "cssu", 2)
  PROVE  /\ Shows(r, 1, "\r") /\ Shows(r, 2, "\n") /\ Shows(r, 3, "+S")
         /\ Shows(r, 4, ":") /\ Shows(r, 5, "x") /\ Shows(r, 6, "\r")
         /\ Shows(r, 7, "\n")
<1> DEFINE b == Bytes("cssu")
           P(i, x) == Shows(r, i, x)
<1>1. /\ Len(b) = 9
      /\ b[3] = "\r" /\ b[4] = "\n" /\ b[5] = "+S" /\ b[6] = ":"
      /\ b[7] = "x" /\ b[8] = "\r" /\ b[9] = "\n"
  BY BytesCssu
<1>2. \A i \in 1..9 : i > 2 => P(i - 2, b[i])
  BY <1>1 DEF View
<1> HIDE DEF b, P
<1>3. /\ P(1, "\r") /\ P(2, "\n") /\ P(3, "+S") /\ P(4, ":") /\ P(5, "x")
      /\ P(6, "\r") /\ P(7, "\n")
  BY <1>1, <1>2
<1>4. QED  BY <1>3 DEF P

LEMMA ViewCssuAt4 ==
  ASSUME NEW r, View(r, "cssu", 4)
  PROVE  /\ Shows(r, 1, "+S") /\ Shows(r, 2, ":") /\ Shows(r, 3, "x")
         /\ Shows(r, 4, "\r") /\ Shows(r, 5, "\n")
<1> DEFINE b == Bytes("cssu")
           P(i, x) == Shows(r, i, x)
<1>1. /\ Len(b) = 9
      /\ b[5] = "+S" /\ b[6] = ":" /\ b[7] = "x" /\ b[8] = "\r"
      /\ b[9] = "\n"
  BY BytesCssu
<1>2. \A i \in 1..9 : i > 4 => P(i - 4, b[i])
  BY <1>1 DEF View
<1> HIDE DEF b, P
<1>3. /\ P(1, "+S") /\ P(2, ":") /\ P(3, "x") /\ P(4, "\r") /\ P(5, "\n")
  BY <1>1, <1>2
<1>4. QED  BY <1>3 DEF P

LEMMA ViewCmgrAt0 ==
  ASSUME NEW r, View(r, "cmgr", 0)
  PROVE  /\ Shows(r, 1, "\r") /\ Shows(r, 2, "\n")
<1> DEFINE b == Bytes("cmgr")
           P(i, x) == Shows(r, i, x)
<1>1. /\ Len(b) = 16
      /\ b[1] = "\r" /\ b[2] = "\n"
  BY BytesCmgr
<1>2. \A i \in 1..16 : i > 0 => P(i - 0, b[i])
  BY <1>1 DEF View
<1> HIDE DEF b, P
<1>3. /\ P(1, "\r") /\ P(2, "\n")
  BY <1>1, <1>2
<1>4. QED  BY <1>3 DEF P

LEMMA ViewCmgrAt2 ==
  ASSUME NEW r, View(r, "cmgr", 2)
  PROVE  /\ Shows(r, 1, "+R") /\ Shows(r, 2, ":") /\ Shows(r, 3, "x")
         /\ Shows(r, 4, "\r") /\ Shows(r, 5, "\n") /\ Shows(r, 6, "x")
         /\ Shows(r, 7, "\r") /\ Shows(r, 8, "\n") /\ Shows(r, 9, "\r")
         /\ Shows(r, 10, "\n") /\ Shows(r, 11, "O") /\ Shows(r, 12, "K")
         /\ Shows(r, 13, "\r") /\ Shows(r, 14, "\n")
<1> DEFINE b == Bytes("cmgr")
           P(i, x) == Shows(r, i, x)
<1>1. /\ Len(b) = 16
      /\ b[3] = "+R" /\ b[4] = ":" /\ b[5] = "x" /\ b[6] = "\r"
      /\ b[7] = "\n" /\ b[8] = "x" /\ b[9] = "\r" /\ b[10] = "\n"
      /\ b[11] = "\r" /\ b[12] = "\n" /\ b[13] = "O" /\ b[14] = "K"
      /\ b[15] = "\r" /\ b[16] = "\n"
  BY BytesCmgr
<1>2. \A i \in 1..16 : i > 2 => P(i - 2, b[i])
  BY <1>1 DEF View
<1> HIDE DEF b, P
<1>3. /\ P(1, "+R") /\ P(2, ":") /\ P(3, "x") /\ P(4, "\r") /\ P(5, "\n")
      /\ P(6, "x") /\ P(7, "\r") /\ P(8, "\n") /\ P(9, "\r") /\ P(10, "\n")
      /\ P(11, "O") /\ P(12, "K") /\ P(13, "\r") /\ P(14, "\n")
  BY <1>1, <1>2
<1>4. QED  BY <1>3 DEF P

LEMMA ViewClccAt0 ==
  ASSUME NEW r, View(r, "clcc", 0)
  PROVE  /\ Shows(r, 1, "\r") /\ Shows(r, 2, "\n")
<1> DEFINE b == Bytes("clcc")
           P(i, x) == Shows(r, i, x)
<1>1. /\ Len(b) = 13
      /\ b[1] = "\r" /\ b[2] = "\n"
  BY BytesClcc
<1>2. \A i \in 1..13 : i > 0 => P(i - 0, b[i])
  BY <1>1 DEF View
<1> HIDE DEF b, P
<1>3. /\ P(1, "\r") /\ P(2, "\n")
  BY <1>1, <1>2
<1>4. QED  BY <1>3 DEF P

LEMMA ViewClccAt2 ==
  ASSUME NEW r, View(r, "clcc", 2)
  PROVE  /\ Shows(r, 1, "+L") /\ Shows(r, 2, ":") /\ Shows(r, 3, "x")
         /\ Shows(r, 4, "\r") /\ Shows(r, 5, "\n") /\ Shows(r, 6, "\r")
         /\ Shows(r, 7, "\n") /\ Shows(r, 8, "O") /\ Shows(r, 9, "K")
         /\ Shows(r, 10, "\r") /\ Shows(r, 11, "\n")
<1> DEFINE b == Bytes("clcc")
           P(i, x) == Shows(r, i, x)
<1>1. /\ Len(b) = 13
      /\ b[3] = "+L" /\ b[4] = ":" /\ b[5] = "x" /\ b[6] = "\r"
      /\ b[7] = "\n" /\ b[8] = "\r" /\ b[9] = "\n" /\ b[10] = "O"
      /\ b[11] = "K" /\ b[12] = "\r" /\ b[13] = "\n"
  BY BytesClcc
<1>2. \A i \in 1..13 : i > 2 => P(i - 2, b[i])
  BY <1>1 DEF View
<1> HIDE DEF b, P
<1>3. /\ P(1, "+L") /\ P(2, ":") /\ P(3, "x") /\ P(4, "\r") /\ P(5, "\n")
      /\ P(6, "\r") /\ P(7, "\n") /\ P(8, "O") /\ P(9, "K") /\ P(10, "\r")
      /\ P(11, "\n")
  BY <1>1, <1>2
<1>4. QED  BY <1>3 DEF P

LEMMA ViewClccAt7 ==
  ASSUME NEW r, View(r, "clcc", 7)
  PROVE  /\ Shows(r, 1, "\r") /\ Shows(r, 2, "\n")
<1> DEFINE b == Bytes("clcc")
           P(i, x) == Shows(r, i, x)
<1>1. /\ Len(b) = 13
      /\ b[8] = "\r" /\ b[9] = "\n"
  BY BytesClcc
<1>2. \A i \in 1..13 : i > 7 => P(i - 7, b[i])
  BY <1>1 DEF View
<1> HIDE DEF b, P
<1>3. /\ P(1, "\r") /\ P(2, "\n")
  BY <1>1, <1>2
<1>4. QED  BY <1>3 DEF P

LEMMA ViewClccAt9 ==
  ASSUME NEW r, View(r, "clcc", 9)
  PROVE  /\ Shows(r, 1, "O") /\ Shows(r, 2, "K") /\ Shows(r, 3, "\r")
         /\ Shows(r, 4, "\n")
<1> DEFINE b == Bytes("clcc")
           P(i, x) == Shows(r, i, x)
<1>1. /\ Len(b) = 13
      /\ b[10] = "O" /\ b[11] = "K" /\ b[12] = "\r" /\ b[13] = "\n"
  BY BytesClcc
<1>2. \A i \in 1..13 : i > 9 => P(i - 9, b[i])
  BY <1>1 DEF View
<1> HIDE DEF b, P
<1>3. /\ P(1, "O") /\ P(2, "K") /\ P(3, "\r") /\ P(4, "\n")
  BY <1>1, <1>2
<1>4. QED  BY <1>3 DEF P

LEMMA ViewClcc2At0 ==
  ASSUME NEW r, View(r, "clcc2", 0)
  PROVE  /\ Shows(r, 1, "\r") /\ Shows(r, 2, "\n")
<1> DEFINE b == Bytes("clcc2")
           P(i, x) == Shows(r, i, x)
<1>1. /\ Len(b) = 18
      /\ b[1] = "\r" /\ b[2] = "\n"
  BY BytesClcc2
<1>2. \A i \in 1..18 : i > 0 => P(i - 0, b[i])
  BY <1>1 DEF View
<1> HIDE DEF b, P
<1>3. /\ P(1, "\r") /\ P(2, "\n")
  BY <1>1, <1>2
<1>4. QED  BY <1>3 DEF P

LEMMA ViewClcc2At2 ==
  ASSUME NEW r, View(r, "clcc2", 2)
  PROVE  /\ Shows(r, 1, "+L") /\ Shows(r, 2, ":") /\ Shows(r, 3, "x")
         /\ Shows(r, 4, "\r") /\ Shows(r, 5, "\n") /\ Shows(r, 6, "+L")
         /\ Shows(r, 7, ":") /\ Shows(r, 8, "x") /\ Shows(r, 9, "\r")
         /\ Shows(r, 10, "\n") /\ Shows(r, 11, "\r") /\ Shows(r, 12, "\n")
         /\ Shows(r, 13, "O") /\ Shows(r, 14, "K") /\ Shows(r, 15, "\r")
         /\ Shows(r, 16, "\n")
<1> DEFINE b == Bytes("clcc2")
           P(i, x) == Shows(r, i, x)
<1>1. /\ Len(b) = 18
      /\ b[3] = "+L" /\ b[4] = ":" /\ b[5] = "x" /\ b[6] = "\r"
      /\ b[7] = "\n" /\ b[8] = "+L" /\ b[9] = ":" /\ b[10] = "x"
      /\ b[11] = "\r" /\ b[12] = "\n" /\ b[13] = "\r" /\ b[14] = "\n"
      /\ b[15] = "O" /\ b[16] = "K" /\ b[17] = "\r" /\ b[18] = "\n"
  BY BytesClcc2
<1>2. \A i \in 1..18 : i > 2 => P(i - 2, b[i])
  BY <1>1 DEF View
<1> HIDE DEF b, P
<1>3. /\ P(1, "+L") /\ P(2, ":") /\ P(3, "x") /\ P(4, "\r") /\ P(5, "\n")
      /\ P(6, "+L") /\ P(7, ":") /\ P(8, "x") /\ P(9, "\r") /\ P(10, "\n")
      /\ P(11, "\r") /\ P(12, "\n") /\ P(13, "O") /\ P(14, "K") /\ P(15, "\r")
      /\ P(16, "\n")
  BY <1>1, <1>2
<1>4. QED  BY <1>3 DEF P

LEMMA ViewClcc2At12 ==
  ASSUME NEW r, View(r, "clcc2", 12)
  PROVE  /\ Shows(r, 1, "\r") /\ Shows(r, 2, "\n")
<1> DEFINE b == Bytes("clcc2")
           P(i, x) == Shows(r, i, x)
<1>1. /\ Len(b) = 18
      /\ b[13] = "\r" /\ b[14] = "\n"
  BY BytesClcc2
<1>2. \A i \in 1..18 : i > 12 => P(i - 12, b[i])
  BY <1>1 DEF View
<1> HIDE DEF b, P
<1>3. /\ P(1, "\r") /\ P(2, "\n")
  BY <1>1, <1>2
<1>4. QED  BY <1>3 DEF P

LEMMA ViewClcc2At14 ==
  ASSUME NEW r, View(r, "clcc2", 14)
  PROVE  /\ Shows(r, 1, "O") /\ Shows(r, 2, "K") /\ Shows(r, 3, "\r")
         /\ Shows(r, 4, "\n")
<1> DEFINE b == Bytes("clcc2")
           P(i, x) == Shows(r, i, x)
<1>1. /\ Len(b) = 18
      /\ b[15] = "O" /\ b[16] = "K" /\ b[17] = "\r" /\ b[18] = "\n"
  BY BytesClcc2
<1>2. \A i \in 1..18 : i > 14 => P(i - 14, b[i])
  BY <1>1 DEF View
<1> HIDE DEF b, P
<1>3. /\ P(1, "O") /\ P(2, "K") /\ P(3, "\r") /\ P(4, "\n")
  BY <1>1, <1>2
<1>4. QED  BY <1>3 DEF P

(* What the ring starts with, character by character.  *)
LEMMA StartsTwo ==
  ASSUME NEW r, RingOK(r), NEW mem \in Seq(Char), Len(mem) = 2
  PROVE  RbStarts(r, mem) <=> r.used >= 2 /\ Held(r)[1] = mem[1] /\ Held(r)[2] = mem[2]
<1>1. RbStarts(r, mem) <=> r.used >= 2 /\ \A i \in 1..2 : Held(r)[i] = mem[i]
  BY StartsText
<1>2. (\A i \in 1..2 : Held(r)[i] = mem[i]) <=> Held(r)[1] = mem[1] /\ Held(r)[2] = mem[2]
  OBVIOUS
<1>3. QED  BY <1>1, <1>2

LEMMA HeaderChars ==
  /\ Cmgr \in Seq(Char) /\ Len(Cmgr) = 2 /\ Cmgr[1] = "+R" /\ Cmgr[2] = ":"
  /\ Clcc \in Seq(Char) /\ Len(Clcc) = 2 /\ Clcc[1] = "+L" /\ Clcc[2] = ":"
  /\ Cssi \in Seq(Char) /\ Len(Cssi) = 2 /\ Cssi[1] = "+I" /\ Cssi[2] = ":"
  /\ Cssu \in Seq(Char) /\ Len(Cssu) = 2 /\ Cssu[1] = "+S" /\ Cssu[2] = ":"
  /\ Prompt \in Seq(Char) /\ Len(Prompt) = 2 /\ Prompt[1] = ">" /\ Prompt[2] = "sp"
BY CharsIn DEF Cmgr, Clcc, Cssi, Cssu, Prompt

LEMMA StartsHeader ==
  ASSUME NEW r, RingOK(r)
  PROVE  LET First(a, b) == r.used >= 2 /\ Held(r)[1] = a /\ Held(r)[2] = b
         IN  /\ RbStarts(r, CrLf) <=> First("\r", "\n")
             /\ RbStarts(r, Cmgr) <=> First("+R", ":")
             /\ RbStarts(r, Clcc) <=> First("+L", ":")
             /\ RbStarts(r, Cssi) <=> First("+I", ":")
             /\ RbStarts(r, Cssu) <=> First("+S", ":")
             /\ RbStarts(r, Prompt) <=> First(">", "sp")
<1> DEFINE First(a, b) == r.used >= 2 /\ Held(r)[1] = a /\ Held(r)[2] = b
<1>1. ASSUME NEW mem \in Seq(Char), Len(mem) = 2
      PROVE  RbStarts(r, mem) <=> First(mem[1], mem[2])
  BY <1>1, StartsTwo
<1> HIDE DEF First
<1>2. /\ RbStarts(r, CrLf) <=> First(CrLf[1], CrLf[2])
      /\ RbStarts(r, Cmgr) <=> First(Cmgr[1], Cmgr[2])
      /\ RbStarts(r, Clcc) <=> First(Clcc[1], Clcc[2])
      /\ RbStarts(r, Cssi) <=> First(Cssi[1], Cssi[2])
      /\ RbStarts(r, Cssu) <=> First(Cssu[1], Cssu[2])
      /\ RbStarts(r, Prompt) <=> First(Prompt[1], Prompt[2])
  BY <1>1, SearchedSeq, HeaderChars, Zenon
<1>3. /\ RbStarts(r, CrLf) <=> First("\r", "\n")
      /\ RbStarts(r, Cmgr) <=> First("+R", ":")
      /\ RbStarts(r, Clcc) <=> First("+L", ":")
      /\ RbStarts(r, Cssi) <=> First("+I", ":")
      /\ RbStarts(r, Cssu) <=> First("+S", ":")
      /\ RbStarts(r, Prompt) <=> First(">", "sp")
  BY <1>2, SearchedSeq, HeaderChars, Zenon
<1>4. QED  BY <1>3 DEF First

LEMMA StartsOther ==
  ASSUME NEW r, RingOK(r)
  PROVE  LET h == Held(r)
         IN  /\ RbStarts(r, << "\n" >>) <=> r.used >= 1 /\ h[1] = "\n"
             /\ RbStarts(r, << "O", "K", "\r" >>)
                  <=> r.used >= 3 /\ h[1] = "O" /\ h[2] = "K" /\ h[3] = "\r"
             /\ RbStarts(r, CrLf \o Cssu)
                  <=> r.used >= 4 /\ h[1] = "\r" /\ h[2] = "\n" /\ h[3] = "+S" /\ h[4] = ":"
<1> DEFINE h == Held(r)
<1>1. RbStarts(r, << "\n" >>) <=> r.used >= 1 /\ h[1] = "\n"
  <2> DEFINE mem == << "\n" >>
  <2>1. mem \in Seq(Char) /\ Len(mem) = 1 /\ mem[1] = "\n"
    BY CharsIn
  <2> HIDE DEF mem, h
  <2>2. RbStarts(r, mem) <=> r.used >= 1 /\ \A i \in 1..1 : h[i] = mem[i]
    BY <2>1, StartsText DEF h
  <2>3. (\A i \in 1..1 : h[i] = mem[i]) <=> h[1] = "\n"
    BY <2>1
  <2>4. QED  BY <2>2, <2>3 DEF mem
<1>2. RbStarts(r, << "O", "K", "\r" >>)
        <=> r.used >= 3 /\ h[1] = "O" /\ h[2] = "K" /\ h[3] = "\r"
  <2> DEFINE mem == << "O", "K", "\r" >>
  <2>1. mem \in Seq(Char) /\ Len(mem) = 3 /\ mem[1] = "O" /\ mem[2] = "K" /\ mem[3] = "\r"
    BY CharsIn
  <2> HIDE DEF mem, h
  <2>2. RbStarts(r, mem) <=> r.used >= 3 /\ \A i \in 1..3 : h[i] = mem[i]
    BY <2>1, StartsText DEF h
  <2>3. (\A i \in 1..3 : h[i] = mem[i]) <=> h[1] = "O" /\ h[2] = "K" /\ h[3] = "\r"
    BY <2>1
  <2>4. QED  BY <2>2, <2>3 DEF mem
<1>3. RbStarts(r, CrLf \o Cssu)
        <=> r.used >= 4 /\ h[1] = "\r" /\ h[2] = "\n" /\ h[3] = "+S" /\ h[4] = ":"
  <2> DEFINE mem == CrLf \o Cssu
  <2>1. /\ mem \in Seq(Char) /\ Len(mem) = 4
        /\ mem[1] = "\r" /\ mem[2] = "\n" /\ mem[3] = "+S" /\ mem[4] = ":"
    BY CharsIn DEF CrLf, Cssu
  <2> HIDE DEF mem, h
  <2>2. RbStarts(r, mem) <=> r.used >= 4 /\ \A i \in 1..4 : h[i] = mem[i]
    BY <2>1, StartsText DEF h
  <2>3. (\A i \in 1..4 : h[i] = mem[i])
          <=> h[1] = "\r" /\ h[2] = "\n" /\ h[3] = "+S" /\ h[4] = ":"
    BY <2>1
  <2>4. QED  BY <2>2, <2>3 DEF mem
<1>4. QED  BY <1>1, <1>2, <1>3

(* Where what is searched for can be: at c, if all of it is there.  *)
LEMMA UntilAt ==
  ASSUME NEW r, RingOK(r), Chained(Held(r)), NEW mem \in Searched,
         ~(Len(mem) > 2 /\ LiesAcross(r, mem)), NEW c \in Nat,
         \A i \in Nat : i < c => ~Occurs(Held(r), i, mem),
         c + Len(mem) <= r.used => Occurs(Held(r), c, mem)
  PROVE  /\ RbReadUntil(r, mem) # << >> <=> c + Len(mem) <= r.used
         /\ RbReadUntil(r, mem) # << >> => IsFront(Text(RbReadUntil(r, mem)), c, r)
<1> DEFINE h == Held(r)
           n == Len(mem)
           u == r.used
<1>1. Len(h) = u /\ u \in Nat /\ n \in Nat /\ n > 0
  <2>1. Len(h) = u /\ u \in Nat
    BY HeldText, RingFields
  <2>2. n \in {1, 2, 7}
    BY SearchedSeq, Zenon DEF Searched
  <2> HIDE DEF n
  <2>3. QED  BY <2>1, <2>2
<1>2. \A k \in Nat : Occurs(h, k, mem) => k + n <= u
  BY <1>1 DEF Occurs
<1>3. /\ (\A k \in Nat : ~Occurs(h, k, mem)) => RbReadUntil(r, mem) = << >>
      /\ \A k : FirstAt(h, k, mem) =>
           RbReadUntil(r, mem) # << >> /\ IsFront(Text(RbReadUntil(r, mem)), k, r)
  <2>1. RingOK(r) /\ Chained(h) /\ mem \in Searched /\ ~(n > 2 /\ LiesAcross(r, mem))
    OBVIOUS
  <2>2. QED  BY ONLY <2>1, UntilSearched
<1>4. \A i \in Nat : i < c => ~Occurs(h, i, mem)
  OBVIOUS
<1>5. c + n <= u => Occurs(h, c, mem)
  OBVIOUS
<1> HIDE DEF h, n, u
<1>6. CASE c + n <= u
  <2>1. \A l \in Nat : Occurs(h, l, mem) => c <= l
    BY <1>4
  <2>2. FirstAt(h, c, mem)
    BY <1>5, <1>6, <2>1 DEF FirstAt
  <2>3. QED  BY <1>3, <1>6, <2>2 DEF n, u
<1>7. CASE ~(c + n <= u)
  <2>1. \A k \in Nat : ~Occurs(h, k, mem)
    BY <1>1, <1>2, <1>4, <1>7
  <2>2. QED  BY <1>3, <1>7, <2>1 DEF n, u
<1>8. QED  BY <1>6, <1>7

(* The search for mem finds it behind the first c characters, if it finds it. *)
Ends(r, mem, c) ==
  /\ RbReadUntil(r, mem) # << >> <=> c + Len(mem) <= r.used
  /\ RbReadUntil(r, mem) # << >> => IsFront(Text(RbReadUntil(r, mem)), c, r)

LEMMA CharAt ==
  ASSUME NEW r, RingOK(r), Chained(Held(r)), NEW c \in Nat,
         \A i \in 1..c : i <= r.used => Held(r)[i] # "\r", Shows(r, c + 1, "\r")
  PROVE  Ends(r, << "\r" >>, c)
<1> DEFINE h == Held(r)
           mem == << "\r" >>
           u == r.used
<1>1. mem \in Searched /\ Len(mem) = 1 /\ mem[1] = "\r" /\ Len(h) = u /\ u \in Nat
  BY HeldText, RingFields DEF Searched
<1>2. \A i \in 1..c : i <= u => h[i] # "\r"
  OBVIOUS
<1>3. c + 1 <= u => h[c + 1] = "\r"
  BY DEF Shows
<1> HIDE DEF h, mem, u
<1>4. ASSUME NEW i \in Nat, i < c PROVE ~Occurs(h, i, mem)
  <2>1. SUFFICES ASSUME i + 1 <= u, \A j \in 1..1 : h[i + j] = mem[j] PROVE FALSE
    BY <1>1 DEF Occurs
  <2>2. h[i + 1] = "\r"
    BY <1>1, <2>1
  <2>3. i + 1 \in 1..c
    BY <1>4
  <2>4. QED  BY <1>2, <2>1, <2>2, <2>3
<1>5. c + 1 <= u => Occurs(h, c, mem)
  <2>1. SUFFICES ASSUME c + 1 <= u PROVE \A j \in 1..1 : h[c + j] = mem[j]
    BY <1>1 DEF Occurs
  <2>2. QED  BY <1>1, <1>3, <2>1
<1>6. \A i \in Nat : i < c => ~Occurs(h, i, mem)
  BY <1>4
<1>7. RingOK(r) /\ Chained(h) /\ c \in Nat /\ ~(Len(mem) > 2 /\ LiesAcross(r, mem))
  BY <1>1 DEF h
<1>8. /\ RbReadUntil(r, mem) # << >> <=> c + Len(mem) <= u
      /\ RbReadUntil(r, mem) # << >> => IsFront(Text(RbReadUntil(r, mem)), c, r)
  BY ONLY <1>1, <1>5, <1>6, <1>7, UntilAt DEF h, u
<1>9. QED  BY <1>8 DEF Ends, mem, u

LEMMA LineAt ==
  ASSUME NEW r, RingOK(r), Chained(Held(r)), NEW c \in Nat,
         \A i \in 1..c : i <= r.used => Held(r)[i] # "\r",
         Shows(r, c + 1, "\r"), Shows(r, c + 2, "\n")
  PROVE  Ends(r, CrLf, c)
<1> DEFINE h == Held(r)
           mem == CrLf
           u == r.used
<1>1. /\ mem \in Searched /\ Len(mem) = 2 /\ mem[1] = "\r" /\ mem[2] = "\n"
      /\ Len(h) = u /\ u \in Nat
  BY HeldText, RingFields, SearchedSeq DEF Searched
<1>2. \A i \in 1..c : i <= u => h[i] # "\r"
  OBVIOUS
<1>3. (c + 1 <= u => h[c + 1] = "\r") /\ (c + 2 <= u => h[c + 2] = "\n")
  BY DEF Shows
<1> HIDE DEF h, mem, u
<1>4. ASSUME NEW i \in Nat, i < c PROVE ~Occurs(h, i, mem)
  <2>1. SUFFICES ASSUME i + 2 <= u, \A j \in 1..2 : h[i + j] = mem[j] PROVE FALSE
    BY <1>1 DEF Occurs
  <2>2. h[i + 1] = "\r"
    BY <1>1, <2>1
  <2>3. i + 1 \in 1..c /\ i + 1 <= u
    BY <1>1, <1>4, <2>1
  <2>4. QED  BY <1>2, <2>2, <2>3
<1>5. c + 2 <= u => Occurs(h, c, mem)
  <2>1. SUFFICES ASSUME c + 2 <= u PROVE \A j \in 1..2 : h[c + j] = mem[j]
    BY <1>1 DEF Occurs
  <2>2. c + 1 <= u
    BY <1>1, <2>1
  <2>3. QED  BY <1>1, <1>3, <2>1, <2>2
<1>6. \A i \in Nat : i < c => ~Occurs(h, i, mem)
  BY <1>4
<1>7. RingOK(r) /\ Chained(h) /\ c \in Nat /\ ~(Len(mem) > 2 /\ LiesAcross(r, mem))
  BY <1>1 DEF h
<1>8. /\ RbReadUntil(r, mem) # << >> <=> c + Len(mem) <= u
      /\ RbReadUntil(r, mem) # << >> => IsFront(Text(RbReadUntil(r, mem)), c, r)
  BY ONLY <1>1, <1>5, <1>6, <1>7, UntilAt DEF h, u
<1>9. QED  BY <1>8 DEF Ends, mem, u

LEMMA ListAt ==
  ASSUME NEW r, RingOK(r), Chained(Held(r)), NEW c \in Nat, ~LiesAcross(r, EndOfList),
         \A i \in 1..c : i + 1 <= r.used => ~(Held(r)[i] = "\n" /\ Held(r)[i + 1] = "\r"),
         Shows(r, c + 1, "\n"), Shows(r, c + 2, "\r"), Shows(r, c + 3, "\n"), Shows(r, c + 4, "O"),
         Shows(r, c + 5, "K"), Shows(r, c + 6, "\r"), Shows(r, c + 7, "\n")
  PROVE  Ends(r, EndOfList, c)
<1> DEFINE h == Held(r)
           mem == EndOfList
           u == r.used
<1>1. /\ mem \in Searched /\ Len(mem) = 7 /\ Len(h) = u /\ u \in Nat
      /\ mem[1] = "\n" /\ mem[2] = "\r" /\ mem[3] = "\n" /\ mem[4] = "O"
      /\ mem[5] = "K" /\ mem[6] = "\r" /\ mem[7] = "\n"
  BY HeldText, RingFields, SearchedSeq DEF Searched
<1>2. \A i \in 1..c : i + 1 <= u => ~(h[i] = "\n" /\ h[i + 1] = "\r")
  OBVIOUS
<1>3. c + 7 <= u => /\ h[c + 1] = "\n" /\ h[c + 2] = "\r" /\ h[c + 3] = "\n" /\ h[c + 4] = "O"
                    /\ h[c + 5] = "K" /\ h[c + 6] = "\r" /\ h[c + 7] = "\n"
  <2>1. SUFFICES ASSUME c + 7 <= u
                 PROVE  /\ h[c + 1] = "\n" /\ h[c + 2] = "\r" /\ h[c + 3] = "\n" /\ h[c + 4] = "O"
                        /\ h[c + 5] = "K" /\ h[c + 6] = "\r" /\ h[c + 7] = "\n"
    OBVIOUS
  <2> HIDE DEF u
  <2>2. /\ c + 1 <= u /\ c + 2 <= u /\ c + 3 <= u /\ c + 4 <= u
        /\ c + 5 <= u /\ c + 6 <= u /\ c + 7 <= u
    BY <1>1, <2>1
  <2>3. QED  BY <2>2 DEF Shows, u
<1> HIDE DEF h, mem, u
<1>4. ASSUME NEW i \in Nat, i < c PROVE ~Occurs(h, i, mem)
  <2>1. SUFFICES ASSUME i + 7 <= u, \A j \in 1..7 : h[i + j] = mem[j] PROVE FALSE
    BY <1>1 DEF Occurs
  <2>2. h[i + 1] = "\n" /\ h[i + 2] = "\r"
    BY <1>1, <2>1
  <2>3. i + 1 \in 1..c /\ (i + 1) + 1 <= u /\ (i + 1) + 1 = i + 2
    BY <1>1, <1>4, <2>1
  <2>4. QED  BY <1>2, <2>2, <2>3
<1>5. c + 7 <= u => Occurs(h, c, mem)
  <2>1. SUFFICES ASSUME c + 7 <= u PROVE \A j \in 1..7 : h[c + j] = mem[j]
    BY <1>1 DEF Occurs
  <2>2. /\ h[c + 1] = mem[1] /\ h[c + 2] = mem[2] /\ h[c + 3] = mem[3] /\ h[c + 4] = mem[4]
        /\ h[c + 5] = mem[5] /\ h[c + 6] = mem[6] /\ h[c + 7] = mem[7]
    BY <1>1, <1>3, <2>1
  <2>3. \A j \in 1..7 : j = 1 \/ j = 2 \/ j = 3 \/ j = 4 \/ j = 5 \/ j = 6 \/ j = 7
    OBVIOUS
  <2>4. QED  BY <2>2, <2>3
<1>6. \A i \in Nat : i < c => ~Occurs(h, i, mem)
  BY <1>4
<1>7. RingOK(r) /\ Chained(h) /\ c \in Nat /\ ~(Len(mem) > 2 /\ LiesAcross(r, mem))
  BY DEF h, mem
<1>8. /\ RbReadUntil(r, mem) # << >> <=> c + Len(mem) <= u
      /\ RbReadUntil(r, mem) # << >> => IsFront(Text(RbReadUntil(r, mem)), c, r)
  BY ONLY <1>1, <1>5, <1>6, <1>7, UntilAt DEF h, u
<1>9. QED  BY <1>8 DEF Ends, mem, u

(* The (j+1)-st result of m has class c and is the n characters behind the  *)
(* first k of m.                                                             *)
Fits(m, k, j, c, n) ==
  LET a == ResultsOf(m)[j + 1]
  IN  /\ j + 1 \in 1..Len(ResultsOf(m)) /\ k + n <= Len(Bytes(m))
      /\ a = Taken(c, a.text) /\ a.text \in Seq(Char) /\ Len(a.text) = n
      /\ \A i \in 1..n : a.text[i] = Bytes(m)[k + i]

(* Where the search goes on, in m or with the next message.  *)
GoesOn(m, k, j, leader) ==
  IF k < Len(Bytes(m)) THEN IsPlace(m, k, j, leader)
  ELSE k = Len(Bytes(m)) /\ j = Len(ResultsOf(m)) /\ ~leader

(* The monitor drops n bytes of m, and with them takes its next result (d = 1) *)
(* or none (d = 0).                                                          *)
Onward(m, k, j, n, d) ==
  /\ n \in 0..rb.used
  /\ rb' = RbReadUpd(rb, n) /\ line' = line /\ sent' = sent /\ pc' = pc
  /\ IF d = 0 THEN results' = results
     ELSE j + 1 \in 1..Len(ResultsOf(m)) /\ results' = Append(results, ResultsOf(m)[j + 1])
  /\ GoesOn(m, k + n, j + d, readResult')

LEMMA TakenFits ==
  ASSUME NEW r, RingOK(r), NEW m \in MessageKinds, NEW k \in Nat, NEW j, NEW c, NEW n \in Nat,
         View(r, m, k), Fits(m, k, j, c, n), NEW text, IsFront(text, n, r)
  PROVE  Taken(c, text) = ResultsOf(m)[j + 1]
<1> DEFINE a == ResultsOf(m)[j + 1]
           b == Bytes(m)
           h == Held(r)
           u == r.used
           s == a.text
           l == Len(b)
<1>1. /\ k + n <= l /\ a = Taken(c, s) /\ s \in Seq(Char) /\ Len(s) = n
      /\ \A i \in 1..n : s[i] = b[k + i]
  BY DEF Fits
<1>2. /\ text \in Seq(Char) /\ Len(text) = n /\ n \in 0..u
      /\ \A i \in 1..n : text[i] = h[i]
  BY DEF IsFront
<1>3. \A i \in 1..l : i > k /\ i - k <= u => h[i - k] = b[i]
  BY DEF View, Shows
<1>4. l \in Nat /\ u \in Nat
  BY MessageBytes, LenProperties, RingFields
<1> HIDE DEF a, b, h, u, s, l
<1>5. ASSUME NEW i \in 1..n PROVE text[i] = s[i]
  <2> DEFINE e == k + i
  <2>1. e \in 1..l /\ e > k /\ e - k = i /\ i <= u
    BY <1>1, <1>2, <1>4
  <2>2. s[i] = b[e]
    BY <1>1
  <2> HIDE DEF e
  <2>3. h[e - k] = b[e]
    BY <1>3, <2>1
  <2>4. QED  BY <1>2, <2>1, <2>2, <2>3
<1>6. text = s
  BY <1>1, <1>2, <1>5, SeqEqual
<1>7. QED  BY <1>1, <1>6 DEF a

LEMMA TakeMoves ==
  ASSUME BytesInv, NEW m \in MessageKinds, NEW k \in Nat, NEW j, NEW n \in Nat, NEW l \in Nat,
         View(rb, m, k), Fits(m, k, j, Class, n), NEW iov, Take(iov), IsFront(Text(iov), n, rb),
         Consumed(Class, n) = l, l <= rb.used, GoesOn(m, k + l, j + 1, FALSE)
  PROVE  Onward(m, k, j, l, 1)
<1>1. RingOK(rb)
  BY InvChained
<1>2. Taken(Class, Text(iov)) = ResultsOf(m)[j + 1]
  BY ONLY <1>1, m \in MessageKinds, k \in Nat, n \in Nat, View(rb, m, k), Fits(m, k, j, Class, n),
          IsFront(Text(iov), n, rb), TakenFits
<1>3. Len(Text(iov)) = n
  BY DEF IsFront
<1>4. /\ rb' = RbReadUpd(rb, l) /\ line' = line /\ sent' = sent /\ pc' = pc
      /\ results' = Append(results, ResultsOf(m)[j + 1]) /\ readResult' = FALSE
  BY <1>2, <1>3 DEF Take
<1>5. j + 1 \in 1..Len(ResultsOf(m))
  BY DEF Fits
<1>6. l \in 0..rb.used
  BY <1>1, RingFields
<1>7. GoesOn(m, k + l, j + 1, readResult')
  BY <1>4
<1>8. QED  BY <1>4, <1>5, <1>6, <1>7 DEF Onward

(* With less than two characters no line end is found.  *)
LEMMA ShortNoLine ==
  ASSUME NEW r, RingOK(r), r.used < 2
  PROVE  RbReadUntil(r, CrLf) = << >>
<1> DEFINE h == Held(r)
<1>1. Len(h) = r.used /\ r.used \in Nat /\ Len(CrLf) = 2
  BY HeldText, RingFields, SearchedSeq
<1> HIDE DEF h
<1>2. \A k \in Nat : ~Occurs(h, k, CrLf)
  BY <1>1 DEF Occurs
<1>3. QED  BY <1>2, UntilLine DEF h

(* What class the header gives.  *)
LEMMA ClassIs ==
  ASSUME RingOK(rb), NEW x, NEW y, rb.used >= 2, Held(rb)[1] = x, Held(rb)[2] = y
  PROVE  /\ x = "+R" /\ y = ":" => Class = "cmgr"
         /\ x = "+L" /\ y = ":" => Class = "clcc"
         /\ x = "+I" /\ y = ":" => Class = "cssi"
         /\ x = "+S" /\ y = ":" => Class = "cssu"
         /\ x = ">" /\ y = "sp" => Class = "prompt"
         /\ x = "O" /\ y = "K" /\ rb.used >= 3 /\ Held(rb)[3] = "\r" => Class = "ok"
         /\ x = "x" => Class = "unknown"
<1> DEFINE A == RbStarts(rb, Cmgr)
           B == RbStarts(rb, Clcc)
           C == RbStarts(rb, Cssi)
           D == RbStarts(rb, Cssu)
           E == RbStarts(rb, Prompt)
           F == RbStarts(rb, << "O", "K", "\r" >>)
           K == Class
<1>1. /\ A <=> x = "+R" /\ y = ":"
      /\ B <=> x = "+L" /\ y = ":"
      /\ C <=> x = "+I" /\ y = ":"
      /\ D <=> x = "+S" /\ y = ":"
      /\ E <=> x = ">" /\ y = "sp"
  BY StartsHeader
<1>2. F <=> rb.used >= 3 /\ x = "O" /\ y = "K" /\ Held(rb)[3] = "\r"
  BY StartsOther
<1>3. K = CASE A -> "cmgr" [] B -> "clcc" [] C -> "cssi" [] D -> "cssu" [] E -> "prompt"
            [] F -> "ok" [] OTHER -> "unknown"
  BY DEF Class
<1> HIDE DEF A, B, C, D, E, F, K
<1>4. /\ A /\ ~B /\ ~C /\ ~D /\ ~E /\ ~F => K = "cmgr"
      /\ B /\ ~A /\ ~C /\ ~D /\ ~E /\ ~F => K = "clcc"
      /\ C /\ ~A /\ ~B /\ ~D /\ ~E /\ ~F => K = "cssi"
      /\ D /\ ~A /\ ~B /\ ~C /\ ~E /\ ~F => K = "cssu"
      /\ E /\ ~A /\ ~B /\ ~C /\ ~D /\ ~F => K = "prompt"
      /\ F /\ ~A /\ ~B /\ ~C /\ ~D /\ ~E => K = "ok"
      /\ ~A /\ ~B /\ ~C /\ ~D /\ ~E /\ ~F => K = "unknown"
  BY <1>3
<1>5. QED  BY <1>1, <1>2, <1>4 DEF K

(* The one thing to do from k in m is to take the next result, with l bytes, *)
(* and it is done once w bytes are there.                                    *)
OnlyTakes(m, k, j, l, w) ==
  /\ ~SkipDoubled
  /\ (TakeCssi \/ TakePrompt \/ TakeList \/ TakeLine) /\ ~astray' => Onward(m, k, j, l, 1)
  /\ readResult /\ rb.used >= w => ~Waits

(* A result that is a line of its own.  *)
LEMMA LinePlace ==
  ASSUME BytesInv, NEW m \in MessageKinds, NEW k \in Nat, NEW j, NEW c \in Nat, c >= 1,
         NEW cls \in {"ok", "unknown", "cssu"}, View(rb, m, k), Fits(m, k, j, cls, c + 1),
         rb.used >= 1 => Held(rb)[1] \notin {"+R", "+L", "+I", ">", "\r"},
         \A i \in 1..c : i <= rb.used => Held(rb)[i] # "\r",
         Shows(rb, c + 1, "\r"), Shows(rb, c + 2, "\n"),
         rb.used >= c + 2 => Class = cls, GoesOn(m, k + (c + 2), j + 1, FALSE)
  PROVE  OnlyTakes(m, k, j, c + 2, c + 2)
<1> DEFINE h == Held(rb)
           u == rb.used
           iov == RbReadUntil(rb, CrLf)
<1>1. RingOK(rb) /\ Chained(h) /\ u \in Nat
  BY InvType, Zenon
<1>2. /\ ~RbStarts(rb, Cmgr) /\ ~RbStarts(rb, Clcc) /\ ~RbStarts(rb, Cssi)
      /\ ~RbStarts(rb, Prompt) /\ ~RbStarts(rb, CrLf \o Cssu)
  <2>1. u >= 1 => h[1] \notin {"+R", "+L", "+I", ">", "\r"}
    OBVIOUS
  <2> HIDE DEF h, u
  <2>2. u >= 2 \/ u >= 4 => u >= 1
    BY <1>1
  <2>3. /\ RbStarts(rb, Cmgr) => u >= 2 /\ h[1] = "+R"
        /\ RbStarts(rb, Clcc) => u >= 2 /\ h[1] = "+L"
        /\ RbStarts(rb, Cssi) => u >= 2 /\ h[1] = "+I"
        /\ RbStarts(rb, Prompt) => u >= 2 /\ h[1] = ">"
        /\ RbStarts(rb, CrLf \o Cssu) => u >= 4 /\ h[1] = "\r"
    BY <1>1, StartsHeader, StartsOther DEF h, u
  <2>4. QED  BY ONLY <2>1, <2>2, <2>3
<1>3. Ends(rb, CrLf, c)
  <2>1. \A i \in 1..c : i <= u => h[i] # "\r"
    OBVIOUS
  <2>2. Shows(rb, c + 1, "\r") /\ Shows(rb, c + 2, "\n") /\ c \in Nat
    OBVIOUS
  <2>3. QED  BY ONLY <1>1, <2>1, <2>2, LineAt
<1>4. (iov # << >> <=> c + 2 <= u) /\ (iov # << >> => IsFront(Text(iov), c, rb))
  BY <1>3, SearchedSeq DEF Ends
<1>5. ~SkipDoubled /\ ~TakeCssi /\ ~TakePrompt /\ ~TakeList
  BY <1>2 DEF SkipDoubled, TakeCssi, TakePrompt, TakeList, StartsList
<1>6. ASSUME TakeLine PROVE Onward(m, k, j, c + 2, 1)
  <2>1. iov # << >> /\ Take(RbReadN(rb, Len(Text(iov)) + 1))
    BY <1>6 DEF TakeLine
  <2>2. c + 2 <= u /\ Len(Text(iov)) = c
    BY <1>4, <2>1 DEF IsFront
  <2> DEFINE n == c + 1
             l == c + 2
             v == RbReadN(rb, n)
  <2>3. Take(v) /\ n \in 0..u /\ l <= u /\ n \in Nat /\ l \in Nat /\ n + 1 = l
    BY <1>1, <2>1, <2>2
  <2>4. IsFront(Text(v), n, rb)
    BY ONLY <1>1, <2>3, FrontReadN
  <2>5. Class = cls
    BY <1>1, <2>2
  <2>6. Consumed(Class, n) = l
    BY <2>3, <2>5 DEF Consumed
  <2>7. /\ BytesInv /\ m \in MessageKinds /\ k \in Nat /\ View(rb, m, k) /\ Fits(m, k, j, Class, n)
        /\ GoesOn(m, k + l, j + 1, FALSE)
    BY <2>5
  <2>8. QED  BY ONLY <2>3, <2>4, <2>6, <2>7, TakeMoves
<1>7. ASSUME readResult, rb.used >= c + 2 PROVE ~NoneYet
  <2>1. iov # << >>
    BY <1>4, <1>7
  <2>2. u # 0
    BY <1>1, <1>7
  <2>3. QED  BY <1>2, <1>7, <2>1, <2>2 DEF NoneYet, StartsList
<1>8. QED  BY <1>5, <1>6, <1>7 DEF OnlyTakes, Waits

(* A list, up to the "OK" behind it.  *)
LEMMA ListPlace ==
  ASSUME BytesInv, NEW m \in MessageKinds, NEW k \in Nat, NEW j, NEW c \in Nat, c >= 2,
         NEW name \in {"+R", "+L"}, NEW l \in Nat,
         View(rb, m, k), Fits(m, k, j, IF name = "+R" THEN "cmgr" ELSE "clcc", c),
         Shows(rb, 1, name), Shows(rb, 2, ":"),
         \A i \in 1..c : i + 1 <= rb.used => ~(Held(rb)[i] = "\n" /\ Held(rb)[i + 1] = "\r"),
         Shows(rb, c + 1, "\n"), Shows(rb, c + 2, "\r"), Shows(rb, c + 3, "\n"), Shows(rb, c + 4, "O"),
         Shows(rb, c + 5, "K"), Shows(rb, c + 6, "\r"), Shows(rb, c + 7, "\n"),
         l = IF name = "+R" THEN c + 7 ELSE c + 1, GoesOn(m, k + l, j + 1, FALSE)
  PROVE  OnlyTakes(m, k, j, l, c + 7)
<1> DEFINE h == Held(rb)
           u == rb.used
           iov == RbReadUntil(rb, EndOfList)
           cls == IF name = "+R" THEN "cmgr" ELSE "clcc"
<1>1. RingOK(rb) /\ Chained(h) /\ u \in Nat
  BY InvType, Zenon
<1>2. (u >= 1 => h[1] = name) /\ (u >= 2 => h[2] = ":")
  BY DEF Shows
<1>3. /\ RbStarts(rb, Cmgr) <=> u >= 2 /\ h[1] = "+R" /\ h[2] = ":"
      /\ RbStarts(rb, Clcc) <=> u >= 2 /\ h[1] = "+L" /\ h[2] = ":"
      /\ RbStarts(rb, Cssi) => u >= 2 /\ h[1] = "+I"
      /\ RbStarts(rb, Prompt) => u >= 2 /\ h[1] = ">"
      /\ RbStarts(rb, CrLf \o Cssu) => u >= 4 /\ h[1] = "\r"
  BY <1>1, StartsHeader, StartsOther
<1> HIDE DEF h, u
<1>4. ~RbStarts(rb, Cssi) /\ ~RbStarts(rb, Prompt) /\ ~RbStarts(rb, CrLf \o Cssu)
  <2>1. u >= 2 \/ u >= 4 => u >= 1
    BY <1>1
  <2>2. QED  BY <1>2, <1>3, <2>1
<1>5. StartsList <=> u >= 2
  <2>1. u >= 2 => u >= 1
    BY <1>1
  <2>2. QED  BY <1>2, <1>3, <2>1 DEF StartsList
<1>6. u >= 2 => Class = cls
  <2>1. SUFFICES ASSUME u >= 2 PROVE Class = cls
    OBVIOUS
  <2>2. h[1] = name /\ h[2] = ":"
    BY <1>1, <1>2, <2>1
  <2>3. (name = "+R" => Class = "cmgr") /\ (name = "+L" => Class = "clcc")
    <3>1. RingOK(rb) /\ rb.used >= 2 /\ Held(rb)[1] = name /\ Held(rb)[2] = ":"
      BY <1>1, <2>1, <2>2 DEF h, u
    <3>2. QED  BY ONLY <3>1, ClassIs
  <2>4. name = "+R" \/ name = "+L"
    OBVIOUS
  <2>5. QED  BY <2>3, <2>4
<1>7. ASSUME ~LiesAcross(rb, EndOfList)
      PROVE  (iov # << >> <=> c + 7 <= u) /\ (iov # << >> => IsFront(Text(iov), c, rb))
  <2>1. \A i \in 1..c : i + 1 <= rb.used => ~(Held(rb)[i] = "\n" /\ Held(rb)[i + 1] = "\r")
    OBVIOUS
  <2>2. /\ RingOK(rb) /\ Chained(Held(rb)) /\ c \in Nat
        /\ Shows(rb, c + 1, "\n") /\ Shows(rb, c + 2, "\r") /\ Shows(rb, c + 3, "\n")
        /\ Shows(rb, c + 4, "O") /\ Shows(rb, c + 5, "K") /\ Shows(rb, c + 6, "\r")
        /\ Shows(rb, c + 7, "\n")
    BY <1>1 DEF h
  <2>3. Ends(rb, EndOfList, c)
    BY ONLY <1>7, <2>1, <2>2, ListAt
  <2>4. QED  BY <2>3, SearchedSeq DEF Ends, u
<1>8. ~SkipDoubled /\ ~TakeCssi /\ ~TakePrompt
  BY <1>4 DEF SkipDoubled, TakeCssi, TakePrompt
<1>9. ~TakeLine
  <2>1. u < 2 => RbReadUntil(rb, CrLf) = << >>
    BY <1>1, ShortNoLine DEF u
  <2>2. u >= 2 \/ u < 2
    BY <1>1
  <2>3. QED  BY <1>5, <2>1, <2>2 DEF TakeLine
<1>10. ASSUME TakeList, ~astray' PROVE Onward(m, k, j, l, 1)
  <2>1. iov # << >> /\ Take(iov) /\ ~LiesAcross(rb, EndOfList)
    BY <1>10 DEF TakeList, ListEndsAcross
  <2>2. c + 7 <= u /\ IsFront(Text(iov), c, rb)
    BY <1>7, <2>1
  <2>3. Class = cls
    BY <1>1, <1>6, <2>2
  <2>4. Consumed(Class, c) = l
    BY <2>3, SearchedSeq DEF Consumed
  <2>5. l <= rb.used
    BY <1>1, <2>2 DEF u
  <2>6. /\ BytesInv /\ m \in MessageKinds /\ k \in Nat /\ View(rb, m, k) /\ Fits(m, k, j, Class, c)
        /\ c \in Nat /\ l \in Nat /\ GoesOn(m, k + l, j + 1, FALSE)
    BY <2>3
  <2>7. QED  BY ONLY <2>1, <2>2, <2>4, <2>5, <2>6, TakeMoves
<1>11. ASSUME readResult, u >= c + 7 PROVE ~Waits
  <2>1. StartsList /\ u # 0
    BY <1>1, <1>5, <1>11
  <2>2. CASE LiesAcross(rb, EndOfList)
    BY <1>11, <2>1, <2>2 DEF Waits
  <2>3. CASE ~LiesAcross(rb, EndOfList)
    <3>1. iov # << >>
      BY <1>7, <1>11, <2>3
    <3>2. ~(u < 2)
      BY <1>1, <1>11
    <3>3. QED  BY <1>4, <1>11, <2>1, <3>1, <3>2 DEF Waits, NoneYet, u
  <2>4. QED  BY <2>2, <2>3
<1>12. QED  BY <1>8, <1>9, <1>10, <1>11 DEF OnlyTakes, u

(* The two forms without a line end: their length is in the code.  *)
LEMMA ShortPlace ==
  ASSUME BytesInv, NEW m \in MessageKinds, NEW k \in Nat, NEW j,
         NEW name \in {">", "+I"}, NEW y, y = (IF name = ">" THEN "sp" ELSE ":"),
         NEW c, c = (IF name = ">" THEN 2 ELSE 4),
         View(rb, m, k), Fits(m, k, j, IF name = ">" THEN "prompt" ELSE "cssi", c),
         Shows(rb, 1, name), Shows(rb, 2, y), GoesOn(m, k + c, j + 1, FALSE)
  PROVE  OnlyTakes(m, k, j, c, c)
<1> DEFINE h == Held(rb)
           u == rb.used
           cls == IF name = ">" THEN "prompt" ELSE "cssi"
<1>1. RingOK(rb) /\ u \in Nat
  BY InvType, Zenon
<1>2. (u >= 1 => h[1] = name) /\ (u >= 2 => h[2] = y)
  BY DEF Shows
<1>3. /\ RbStarts(rb, Cmgr) => u >= 2 /\ h[1] = "+R"
      /\ RbStarts(rb, Clcc) => u >= 2 /\ h[1] = "+L"
      /\ RbStarts(rb, Cssi) <=> u >= 2 /\ h[1] = "+I" /\ h[2] = ":"
      /\ RbStarts(rb, Prompt) <=> u >= 2 /\ h[1] = ">" /\ h[2] = "sp"
      /\ RbStarts(rb, CrLf \o Cssu) => u >= 4 /\ h[1] = "\r"
  BY <1>1, StartsHeader, StartsOther
<1> HIDE DEF h, u
<1>4. /\ ~RbStarts(rb, Cmgr) /\ ~RbStarts(rb, Clcc) /\ ~RbStarts(rb, CrLf \o Cssu)
      /\ RbStarts(rb, Prompt) <=> u >= 2 /\ name = ">"
      /\ RbStarts(rb, Cssi) <=> u >= 2 /\ name = "+I"
  <2>1. u >= 2 \/ u >= 4 => u >= 1
    BY <1>1
  <2>2. QED  BY <1>2, <1>3, <2>1
<1>5. u >= 2 => Class = cls
  <2>1. SUFFICES ASSUME u >= 2 PROVE Class = cls
    OBVIOUS
  <2>2. RingOK(rb) /\ rb.used >= 2 /\ Held(rb)[1] = name /\ Held(rb)[2] = y
    BY <1>1, <1>2, <2>1 DEF h, u
  <2>3. /\ name = ">" /\ y = "sp" => Class = "prompt"
        /\ name = "+I" /\ y = ":" => Class = "cssi"
    BY ONLY <2>2, ClassIs
  <2>4. QED  BY <2>3
<1>6. ~SkipDoubled /\ ~TakeList
  BY <1>4 DEF SkipDoubled, TakeList, StartsList
<1>7. ~TakeLine
  <2>1. u < 2 => RbReadUntil(rb, CrLf) = << >>
    BY <1>1, ShortNoLine DEF u
  <2>2. u >= 2 \/ u < 2
    BY <1>1
  <2>3. QED  BY <1>4, <2>1, <2>2 DEF TakeLine
<1>8. ASSUME TakeCssi \/ TakePrompt PROVE Onward(m, k, j, c, 1)
  <2> DEFINE v == RbReadN(rb, c)
  <2>1. Take(v) /\ u >= c /\ u >= 2 /\ c \in Nat
    <3>1. Len(Cssi) + 2 = 4 /\ Len(Prompt) = 2
      BY HeaderChars
    <3>2. CASE TakeCssi
      <4>1. name = "+I" /\ u >= 2
        BY <1>4, <3>2 DEF TakeCssi
      <4>2. Take(RbReadN(rb, 4)) /\ u >= 4
        BY <3>1, <3>2 DEF TakeCssi, u
      <4>3. QED  BY <4>1, <4>2
    <3>3. CASE TakePrompt
      <4>1. name = ">" /\ u >= 2
        BY <1>4, <3>3 DEF TakePrompt
      <4>2. Take(RbReadN(rb, 2))
        BY <3>1, <3>3 DEF TakePrompt
      <4>3. QED  BY <4>1, <4>2
    <3>4. QED  BY <1>8, <3>2, <3>3
  <2>2. c \in 0..rb.used /\ c <= rb.used
    BY <1>1, <2>1 DEF u
  <2>3. IsFront(Text(v), c, rb)
    BY ONLY <1>1, <2>2, FrontReadN
  <2>4. Class = cls
    BY <1>5, <2>1
  <2>5. Consumed(Class, c) = c
    BY <2>4, HeaderChars DEF Consumed
  <2>6. /\ BytesInv /\ m \in MessageKinds /\ k \in Nat /\ View(rb, m, k) /\ Fits(m, k, j, Class, c)
        /\ c \in Nat /\ GoesOn(m, k + c, j + 1, FALSE)
    BY <2>1, <2>4
  <2>7. QED  BY ONLY <2>1, <2>2, <2>3, <2>5, <2>6, TakeMoves
<1>9. ASSUME readResult, u >= c PROVE ~Waits
  <2>1. Len(Cssi) + 2 = 4
    BY HeaderChars
  <2>2. u # 0 /\ u >= 2
    BY <1>1, <1>9
  <2>3. CASE name = ">"
    BY <1>4, <1>9, <2>2, <2>3 DEF Waits, NoneYet, u
  <2>4. CASE name = "+I"
    <3>1. ~(rb.used < Len(Cssi) + 2)
      BY <1>1, <1>9, <2>1, <2>4 DEF u
    <3>2. QED  BY <1>4, <1>9, <2>2, <2>4, <3>1 DEF Waits, NoneYet, u
  <2>5. QED  BY <2>3, <2>4
<1>10. QED  BY <1>6, <1>7, <1>8, <1>9 DEF OnlyTakes, u

(* Half of a doubled header: nothing is taken for an empty line, unless only *)
(* part of the header is there.                                              *)
LEMMA DoubledPlace ==
  ASSUME BytesInv, View(rb, "cssu", 2)
  PROVE  /\ rb.used \notin {2, 3} => ~TakeCssi /\ ~TakePrompt /\ ~TakeList /\ ~TakeLine
         /\ SkipDoubled => Skip(2) /\ readResult' /\ rb.used >= 2
         /\ readResult /\ rb.used >= 4 => ~Waits
<1> DEFINE h == Held(rb)
           u == rb.used
<1>1. RingOK(rb) /\ u \in Nat
  BY InvType, Zenon
<1>2. /\ u >= 1 => h[1] = "\r"
      /\ u >= 4 => h[1] = "\r" /\ h[2] = "\n" /\ h[3] = "+S" /\ h[4] = ":"
  <2>1. Shows(rb, 1, "\r") /\ Shows(rb, 2, "\n") /\ Shows(rb, 3, "+S") /\ Shows(rb, 4, ":")
    BY ViewCssuAt2
  <2>2. u >= 4 => u >= 3 /\ u >= 2 /\ u >= 1
    BY <1>1
  <2>3. QED  BY <1>1, <2>1, <2>2 DEF Shows
<1>3. /\ RbStarts(rb, Cmgr) => u >= 2 /\ h[1] = "+R"
      /\ RbStarts(rb, Clcc) => u >= 2 /\ h[1] = "+L"
      /\ RbStarts(rb, Cssi) => u >= 2 /\ h[1] = "+I"
      /\ RbStarts(rb, Prompt) => u >= 2 /\ h[1] = ">"
      /\ RbStarts(rb, CrLf \o Cssu)
           <=> u >= 4 /\ h[1] = "\r" /\ h[2] = "\n" /\ h[3] = "+S" /\ h[4] = ":"
  BY <1>1, StartsHeader, StartsOther
<1> HIDE DEF h, u
<1>4. /\ ~RbStarts(rb, Cmgr) /\ ~RbStarts(rb, Clcc) /\ ~RbStarts(rb, Cssi) /\ ~RbStarts(rb, Prompt)
      /\ RbStarts(rb, CrLf \o Cssu) <=> u >= 4
  <2>1. u >= 2 => u >= 1
    BY <1>1
  <2>2. QED  BY <1>2, <1>3, <2>1
<1>5. ASSUME u \notin {2, 3} PROVE ~TakeLine
  <2>1. u < 2 => RbReadUntil(rb, CrLf) = << >>
    BY <1>1, ShortNoLine DEF u
  <2>2. u >= 4 \/ u < 2
    BY <1>1, <1>5
  <2>3. QED  BY <1>4, <2>1, <2>2 DEF TakeLine
<1>6. ~TakeCssi /\ ~TakePrompt /\ ~TakeList
  BY <1>4 DEF TakeCssi, TakePrompt, TakeList, StartsList
<1>7. SkipDoubled => Skip(2) /\ readResult' /\ u >= 2
  <2>1. u >= 4 => u >= 2
    BY <1>1
  <2>2. QED  BY <1>4, <2>1 DEF SkipDoubled, Searching
<1>8. ASSUME readResult, u >= 4 PROVE ~Waits
  <2>1. u # 0
    BY <1>1, <1>8
  <2>2. QED  BY <1>4, <1>8, <2>1 DEF Waits, NoneYet, u
<1>9. QED  BY <1>5, <1>6, <1>7, <1>8 DEF u

(* Before a result: what is dropped.  *)
Drops(m, k, j) ==
  SkipLeader \/ SkipMultiline \/ SkipGarbage => \E n \in Nat : Onward(m, k, j, n, 0)

LEMMA SkipMoves ==
  ASSUME BytesInv, NEW m, NEW k, NEW j, NEW n \in Nat, n <= rb.used, Skip(n),
         GoesOn(m, k + n, j, readResult'), j \in Nat
  PROVE  Onward(m, k, j, n, 0)
<1>1. rb.used \in Nat
  BY InvType, Zenon
<1>2. n \in 0..rb.used /\ j + 0 = j
  BY <1>1
<1>3. GoesOn(m, k + n, j + 0, readResult')
  BY <1>2, Zenon
<1>4. rb' = RbReadUpd(rb, n) /\ line' = line /\ sent' = sent /\ pc' = pc /\ results' = results
  BY DEF Skip
<1>5. QED  BY <1>2, <1>3, <1>4 DEF Onward

LEMMA LeaderPlace ==
  ASSUME BytesInv, NEW m, NEW k, NEW j \in Nat, Shows(rb, 1, "\r"), Shows(rb, 2, "\n"),
         GoesOn(m, k + 2, j, TRUE)
  PROVE  Drops(m, k, j)
<1>1. RingOK(rb) /\ rb.used \in Nat
  BY InvType, Zenon
<1>2. RbStarts(rb, CrLf) <=> rb.used >= 2
  <2>1. RbStarts(rb, CrLf) <=> rb.used >= 2 /\ Held(rb)[1] = "\r" /\ Held(rb)[2] = "\n"
    BY <1>1, StartsHeader
  <2>2. rb.used >= 2 => Held(rb)[1] = "\r" /\ Held(rb)[2] = "\n"
    BY <1>1 DEF Shows
  <2>3. QED  BY <2>1, <2>2
<1>3. ~NoLeader
  BY <1>2 DEF NoLeader
<1>4. ASSUME SkipLeader PROVE Onward(m, k, j, 2, 0)
  <2>1. Skip(2) /\ readResult' = TRUE /\ 2 <= rb.used /\ 2 \in Nat
    BY <1>1, <1>2, <1>4 DEF SkipLeader
  <2>2. BytesInv /\ j \in Nat /\ GoesOn(m, k + 2, j, readResult')
    BY <2>1
  <2>3. QED  BY ONLY <2>1, <2>2, SkipMoves
<1>5. QED  BY <1>3, <1>4 DEF Drops, SkipMultiline, SkipGarbage

LEMMA MultilinePlace ==
  ASSUME BytesInv, NEW m, NEW k, NEW j \in Nat, Shows(rb, 1, "\n"), GoesOn(m, k + 1, j, FALSE)
  PROVE  Drops(m, k, j)
<1>1. RingOK(rb) /\ rb.used \in Nat
  BY InvType, Zenon
<1>2. rb.used >= 2 => RbStarts(rb, << "\n" >>) /\ ~RbStarts(rb, CrLf)
  <2>1. SUFFICES ASSUME rb.used >= 2 PROVE RbStarts(rb, << "\n" >>) /\ ~RbStarts(rb, CrLf)
    OBVIOUS
  <2>2. rb.used >= 1 /\ Held(rb)[1] = "\n"
    BY <1>1, <2>1 DEF Shows
  <2>3. QED  BY <1>1, <2>2, StartsHeader, StartsOther
<1>3. ~SkipLeader
  <2>1. RbStarts(rb, CrLf) => rb.used >= 2
    BY <1>1, StartsHeader
  <2>2. QED  BY <1>2, <2>1 DEF SkipLeader
<1>4. ~SkipGarbage
  BY <1>2 DEF SkipGarbage, NoLeader
<1>5. ASSUME SkipMultiline PROVE Onward(m, k, j, 1, 0)
  <2>1. Skip(1) /\ readResult' = FALSE /\ rb.used >= 2
    BY <1>5 DEF SkipMultiline, NoLeader
  <2>2. 1 <= rb.used /\ 1 \in Nat
    BY <1>1, <2>1
  <2>3. BytesInv /\ j \in Nat /\ GoesOn(m, k + 1, j, readResult')
    BY <2>1
  <2>4. QED  BY ONLY <2>1, <2>2, <2>3, SkipMoves
<1>6. QED  BY <1>3, <1>4, <1>5 DEF Drops

LEMMA GarbagePlace ==
  ASSUME BytesInv, NEW m, NEW k, NEW j \in Nat, NEW c \in Nat,
         \A i \in 1..c : i <= rb.used => Held(rb)[i] # "\r", Shows(rb, c + 1, "\r"),
         rb.used >= 2 => Held(rb)[1] # "\n" /\ ~(Held(rb)[1] = "\r" /\ Held(rb)[2] = "\n"),
         GoesOn(m, k + (c + 1), j, FALSE),
         rb.used >= 2 /\ rb.used < c + 1 => GoesOn(m, k + rb.used, j, FALSE)
  PROVE  Drops(m, k, j)
<1> DEFINE iov == RbReadUntil(rb, << "\r" >>)
           u == rb.used
           n == IF iov = << >> THEN u ELSE Len(Text(iov)) + 1
<1>1. RingOK(rb) /\ Chained(Held(rb)) /\ u \in Nat
  BY InvType, Zenon
<1>2. Ends(rb, << "\r" >>, c)
  <2>1. \A i \in 1..c : i <= rb.used => Held(rb)[i] # "\r"
    OBVIOUS
  <2>2. Shows(rb, c + 1, "\r") /\ c \in Nat
    OBVIOUS
  <2>3. QED  BY ONLY <1>1, <2>1, <2>2, CharAt
<1>3. (iov # << >> <=> c + 1 <= u) /\ (iov # << >> => Len(Text(iov)) = c)
  BY <1>2, SearchedSeq DEF Ends, IsFront
<1>4. n = IF c + 1 <= u THEN c + 1 ELSE u
  BY <1>3
<1>5. u >= 2 => ~RbStarts(rb, << "\n" >>) /\ ~RbStarts(rb, CrLf)
  BY <1>1, StartsHeader, StartsOther
<1>6. ~SkipLeader
  <2>1. RbStarts(rb, CrLf) => rb.used >= 2
    BY <1>1, StartsHeader
  <2>2. QED  BY <1>5, <2>1 DEF SkipLeader
<1>7. ~SkipMultiline
  BY <1>5 DEF SkipMultiline, NoLeader
<1>8. ASSUME SkipGarbage PROVE n \in Nat /\ Onward(m, k, j, n, 0)
  <2>1. Skip(n) /\ readResult' = FALSE /\ u >= 2
    BY <1>8 DEF SkipGarbage, NoLeader
  <2> HIDE DEF n
  <2>2. n \in Nat /\ n <= u
    BY <1>1, <1>4
  <2>3. GoesOn(m, k + n, j, FALSE)
    <3>1. CASE c + 1 <= u
      BY <1>4, <3>1
    <3>2. CASE ~(c + 1 <= u)
      <4>1. n = u /\ rb.used >= 2 /\ rb.used < c + 1
        BY <1>1, <1>4, <2>1, <3>2
      <4>2. QED  BY <4>1
    <3>3. QED  BY <3>1, <3>2
  <2>4. BytesInv /\ j \in Nat /\ GoesOn(m, k + n, j, readResult')
    BY <2>1, <2>3
  <2>5. QED  BY ONLY <2>1, <2>2, <2>4, SkipMoves
<1>9. QED  BY <1>6, <1>7, <1>8 DEF Drops

LEMMA TwoAreEnough ==
  ASSUME BytesInv, ~readResult, rb.used >= 2
  PROVE  ~Waits
<1>1. rb.used \in Nat
  BY InvType, Zenon
<1>2. QED  BY <1>1 DEF Waits, NoneYet

(* The results in the places of their messages.  *)
LEMMA ResultAt ==
  ASSUME NEW m \in MessageKinds, NEW k \in Nat, NEW j \in Nat, NEW c, NEW n \in Nat, NEW t,
         j + 1 \in 1..Len(ResultsOf(m)), ResultsOf(m)[j + 1] = Taken(c, t),
         k + n <= Len(Bytes(m)), t \in Seq(Char), Len(t) = n,
         \A i \in 1..n : t[i] = Bytes(m)[k + i]
  PROVE  Fits(m, k, j, c, n)
<1>1. Taken(c, t).text = t
  BY DEF Taken
<1>2. QED  BY <1>1 DEF Fits

LEMMA FitsOkAt2 == Fits("ok", 2, 0, "ok", 3)
<1> DEFINE t == << "O", "K", "\r" >>
           b == Bytes("ok")
           a == ResultsOf("ok")
<1>1. /\ t \in Seq(Char) /\ Len(t) = 3
      /\ t[1] = "O" /\ t[2] = "K" /\ t[3] = "\r"
  BY CharsIn
<1>2. /\ Len(b) = 6
      /\ b[3] = "O" /\ b[4] = "K" /\ b[5] = "\r"
  BY BytesOk
<1>3. a = << Taken("ok", t) >>
  BY DEF ResultsOf
<1> HIDE DEF t, b, a
<1>4. 0 + 1 \in 1..Len(a) /\ a[0 + 1] = Taken("ok", t)
  BY <1>3
<1>5. \A i \in 1..3 : t[i] = b[2 + i]
  <2>1. \A i \in 1..3 : i = 1 \/ i = 2 \/ i = 3
    OBVIOUS
  <2>2. QED  BY <1>1, <1>2, <2>1
<1>6. "ok" \in MessageKinds /\ 2 + 3 <= Len(b)
  BY <1>2 DEF MessageKinds
<1>7. QED  BY <1>1, <1>4, <1>5, <1>6, ResultAt DEF a, b

LEMMA FitsLineAt2 == Fits("line", 2, 0, "unknown", 2)
<1> DEFINE t == << "x", "\r" >>
           b == Bytes("line")
           a == ResultsOf("line")
<1>1. /\ t \in Seq(Char) /\ Len(t) = 2
      /\ t[1] = "x" /\ t[2] = "\r"
  BY CharsIn
<1>2. /\ Len(b) = 5
      /\ b[3] = "x" /\ b[4] = "\r"
  BY BytesLine
<1>3. a = << Taken("unknown", t) >>
  BY DEF ResultsOf
<1> HIDE DEF t, b, a
<1>4. 0 + 1 \in 1..Len(a) /\ a[0 + 1] = Taken("unknown", t)
  BY <1>3
<1>5. \A i \in 1..2 : t[i] = b[2 + i]
  <2>1. \A i \in 1..2 : i = 1 \/ i = 2
    OBVIOUS
  <2>2. QED  BY <1>1, <1>2, <2>1
<1>6. "line" \in MessageKinds /\ 2 + 2 <= Len(b)
  BY <1>2 DEF MessageKinds
<1>7. QED  BY <1>1, <1>4, <1>5, <1>6, ResultAt DEF a, b

LEMMA FitsPromptAt2 == Fits("prompt", 2, 0, "prompt", 2)
<1> DEFINE t == Prompt
           b == Bytes("prompt")
           a == ResultsOf("prompt")
<1>1. /\ t \in Seq(Char) /\ Len(t) = 2
      /\ t[1] = ">" /\ t[2] = "sp"
  BY CharsIn DEF Prompt
<1>2. /\ Len(b) = 4
      /\ b[3] = ">" /\ b[4] = "sp"
  BY BytesPrompt
<1>3. a = << Taken("prompt", t) >>
  BY DEF ResultsOf
<1> HIDE DEF t, b, a
<1>4. 0 + 1 \in 1..Len(a) /\ a[0 + 1] = Taken("prompt", t)
  BY <1>3
<1>5. \A i \in 1..2 : t[i] = b[2 + i]
  <2>1. \A i \in 1..2 : i = 1 \/ i = 2
    OBVIOUS
  <2>2. QED  BY <1>1, <1>2, <2>1
<1>6. "prompt" \in MessageKinds /\ 2 + 2 <= Len(b)
  BY <1>2 DEF MessageKinds
<1>7. QED  BY <1>1, <1>4, <1>5, <1>6, ResultAt DEF a, b

LEMMA FitsCssiAt2 == Fits("cssi", 2, 0, "cssi", 4)
<1> DEFINE t == Cssi \o << "x", "x" >>
           b == Bytes("cssi")
           a == ResultsOf("cssi")
<1>1. /\ t \in Seq(Char) /\ Len(t) = 4
      /\ t[1] = "+I" /\ t[2] = ":" /\ t[3] = "x" /\ t[4] = "x"
  BY CharsIn DEF Cssi
<1>2. /\ Len(b) = 6
      /\ b[3] = "+I" /\ b[4] = ":" /\ b[5] = "x" /\ b[6] = "x"
  BY BytesCssi
<1>3. a = << Taken("cssi", t) >>
  BY DEF ResultsOf
<1> HIDE DEF t, b, a
<1>4. 0 + 1 \in 1..Len(a) /\ a[0 + 1] = Taken("cssi", t)
  BY <1>3
<1>5. \A i \in 1..4 : t[i] = b[2 + i]
  <2>1. \A i \in 1..4 : i = 1 \/ i = 2 \/ i = 3 \/ i = 4
    OBVIOUS
  <2>2. QED  BY <1>1, <1>2, <2>1
<1>6. "cssi" \in MessageKinds /\ 2 + 4 <= Len(b)
  BY <1>2 DEF MessageKinds
<1>7. QED  BY <1>1, <1>4, <1>5, <1>6, ResultAt DEF a, b

LEMMA FitsCssuAt4 == Fits("cssu", 4, 0, "cssu", 4)
<1> DEFINE t == Cssu \o << "x", "\r" >>
           b == Bytes("cssu")
           a == ResultsOf("cssu")
<1>1. /\ t \in Seq(Char) /\ Len(t) = 4
      /\ t[1] = "+S" /\ t[2] = ":" /\ t[3] = "x" /\ t[4] = "\r"
  BY CharsIn DEF Cssu
<1>2. /\ Len(b) = 9
      /\ b[5] = "+S" /\ b[6] = ":" /\ b[7] = "x" /\ b[8] = "\r"
  BY BytesCssu
<1>3. a = << Taken("cssu", t) >>
  BY DEF ResultsOf
<1> HIDE DEF t, b, a
<1>4. 0 + 1 \in 1..Len(a) /\ a[0 + 1] = Taken("cssu", t)
  BY <1>3
<1>5. \A i \in 1..4 : t[i] = b[4 + i]
  <2>1. \A i \in 1..4 : i = 1 \/ i = 2 \/ i = 3 \/ i = 4
    OBVIOUS
  <2>2. QED  BY <1>1, <1>2, <2>1
<1>6. "cssu" \in MessageKinds /\ 4 + 4 <= Len(b)
  BY <1>2 DEF MessageKinds
<1>7. QED  BY <1>1, <1>4, <1>5, <1>6, ResultAt DEF a, b

LEMMA FitsCmgrAt2 == Fits("cmgr", 2, 0, "cmgr", 7)
<1> DEFINE t == Cmgr \o << "x" >> \o CrLf \o << "x", "\r" >>
           b == Bytes("cmgr")
           a == ResultsOf("cmgr")
<1>1. /\ t \in Seq(Char) /\ Len(t) = 7
      /\ t[1] = "+R" /\ t[2] = ":" /\ t[3] = "x" /\ t[4] = "\r"
      /\ t[5] = "\n" /\ t[6] = "x" /\ t[7] = "\r"
  BY CharsIn DEF Cmgr, CrLf
<1>2. /\ Len(b) = 16
      /\ b[3] = "+R" /\ b[4] = ":" /\ b[5] = "x" /\ b[6] = "\r"
      /\ b[7] = "\n" /\ b[8] = "x" /\ b[9] = "\r"
  BY BytesCmgr
<1>3. a = << Taken("cmgr", t) >>
  BY DEF ResultsOf
<1> HIDE DEF t, b, a
<1>4. 0 + 1 \in 1..Len(a) /\ a[0 + 1] = Taken("cmgr", t)
  BY <1>3
<1>5. \A i \in 1..7 : t[i] = b[2 + i]
  <2>1. \A i \in 1..7 : i = 1 \/ i = 2 \/ i = 3 \/ i = 4 \/ i = 5 \/ i = 6 \/ i = 7
    OBVIOUS
  <2>2. QED  BY <1>1, <1>2, <2>1
<1>6. "cmgr" \in MessageKinds /\ 2 + 7 <= Len(b)
  BY <1>2 DEF MessageKinds
<1>7. QED  BY <1>1, <1>4, <1>5, <1>6, ResultAt DEF a, b

LEMMA FitsClccAt2 == Fits("clcc", 2, 0, "clcc", 4)
<1> DEFINE t == Clcc \o << "x", "\r" >>
           o == << "O", "K", "\r" >>
           b == Bytes("clcc")
           a == ResultsOf("clcc")
<1>1. /\ t \in Seq(Char) /\ Len(t) = 4
      /\ t[1] = "+L" /\ t[2] = ":" /\ t[3] = "x" /\ t[4] = "\r"
  BY CharsIn DEF Clcc
<1>2. /\ Len(b) = 13
      /\ b[3] = "+L" /\ b[4] = ":" /\ b[5] = "x" /\ b[6] = "\r"
  BY BytesClcc
<1>3. a = << Taken("clcc", t), Taken("ok", o) >>
  BY DEF ResultsOf
<1> HIDE DEF t, o, b, a
<1>4. 0 + 1 \in 1..Len(a) /\ a[0 + 1] = Taken("clcc", t)
  BY <1>3
<1>5. \A i \in 1..4 : t[i] = b[2 + i]
  <2>1. \A i \in 1..4 : i = 1 \/ i = 2 \/ i = 3 \/ i = 4
    OBVIOUS
  <2>2. QED  BY <1>1, <1>2, <2>1
<1>6. "clcc" \in MessageKinds /\ 2 + 4 <= Len(b)
  BY <1>2 DEF MessageKinds
<1>7. QED  BY <1>1, <1>4, <1>5, <1>6, ResultAt DEF a, b

LEMMA FitsClccAt9 == Fits("clcc", 9, 1, "ok", 3)
<1> DEFINE t == << "O", "K", "\r" >>
           o == Clcc \o << "x", "\r" >>
           b == Bytes("clcc")
           a == ResultsOf("clcc")
<1>1. /\ t \in Seq(Char) /\ Len(t) = 3
      /\ t[1] = "O" /\ t[2] = "K" /\ t[3] = "\r"
  BY CharsIn
<1>2. /\ Len(b) = 13
      /\ b[10] = "O" /\ b[11] = "K" /\ b[12] = "\r"
  BY BytesClcc
<1>3. a = << Taken("clcc", o), Taken("ok", t) >>
  BY DEF ResultsOf
<1> HIDE DEF t, o, b, a
<1>4. 1 + 1 \in 1..Len(a) /\ a[1 + 1] = Taken("ok", t)
  BY <1>3
<1>5. \A i \in 1..3 : t[i] = b[9 + i]
  <2>1. \A i \in 1..3 : i = 1 \/ i = 2 \/ i = 3
    OBVIOUS
  <2>2. QED  BY <1>1, <1>2, <2>1
<1>6. "clcc" \in MessageKinds /\ 9 + 3 <= Len(b)
  BY <1>2 DEF MessageKinds
<1>7. QED  BY <1>1, <1>4, <1>5, <1>6, ResultAt DEF a, b

LEMMA FitsClcc2At2 == Fits("clcc2", 2, 0, "clcc", 9)
<1> DEFINE t == Clcc \o << "x" >> \o CrLf \o Clcc \o << "x", "\r" >>
           o == << "O", "K", "\r" >>
           b == Bytes("clcc2")
           a == ResultsOf("clcc2")
<1>1. /\ t \in Seq(Char) /\ Len(t) = 9
      /\ t[1] = "+L" /\ t[2] = ":" /\ t[3] = "x" /\ t[4] = "\r"
      /\ t[5] = "\n" /\ t[6] = "+L" /\ t[7] = ":" /\ t[8] = "x"
      /\ t[9] = "\r"
  BY CharsIn DEF Clcc, CrLf
<1>2. /\ Len(b) = 18
      /\ b[3] = "+L" /\ b[4] = ":" /\ b[5] = "x" /\ b[6] = "\r"
      /\ b[7] = "\n" /\ b[8] = "+L" /\ b[9] = ":" /\ b[10] = "x"
      /\ b[11] = "\r"
  BY BytesClcc2
<1>3. a = << Taken("clcc", t), Taken("ok", o) >>
  BY DEF ResultsOf
<1> HIDE DEF t, o, b, a
<1>4. 0 + 1 \in 1..Len(a) /\ a[0 + 1] = Taken("clcc", t)
  BY <1>3
<1>5. \A i \in 1..9 : t[i] = b[2 + i]
  <2>1. \A i \in 1..9 : i = 1 \/ i = 2 \/ i = 3 \/ i = 4 \/ i = 5 \/ i = 6 \/ i = 7 \/ i = 8 \/ i = 9
    OBVIOUS
  <2>2. QED  BY <1>1, <1>2, <2>1
<1>6. "clcc2" \in MessageKinds /\ 2 + 9 <= Len(b)
  BY <1>2 DEF MessageKinds
<1>7. QED  BY <1>1, <1>4, <1>5, <1>6, ResultAt DEF a, b

LEMMA FitsClcc2At14 == Fits("clcc2", 14, 1, "ok", 3)
<1> DEFINE t == << "O", "K", "\r" >>
           o == Clcc \o << "x" >> \o CrLf \o Clcc \o << "x", "\r" >>
           b == Bytes("clcc2")
           a == ResultsOf("clcc2")
<1>1. /\ t \in Seq(Char) /\ Len(t) = 3
      /\ t[1] = "O" /\ t[2] = "K" /\ t[3] = "\r"
  BY CharsIn
<1>2. /\ Len(b) = 18
      /\ b[15] = "O" /\ b[16] = "K" /\ b[17] = "\r"
  BY BytesClcc2
<1>3. a = << Taken("clcc", o), Taken("ok", t) >>
  BY DEF ResultsOf
<1> HIDE DEF t, o, b, a
<1>4. 1 + 1 \in 1..Len(a) /\ a[1 + 1] = Taken("ok", t)
  BY <1>3
<1>5. \A i \in 1..3 : t[i] = b[14 + i]
  <2>1. \A i \in 1..3 : i = 1 \/ i = 2 \/ i = 3
    OBVIOUS
  <2>2. QED  BY <1>1, <1>2, <2>1
<1>6. "clcc2" \in MessageKinds /\ 14 + 3 <= Len(b)
  BY <1>2 DEF MessageKinds
<1>7. QED  BY <1>1, <1>4, <1>5, <1>6, ResultAt DEF a, b

(* Where the search goes on within a message, and from its end.  *)
LEMMA GoesOnHere ==
  ASSUME NEW m, NEW k \in Nat, NEW j, NEW leader, NEW b \in Nat, b = Len(Bytes(m)), k < b,
         IsPlace(m, k, j, leader)
  PROVE  GoesOn(m, k, j, leader)
BY DEF GoesOn

LEMMA GoesOnNext ==
  ASSUME NEW m, NEW k \in Nat, NEW j, k = Len(Bytes(m)), j = Len(ResultsOf(m))
  PROVE  GoesOn(m, k, j, FALSE)
<1> DEFINE b == Len(Bytes(m))
<1>1. k = b /\ ~(k < k)
  OBVIOUS
<1> HIDE DEF b
<1>2. ~(k < b)
  BY <1>1
<1>3. QED  BY <1>1, <1>2, Zenon DEF GoesOn, b

LEMMA PlacesOk ==
  /\ Len(Bytes("ok")) = 6 /\ Len(ResultsOf("ok")) = 1 /\ "ok" \in MessageKinds
  /\ GoesOn("ok", 2, 0, TRUE)
  /\ GoesOn("ok", 6, 1, FALSE)
<1>1. Len(Bytes("ok")) = 6 /\ "ok" \in MessageKinds
  BY BytesOk DEF MessageKinds
<1>2. Len(ResultsOf("ok")) = 1
  BY DEF ResultsOf
<1>3. /\ IsPlace("ok", 2, 0, TRUE)
  BY DEF IsPlace
<1>4. /\ GoesOn("ok", 2, 0, TRUE)
  <2>1. /\ 6 \in Nat /\ 6 = Len(Bytes("ok"))
        /\ 2 \in Nat /\ 2 < 6
    BY <1>1
  <2>2. QED  BY ONLY <1>3, <2>1, GoesOnHere
<1>5. 6 \in Nat /\ 6 = Len(Bytes("ok")) /\ 1 = Len(ResultsOf("ok"))
  BY <1>1, <1>2
<1>6. GoesOn("ok", 6, 1, FALSE)
  BY ONLY <1>5, GoesOnNext
<1>7. QED  BY <1>1, <1>2, <1>4, <1>6

LEMMA PlacesLine ==
  /\ Len(Bytes("line")) = 5 /\ Len(ResultsOf("line")) = 1 /\ "line" \in MessageKinds
  /\ GoesOn("line", 2, 0, TRUE)
  /\ GoesOn("line", 5, 1, FALSE)
<1>1. Len(Bytes("line")) = 5 /\ "line" \in MessageKinds
  BY BytesLine DEF MessageKinds
<1>2. Len(ResultsOf("line")) = 1
  BY DEF ResultsOf
<1>3. /\ IsPlace("line", 2, 0, TRUE)
  BY DEF IsPlace
<1>4. /\ GoesOn("line", 2, 0, TRUE)
  <2>1. /\ 5 \in Nat /\ 5 = Len(Bytes("line"))
        /\ 2 \in Nat /\ 2 < 5
    BY <1>1
  <2>2. QED  BY ONLY <1>3, <2>1, GoesOnHere
<1>5. 5 \in Nat /\ 5 = Len(Bytes("line")) /\ 1 = Len(ResultsOf("line"))
  BY <1>1, <1>2
<1>6. GoesOn("line", 5, 1, FALSE)
  BY ONLY <1>5, GoesOnNext
<1>7. QED  BY <1>1, <1>2, <1>4, <1>6

LEMMA PlacesEcho ==
  /\ Len(Bytes("echo")) = 3 /\ Len(ResultsOf("echo")) = 0 /\ "echo" \in MessageKinds
  /\ GoesOn("echo", 2, 0, FALSE)
  /\ GoesOn("echo", 3, 0, FALSE)
<1>1. Len(Bytes("echo")) = 3 /\ "echo" \in MessageKinds
  BY BytesEcho DEF MessageKinds
<1>2. Len(ResultsOf("echo")) = 0
  BY DEF ResultsOf
<1>3. /\ IsPlace("echo", 2, 0, FALSE)
  BY DEF IsPlace
<1>4. /\ GoesOn("echo", 2, 0, FALSE)
  <2>1. /\ 3 \in Nat /\ 3 = Len(Bytes("echo"))
        /\ 2 \in Nat /\ 2 < 3
    BY <1>1
  <2>2. QED  BY ONLY <1>3, <2>1, GoesOnHere
<1>5. 3 \in Nat /\ 3 = Len(Bytes("echo")) /\ 0 = Len(ResultsOf("echo"))
  BY <1>1, <1>2
<1>6. GoesOn("echo", 3, 0, FALSE)
  BY ONLY <1>5, GoesOnNext
<1>7. QED  BY <1>1, <1>2, <1>4, <1>6

LEMMA PlacesMore ==
  /\ Len(Bytes("more")) = 3 /\ Len(ResultsOf("more")) = 0 /\ "more" \in MessageKinds
  /\ GoesOn("more", 2, 0, FALSE)
  /\ GoesOn("more", 3, 0, FALSE)
<1>1. Len(Bytes("more")) = 3 /\ "more" \in MessageKinds
  BY BytesMore DEF MessageKinds
<1>2. Len(ResultsOf("more")) = 0
  BY DEF ResultsOf
<1>3. /\ IsPlace("more", 2, 0, FALSE)
  BY DEF IsPlace
<1>4. /\ GoesOn("more", 2, 0, FALSE)
  <2>1. /\ 3 \in Nat /\ 3 = Len(Bytes("more"))
        /\ 2 \in Nat /\ 2 < 3
    BY <1>1
  <2>2. QED  BY ONLY <1>3, <2>1, GoesOnHere
<1>5. 3 \in Nat /\ 3 = Len(Bytes("more")) /\ 0 = Len(ResultsOf("more"))
  BY <1>1, <1>2
<1>6. GoesOn("more", 3, 0, FALSE)
  BY ONLY <1>5, GoesOnNext
<1>7. QED  BY <1>1, <1>2, <1>4, <1>6

LEMMA PlacesPrompt ==
  /\ Len(Bytes("prompt")) = 4 /\ Len(ResultsOf("prompt")) = 1 /\ "prompt" \in MessageKinds
  /\ GoesOn("prompt", 2, 0, TRUE)
  /\ GoesOn("prompt", 4, 1, FALSE)
<1>1. Len(Bytes("prompt")) = 4 /\ "prompt" \in MessageKinds
  BY BytesPrompt DEF MessageKinds
<1>2. Len(ResultsOf("prompt")) = 1
  BY DEF ResultsOf
<1>3. /\ IsPlace("prompt", 2, 0, TRUE)
  BY DEF IsPlace
<1>4. /\ GoesOn("prompt", 2, 0, TRUE)
  <2>1. /\ 4 \in Nat /\ 4 = Len(Bytes("prompt"))
        /\ 2 \in Nat /\ 2 < 4
    BY <1>1
  <2>2. QED  BY ONLY <1>3, <2>1, GoesOnHere
<1>5. 4 \in Nat /\ 4 = Len(Bytes("prompt")) /\ 1 = Len(ResultsOf("prompt"))
  BY <1>1, <1>2
<1>6. GoesOn("prompt", 4, 1, FALSE)
  BY ONLY <1>5, GoesOnNext
<1>7. QED  BY <1>1, <1>2, <1>4, <1>6

LEMMA PlacesCssi ==
  /\ Len(Bytes("cssi")) = 6 /\ Len(ResultsOf("cssi")) = 1 /\ "cssi" \in MessageKinds
  /\ GoesOn("cssi", 2, 0, TRUE)
  /\ GoesOn("cssi", 6, 1, FALSE)
<1>1. Len(Bytes("cssi")) = 6 /\ "cssi" \in MessageKinds
  BY BytesCssi DEF MessageKinds
<1>2. Len(ResultsOf("cssi")) = 1
  BY DEF ResultsOf
<1>3. /\ IsPlace("cssi", 2, 0, TRUE)
  BY DEF IsPlace
<1>4. /\ GoesOn("cssi", 2, 0, TRUE)
  <2>1. /\ 6 \in Nat /\ 6 = Len(Bytes("cssi"))
        /\ 2 \in Nat /\ 2 < 6
    BY <1>1
  <2>2. QED  BY ONLY <1>3, <2>1, GoesOnHere
<1>5. 6 \in Nat /\ 6 = Len(Bytes("cssi")) /\ 1 = Len(ResultsOf("cssi"))
  BY <1>1, <1>2
<1>6. GoesOn("cssi", 6, 1, FALSE)
  BY ONLY <1>5, GoesOnNext
<1>7. QED  BY <1>1, <1>2, <1>4, <1>6

LEMMA PlacesCssu ==
  /\ Len(Bytes("cssu")) = 9 /\ Len(ResultsOf("cssu")) = 1 /\ "cssu" \in MessageKinds
  /\ GoesOn("cssu", 2, 0, TRUE)
  /\ GoesOn("cssu", 4, 0, TRUE)
  /\ GoesOn("cssu", 9, 1, FALSE)
<1>1. Len(Bytes("cssu")) = 9 /\ "cssu" \in MessageKinds
  BY BytesCssu DEF MessageKinds
<1>2. Len(ResultsOf("cssu")) = 1
  BY DEF ResultsOf
<1>3. /\ IsPlace("cssu", 2, 0, TRUE)
      /\ IsPlace("cssu", 4, 0, TRUE)
  BY DEF IsPlace
<1>4. /\ GoesOn("cssu", 2, 0, TRUE)
      /\ GoesOn("cssu", 4, 0, TRUE)
  <2>1. /\ 9 \in Nat /\ 9 = Len(Bytes("cssu"))
        /\ 2 \in Nat /\ 2 < 9
        /\ 4 \in Nat /\ 4 < 9
    BY <1>1
  <2>2. QED  BY ONLY <1>3, <2>1, GoesOnHere
<1>5. 9 \in Nat /\ 9 = Len(Bytes("cssu")) /\ 1 = Len(ResultsOf("cssu"))
  BY <1>1, <1>2
<1>6. GoesOn("cssu", 9, 1, FALSE)
  BY ONLY <1>5, GoesOnNext
<1>7. QED  BY <1>1, <1>2, <1>4, <1>6

LEMMA PlacesCmgr ==
  /\ Len(Bytes("cmgr")) = 16 /\ Len(ResultsOf("cmgr")) = 1 /\ "cmgr" \in MessageKinds
  /\ GoesOn("cmgr", 2, 0, TRUE)
  /\ GoesOn("cmgr", 16, 1, FALSE)
<1>1. Len(Bytes("cmgr")) = 16 /\ "cmgr" \in MessageKinds
  BY BytesCmgr DEF MessageKinds
<1>2. Len(ResultsOf("cmgr")) = 1
  BY DEF ResultsOf
<1>3. /\ IsPlace("cmgr", 2, 0, TRUE)
  BY DEF IsPlace
<1>4. /\ GoesOn("cmgr", 2, 0, TRUE)
  <2>1. /\ 16 \in Nat /\ 16 = Len(Bytes("cmgr"))
        /\ 2 \in Nat /\ 2 < 16
    BY <1>1
  <2>2. QED  BY ONLY <1>3, <2>1, GoesOnHere
<1>5. 16 \in Nat /\ 16 = Len(Bytes("cmgr")) /\ 1 = Len(ResultsOf("cmgr"))
  BY <1>1, <1>2
<1>6. GoesOn("cmgr", 16, 1, FALSE)
  BY ONLY <1>5, GoesOnNext
<1>7. QED  BY <1>1, <1>2, <1>4, <1>6

LEMMA PlacesClcc ==
  /\ Len(Bytes("clcc")) = 13 /\ Len(ResultsOf("clcc")) = 2 /\ "clcc" \in MessageKinds
  /\ GoesOn("clcc", 2, 0, TRUE)
  /\ GoesOn("clcc", 7, 1, FALSE)
  /\ GoesOn("clcc", 9, 1, TRUE)
  /\ GoesOn("clcc", 13, 2, FALSE)
<1>1. Len(Bytes("clcc")) = 13 /\ "clcc" \in MessageKinds
  BY BytesClcc DEF MessageKinds
<1>2. Len(ResultsOf("clcc")) = 2
  BY DEF ResultsOf
<1>3. /\ IsPlace("clcc", 2, 0, TRUE)
      /\ IsPlace("clcc", 7, 1, FALSE)
      /\ IsPlace("clcc", 9, 1, TRUE)
  BY DEF IsPlace
<1>4. /\ GoesOn("clcc", 2, 0, TRUE)
      /\ GoesOn("clcc", 7, 1, FALSE)
      /\ GoesOn("clcc", 9, 1, TRUE)
  <2>1. /\ 13 \in Nat /\ 13 = Len(Bytes("clcc"))
        /\ 2 \in Nat /\ 2 < 13
        /\ 7 \in Nat /\ 7 < 13
        /\ 9 \in Nat /\ 9 < 13
    BY <1>1
  <2>2. QED  BY ONLY <1>3, <2>1, GoesOnHere
<1>5. 13 \in Nat /\ 13 = Len(Bytes("clcc")) /\ 2 = Len(ResultsOf("clcc"))
  BY <1>1, <1>2
<1>6. GoesOn("clcc", 13, 2, FALSE)
  BY ONLY <1>5, GoesOnNext
<1>7. QED  BY <1>1, <1>2, <1>4, <1>6

LEMMA PlacesClcc2 ==
  /\ Len(Bytes("clcc2")) = 18 /\ Len(ResultsOf("clcc2")) = 2 /\ "clcc2" \in MessageKinds
  /\ GoesOn("clcc2", 2, 0, TRUE)
  /\ GoesOn("clcc2", 12, 1, FALSE)
  /\ GoesOn("clcc2", 14, 1, TRUE)
  /\ GoesOn("clcc2", 18, 2, FALSE)
<1>1. Len(Bytes("clcc2")) = 18 /\ "clcc2" \in MessageKinds
  BY BytesClcc2 DEF MessageKinds
<1>2. Len(ResultsOf("clcc2")) = 2
  BY DEF ResultsOf
<1>3. /\ IsPlace("clcc2", 2, 0, TRUE)
      /\ IsPlace("clcc2", 12, 1, FALSE)
      /\ IsPlace("clcc2", 14, 1, TRUE)
  BY DEF IsPlace
<1>4. /\ GoesOn("clcc2", 2, 0, TRUE)
      /\ GoesOn("clcc2", 12, 1, FALSE)
      /\ GoesOn("clcc2", 14, 1, TRUE)
  <2>1. /\ 18 \in Nat /\ 18 = Len(Bytes("clcc2"))
        /\ 2 \in Nat /\ 2 < 18
        /\ 12 \in Nat /\ 12 < 18
        /\ 14 \in Nat /\ 14 < 18
    BY <1>1
  <2>2. QED  BY ONLY <1>3, <2>1, GoesOnHere
<1>5. 18 \in Nat /\ 18 = Len(Bytes("clcc2")) /\ 2 = Len(ResultsOf("clcc2"))
  BY <1>1, <1>2
<1>6. GoesOn("clcc2", 18, 2, FALSE)
  BY ONLY <1>5, GoesOnNext
<1>7. QED  BY <1>1, <1>2, <1>4, <1>6

(* What the search does from a place in a message.  *)
Level == \/ SkipLeader \/ SkipMultiline \/ SkipGarbage \/ SkipDoubled
         \/ TakeCssi \/ TakePrompt \/ TakeList \/ TakeLine

Right(m, k, j) ==
  /\ Level /\ ~astray' => \E n \in Nat, d \in 0..1 : Onward(m, k, j, n, d)
  /\ readResult /\ Waits => rb.used < Len(Bytes(m)) - k

LEMMA RightDrops ==
  ASSUME NEW m, NEW k, NEW j, ~readResult, Drops(m, k, j)
  PROVE  Right(m, k, j)
<1>1. ~SkipDoubled /\ ~TakeCssi /\ ~TakePrompt /\ ~TakeList /\ ~TakeLine
  BY DEF SkipDoubled, TakeCssi, TakePrompt, TakeList, TakeLine, Searching
<1>2. 0 \in 0..1
  OBVIOUS
<1>3. QED  BY <1>1, <1>2 DEF Right, Level, Drops

LEMMA RightTakes ==
  ASSUME BytesInv, NEW m, NEW k \in Nat, NEW j, NEW l \in Nat, NEW w \in Nat, readResult,
         OnlyTakes(m, k, j, l, w), NEW b, b = Len(Bytes(m)), b \in Nat, k + w <= b
  PROVE  Right(m, k, j)
<1>1. ~SkipLeader /\ ~SkipMultiline /\ ~SkipGarbage
  BY DEF SkipLeader, SkipMultiline, SkipGarbage, NoLeader
<1>2. ~SkipDoubled /\ (Level /\ ~astray' => Onward(m, k, j, l, 1))
  BY <1>1 DEF Level, OnlyTakes
<1>3. 1 \in 0..1
  OBVIOUS
<1>4. rb.used \in Nat
  BY InvType, Zenon
<1>5. Waits => rb.used < b - k
  <2>1. Waits => ~(rb.used >= w)
    BY DEF OnlyTakes
  <2>2. QED  BY <1>4, <2>1
<1>6. QED  BY <1>2, <1>3, <1>5 DEF Right

LEMMA OkRight ==
  ASSUME BytesInv, NEW k, NEW j, IsPlace("ok", k, j, readResult), View(rb, "ok", k)
  PROVE  Right("ok", k, j)
<1>1. \/ k = 0 /\ j = 0 /\ ~readResult
      \/ k = 2 /\ j = 0 /\ readResult
  BY DEF IsPlace
<1>2. "ok" \in MessageKinds /\ Len(Bytes("ok")) = 6 /\ 6 \in Nat
  BY PlacesOk
<1>3. CASE k = 0 /\ j = 0 /\ ~readResult
  <2>1. Shows(rb, 1, "\r") /\ Shows(rb, 2, "\n")
    BY <1>3, ViewOkAt0
  <2>2. GoesOn("ok", 0 + 2, 0, TRUE)
    <3>1. 0 + 2 = 2
      OBVIOUS
    <3>2. QED  BY <3>1, PlacesOk, Zenon
  <2>3. Drops("ok", 0, 0)
    BY <2>1, <2>2, LeaderPlace
  <2>4. QED  BY <1>3, <2>3, RightDrops
<1>4. CASE k = 2 /\ j = 0 /\ readResult
  <2>1. /\ Shows(rb, 1, "O")
        /\ Shows(rb, 2, "K")
        /\ Shows(rb, 3, "\r")
        /\ Shows(rb, 4, "\n")
    BY <1>4, ViewOkAt2
  <2>2. rb.used \in Nat /\ RingOK(rb)
    BY InvType, Zenon
  <2>3. rb.used >= 1 => Held(rb)[1] \notin {"+R", "+L", "+I", ">", "\r"}
    BY <2>1 DEF Shows
  <2>4. \A i \in 1..2 : i <= rb.used => Held(rb)[i] # "\r"
    <3>1. \A i \in 1..2 : i = 1 \/ i = 2
      OBVIOUS
    <3>2. QED  BY <2>1, <3>1 DEF Shows
  <2>5. Shows(rb, 2 + 1, "\r") /\ Shows(rb, 2 + 2, "\n")
    BY <2>1
  <2>6. rb.used >= 2 + 2 => Class = "ok"
    <3>1. SUFFICES ASSUME rb.used >= 4 PROVE Class = "ok"
      OBVIOUS
    <3>2. /\ RingOK(rb) /\ rb.used >= 2 /\ rb.used >= 3
          /\ Held(rb)[1] = "O" /\ Held(rb)[2] = "K" /\ Held(rb)[3] = "\r"
      BY <2>1, <2>2, <3>1 DEF Shows
    <3>3. QED  BY ONLY <3>2, ClassIs
  <2>7. GoesOn("ok", 2 + (2 + 2), 0 + 1, FALSE)
    <3>1. 2 + (2 + 2) = 6 /\ 0 + 1 = 1
      OBVIOUS
    <3>2. QED  BY <3>1, PlacesOk, Zenon
  <2>8. Fits("ok", 2, 0, "ok", 2 + 1)
    BY FitsOkAt2
  <2>9. BytesInv /\ View(rb, "ok", 2) /\ 2 \in Nat /\ 2 \in Nat /\ 2 >= 1
    BY <1>4
  <2>10. OnlyTakes("ok", 2, 0, 2 + 2, 2 + 2)
    BY ONLY <1>2, <2>3, <2>4, <2>5, <2>6, <2>7, <2>8, <2>9, LinePlace
  <2>11. OnlyTakes("ok", k, j, 4, 4)
    BY <1>4, <2>10
  <2>12. /\ BytesInv /\ k \in Nat /\ readResult /\ 4 \in Nat /\ 4 \in Nat
        /\ 6 = Len(Bytes("ok")) /\ k + 4 <= 6
    BY <1>2, <1>4
  <2>13. QED  BY ONLY <1>2, <2>12, <2>11, RightTakes
<1>5. QED  BY <1>1, <1>3, <1>4

LEMMA LineRight ==
  ASSUME BytesInv, NEW k, NEW j, IsPlace("line", k, j, readResult), View(rb, "line", k)
  PROVE  Right("line", k, j)
<1>1. \/ k = 0 /\ j = 0 /\ ~readResult
      \/ k = 2 /\ j = 0 /\ readResult
  BY DEF IsPlace
<1>2. "line" \in MessageKinds /\ Len(Bytes("line")) = 5 /\ 5 \in Nat
  BY PlacesLine
<1>3. CASE k = 0 /\ j = 0 /\ ~readResult
  <2>1. Shows(rb, 1, "\r") /\ Shows(rb, 2, "\n")
    BY <1>3, ViewLineAt0
  <2>2. GoesOn("line", 0 + 2, 0, TRUE)
    <3>1. 0 + 2 = 2
      OBVIOUS
    <3>2. QED  BY <3>1, PlacesLine, Zenon
  <2>3. Drops("line", 0, 0)
    BY <2>1, <2>2, LeaderPlace
  <2>4. QED  BY <1>3, <2>3, RightDrops
<1>4. CASE k = 2 /\ j = 0 /\ readResult
  <2>1. /\ Shows(rb, 1, "x")
        /\ Shows(rb, 2, "\r")
        /\ Shows(rb, 3, "\n")
    BY <1>4, ViewLineAt2
  <2>2. rb.used \in Nat /\ RingOK(rb)
    BY InvType, Zenon
  <2>3. rb.used >= 1 => Held(rb)[1] \notin {"+R", "+L", "+I", ">", "\r"}
    BY <2>1 DEF Shows
  <2>4. \A i \in 1..1 : i <= rb.used => Held(rb)[i] # "\r"
    <3>1. \A i \in 1..1 : i = 1
      OBVIOUS
    <3>2. QED  BY <2>1, <3>1 DEF Shows
  <2>5. Shows(rb, 1 + 1, "\r") /\ Shows(rb, 1 + 2, "\n")
    BY <2>1
  <2>6. rb.used >= 1 + 2 => Class = "unknown"
    <3>1. SUFFICES ASSUME rb.used >= 3 PROVE Class = "unknown"
      OBVIOUS
    <3>2. /\ RingOK(rb) /\ rb.used >= 2
          /\ Held(rb)[1] = "x" /\ Held(rb)[2] = "\r"
      BY <2>1, <2>2, <3>1 DEF Shows
    <3>3. QED  BY ONLY <3>2, ClassIs
  <2>7. GoesOn("line", 2 + (1 + 2), 0 + 1, FALSE)
    <3>1. 2 + (1 + 2) = 5 /\ 0 + 1 = 1
      OBVIOUS
    <3>2. QED  BY <3>1, PlacesLine, Zenon
  <2>8. Fits("line", 2, 0, "unknown", 1 + 1)
    BY FitsLineAt2
  <2>9. BytesInv /\ View(rb, "line", 2) /\ 2 \in Nat /\ 1 \in Nat /\ 1 >= 1
    BY <1>4
  <2>10. OnlyTakes("line", 2, 0, 1 + 2, 1 + 2)
    BY ONLY <1>2, <2>3, <2>4, <2>5, <2>6, <2>7, <2>8, <2>9, LinePlace
  <2>11. OnlyTakes("line", k, j, 3, 3)
    BY <1>4, <2>10
  <2>12. /\ BytesInv /\ k \in Nat /\ readResult /\ 3 \in Nat /\ 3 \in Nat
        /\ 5 = Len(Bytes("line")) /\ k + 3 <= 5
    BY <1>2, <1>4
  <2>13. QED  BY ONLY <1>2, <2>12, <2>11, RightTakes
<1>5. QED  BY <1>1, <1>3, <1>4

LEMMA EchoRight ==
  ASSUME BytesInv, NEW k, NEW j, IsPlace("echo", k, j, readResult), View(rb, "echo", k),
         k = 2 /\ rb.used >= 2 => Held(rb)[2] # "\n"
  PROVE  Right("echo", k, j)
<1>1. \/ k = 0 /\ j = 0 /\ ~readResult
      \/ k = 2 /\ j = 0 /\ ~readResult
  BY DEF IsPlace
<1>2. "echo" \in MessageKinds /\ Len(Bytes("echo")) = 3 /\ 3 \in Nat
  BY PlacesEcho
<1>3. CASE k = 0 /\ j = 0 /\ ~readResult
  <2>1. /\ Shows(rb, 1, "x")
        /\ Shows(rb, 2, "x")
        /\ Shows(rb, 3, "\r")
    BY <1>3, ViewEchoAt0
  <2>2. rb.used \in Nat
    BY InvType, Zenon
  <2>3. \A i \in 1..2 : i <= rb.used => Held(rb)[i] # "\r"
    <3>1. \A i \in 1..2 : i = 1 \/ i = 2
      OBVIOUS
    <3>2. QED  BY <2>1, <3>1 DEF Shows
  <2>4. rb.used >= 2 => Held(rb)[1] # "\n" /\ ~(Held(rb)[1] = "\r" /\ Held(rb)[2] = "\n")
    BY <1>3, <2>1, <2>2 DEF Shows
  <2>5. GoesOn("echo", 0 + (2 + 1), 0, FALSE)
    <3>1. 0 + (2 + 1) = 3
      OBVIOUS
    <3>2. QED  BY <3>1, PlacesEcho, Zenon
  <2>6. rb.used >= 2 /\ rb.used < 2 + 1 => GoesOn("echo", 0 + rb.used, 0, FALSE)
    <3>1. rb.used >= 2 /\ rb.used < 2 + 1 => rb.used = 2
      BY <2>2
    <3>2. GoesOn("echo", 0 + 2, 0, FALSE)
      <4>1. 0 + 2 = 2
        OBVIOUS
      <4>2. QED  BY <4>1, PlacesEcho, Zenon
    <3>3. QED  BY <3>1, <3>2
  <2>7. Shows(rb, 2 + 1, "\r") /\ BytesInv /\ 2 \in Nat /\ 0 \in Nat
    BY <2>1
  <2>8. Drops("echo", 0, 0)
    BY ONLY <2>3, <2>4, <2>5, <2>6, <2>7, GarbagePlace
  <2>9. QED  BY <1>3, <2>8, RightDrops
<1>4. CASE k = 2 /\ j = 0 /\ ~readResult
  <2>1. /\ Shows(rb, 1, "\r")
    BY <1>4, ViewEchoAt2
  <2>2. rb.used \in Nat
    BY InvType, Zenon
  <2>3. \A i \in 1..0 : i <= rb.used => Held(rb)[i] # "\r"
    OBVIOUS
  <2>4. rb.used >= 2 => Held(rb)[1] # "\n" /\ ~(Held(rb)[1] = "\r" /\ Held(rb)[2] = "\n")
    BY <1>4, <2>1, <2>2 DEF Shows
  <2>5. GoesOn("echo", 2 + (0 + 1), 0, FALSE)
    <3>1. 2 + (0 + 1) = 3
      OBVIOUS
    <3>2. QED  BY <3>1, PlacesEcho, Zenon
  <2>6. rb.used >= 2 /\ rb.used < 0 + 1 => GoesOn("echo", 2 + rb.used, 0, FALSE)
    BY <2>2
  <2>7. Shows(rb, 0 + 1, "\r") /\ BytesInv /\ 0 \in Nat /\ 0 \in Nat
    BY <2>1
  <2>8. Drops("echo", 2, 0)
    BY ONLY <2>3, <2>4, <2>5, <2>6, <2>7, GarbagePlace
  <2>9. QED  BY <1>4, <2>8, RightDrops
<1>5. QED  BY <1>1, <1>3, <1>4

LEMMA MoreRight ==
  ASSUME BytesInv, NEW k, NEW j, IsPlace("more", k, j, readResult), View(rb, "more", k)
  PROVE  Right("more", k, j)
<1>1. \/ k = 0 /\ j = 0 /\ ~readResult
      \/ k = 2 /\ j = 0 /\ ~readResult
  BY DEF IsPlace
<1>2. "more" \in MessageKinds /\ Len(Bytes("more")) = 3 /\ 3 \in Nat
  BY PlacesMore
<1>3. CASE k = 0 /\ j = 0 /\ ~readResult
  <2>1. /\ Shows(rb, 1, "x")
        /\ Shows(rb, 2, "\r")
    BY <1>3, ViewMoreAt0
  <2>2. rb.used \in Nat
    BY InvType, Zenon
  <2>3. \A i \in 1..1 : i <= rb.used => Held(rb)[i] # "\r"
    <3>1. \A i \in 1..1 : i = 1
      OBVIOUS
    <3>2. QED  BY <2>1, <3>1 DEF Shows
  <2>4. rb.used >= 2 => Held(rb)[1] # "\n" /\ ~(Held(rb)[1] = "\r" /\ Held(rb)[2] = "\n")
    BY <1>3, <2>1, <2>2 DEF Shows
  <2>5. GoesOn("more", 0 + (1 + 1), 0, FALSE)
    <3>1. 0 + (1 + 1) = 2
      OBVIOUS
    <3>2. QED  BY <3>1, PlacesMore, Zenon
  <2>6. rb.used >= 2 /\ rb.used < 1 + 1 => GoesOn("more", 0 + rb.used, 0, FALSE)
    BY <2>2
  <2>7. Shows(rb, 1 + 1, "\r") /\ BytesInv /\ 1 \in Nat /\ 0 \in Nat
    BY <2>1
  <2>8. Drops("more", 0, 0)
    BY ONLY <2>3, <2>4, <2>5, <2>6, <2>7, GarbagePlace
  <2>9. QED  BY <1>3, <2>8, RightDrops
<1>4. CASE k = 2 /\ j = 0 /\ ~readResult
  <2>1. Shows(rb, 1, "\n")
    BY <1>4, ViewMoreAt2
  <2>2. GoesOn("more", 2 + 1, 0, FALSE)
    <3>1. 2 + 1 = 3
      OBVIOUS
    <3>2. QED  BY <3>1, PlacesMore, Zenon
  <2>3. Drops("more", 2, 0)
    BY <2>1, <2>2, MultilinePlace
  <2>4. QED  BY <1>4, <2>3, RightDrops
<1>5. QED  BY <1>1, <1>3, <1>4

LEMMA PromptRight ==
  ASSUME BytesInv, NEW k, NEW j, IsPlace("prompt", k, j, readResult), View(rb, "prompt", k)
  PROVE  Right("prompt", k, j)
<1>1. \/ k = 0 /\ j = 0 /\ ~readResult
      \/ k = 2 /\ j = 0 /\ readResult
  BY DEF IsPlace
<1>2. "prompt" \in MessageKinds /\ Len(Bytes("prompt")) = 4 /\ 4 \in Nat
  BY PlacesPrompt
<1>3. CASE k = 0 /\ j = 0 /\ ~readResult
  <2>1. Shows(rb, 1, "\r") /\ Shows(rb, 2, "\n")
    BY <1>3, ViewPromptAt0
  <2>2. GoesOn("prompt", 0 + 2, 0, TRUE)
    <3>1. 0 + 2 = 2
      OBVIOUS
    <3>2. QED  BY <3>1, PlacesPrompt, Zenon
  <2>3. Drops("prompt", 0, 0)
    BY <2>1, <2>2, LeaderPlace
  <2>4. QED  BY <1>3, <2>3, RightDrops
<1>4. CASE k = 2 /\ j = 0 /\ readResult
  <2>1. Shows(rb, 1, ">") /\ Shows(rb, 2, "sp")
    BY <1>4, ViewPromptAt2
  <2>2. GoesOn("prompt", 2 + 2, 0 + 1, FALSE)
    <3>1. 2 + 2 = 4 /\ 0 + 1 = 1
      OBVIOUS
    <3>2. QED  BY <3>1, PlacesPrompt, Zenon
  <2>3. Fits("prompt", 2, 0, IF ">" = ">" THEN "prompt" ELSE "cssi", 2)
    BY FitsPromptAt2
  <2>4. /\ BytesInv /\ View(rb, "prompt", 2) /\ 2 \in Nat
        /\ ">" \in {">", "+I"} /\ "sp" = (IF ">" = ">" THEN "sp" ELSE ":")
        /\ 2 = (IF ">" = ">" THEN 2 ELSE 4)
    BY <1>4
  <2>5. OnlyTakes("prompt", 2, 0, 2, 2)
    BY ONLY <1>2, <2>1, <2>2, <2>3, <2>4, ShortPlace
  <2>6. OnlyTakes("prompt", k, j, 2, 2)
    BY <1>4, <2>5
  <2>7. /\ BytesInv /\ k \in Nat /\ readResult /\ 2 \in Nat /\ 2 \in Nat
        /\ 4 = Len(Bytes("prompt")) /\ k + 2 <= 4
    BY <1>2, <1>4
  <2>8. QED  BY ONLY <1>2, <2>7, <2>6, RightTakes
<1>5. QED  BY <1>1, <1>3, <1>4

LEMMA CssiRight ==
  ASSUME BytesInv, NEW k, NEW j, IsPlace("cssi", k, j, readResult), View(rb, "cssi", k)
  PROVE  Right("cssi", k, j)
<1>1. \/ k = 0 /\ j = 0 /\ ~readResult
      \/ k = 2 /\ j = 0 /\ readResult
  BY DEF IsPlace
<1>2. "cssi" \in MessageKinds /\ Len(Bytes("cssi")) = 6 /\ 6 \in Nat
  BY PlacesCssi
<1>3. CASE k = 0 /\ j = 0 /\ ~readResult
  <2>1. Shows(rb, 1, "\r") /\ Shows(rb, 2, "\n")
    BY <1>3, ViewCssiAt0
  <2>2. GoesOn("cssi", 0 + 2, 0, TRUE)
    <3>1. 0 + 2 = 2
      OBVIOUS
    <3>2. QED  BY <3>1, PlacesCssi, Zenon
  <2>3. Drops("cssi", 0, 0)
    BY <2>1, <2>2, LeaderPlace
  <2>4. QED  BY <1>3, <2>3, RightDrops
<1>4. CASE k = 2 /\ j = 0 /\ readResult
  <2>1. Shows(rb, 1, "+I") /\ Shows(rb, 2, ":")
    BY <1>4, ViewCssiAt2
  <2>2. GoesOn("cssi", 2 + 4, 0 + 1, FALSE)
    <3>1. 2 + 4 = 6 /\ 0 + 1 = 1
      OBVIOUS
    <3>2. QED  BY <3>1, PlacesCssi, Zenon
  <2>3. Fits("cssi", 2, 0, IF "+I" = ">" THEN "prompt" ELSE "cssi", 4)
    BY FitsCssiAt2
  <2>4. /\ BytesInv /\ View(rb, "cssi", 2) /\ 2 \in Nat
        /\ "+I" \in {">", "+I"} /\ ":" = (IF "+I" = ">" THEN "sp" ELSE ":")
        /\ 4 = (IF "+I" = ">" THEN 2 ELSE 4)
    BY <1>4
  <2>5. OnlyTakes("cssi", 2, 0, 4, 4)
    BY ONLY <1>2, <2>1, <2>2, <2>3, <2>4, ShortPlace
  <2>6. OnlyTakes("cssi", k, j, 4, 4)
    BY <1>4, <2>5
  <2>7. /\ BytesInv /\ k \in Nat /\ readResult /\ 4 \in Nat /\ 4 \in Nat
        /\ 6 = Len(Bytes("cssi")) /\ k + 4 <= 6
    BY <1>2, <1>4
  <2>8. QED  BY ONLY <1>2, <2>7, <2>6, RightTakes
<1>5. QED  BY <1>1, <1>3, <1>4

LEMMA CssuRight ==
  ASSUME BytesInv, NEW k, NEW j, IsPlace("cssu", k, j, readResult), View(rb, "cssu", k),
         k = 2 => rb.used \notin {2, 3}
  PROVE  Right("cssu", k, j)
<1>1. \/ k = 0 /\ j = 0 /\ ~readResult
      \/ k = 2 /\ j = 0 /\ readResult
      \/ k = 4 /\ j = 0 /\ readResult
  BY DEF IsPlace
<1>2. "cssu" \in MessageKinds /\ Len(Bytes("cssu")) = 9 /\ 9 \in Nat
  BY PlacesCssu
<1>3. CASE k = 0 /\ j = 0 /\ ~readResult
  <2>1. Shows(rb, 1, "\r") /\ Shows(rb, 2, "\n")
    BY <1>3, ViewCssuAt0
  <2>2. GoesOn("cssu", 0 + 2, 0, TRUE)
    <3>1. 0 + 2 = 2
      OBVIOUS
    <3>2. QED  BY <3>1, PlacesCssu, Zenon
  <2>3. Drops("cssu", 0, 0)
    BY <2>1, <2>2, LeaderPlace
  <2>4. QED  BY <1>3, <2>3, RightDrops
<1>4. CASE k = 2 /\ j = 0 /\ readResult
  <2>1. View(rb, "cssu", 2) /\ rb.used \notin {2, 3} /\ BytesInv
    BY <1>4
  <2>2. /\ ~TakeCssi /\ ~TakePrompt /\ ~TakeList /\ ~TakeLine
        /\ SkipDoubled => Skip(2) /\ readResult' /\ rb.used >= 2
        /\ readResult /\ rb.used >= 4 => ~Waits
    BY ONLY <2>1, DoubledPlace
  <2>3. ~SkipLeader /\ ~SkipMultiline /\ ~SkipGarbage
    BY <1>4 DEF SkipLeader, SkipMultiline, SkipGarbage, NoLeader
  <2>4. rb.used \in Nat
    BY InvType, Zenon
  <2>5. ASSUME SkipDoubled PROVE Onward("cssu", 2, 0, 2, 0)
    <3>1. GoesOn("cssu", 2 + 2, 0, readResult')
      <4>1. readResult' = TRUE
        BY <1>4, <2>5 DEF SkipDoubled, BytesInv, ReadType
      <4>2. 2 + 2 = 4
        OBVIOUS
      <4>3. QED  BY <4>1, <4>2, PlacesCssu, Zenon
    <3>2. BytesInv /\ 2 \in Nat /\ 2 <= rb.used /\ Skip(2) /\ 0 \in Nat
      BY <2>2, <2>4, <2>5
    <3>3. QED  BY ONLY <3>1, <3>2, SkipMoves
  <2>6. Level => Onward("cssu", k, j, 2, 0)
    BY <1>4, <2>2, <2>3, <2>5 DEF Level
  <2>7. readResult /\ Waits => rb.used < 9 - 2
    BY <2>2, <2>4
  <2>8. 2 \in Nat /\ 0 \in 0..1
    OBVIOUS
  <2>9. QED  BY <1>2, <1>4, <2>6, <2>7, <2>8 DEF Right
<1>5. CASE k = 4 /\ j = 0 /\ readResult
  <2>1. /\ Shows(rb, 1, "+S")
        /\ Shows(rb, 2, ":")
        /\ Shows(rb, 3, "x")
        /\ Shows(rb, 4, "\r")
        /\ Shows(rb, 5, "\n")
    BY <1>5, ViewCssuAt4
  <2>2. rb.used \in Nat /\ RingOK(rb)
    BY InvType, Zenon
  <2>3. rb.used >= 1 => Held(rb)[1] \notin {"+R", "+L", "+I", ">", "\r"}
    BY <2>1 DEF Shows
  <2>4. \A i \in 1..3 : i <= rb.used => Held(rb)[i] # "\r"
    <3>1. \A i \in 1..3 : i = 1 \/ i = 2 \/ i = 3
      OBVIOUS
    <3>2. QED  BY <2>1, <3>1 DEF Shows
  <2>5. Shows(rb, 3 + 1, "\r") /\ Shows(rb, 3 + 2, "\n")
    BY <2>1
  <2>6. rb.used >= 3 + 2 => Class = "cssu"
    <3>1. SUFFICES ASSUME rb.used >= 5 PROVE Class = "cssu"
      OBVIOUS
    <3>2. /\ RingOK(rb) /\ rb.used >= 2
          /\ Held(rb)[1] = "+S" /\ Held(rb)[2] = ":"
      BY <2>1, <2>2, <3>1 DEF Shows
    <3>3. QED  BY ONLY <3>2, ClassIs
  <2>7. GoesOn("cssu", 4 + (3 + 2), 0 + 1, FALSE)
    <3>1. 4 + (3 + 2) = 9 /\ 0 + 1 = 1
      OBVIOUS
    <3>2. QED  BY <3>1, PlacesCssu, Zenon
  <2>8. Fits("cssu", 4, 0, "cssu", 3 + 1)
    BY FitsCssuAt4
  <2>9. BytesInv /\ View(rb, "cssu", 4) /\ 4 \in Nat /\ 3 \in Nat /\ 3 >= 1
    BY <1>5
  <2>10. OnlyTakes("cssu", 4, 0, 3 + 2, 3 + 2)
    BY ONLY <1>2, <2>3, <2>4, <2>5, <2>6, <2>7, <2>8, <2>9, LinePlace
  <2>11. OnlyTakes("cssu", k, j, 5, 5)
    BY <1>5, <2>10
  <2>12. /\ BytesInv /\ k \in Nat /\ readResult /\ 5 \in Nat /\ 5 \in Nat
        /\ 9 = Len(Bytes("cssu")) /\ k + 5 <= 9
    BY <1>2, <1>5
  <2>13. QED  BY ONLY <1>2, <2>12, <2>11, RightTakes
<1>6. QED  BY <1>1, <1>3, <1>4, <1>5

LEMMA CmgrRight ==
  ASSUME BytesInv, NEW k, NEW j, IsPlace("cmgr", k, j, readResult), View(rb, "cmgr", k)
  PROVE  Right("cmgr", k, j)
<1>1. \/ k = 0 /\ j = 0 /\ ~readResult
      \/ k = 2 /\ j = 0 /\ readResult
  BY DEF IsPlace
<1>2. "cmgr" \in MessageKinds /\ Len(Bytes("cmgr")) = 16 /\ 16 \in Nat
  BY PlacesCmgr
<1>3. CASE k = 0 /\ j = 0 /\ ~readResult
  <2>1. Shows(rb, 1, "\r") /\ Shows(rb, 2, "\n")
    BY <1>3, ViewCmgrAt0
  <2>2. GoesOn("cmgr", 0 + 2, 0, TRUE)
    <3>1. 0 + 2 = 2
      OBVIOUS
    <3>2. QED  BY <3>1, PlacesCmgr, Zenon
  <2>3. Drops("cmgr", 0, 0)
    BY <2>1, <2>2, LeaderPlace
  <2>4. QED  BY <1>3, <2>3, RightDrops
<1>4. CASE k = 2 /\ j = 0 /\ readResult
  <2>1. /\ Shows(rb, 1, "+R") /\ Shows(rb, 2, ":") /\ Shows(rb, 3, "x")
        /\ Shows(rb, 4, "\r") /\ Shows(rb, 5, "\n") /\ Shows(rb, 6, "x")
        /\ Shows(rb, 7, "\r") /\ Shows(rb, 8, "\n") /\ Shows(rb, 9, "\r")
        /\ Shows(rb, 10, "\n") /\ Shows(rb, 11, "O") /\ Shows(rb, 12, "K")
        /\ Shows(rb, 13, "\r") /\ Shows(rb, 14, "\n")
    BY <1>4, ViewCmgrAt2
  <2>2. rb.used \in Nat
    BY InvType, Zenon
  <2>3. \A i \in 1..7 : i + 1 <= rb.used => ~(Held(rb)[i] = "\n" /\ Held(rb)[i + 1] = "\r")
    <3>1. \A i \in 1..7 : i = 1 \/ i = 2 \/ i = 3 \/ i = 4 \/ i = 5 \/ i = 6 \/ i = 7
      OBVIOUS
    <3>2. rb.used >= 6 => Held(rb)[6] # "\r"
      BY <2>1 DEF Shows
    <3>3. /\ 1 <= rb.used => Held(rb)[1] # "\n"
          /\ 2 <= rb.used => Held(rb)[2] # "\n"
          /\ 3 <= rb.used => Held(rb)[3] # "\n"
          /\ 4 <= rb.used => Held(rb)[4] # "\n"
          /\ 6 <= rb.used => Held(rb)[6] # "\n"
          /\ 7 <= rb.used => Held(rb)[7] # "\n"
      BY <2>1 DEF Shows
    <3>4. QED  BY <2>2, <3>1, <3>2, <3>3
  <2>4. /\ Shows(rb, 7 + 1, "\n") /\ Shows(rb, 7 + 2, "\r") /\ Shows(rb, 7 + 3, "\n")
        /\ Shows(rb, 7 + 4, "O") /\ Shows(rb, 7 + 5, "K") /\ Shows(rb, 7 + 6, "\r")
        /\ Shows(rb, 7 + 7, "\n") /\ Shows(rb, 1, "+R") /\ Shows(rb, 2, ":")
    BY <2>1
  <2>5. GoesOn("cmgr", 2 + 14, 0 + 1, FALSE)
    <3>1. 2 + 14 = 16 /\ 0 + 1 = 1
      OBVIOUS
    <3>2. QED  BY <3>1, PlacesCmgr, Zenon
  <2>6. Fits("cmgr", 2, 0, IF "+R" = "+R" THEN "cmgr" ELSE "clcc", 7)
    BY FitsCmgrAt2
  <2>7. /\ BytesInv /\ View(rb, "cmgr", 2) /\ 2 \in Nat /\ 7 \in Nat /\ 7 >= 2 /\ 14 \in Nat
        /\ "+R" \in {"+R", "+L"} /\ 14 = IF "+R" = "+R" THEN 7 + 7 ELSE 7 + 1
    BY <1>4
  <2>8. OnlyTakes("cmgr", 2, 0, 14, 7 + 7)
    BY ONLY <1>2, <2>3, <2>4, <2>5, <2>6, <2>7, ListPlace
  <2>9. OnlyTakes("cmgr", k, j, 14, 14)
    BY <1>4, <2>8
  <2>10. /\ BytesInv /\ k \in Nat /\ readResult /\ 14 \in Nat /\ 14 \in Nat
        /\ 16 = Len(Bytes("cmgr")) /\ k + 14 <= 16
    BY <1>2, <1>4
  <2>11. QED  BY ONLY <1>2, <2>10, <2>9, RightTakes
<1>5. QED  BY <1>1, <1>3, <1>4

LEMMA ClccRight ==
  ASSUME BytesInv, NEW k, NEW j, IsPlace("clcc", k, j, readResult), View(rb, "clcc", k)
  PROVE  Right("clcc", k, j)
<1>1. \/ k = 0 /\ j = 0 /\ ~readResult
      \/ k = 2 /\ j = 0 /\ readResult
      \/ k = 7 /\ j = 1 /\ ~readResult
      \/ k = 9 /\ j = 1 /\ readResult
  BY DEF IsPlace
<1>2. "clcc" \in MessageKinds /\ Len(Bytes("clcc")) = 13 /\ 13 \in Nat
  BY PlacesClcc
<1>3. CASE k = 0 /\ j = 0 /\ ~readResult
  <2>1. Shows(rb, 1, "\r") /\ Shows(rb, 2, "\n")
    BY <1>3, ViewClccAt0
  <2>2. GoesOn("clcc", 0 + 2, 0, TRUE)
    <3>1. 0 + 2 = 2
      OBVIOUS
    <3>2. QED  BY <3>1, PlacesClcc, Zenon
  <2>3. Drops("clcc", 0, 0)
    BY <2>1, <2>2, LeaderPlace
  <2>4. QED  BY <1>3, <2>3, RightDrops
<1>4. CASE k = 2 /\ j = 0 /\ readResult
  <2>1. /\ Shows(rb, 1, "+L") /\ Shows(rb, 2, ":") /\ Shows(rb, 3, "x")
        /\ Shows(rb, 4, "\r") /\ Shows(rb, 5, "\n") /\ Shows(rb, 6, "\r")
        /\ Shows(rb, 7, "\n") /\ Shows(rb, 8, "O") /\ Shows(rb, 9, "K")
        /\ Shows(rb, 10, "\r") /\ Shows(rb, 11, "\n")
    BY <1>4, ViewClccAt2
  <2>2. rb.used \in Nat
    BY InvType, Zenon
  <2>3. \A i \in 1..4 : i + 1 <= rb.used => ~(Held(rb)[i] = "\n" /\ Held(rb)[i + 1] = "\r")
    <3>1. \A i \in 1..4 : i = 1 \/ i = 2 \/ i = 3 \/ i = 4
      OBVIOUS
    <3>2. /\ 1 <= rb.used => Held(rb)[1] # "\n"
          /\ 2 <= rb.used => Held(rb)[2] # "\n"
          /\ 3 <= rb.used => Held(rb)[3] # "\n"
          /\ 4 <= rb.used => Held(rb)[4] # "\n"
      BY <2>1 DEF Shows
    <3>3. QED  BY <2>2, <3>1, <3>2
  <2>4. /\ Shows(rb, 4 + 1, "\n") /\ Shows(rb, 4 + 2, "\r") /\ Shows(rb, 4 + 3, "\n")
        /\ Shows(rb, 4 + 4, "O") /\ Shows(rb, 4 + 5, "K") /\ Shows(rb, 4 + 6, "\r")
        /\ Shows(rb, 4 + 7, "\n") /\ Shows(rb, 1, "+L") /\ Shows(rb, 2, ":")
    BY <2>1
  <2>5. GoesOn("clcc", 2 + 5, 0 + 1, FALSE)
    <3>1. 2 + 5 = 7 /\ 0 + 1 = 1
      OBVIOUS
    <3>2. QED  BY <3>1, PlacesClcc, Zenon
  <2>6. Fits("clcc", 2, 0, IF "+L" = "+R" THEN "cmgr" ELSE "clcc", 4)
    BY FitsClccAt2
  <2>7. /\ BytesInv /\ View(rb, "clcc", 2) /\ 2 \in Nat /\ 4 \in Nat /\ 4 >= 2 /\ 5 \in Nat
        /\ "+L" \in {"+R", "+L"} /\ 5 = IF "+L" = "+R" THEN 4 + 7 ELSE 4 + 1
    BY <1>4
  <2>8. OnlyTakes("clcc", 2, 0, 5, 4 + 7)
    BY ONLY <1>2, <2>3, <2>4, <2>5, <2>6, <2>7, ListPlace
  <2>9. OnlyTakes("clcc", k, j, 5, 11)
    BY <1>4, <2>8
  <2>10. /\ BytesInv /\ k \in Nat /\ readResult /\ 5 \in Nat /\ 11 \in Nat
        /\ 13 = Len(Bytes("clcc")) /\ k + 11 <= 13
    BY <1>2, <1>4
  <2>11. QED  BY ONLY <1>2, <2>10, <2>9, RightTakes
<1>5. CASE k = 7 /\ j = 1 /\ ~readResult
  <2>1. Shows(rb, 1, "\r") /\ Shows(rb, 2, "\n")
    BY <1>5, ViewClccAt7
  <2>2. GoesOn("clcc", 7 + 2, 1, TRUE)
    <3>1. 7 + 2 = 9
      OBVIOUS
    <3>2. QED  BY <3>1, PlacesClcc, Zenon
  <2>3. Drops("clcc", 7, 1)
    BY <2>1, <2>2, LeaderPlace
  <2>4. QED  BY <1>5, <2>3, RightDrops
<1>6. CASE k = 9 /\ j = 1 /\ readResult
  <2>1. /\ Shows(rb, 1, "O")
        /\ Shows(rb, 2, "K")
        /\ Shows(rb, 3, "\r")
        /\ Shows(rb, 4, "\n")
    BY <1>6, ViewClccAt9
  <2>2. rb.used \in Nat /\ RingOK(rb)
    BY InvType, Zenon
  <2>3. rb.used >= 1 => Held(rb)[1] \notin {"+R", "+L", "+I", ">", "\r"}
    BY <2>1 DEF Shows
  <2>4. \A i \in 1..2 : i <= rb.used => Held(rb)[i] # "\r"
    <3>1. \A i \in 1..2 : i = 1 \/ i = 2
      OBVIOUS
    <3>2. QED  BY <2>1, <3>1 DEF Shows
  <2>5. Shows(rb, 2 + 1, "\r") /\ Shows(rb, 2 + 2, "\n")
    BY <2>1
  <2>6. rb.used >= 2 + 2 => Class = "ok"
    <3>1. SUFFICES ASSUME rb.used >= 4 PROVE Class = "ok"
      OBVIOUS
    <3>2. /\ RingOK(rb) /\ rb.used >= 2 /\ rb.used >= 3
          /\ Held(rb)[1] = "O" /\ Held(rb)[2] = "K" /\ Held(rb)[3] = "\r"
      BY <2>1, <2>2, <3>1 DEF Shows
    <3>3. QED  BY ONLY <3>2, ClassIs
  <2>7. GoesOn("clcc", 9 + (2 + 2), 1 + 1, FALSE)
    <3>1. 9 + (2 + 2) = 13 /\ 1 + 1 = 2
      OBVIOUS
    <3>2. QED  BY <3>1, PlacesClcc, Zenon
  <2>8. Fits("clcc", 9, 1, "ok", 2 + 1)
    BY FitsClccAt9
  <2>9. BytesInv /\ View(rb, "clcc", 9) /\ 9 \in Nat /\ 2 \in Nat /\ 2 >= 1
    BY <1>6
  <2>10. OnlyTakes("clcc", 9, 1, 2 + 2, 2 + 2)
    BY ONLY <1>2, <2>3, <2>4, <2>5, <2>6, <2>7, <2>8, <2>9, LinePlace
  <2>11. OnlyTakes("clcc", k, j, 4, 4)
    BY <1>6, <2>10
  <2>12. /\ BytesInv /\ k \in Nat /\ readResult /\ 4 \in Nat /\ 4 \in Nat
        /\ 13 = Len(Bytes("clcc")) /\ k + 4 <= 13
    BY <1>2, <1>6
  <2>13. QED  BY ONLY <1>2, <2>12, <2>11, RightTakes
<1>7. QED  BY <1>1, <1>3, <1>4, <1>5, <1>6

LEMMA Clcc2Right ==
  ASSUME BytesInv, NEW k, NEW j, IsPlace("clcc2", k, j, readResult), View(rb, "clcc2", k)
  PROVE  Right("clcc2", k, j)
<1>1. \/ k = 0 /\ j = 0 /\ ~readResult
      \/ k = 2 /\ j = 0 /\ readResult
      \/ k = 12 /\ j = 1 /\ ~readResult
      \/ k = 14 /\ j = 1 /\ readResult
  BY DEF IsPlace
<1>2. "clcc2" \in MessageKinds /\ Len(Bytes("clcc2")) = 18 /\ 18 \in Nat
  BY PlacesClcc2
<1>3. CASE k = 0 /\ j = 0 /\ ~readResult
  <2>1. Shows(rb, 1, "\r") /\ Shows(rb, 2, "\n")
    BY <1>3, ViewClcc2At0
  <2>2. GoesOn("clcc2", 0 + 2, 0, TRUE)
    <3>1. 0 + 2 = 2
      OBVIOUS
    <3>2. QED  BY <3>1, PlacesClcc2, Zenon
  <2>3. Drops("clcc2", 0, 0)
    BY <2>1, <2>2, LeaderPlace
  <2>4. QED  BY <1>3, <2>3, RightDrops
<1>4. CASE k = 2 /\ j = 0 /\ readResult
  <2>1. /\ Shows(rb, 1, "+L") /\ Shows(rb, 2, ":") /\ Shows(rb, 3, "x")
        /\ Shows(rb, 4, "\r") /\ Shows(rb, 5, "\n") /\ Shows(rb, 6, "+L")
        /\ Shows(rb, 7, ":") /\ Shows(rb, 8, "x") /\ Shows(rb, 9, "\r")
        /\ Shows(rb, 10, "\n") /\ Shows(rb, 11, "\r") /\ Shows(rb, 12, "\n")
        /\ Shows(rb, 13, "O") /\ Shows(rb, 14, "K") /\ Shows(rb, 15, "\r")
        /\ Shows(rb, 16, "\n")
    BY <1>4, ViewClcc2At2
  <2>2. rb.used \in Nat
    BY InvType, Zenon
  <2>3. \A i \in 1..9 : i + 1 <= rb.used => ~(Held(rb)[i] = "\n" /\ Held(rb)[i + 1] = "\r")
    <3>1. \A i \in 1..9 : i = 1 \/ i = 2 \/ i = 3 \/ i = 4 \/ i = 5 \/ i = 6 \/ i = 7 \/ i = 8 \/ i = 9
      OBVIOUS
    <3>2. rb.used >= 6 => Held(rb)[6] # "\r"
      BY <2>1 DEF Shows
    <3>3. /\ 1 <= rb.used => Held(rb)[1] # "\n"
          /\ 2 <= rb.used => Held(rb)[2] # "\n"
          /\ 3 <= rb.used => Held(rb)[3] # "\n"
          /\ 4 <= rb.used => Held(rb)[4] # "\n"
          /\ 6 <= rb.used => Held(rb)[6] # "\n"
          /\ 7 <= rb.used => Held(rb)[7] # "\n"
          /\ 8 <= rb.used => Held(rb)[8] # "\n"
          /\ 9 <= rb.used => Held(rb)[9] # "\n"
      BY <2>1 DEF Shows
    <3>4. QED  BY <2>2, <3>1, <3>2, <3>3
  <2>4. /\ Shows(rb, 9 + 1, "\n") /\ Shows(rb, 9 + 2, "\r") /\ Shows(rb, 9 + 3, "\n")
        /\ Shows(rb, 9 + 4, "O") /\ Shows(rb, 9 + 5, "K") /\ Shows(rb, 9 + 6, "\r")
        /\ Shows(rb, 9 + 7, "\n") /\ Shows(rb, 1, "+L") /\ Shows(rb, 2, ":")
    BY <2>1
  <2>5. GoesOn("clcc2", 2 + 10, 0 + 1, FALSE)
    <3>1. 2 + 10 = 12 /\ 0 + 1 = 1
      OBVIOUS
    <3>2. QED  BY <3>1, PlacesClcc2, Zenon
  <2>6. Fits("clcc2", 2, 0, IF "+L" = "+R" THEN "cmgr" ELSE "clcc", 9)
    BY FitsClcc2At2
  <2>7. /\ BytesInv /\ View(rb, "clcc2", 2) /\ 2 \in Nat /\ 9 \in Nat /\ 9 >= 2 /\ 10 \in Nat
        /\ "+L" \in {"+R", "+L"} /\ 10 = IF "+L" = "+R" THEN 9 + 7 ELSE 9 + 1
    BY <1>4
  <2>8. OnlyTakes("clcc2", 2, 0, 10, 9 + 7)
    BY ONLY <1>2, <2>3, <2>4, <2>5, <2>6, <2>7, ListPlace
  <2>9. OnlyTakes("clcc2", k, j, 10, 16)
    BY <1>4, <2>8
  <2>10. /\ BytesInv /\ k \in Nat /\ readResult /\ 10 \in Nat /\ 16 \in Nat
        /\ 18 = Len(Bytes("clcc2")) /\ k + 16 <= 18
    BY <1>2, <1>4
  <2>11. QED  BY ONLY <1>2, <2>10, <2>9, RightTakes
<1>5. CASE k = 12 /\ j = 1 /\ ~readResult
  <2>1. Shows(rb, 1, "\r") /\ Shows(rb, 2, "\n")
    BY <1>5, ViewClcc2At12
  <2>2. GoesOn("clcc2", 12 + 2, 1, TRUE)
    <3>1. 12 + 2 = 14
      OBVIOUS
    <3>2. QED  BY <3>1, PlacesClcc2, Zenon
  <2>3. Drops("clcc2", 12, 1)
    BY <2>1, <2>2, LeaderPlace
  <2>4. QED  BY <1>5, <2>3, RightDrops
<1>6. CASE k = 14 /\ j = 1 /\ readResult
  <2>1. /\ Shows(rb, 1, "O")
        /\ Shows(rb, 2, "K")
        /\ Shows(rb, 3, "\r")
        /\ Shows(rb, 4, "\n")
    BY <1>6, ViewClcc2At14
  <2>2. rb.used \in Nat /\ RingOK(rb)
    BY InvType, Zenon
  <2>3. rb.used >= 1 => Held(rb)[1] \notin {"+R", "+L", "+I", ">", "\r"}
    BY <2>1 DEF Shows
  <2>4. \A i \in 1..2 : i <= rb.used => Held(rb)[i] # "\r"
    <3>1. \A i \in 1..2 : i = 1 \/ i = 2
      OBVIOUS
    <3>2. QED  BY <2>1, <3>1 DEF Shows
  <2>5. Shows(rb, 2 + 1, "\r") /\ Shows(rb, 2 + 2, "\n")
    BY <2>1
  <2>6. rb.used >= 2 + 2 => Class = "ok"
    <3>1. SUFFICES ASSUME rb.used >= 4 PROVE Class = "ok"
      OBVIOUS
    <3>2. /\ RingOK(rb) /\ rb.used >= 2 /\ rb.used >= 3
          /\ Held(rb)[1] = "O" /\ Held(rb)[2] = "K" /\ Held(rb)[3] = "\r"
      BY <2>1, <2>2, <3>1 DEF Shows
    <3>3. QED  BY ONLY <3>2, ClassIs
  <2>7. GoesOn("clcc2", 14 + (2 + 2), 1 + 1, FALSE)
    <3>1. 14 + (2 + 2) = 18 /\ 1 + 1 = 2
      OBVIOUS
    <3>2. QED  BY <3>1, PlacesClcc2, Zenon
  <2>8. Fits("clcc2", 14, 1, "ok", 2 + 1)
    BY FitsClcc2At14
  <2>9. BytesInv /\ View(rb, "clcc2", 14) /\ 14 \in Nat /\ 2 \in Nat /\ 2 >= 1
    BY <1>6
  <2>10. OnlyTakes("clcc2", 14, 1, 2 + 2, 2 + 2)
    BY ONLY <1>2, <2>3, <2>4, <2>5, <2>6, <2>7, <2>8, <2>9, LinePlace
  <2>11. OnlyTakes("clcc2", k, j, 4, 4)
    BY <1>6, <2>10
  <2>12. /\ BytesInv /\ k \in Nat /\ readResult /\ 4 \in Nat /\ 4 \in Nat
        /\ 18 = Len(Bytes("clcc2")) /\ k + 4 <= 18
    BY <1>2, <1>6
  <2>13. QED  BY ONLY <1>2, <2>12, <2>11, RightTakes
<1>7. QED  BY <1>1, <1>3, <1>4, <1>5, <1>6

(* A message in the wire and its results in what is due.  *)
LEMMA InMessage ==
  ASSUME BytesInv, SentOK, NEW n \in 1..Len(sent)
  PROVE  LET b == Bytes(sent[n].msg)
             a == ResultsOf(sent[n].msg)
         IN  /\ sent[n].msg \in MessageKinds /\ Len(b) \in Nat /\ Len(a) \in Nat
             /\ StartOf(n) \in Nat /\ DueFrom(n) \in Nat
             /\ StartOf(n + 1) = StartOf(n) + Len(b) /\ StartOf(n) + Len(b) <= Len(Wire)
             /\ DueFrom(n + 1) = DueFrom(n) + Len(a) /\ DueFrom(n) + Len(a) <= Len(Due)
             /\ \A i \in 1..Len(b) : Wire[StartOf(n) + i] = b[i]
             /\ \A i \in 1..Len(a) : Due[DueFrom(n) + i] = a[i]
<1> DEFINE m == sent[n].msg
           b == Bytes(m)
           a == ResultsOf(m)
<1>1. Len(sent) \in Nat
  BY InvType, Zenon
<1>2. n \in 1..(Len(sent) + 1) /\ n <= Len(sent)
  BY <1>1
<1>3. m \in MessageKinds /\ StartOf(n) \in Nat /\ DueFrom(n) \in Nat
  BY ONLY <1>2, BytesInv, StartType
<1>4. Len(b) \in Nat /\ Len(a) \in Nat
  BY <1>3, MessageBytes, MessageResults, LenProperties DEF ResultSeq
<1>5. /\ StartOf(n + 1) = StartOf(n) + Len(b) /\ StartOf(n + 1) <= Len(Wire)
      /\ \A i \in 1..Len(b) : Wire[StartOf(n) + i] = b[i]
      /\ DueFrom(n + 1) = DueFrom(n) + Len(a) /\ DueFrom(n + 1) <= Len(Due)
      /\ \A i \in 1..Len(a) : Due[DueFrom(n) + i] = a[i]
  BY DEF SentOK
<1> HIDE DEF m, b, a
<1>6. StartOf(n) + Len(b) <= Len(Wire) /\ DueFrom(n) + Len(a) <= Len(Due)
  BY <1>5
<1>7. QED  BY <1>3, <1>4, <1>5, <1>6, Zenon DEF m, b, a

(* What the ring has of the message the search is in.  *)
LEMMA PlaceView ==
  ASSUME BytesInv, SentOK, NEW n \in 1..Len(sent), NEW k \in Nat, Gone = StartOf(n) + k
  PROVE  View(rb, sent[n].msg, k)
<1> DEFINE b == Bytes(sent[n].msg)
           s == StartOf(n)
           u == rb.used
           h == Held(rb)
           l == Len(b)
           g == Gone
<1>1. s \in Nat /\ l \in Nat /\ u \in Nat /\ \A i \in 1..l : Wire[s + i] = b[i]
  BY InMessage, InvType, Zenon
<1>2. g = s + k /\ \A i \in 1..u : h[i] = Wire[g + i]
  BY RingOnWire
<1> HIDE DEF b, s, u, h, l, g
<1>3. ASSUME NEW i \in 1..l, i > k, i - k <= u PROVE h[i - k] = b[i]
  <2> DEFINE d == i - k
  <2>1. d \in 1..u /\ g + d = s + i
    BY <1>1, <1>2, <1>3
  <2> HIDE DEF d
  <2>2. h[d] = Wire[g + d]
    BY <1>2, <2>1
  <2>3. QED  BY <1>1, <2>1, <2>2 DEF d
<1>4. QED  BY <1>3 DEF View, Shows, b, u, h, l

(* Where the ring ends in the wire.  *)
LEMMA RingEnd ==
  ASSUME BytesInv, SentOK, NEW n \in 1..Len(sent), NEW k \in Nat, Gone = StartOf(n) + k
  PROVE  LET b == Bytes(sent[n].msg)
         IN  /\ EndRight => \A i \in 1..Len(b) :
                  k + rb.used + 1 = i => b[i] # "+S" /\ ~(i > 1 /\ b[i] = ":" /\ b[i - 1] = "+S")
             /\ \A i \in 1..rb.used : k + i = Len(b) + 1 => Held(rb)[i] # "\n"
<1> DEFINE m == sent[n].msg
           b == Bytes(m)
           l == Len(b)
           s == StartOf(n)
           u == rb.used
           c == Len(line)
           w == Len(Wire)
           v == w - c
<1>1. /\ s \in Nat /\ l \in Nat /\ s + l <= w /\ StartOf(n + 1) = s + l
      /\ \A i \in 1..l : Wire[s + i] = b[i]
  BY InMessage, Zenon
<1>2. u \in Nat /\ c \in Nat /\ w \in Nat
  BY InvType, Zenon
<1>3. /\ Gone + u + c = w /\ Gone = s + k
      /\ \A i \in 1..u : Held(rb)[i] = Wire[Gone + i]
  BY RingOnWire
<1> HIDE DEF b, l, s, u, c, w, m
<1>4. v = s + (k + u) /\ v \in Nat
  BY <1>1, <1>2, <1>3
<1>5. ASSUME EndRight, NEW i \in 1..l, k + u + 1 = i
      PROVE  b[i] # "+S" /\ ~(i > 1 /\ b[i] = ":" /\ b[i - 1] = "+S")
  <2>1. v < w => Wire[v + 1] # "+S" /\ ~(v > 0 /\ Wire[v + 1] = ":" /\ Wire[v] = "+S")
    BY <1>5 DEF EndRight, c, w
  <2>2. v < w /\ v + 1 = s + i
    BY <1>1, <1>2, <1>4, <1>5
  <2> HIDE DEF v
  <2>3. Wire[s + i] = b[i]
    BY <1>1
  <2>4. Wire[v + 1] = b[i]
    BY <2>2, <2>3
  <2>5. i > 1 => v > 0 /\ Wire[v] = b[i - 1]
    <3> DEFINE p == i - 1
    <3>1. i > 1 => p \in 1..l /\ v = s + p /\ v > 0
      BY <1>1, <1>4, <2>2, SMTT(30) DEF v
    <3> HIDE DEF p
    <3>2. i > 1 => Wire[s + p] = b[p]
      BY <1>1, <3>1
    <3>3. QED  BY <3>1, <3>2 DEF p
  <2>6. QED  BY <2>1, <2>2, <2>4, <2>5
<1>6. ASSUME NEW i \in 1..u, k + i = l + 1 PROVE Held(rb)[i] # "\n"
  <2>1. Held(rb)[i] = Wire[Gone + i]
    BY <1>3
  <2>2. Gone + i = (s + l) + 1 /\ Gone + i <= w
    BY <1>1, <1>2, <1>3, <1>6
  <2>3. Len(sent) \in Nat
    BY InvType, Zenon
  <2>4. n + 1 \in 1..(Len(sent) + 1)
    BY <2>3
  <2>5. n + 1 = Len(sent) + 1 => StartOf(n + 1) = w
    BY ONLY BytesInv, <2>4, StartType DEF w
  <2>6. n + 1 # Len(sent) + 1
    BY <1>1, <1>2, <2>2, <2>5
  <2>7. n + 1 \in 1..Len(sent)
    BY <2>3, <2>4, <2>6
  <2> DEFINE e == n + 1
             t == Bytes(sent[e].msg)
  <2>8. /\ sent[e].msg \in MessageKinds /\ StartOf(e) = s + l
        /\ \A x \in 1..Len(t) : Wire[StartOf(e) + x] = t[x]
    <3>1. e \in 1..Len(sent)
      BY <2>7
    <3> HIDE DEF e
    <3>2. sent[e].msg \in MessageKinds /\ \A x \in 1..Len(t) : Wire[StartOf(e) + x] = t[x]
      BY <3>1, InMessage, Zenon
    <3>3. QED  BY <1>1, <3>2 DEF e
  <2> HIDE DEF e
  <2>9. Len(t) >= 3 /\ t[1] \in {"\r", "x"} /\ Len(t) \in Nat
    BY <2>8, FirstByte, MessageBytes, LenProperties
  <2> HIDE DEF t
  <2>10. Wire[(s + l) + 1] = t[1]
    BY <2>8, <2>9
  <2>11. QED  BY <2>1, <2>2, <2>9, <2>10
<1>7. QED  BY <1>5, <1>6 DEF b, l, u, m

(* In every place of a message the search does what is right.  *)
LEMMA PlaceRight ==
  ASSUME BytesInv, SentOK, EndRight, NEW n \in 1..Len(sent), NEW k \in Nat, NEW j, NEW m,
         m = sent[n].msg, IsPlace(m, k, j, readResult), Gone = StartOf(n) + k
  PROVE  Right(m, k, j)
<1>1. View(rb, m, k)
  BY PlaceView
<1>2. m \in MessageKinds
  BY InMessage, Zenon
<1> DEFINE b == Bytes(m)
           u == rb.used
<1>3. /\ \A i \in 1..Len(b) : k + u + 1 = i => b[i] # "+S" /\ ~(i > 1 /\ b[i] = ":" /\ b[i - 1] = "+S")
      /\ \A i \in 1..u : k + i = Len(b) + 1 => Held(rb)[i] # "\n"
  BY RingEnd
<1>4. u \in Nat
  BY InvType, Zenon
<1>5. ASSUME m = "echo" PROVE k = 2 /\ u >= 2 => Held(rb)[2] # "\n"
  <2>1. Len(b) = 3
    BY <1>5, BytesEcho
  <2> HIDE DEF b, u
  <2>2. ASSUME k = 2, u >= 2 PROVE 2 \in 1..u /\ k + 2 = Len(b) + 1
    BY <1>4, <2>1, <2>2
  <2>3. QED  BY <1>3, <2>2
<1>6. ASSUME m = "cssu" PROVE k = 2 => u \notin {2, 3}
  <2>1. Len(b) = 9 /\ b[5] = "+S" /\ b[6] = ":"
    BY <1>6, BytesCssu
  <2> HIDE DEF b, u
  <2>2. ASSUME k = 2, u = 2 PROVE FALSE
    <3>1. 5 \in 1..Len(b) /\ k + u + 1 = 5
      BY <2>1, <2>2
    <3>2. QED  BY <1>3, <2>1, <3>1
  <2>3. ASSUME k = 2, u = 3 PROVE FALSE
    <3>1. 6 \in 1..Len(b) /\ k + u + 1 = 6 /\ 6 > 1 /\ 6 - 1 = 5
      BY <2>1, <2>3
    <3>2. b[6 - 1] = "+S"
      BY <2>1, <3>1
    <3>3. QED  BY <1>3, <2>1, <3>1, <3>2
  <2>4. QED  BY <2>2, <2>3
<1>7. CASE m = "ok"
  BY ONLY <1>1, <1>7, BytesInv, IsPlace(m, k, j, readResult), OkRight
<1>8. CASE m = "line"
  BY ONLY <1>1, <1>8, BytesInv, IsPlace(m, k, j, readResult), LineRight
<1>9. CASE m = "echo"
  BY ONLY <1>1, <1>5, <1>9, BytesInv, IsPlace(m, k, j, readResult), EchoRight
<1>10. CASE m = "more"
  BY ONLY <1>1, <1>10, BytesInv, IsPlace(m, k, j, readResult), MoreRight
<1>11. CASE m = "prompt"
  BY ONLY <1>1, <1>11, BytesInv, IsPlace(m, k, j, readResult), PromptRight
<1>12. CASE m = "cssi"
  BY ONLY <1>1, <1>12, BytesInv, IsPlace(m, k, j, readResult), CssiRight
<1>13. CASE m = "cssu"
  BY ONLY <1>1, <1>6, <1>13, BytesInv, IsPlace(m, k, j, readResult), CssuRight
<1>14. CASE m = "cmgr"
  BY ONLY <1>1, <1>14, BytesInv, IsPlace(m, k, j, readResult), CmgrRight
<1>15. CASE m = "clcc"
  BY ONLY <1>1, <1>15, BytesInv, IsPlace(m, k, j, readResult), ClccRight
<1>16. CASE m = "clcc2"
  BY ONLY <1>1, <1>16, BytesInv, IsPlace(m, k, j, readResult), Clcc2Right
<1>17. QED
  BY ONLY <1>2, <1>7, <1>8, <1>9, <1>10, <1>11, <1>12, <1>13, <1>14, <1>15, <1>16 DEF MessageKinds

(* Between two messages nothing is left to search in.  *)
LEMMA AtEnd ==
  ASSUME BytesInv, NEW n, n = Len(sent) + 1, At(n, 0, 0)
  PROVE  rb.used = 0 /\ Len(line) = 0 /\ ~Level /\ Len(results) = Len(Due) /\ NoneYet
<1>1. Len(sent) \in Nat /\ rb.used \in Nat /\ Len(line) \in Nat /\ Len(Wire) \in Nat
      /\ Len(Due) \in Nat /\ RingOK(rb)
  BY InvType, Zenon
<1>2. n \in 1..(Len(sent) + 1)
  BY <1>1
<1>3. StartOf(n) = Len(Wire) /\ DueFrom(n) = Len(Due)
  BY ONLY BytesInv, <1>2, n = Len(sent) + 1, StartType
<1>4. Gone = StartOf(n) + 0 /\ Len(results) = DueFrom(n) + 0 /\ ~readResult
  BY DEF At
<1>5. Gone + rb.used + Len(line) = Len(Wire)
  BY RingOnWire
<1>6. rb.used = 0 /\ Len(line) = 0 /\ Len(results) = Len(Due)
  <2> DEFINE g == Gone
             u == rb.used
             c == Len(line)
             w == Len(Wire)
             d == Len(Due)
  <2>1. g = w + 0 /\ g + u + c = w /\ u \in Nat /\ c \in Nat /\ w \in Nat
        /\ Len(results) = d + 0 /\ d \in Nat
    BY <1>1, <1>3, <1>4, <1>5
  <2> HIDE DEF g, u, c, w, d
  <2>2. u = 0 /\ c = 0 /\ Len(results) = d
    BY <2>1
  <2>3. QED  BY <2>2 DEF u, c, d
<1>7. Len(CrLf) = 2
  BY DEF CrLf
<1>8. ~Level
  <2>1. ~RbStarts(rb, CrLf)
    BY <1>6, <1>7 DEF RbStarts
  <2>2. ~NoLeader
    BY <1>6 DEF NoLeader
  <2>3. ~Searching
    BY <1>4 DEF Searching
  <2>4. QED
    BY <2>1, <2>2, <2>3, Zenon DEF Level, SkipLeader, SkipMultiline, SkipGarbage, SkipDoubled, TakeCssi,
                                   TakePrompt, TakeList, TakeLine
<1>9. QED  BY <1>6, <1>8 DEF NoneYet

(* The next place, in the same message or at the beginning of the next one.  *)
LEMMA Advance ==
  ASSUME BytesInv, SentOK, NEW n \in 1..Len(sent), NEW k \in Nat, NEW j \in Nat, NEW m,
         m = sent[n].msg, At(n, k, j), NEW l \in Nat, NEW d \in 0..1, Onward(m, k, j, l, d)
  PROVE  InPlace'
<1> DEFINE b == Len(Bytes(m))
           a == Len(ResultsOf(m))
           s == StartOf(n)
           f == DueFrom(n)
           w == Len(Wire)
           e == Len(Due)
           c == Len(results)
           g == Gone
           v == Len(sent)
           k1 == k + l
           j1 == j + d
<1>1. /\ m \in MessageKinds /\ b \in Nat /\ a \in Nat /\ s \in Nat /\ f \in Nat
      /\ StartOf(n + 1) = s + b /\ s + b <= w /\ DueFrom(n + 1) = f + a /\ f + a <= e
      /\ \A i \in 1..a : Due[f + i] = ResultsOf(m)[i]
  BY InMessage, Zenon
<1>2. v \in Nat /\ w \in Nat /\ e \in Nat /\ c \in Nat
  BY InvType, Zenon
<1>3. n # v + 1 /\ n \in Nat
  BY <1>2
<1>4. g = s + k /\ c = f + j /\ c <= e /\ \A i \in 1..c : results[i] = Due[i]
  BY <1>3 DEF At
<1>5. /\ l \in 0..rb.used /\ rb' = RbReadUpd(rb, l) /\ line' = line /\ sent' = sent
      /\ IF d = 0 THEN results' = results
         ELSE j + 1 \in 1..a /\ results' = Append(results, ResultsOf(m)[j + 1])
      /\ GoesOn(m, k1, j1, readResult')
  BY DEF Onward
<1>6. Wire' = Wire /\ Due' = Due /\ \A i : StartOf(i)' = StartOf(i) /\ DueFrom(i)' = DueFrom(i)
  BY <1>5 DEF Wire, Due, StartOf, DueFrom
<1>7. Gone' = g + l
  <2> DEFINE u == RbReadUpd(rb, l)
  <2>1. RingOK(rb) /\ line \in Seq(Char) /\ l \in Nat
    BY InvType, Zenon
  <2>2. PICK x \in 0..rb.used : /\ x = IF rb.used < l THEN rb.used ELSE l
                                /\ Len(Unread(u, line)) = Len(Unread(rb, line)) - x
    BY ONLY <2>1, UnreadAfterUpd
  <2>3. rb.used \in Nat
    BY InvType, Zenon
  <2>4. x = l
    BY <1>5, <2>2, <2>3
  <2>5. Gone' = w - Len(Unread(u, line))
    BY <1>5, <1>6 DEF Gone
  <2>6. g = w - Len(Unread(rb, line)) /\ Len(Unread(rb, line)) \in Nat
    BY InvType DEF Gone
  <2> DEFINE y == Len(Unread(rb, line))
             z == Len(Unread(u, line))
  <2>7. g = w - y /\ z = y - l /\ Gone' = w - z /\ y \in Nat
    BY <2>2, <2>4, <2>5, <2>6
  <2> HIDE DEF y, z, g, w
  <2>8. QED  BY <1>2, <2>7
<1> HIDE DEF b, a, s, f, w, e, c, g
<1>8. /\ Len(results') = f + j1 /\ f + j1 <= e
      /\ \A i \in 1..Len(results') : results'[i] = Due[i]
  <2>1. CASE d = 0
    <3>1. results' = results /\ j1 = j
      BY <1>5, <2>1
    <3>2. QED  BY <1>4, <3>1 DEF c
  <2>2. CASE d = 1
    <3> DEFINE r == ResultsOf(m)[j + 1]
               t == Append(results, r)
    <3>1. j + 1 \in 1..a /\ results' = t
      BY <1>5, <2>2
    <3>2. results \in ResultSeq
      BY InvType, Zenon
    <3>3. r \in AResult
      <4>1. ResultsOf(m) \in Seq(AResult)
        BY <1>1, MessageResults DEF ResultSeq
      <4>2. QED  BY <3>1, <4>1, ElementOfSeq DEF a
    <3> HIDE DEF r
    <3>4. /\ Len(t) = Len(results) + 1
          /\ \A i \in 1..Len(results) : t[i] = results[i]
          /\ t[Len(results) + 1] = r
      BY <3>2, <3>3, AppendProperties DEF ResultSeq
    <3> HIDE DEF t
    <3>5. Len(t) = c + 1 /\ t[c + 1] = r /\ \A i \in 1..c : t[i] = results[i]
      BY <3>4 DEF c
    <3>6. c + 1 = f + (j + 1) /\ c + 1 <= e
      <4>1. c = f + j /\ f + a <= e
        BY <1>1, <1>4, Zenon
      <4>2. a \in Nat /\ f \in Nat /\ e \in Nat
        BY <1>1, <1>2, Zenon
      <4> HIDE DEF r, t
      <4>3. j + 1 <= a
        BY ONLY <3>1, <4>2, j \in Nat
      <4>4. QED  BY ONLY <4>1, <4>2, <4>3, j \in Nat
    <3>7. Due[f + (j + 1)] = r
      BY <1>1, <3>1 DEF r
    <3>8. Due[c + 1] = r
      BY <3>6, <3>7, Zenon
    <3>9. \A i \in 1..(c + 1) : i \in 1..c \/ i = c + 1
      BY <1>2
    <3>10. \A i \in 1..(c + 1) : t[i] = Due[i]
      <4>1. \A i \in 1..c : t[i] = Due[i]
        BY <1>4, <3>5, Zenon
      <4>2. t[c + 1] = Due[c + 1]
        BY <3>5, <3>8, Zenon
      <4>3. QED  BY <3>9, <4>1, <4>2, Zenon
    <3>11. f + j1 = c + 1
      BY <1>1, <1>2, <1>4, <2>2
    <3>12. Len(results') = f + j1 /\ f + j1 <= e
      BY <3>1, <3>5, <3>6, <3>11
    <3>13. Len(results') = c + 1
      BY <3>1, <3>5, Zenon
    <3>14. QED  BY <3>1, <3>10, <3>12, <3>13, Zenon
  <2>3. QED  BY <2>1, <2>2
<1>9. Gone' = s + k1 /\ k1 \in Nat
  BY <1>1, <1>4, <1>7
<1>10. j1 \in Nat
  BY <1>1
<1>11. CASE k1 < b
  <2>1. IsPlace(m, k1, j1, readResult')
    BY <1>5, <1>11 DEF GoesOn, b
  <2>2. k1 \in 0..14 /\ j1 \in 0..1
    BY <2>1 DEF IsPlace
  <2> HIDE DEF k1, j1
  <2>3. IsPlace(sent'[n].msg, k1, j1, readResult')
    BY <1>5, <2>1
  <2>4. ASSUME NEW x, NEW y, x = k1, y = j1 PROVE At(n, x, y)'
    <3>1. n # Len(sent') + 1
      BY <1>3, <1>5
    <3>2. Gone' = StartOf(n)' + x
      BY <1>6, <1>9, <2>4 DEF s
    <3>3. /\ Len(results') = DueFrom(n)' + y /\ Len(results') <= Len(Due')
          /\ \A i \in 1..Len(results') : results'[i] = Due'[i]
      BY <1>6, <1>8, <2>4 DEF f, e
    <3>4. QED  BY <2>3, <2>4, <3>1, <3>2, <3>3 DEF At
  <2>5. At(n, k1, j1)'
    BY <2>4
  <2>6. n \in 1..(Len(sent') + 1)
    BY <1>2, <1>5
  <2>7. QED  BY <2>2, <2>5, <2>6 DEF InPlace
<1>12. CASE ~(k1 < b)
  <2>1. k1 = b /\ j1 = a /\ ~readResult'
    BY <1>5, <1>12 DEF GoesOn, b, a
  <2> DEFINE o == n + 1
  <2>2. o \in 1..(v + 1) /\ o \in 1..(Len(sent') + 1)
    BY <1>2, <1>5
  <2>3. Gone' = StartOf(o) + 0
    BY <1>1, <1>9, <2>1
  <2>4. Len(results') = DueFrom(o) + 0 /\ Len(results') <= e
    BY <1>1, <1>8, <2>1
  <2> HIDE DEF o
  <2>5. IF o = Len(sent') + 1 THEN ~readResult' ELSE IsPlace(sent'[o].msg, 0, 0, readResult')
    BY <2>1 DEF IsPlace
  <2>6. At(o, 0, 0)'
    BY <1>6, <1>8, <2>3, <2>4, <2>5 DEF At, e
  <2>7. 0 \in 0..14 /\ 0 \in 0..1
    OBVIOUS
  <2>8. QED  BY <2>2, <2>6, <2>7 DEF InPlace
<1>13. QED  BY <1>11, <1>12

(* What a message sent leaves as it was, and what it adds.  *)
LEMMA SendAdds ==
  ASSUME BytesInv, NEW m \in Messages, ModemSends(m)
  PROVE  /\ m \in MessageKinds /\ Len(sent') = Len(sent) + 1 /\ sent'[Len(sent) + 1].msg = m
         /\ \A i \in 1..Len(sent) : sent'[i] = sent[i]
         /\ Len(Wire') = Len(Wire) + Len(Bytes(m)) /\ Len(Due') = Len(Due) + Len(ResultsOf(m))
         /\ \A i \in 1..Len(Wire) : Wire'[i] = Wire[i]
         /\ \A i \in 1..Len(Bytes(m)) : Wire'[Len(Wire) + i] = Bytes(m)[i]
         /\ \A i \in 1..Len(Due) : Due'[i] = Due[i]
         /\ \A i \in 1..Len(ResultsOf(m)) : Due'[Len(Due) + i] = ResultsOf(m)[i]
         /\ \A n \in 1..(Len(sent) + 1) : StartOf(n)' = StartOf(n) /\ DueFrom(n)' = DueFrom(n)
         /\ StartOf(Len(sent) + 1) = Len(Wire) /\ DueFrom(Len(sent) + 1) = Len(Due)
         /\ \A n : n = Len(sent) + 1 + 1 => StartOf(n)' = Len(Wire') /\ DueFrom(n)' = Len(Due')
<1> DEFINE b == Bytes(m)
           a == ResultsOf(m)
           v == Len(sent)
           rec == [msg |-> m, wire |-> Wire \o b, due |-> Due \o a]
<1>1. m \in MessageKinds
  BY AtReadAssumption
<1>2. Wire \in Seq(Char) /\ Due \in Seq(AResult) /\ sent \in Seq(Record) /\ v \in Nat
  BY InvType DEF ResultSeq
<1>3. b \in Seq(Char) /\ a \in Seq(AResult)
  BY <1>1, MessageBytes, MessageResults DEF ResultSeq
<1>4. Wire' = Wire \o b /\ Due' = Due \o a
  BY SendKeeps
<1>5. sent' = Append(sent, rec)
  BY DEF ModemSends
<1>6. rec \in Record
  BY <1>1, <1>2, <1>3, ConcatProperties DEF Record, ResultSeq
<1>7. rec.msg = m /\ rec.wire = Wire \o b /\ rec.due = Due \o a
  OBVIOUS
<1> HIDE DEF rec
<1>8. /\ Len(sent') = v + 1 /\ sent'[v + 1] = rec
      /\ \A i \in 1..v : sent'[i] = sent[i]
  BY <1>2, <1>5, <1>6, AppendProperties
<1>9. /\ Len(Wire') = Len(Wire) + Len(b)
      /\ \A i \in 1..Len(Wire) : Wire'[i] = Wire[i]
      /\ \A i \in 1..Len(b) : Wire'[Len(Wire) + i] = b[i]
  BY <1>2, <1>3, <1>4, ConcatProperties, LenProperties
<1>10. /\ Len(Due') = Len(Due) + Len(a)
       /\ \A i \in 1..Len(Due) : Due'[i] = Due[i]
       /\ \A i \in 1..Len(a) : Due'[Len(Due) + i] = a[i]
  BY <1>2, <1>3, <1>4, ConcatProperties, LenProperties
<1> HIDE DEF b, a
<1>11. ASSUME NEW n \in 1..(v + 1) PROVE StartOf(n)' = StartOf(n) /\ DueFrom(n)' = DueFrom(n)
  <2>1. n # 1 => n - 1 \in 1..v
    BY <1>2
  <2>2. n # 1 => sent'[n - 1] = sent[n - 1]
    BY <1>8, <2>1
  <2>3. QED  BY <2>2 DEF StartOf, DueFrom
<1>12. StartOf(v + 1) = Len(Wire) /\ DueFrom(v + 1) = Len(Due)
  <2>1. v + 1 \in 1..(v + 1)
    BY <1>2
  <2>2. QED  BY <2>1, StartType
<1>13. ASSUME NEW n, n = v + 1 + 1 PROVE StartOf(n)' = Len(Wire') /\ DueFrom(n)' = Len(Due')
  <2> DEFINE p == n - 1
  <2>1. n # 1 /\ p = v + 1
    BY <1>2, <1>13
  <2>2. sent'[p].wire = Wire' /\ sent'[p].due = Due'
    BY <1>4, <1>7, <1>8, <2>1
  <2>3. QED  BY <2>1, <2>2 DEF StartOf, DueFrom
<1>14. QED  BY <1>1, <1>7, <1>8, <1>9, <1>10, <1>11, <1>12, <1>13 DEF b, a

LEMMA SendSent ==
  ASSUME BytesInv, SentOK, NEW m \in Messages, ModemSends(m)
  PROVE  SentOK'
<1> DEFINE v == Len(sent)
           w == Len(Wire)
           e == Len(Due)
           w1 == Len(Wire')
           e1 == Len(Due')
<1>1. /\ m \in MessageKinds /\ Len(sent') = v + 1 /\ sent'[v + 1].msg = m
      /\ \A i \in 1..v : sent'[i] = sent[i]
      /\ w1 = w + Len(Bytes(m)) /\ e1 = e + Len(ResultsOf(m))
      /\ \A i \in 1..w : Wire'[i] = Wire[i]
      /\ \A i \in 1..Len(Bytes(m)) : Wire'[w + i] = Bytes(m)[i]
      /\ \A i \in 1..e : Due'[i] = Due[i]
      /\ \A i \in 1..Len(ResultsOf(m)) : Due'[e + i] = ResultsOf(m)[i]
      /\ \A n \in 1..(v + 1) : StartOf(n)' = StartOf(n) /\ DueFrom(n)' = DueFrom(n)
      /\ StartOf(v + 1) = w /\ DueFrom(v + 1) = e
      /\ \A n : n = v + 1 + 1 => StartOf(n)' = w1 /\ DueFrom(n)' = e1
  BY SendAdds, Zenon
<1>2. v \in Nat /\ w \in Nat /\ e \in Nat
  BY InvType, Zenon
<1>3. Len(Bytes(m)) \in Nat /\ Len(ResultsOf(m)) \in Nat
  BY <1>1, MessageBytes, MessageResults, LenProperties DEF ResultSeq
<1> HIDE DEF v, w, e, w1, e1
<1> DEFINE Whole(n) ==
             LET b == Bytes(sent'[n].msg)
                 a == ResultsOf(sent'[n].msg)
             IN  /\ StartOf(n + 1)' = StartOf(n)' + Len(b) /\ StartOf(n + 1)' <= w1
                 /\ \A i \in 1..Len(b) : Wire'[StartOf(n)' + i] = b[i]
                 /\ DueFrom(n + 1)' = DueFrom(n)' + Len(a) /\ DueFrom(n + 1)' <= e1
                 /\ \A i \in 1..Len(a) : Due'[DueFrom(n)' + i] = a[i]
<1>4. ASSUME NEW n \in 1..v PROVE Whole(n)
  <2> DEFINE b == Bytes(sent[n].msg)
             a == ResultsOf(sent[n].msg)
             s == StartOf(n)
             f == DueFrom(n)
             o == n + 1
  <2>1. /\ Len(b) \in Nat /\ Len(a) \in Nat /\ s \in Nat /\ f \in Nat
        /\ StartOf(o) = s + Len(b) /\ s + Len(b) <= w
        /\ DueFrom(o) = f + Len(a) /\ f + Len(a) <= e
        /\ \A i \in 1..Len(b) : Wire[s + i] = b[i]
        /\ \A i \in 1..Len(a) : Due[f + i] = a[i]
    BY InMessage, Zenon DEF v, w, e
  <2>2. sent'[n] = sent[n]
    BY <1>1
  <2>3. n \in 1..(v + 1) /\ o \in 1..(v + 1)
    BY <1>2
  <2>4. StartOf(n)' = s /\ DueFrom(n)' = f
    BY <1>1, <2>3
  <2>5. StartOf(o)' = s + Len(b) /\ DueFrom(o)' = f + Len(a)
    <3> HIDE DEF o
    <3>1. QED  BY <1>1, <2>1, <2>3
  <2> HIDE DEF b, a, s, f
  <2>6. ASSUME NEW i \in 1..Len(b) PROVE Wire'[s + i] = b[i]
    <3>1. s + i \in 1..w
      BY <1>2, <2>1
    <3>2. QED  BY <1>1, <2>1, <3>1
  <2>7. ASSUME NEW i \in 1..Len(a) PROVE Due'[f + i] = a[i]
    <3>1. f + i \in 1..e
      BY <1>2, <2>1
    <3>2. QED  BY <1>1, <2>1, <3>1
  <2>8. s + Len(b) <= w1 /\ f + Len(a) <= e1
    BY <1>1, <1>2, <1>3, <2>1
  <2>9. Bytes(sent'[n].msg) = b /\ ResultsOf(sent'[n].msg) = a
    BY <2>2 DEF b, a
  <2>10. QED  BY <2>4, <2>5, <2>6, <2>7, <2>8, <2>9
<1>5. ASSUME NEW n, n = v + 1 PROVE Whole(n)
  <2> DEFINE o == n + 1
  <2>1. sent'[n].msg = m /\ n \in 1..(v + 1)
    BY <1>1, <1>2, <1>5
  <2>2. StartOf(n)' = w /\ DueFrom(n)' = e
    BY <1>1, <1>5, <2>1
  <2>3. StartOf(o)' = w1 /\ DueFrom(o)' = e1
    <3>1. o = v + 1 + 1
      BY <1>5
    <3> HIDE DEF o
    <3>2. QED  BY <1>1, <3>1
  <2>4. w1 <= w1 /\ e1 <= e1
    BY <1>1, <1>2, <1>3
  <2>5. /\ w1 = w + Len(Bytes(sent'[n].msg)) /\ e1 = e + Len(ResultsOf(sent'[n].msg))
        /\ \A i \in 1..Len(Bytes(sent'[n].msg)) : Wire'[w + i] = Bytes(sent'[n].msg)[i]
        /\ \A i \in 1..Len(ResultsOf(sent'[n].msg)) : Due'[e + i] = ResultsOf(sent'[n].msg)[i]
    BY <1>1, <2>1, Zenon
  <2>6. QED  BY ONLY <2>2, <2>3, <2>4, <2>5, Zenon
<1>6. \A n \in 1..(v + 1) : n \in 1..v \/ n = v + 1
  BY <1>2
<1>7. \A n \in 1..Len(sent') : Whole(n)
  <2> HIDE DEF Whole
  <2>1. QED  BY <1>1, <1>4, <1>5, <1>6
<1>8. QED  BY <1>7 DEF SentOK, w1, e1

LEMMA SendPlace ==
  ASSUME BytesInv, SentOK, NEW m \in Messages, ModemSends(m), InPlace
  PROVE  InPlace'
<1>1. PICK n \in 1..(Len(sent) + 1), k \in 0..14, j \in 0..1 : At(n, k, j)
  BY DEF InPlace
<1> DEFINE v == Len(sent)
           w == Len(Wire)
           e == Len(Due)
           g == Gone
<1>2. /\ m \in MessageKinds /\ Len(sent') = v + 1 /\ sent'[v + 1].msg = m
      /\ \A i \in 1..v : sent'[i] = sent[i]
      /\ Len(Wire') = w + Len(Bytes(m)) /\ Len(Due') = e + Len(ResultsOf(m))
      /\ \A i \in 1..e : Due'[i] = Due[i]
      /\ StartOf(n)' = StartOf(n) /\ DueFrom(n)' = DueFrom(n)
  BY SendAdds, Zenon
<1>3. v \in Nat /\ w \in Nat /\ e \in Nat /\ Len(results) \in Nat
  BY InvType, Zenon
<1>4. Bytes(m) \in Seq(Char) /\ Len(Bytes(m)) \in Nat /\ Len(ResultsOf(m)) \in Nat
  BY <1>2, MessageBytes, MessageResults, LenProperties DEF ResultSeq
<1>5. results' = results /\ readResult' = readResult /\ rb' = rb /\ line' = line \o Bytes(m)
  BY DEF ModemSends
<1>6. Gone' = g
  <2> DEFINE l == line \o Bytes(m)
             u == rb.used
             c == Len(line)
             d == Len(Bytes(m))
  <2>1. RingOK(rb) /\ line \in Seq(Char) /\ u \in Nat /\ c \in Nat
    BY InvType, Zenon
  <2>2. l \in Seq(Char) /\ Len(l) = c + d
    BY <1>4, <2>1, ConcatProperties
  <2> HIDE DEF l
  <2>3. Len(Unread(rb, l)) = u + Len(l)
    BY ONLY <2>1, <2>2, UnreadText
  <2>4. Len(Unread(rb, line)) = u + c
    BY ONLY <2>1, UnreadText
  <2>5. Gone' = Len(Wire') - Len(Unread(rb, l))
    BY <1>5 DEF Gone, l
  <2>6. g = w - (u + c) /\ Gone' = (w + d) - (u + (c + d)) /\ d \in Nat
    BY <1>2, <1>4, <2>2, <2>3, <2>4, <2>5 DEF Gone
  <2> HIDE DEF g, w, u, c, d
  <2>7. QED  BY <1>3, <2>1, <2>6
<1>7. /\ Gone = StartOf(n) + k /\ Len(results) = DueFrom(n) + j /\ Len(results) <= e
      /\ \A i \in 1..Len(results) : results[i] = Due[i]
      /\ IF n = v + 1 THEN k = 0 /\ j = 0 /\ ~readResult
         ELSE IsPlace(sent[n].msg, k, j, readResult)
  BY <1>1 DEF At
<1>8. Len(results) <= Len(Due') /\ \A i \in 1..Len(results) : results[i] = Due'[i]
  <2>1. \A i \in 1..Len(results) : i \in 1..e
    BY <1>3, <1>7
  <2>2. Len(results) <= Len(Due')
    BY <1>2, <1>3, <1>4, <1>7
  <2>3. QED  BY <1>2, <1>7, <2>1, <2>2
<1>9. n # Len(sent') + 1 /\ n \in 1..(Len(sent') + 1)
  BY <1>2, <1>3
<1>10. IsPlace(sent'[n].msg, k, j, readResult)
  <2>1. CASE n = v + 1
    BY <1>7, <2>1 DEF IsPlace
  <2>2. CASE n # v + 1
    <3>1. sent'[n] = sent[n]
      BY <1>2, <1>3, <2>2
    <3>2. QED  BY <1>7, <2>2, <3>1
  <2>3. QED  BY <2>1, <2>2
<1> HIDE DEF v, w, e
<1>11. At(n, k, j)'
  BY <1>2, <1>5, <1>6, <1>7, <1>8, <1>9, <1>10 DEF At
<1>12. QED  BY <1>9, <1>11 DEF InPlace

LEMMA SendEnd ==
  ASSUME BytesInv, EndRight, NEW m \in Messages, ModemSends(m)
  PROVE  EndRight'
<1> DEFINE w == Len(Wire)
           c == Len(line)
           d == Len(Bytes(m))
           p == w - c
<1>1. /\ m \in MessageKinds /\ Len(Wire') = w + d
      /\ \A i \in 1..w : Wire'[i] = Wire[i]
      /\ \A i \in 1..d : Wire'[w + i] = Bytes(m)[i]
  BY SendAdds, Zenon
<1>2. Bytes(m) \in Seq(Char) /\ d \in Nat /\ d >= 3 /\ Bytes(m)[1] \in {"\r", "x"}
  BY <1>1, MessageBytes, LenProperties, FirstByte
<1>3. w \in Nat /\ c \in Nat /\ rb.used \in Nat /\ rb.used + c <= w /\ line \in Seq(Char)
  BY InvType, Zenon
<1>4. Len(line') = c + d
  BY <1>2, <1>3, ConcatProperties DEF ModemSends
<1>5. p < w => Wire[p + 1] # "+S" /\ ~(p > 0 /\ Wire[p + 1] = ":" /\ Wire[p] = "+S")
  BY DEF EndRight
<1> HIDE DEF w, c, d
<1>6. Len(Wire') - Len(line') = p /\ p \in Nat /\ p <= w
  BY <1>1, <1>2, <1>3, <1>4
<1> HIDE DEF p
<1>7. Wire'[p + 1] # "+S" /\ ~(p > 0 /\ Wire'[p + 1] = ":" /\ Wire'[p] = "+S")
  <2>1. CASE p < w
    <3>1. p + 1 \in 1..w /\ (p > 0 => p \in 1..w)
      BY <1>3, <1>6, <2>1
    <3>2. Wire'[p + 1] = Wire[p + 1] /\ (p > 0 => Wire'[p] = Wire[p])
      BY <1>1, <3>1
    <3>3. QED  BY <1>5, <2>1, <3>2
  <2>2. CASE p = w
    <3>1. 1 \in 1..d
      BY <1>2
    <3>2. Wire'[p + 1] = Bytes(m)[1]
      BY <1>1, <2>2, <3>1
    <3>3. QED  BY <1>2, <3>2
  <2>3. QED  BY <1>3, <1>6, <2>1, <2>2
<1>8. QED  BY <1>6, <1>7 DEF EndRight

LEMMA SendRight ==
  ASSUME BytesInv, RightInv, NEW m \in Messages, ModemSends(m)
  PROVE  RightInv'
<1>1. SentOK'
  BY SendSent DEF RightInv
<1>2. ASSUME ~astray' PROVE InPlace' /\ EndRight' /\ (pc' = "wait" => Waits')
  <2>1. ~astray /\ rb' = rb /\ readResult' = readResult /\ pc' = pc
    BY <1>2 DEF ModemSends
  <2>2. SentOK /\ InPlace /\ EndRight /\ (pc = "wait" => Waits)
    BY <2>1 DEF RightInv
  <2>3. Waits' <=> Waits
    BY <2>1 DEF Waits, NoneYet, StartsList
  <2>4. QED  BY <2>1, <2>2, <2>3, SendPlace, SendEnd
<1>3. QED  BY <1>1, <1>2 DEF RightInv

(* A step that sends nothing and takes nothing leaves the search in its place.  *)
LEMMA PlaceStays ==
  ASSUME sent' = sent, readResult' = readResult, results' = results, Gone' = Gone
  PROVE  (SentOK => SentOK') /\ (InPlace => InPlace')
<1>1. Wire' = Wire /\ Due' = Due
  BY DEF Wire, Due
<1>2. \A n : StartOf(n)' = StartOf(n) /\ DueFrom(n)' = DueFrom(n)
  BY DEF StartOf, DueFrom
<1>3. SentOK => SentOK'
  BY <1>1, <1>2 DEF SentOK
<1>4. ASSUME NEW n, NEW k, NEW j, At(n, k, j) PROVE At(n, k, j)'
  BY <1>1, <1>2, <1>4 DEF At
<1>5. InPlace => InPlace'
  BY <1>4 DEF InPlace
<1>6. QED  BY <1>3, <1>5

LEMMA ReadRight ==
  ASSUME BytesInv, RightInv, NEW n \in 0..Size, Read(n)
  PROVE  RightInv'
<1> DEFINE c == Len(line)
           w == Len(Wire)
           u == rb.used
           g == Gone
           a == SubSeq(line, 1, n)
           z == SubSeq(line, n + 1, c)
           h == Held(rb)
           text == h \o a
<1>1. /\ RingOK(rb) /\ line \in Seq(Char) /\ c \in Nat /\ w \in Nat /\ u \in Nat
      /\ h \in Seq(Char) /\ Len(h) = u
  BY InvType, Zenon
<1>2. /\ n \in 0..c /\ n <= RbFree(rb) /\ rb' = RbFill(rb, a) /\ line' = z
      /\ astray' = (astray \/ EndsInDoubled(n)) /\ pc' = "search"
      /\ sent' = sent /\ readResult' = readResult /\ results' = results
  BY <1>1 DEF Read
<1>3. Unread(rb', line') = Unread(rb, line)
  BY <1>1, <1>2, UnreadAfterRead
<1>4. Wire' = Wire
  BY <1>2 DEF Wire
<1>5. Gone' = Gone
  BY <1>3, <1>4 DEF Gone
<1>6. SentOK'
  BY <1>2, <1>5, PlaceStays DEF RightInv
<1>7. ASSUME ~astray' PROVE InPlace' /\ EndRight'
  <2>1. ~astray /\ ~EndsInDoubled(n)
    BY <1>2, <1>7, Zenon
  <2>2. InPlace /\ EndRight
    BY <2>1 DEF RightInv
  <2>3. InPlace'
    BY <1>2, <1>5, <2>2, PlaceStays
  <2>4. Len(line') = c - n
    <3>1. \A i \in (n + 1)..c : line[i] \in Char
      BY <1>1, <1>2, ElementOfSeq
    <3>2. Len(z) = IF n + 1 <= c THEN c - (n + 1) + 1 ELSE 0
      BY <1>1, <1>2, <3>1, SubSeqProperties
    <3>3. c - (n + 1) + 1 = c - n /\ (~(n + 1 <= c) => 0 = c - n)
      BY <1>1, <1>2
    <3>4. QED  BY <1>2, <3>2, <3>3, Zenon
  <2>5. /\ g \in Nat /\ g + u + c = w
        /\ \A i \in 1..c : line[i] = Wire[g + u + i]
    BY RingOnWire
  <2>6. Text(RbReadAll(rb)) = h
    BY <1>1, ReadAllText
  <2>7. n < c => line[n + 1] # "+S" /\ ~(line[n + 1] = ":" /\ text[Len(text)] = "+S")
    BY <2>1, <2>6 DEF EndsInDoubled
  <2>8. n > 0 => text[Len(text)] = line[n]
    <3>1. a \in Seq(Char) /\ Len(a) = n /\ \A i \in 1..n : a[i] = line[i]
      BY <1>1, <1>2, SubSeqProperties, ElementOfSeq
    <3> HIDE DEF a, h, u, c
    <3>2. Len(text) = u + n
      BY <1>1, <3>1, ConcatProperties
    <3>3. \A i \in 1..(u + n) : text[i] = IF i <= u THEN h[i] ELSE a[i - u]
      BY <1>1, <3>1, ConcatProperties
    <3>4. n > 0 => u + n \in 1..(u + n) /\ ~(u + n <= u) /\ (u + n) - u = n /\ n \in 1..n
      BY <1>1, <1>2
    <3> DEFINE x == u + n
    <3>5. n > 0 => x \in 1..x /\ ~(x <= u) /\ x - u = n /\ n \in 1..n
      BY <3>4
    <3>6. Len(text) = x /\ \A i \in 1..x : text[i] = IF i <= u THEN h[i] ELSE a[i - u]
      BY <3>2, <3>3
    <3> HIDE DEF x, text
    <3>7. QED  BY <3>1, <3>5, <3>6
  <2> DEFINE p == w - (c - n)
             v == w - c
  <2>9. v < w => Wire[v + 1] # "+S" /\ ~(v > 0 /\ Wire[v + 1] = ":" /\ Wire[v] = "+S")
    BY <2>2 DEF EndRight
  <2>10. p < w => Wire[p + 1] # "+S" /\ ~(p > 0 /\ Wire[p + 1] = ":" /\ Wire[p] = "+S")
    <3>1. CASE n = 0
      <4>1. p = v
        BY <1>1, <3>1
      <4> HIDE DEF p, v
      <4>2. QED  BY <2>9, <4>1
    <3>2. CASE n > 0
      <4> HIDE DEF w, c, u, g, text
      <4>1. p = g + u + n /\ (p < w => n < c)
        BY <1>1, <1>2, <2>5
      <4>2. n \in 1..c /\ (p < w => n + 1 \in 1..c /\ p + 1 = g + u + (n + 1))
        BY <1>1, <1>2, <2>5, <3>2, <4>1
      <4> HIDE DEF p
      <4>3. Wire[p] = line[n]
        BY <2>5, <4>1, <4>2
      <4> DEFINE y == n + 1
      <4>4. p < w => y \in 1..c /\ p + 1 = g + u + y
        BY <4>2
      <4> HIDE DEF y
      <4>5. p < w => Wire[p + 1] = line[y]
        BY <2>5, <4>4
      <4>6. p < w => line[y] # "+S" /\ ~(line[y] = ":" /\ line[n] = "+S")
        BY <2>7, <2>8, <3>2, <4>1 DEF y
      <4>7. QED  BY <4>3, <4>5, <4>6
    <3>3. QED  BY <1>2, <3>1, <3>2
  <2>11. Len(Wire') - Len(line') = p /\ Len(Wire') = w
    BY <1>4, <2>4
  <2> HIDE DEF p, w, c
  <2>12. EndRight'
    BY <1>4, <2>10, <2>11 DEF EndRight
  <2>13. QED  BY <2>3, <2>12
<1>8. QED  BY <1>2, <1>6, <1>7 DEF RightInv

LEMMA WaitRight ==
  ASSUME BytesInv, RightInv, WaitForMore
  PROVE  RightInv'
<1>1. /\ NoneYet /\ pc = "search" /\ sent' = sent /\ line' = line /\ rb' = rb
      /\ readResult' = readResult /\ results' = results /\ astray' = (astray \/ ListEndsAcross)
  BY DEF WaitForMore
<1>2. Wire' = Wire /\ Gone' = Gone
  BY <1>1 DEF Wire, Gone
<1>3. SentOK' /\ (InPlace => InPlace')
  BY <1>1, <1>2, PlaceStays DEF RightInv
<1>4. ASSUME ~astray' PROVE InPlace' /\ EndRight' /\ Waits'
  <2>1. ~astray /\ ~ListEndsAcross
    BY <1>1, <1>4, Zenon
  <2>2. InPlace /\ EndRight
    BY <2>1 DEF RightInv
  <2>3. EndRight'
    BY <1>1, <1>2, <2>2 DEF EndRight
  <2>4. Waits
    BY <1>1, <2>1 DEF Waits, ListEndsAcross, Searching
  <2>5. Waits'
    BY <1>1, <2>4 DEF Waits, NoneYet, StartsList
  <2>6. QED  BY <1>3, <2>2, <2>3, <2>5
<1>5. QED  BY <1>3, <1>4 DEF RightInv

(* Steps that only end the reading of the port.  *)
LEMMA StopRight ==
  ASSUME RightInv, UNCHANGED << sent, line, rb, readResult, results, astray >>, pc' = pc \/ pc' # "wait"
  PROVE  RightInv'
<1>1. Wire' = Wire /\ Gone' = Gone
  BY DEF Wire, Gone
<1>2. SentOK' /\ (InPlace => InPlace')
  BY <1>1, PlaceStays DEF RightInv
<1>3. EndRight' <=> EndRight
  BY <1>1 DEF EndRight
<1>4. Waits' <=> Waits
  BY DEF Waits, NoneYet, StartsList
<1>5. QED  BY <1>2, <1>3, <1>4 DEF RightInv

(* The levels of the search.  *)
LEMMA LevelRight ==
  ASSUME BytesInv, RightInv, Level
  PROVE  RightInv'
<1> DEFINE Kept == sent' = sent /\ line' = line /\ pc' = pc
<1>1. Kept /\ pc = "search" /\ (~astray' => ~astray)
  <2>1. ASSUME NEW n, Skip(n) PROVE Kept /\ astray' = astray
    BY <2>1 DEF Skip
  <2>2. ASSUME NEW iov, Take(iov) PROVE Kept
    BY <2>2 DEF Take
  <2> HIDE DEF Kept
  <2>3. ASSUME SkipLeader \/ SkipMultiline \/ SkipGarbage
        PROVE  pc = "search" /\ \E n : Skip(n)
    BY <2>3, Zenon DEF SkipLeader, SkipMultiline, SkipGarbage, NoLeader
  <2>4. SkipDoubled => Searching /\ \E n : Skip(n)
    BY Zenon DEF SkipDoubled
  <2>5. ASSUME TakeCssi \/ TakePrompt \/ TakeLine
        PROVE  Searching /\ astray' = astray /\ \E iov : Take(iov)
    BY <2>5, Zenon DEF TakeCssi, TakePrompt, TakeLine
  <2>6. TakeList => Searching /\ astray' = (astray \/ ListEndsAcross) /\ \E iov : Take(iov)
    BY Zenon DEF TakeList
  <2>7. CASE SkipLeader \/ SkipMultiline \/ SkipGarbage
    <3>1. pc = "search" /\ \E n : Skip(n)
      BY <2>3, <2>7
    <3>2. Kept /\ astray' = astray
      BY <2>1, <3>1
    <3>3. QED  BY <3>1, <3>2
  <2>8. CASE SkipDoubled
    <3>1. pc = "search" /\ \E n : Skip(n)
      BY <2>4, <2>8 DEF Searching
    <3>2. Kept /\ astray' = astray
      BY <2>1, <3>1
    <3>3. QED  BY <3>1, <3>2
  <2>9. CASE TakeCssi \/ TakePrompt \/ TakeLine
    <3>1. pc = "search" /\ astray' = astray /\ \E iov : Take(iov)
      BY <2>5, <2>9 DEF Searching
    <3>2. Kept
      BY <2>2, <3>1
    <3>3. QED  BY <3>1, <3>2
  <2>10. CASE TakeList
    <3>1. pc = "search" /\ astray' = (astray \/ ListEndsAcross) /\ \E iov : Take(iov)
      BY <2>6, <2>10 DEF Searching
    <3>2. Kept
      BY <2>2, <3>1
    <3>3. ~astray' => ~astray
      BY <3>1, Zenon
    <3>4. QED  BY <3>1, <3>2, <3>3
  <2>11. QED  BY <2>7, <2>8, <2>9, <2>10, Zenon DEF Level
<1>2. Wire' = Wire /\ Due' = Due /\ \A n : StartOf(n)' = StartOf(n) /\ DueFrom(n)' = DueFrom(n)
  BY <1>1 DEF Wire, Due, StartOf, DueFrom
<1>3. SentOK'
  BY <1>1, <1>2 DEF SentOK, RightInv
<1>4. ASSUME ~astray' PROVE InPlace' /\ EndRight'
  <2>1. ~astray /\ InPlace /\ EndRight /\ SentOK
    BY <1>1, <1>4 DEF RightInv
  <2>2. EndRight'
    BY <1>1, <1>2, <2>1 DEF EndRight
  <2>3. PICK n \in 1..(Len(sent) + 1), k \in 0..14, j \in 0..1 : At(n, k, j)
    BY <2>1 DEF InPlace
  <2>4. Len(sent) \in Nat
    BY InvType, Zenon
  <2>5. n # Len(sent) + 1
    <3>1. ASSUME n = Len(sent) + 1 PROVE FALSE
      <4>1. k = 0 /\ j = 0
        BY <2>3, <3>1 DEF At
      <4>2. At(n, 0, 0)
        BY <2>3, <4>1
      <4>3. QED  BY <3>1, <4>2, AtEnd
    <3>2. QED  BY <3>1
  <2>6. n \in 1..Len(sent) /\ k \in Nat /\ j \in Nat
    BY <2>4, <2>5
  <2>7. ASSUME NEW m, m = sent[n].msg PROVE InPlace'
    <3>1. IsPlace(m, k, j, readResult) /\ Gone = StartOf(n) + k
      BY <2>3, <2>5, <2>7 DEF At
    <3>2. Right(m, k, j)
      BY <2>1, <2>6, <2>7, <3>1, PlaceRight
    <3>3. PICK l \in Nat, d \in 0..1 : Onward(m, k, j, l, d)
      BY <1>4, <3>2 DEF Right
    <3>4. QED  BY <2>1, <2>3, <2>6, <2>7, <3>3, Advance
  <2>8. QED  BY <2>2, <2>7
<1>5. QED  BY <1>1, <1>3, <1>4 DEF RightInv

LEMMA RightInit == ReadInit => RightInv
<1>1. SUFFICES ASSUME ReadInit PROVE RightInv
  OBVIOUS
<1>2. /\ sent = << >> /\ line = << >> /\ Wire = << >> /\ Due = << >> /\ results = << >>
      /\ readResult = FALSE /\ astray = FALSE
  BY <1>1 DEF ReadInit, Wire, Due
<1>3. Len(sent) = 0 /\ Len(Wire) = 0 /\ Len(Due) = 0 /\ Len(results) = 0 /\ Len(line) = 0
  BY <1>2
<1>4. SentOK
  BY <1>3 DEF SentOK
<1>5. rb.used = 0 /\ Gone = 0
  <2>1. rb.used = 0 /\ Held(rb) = << >>
    BY <1>1, RingEmpty DEF ReadInit
  <2>2. Unread(rb, line) = << >>
    BY <1>2, <2>1 DEF Unread
  <2>3. Len(Unread(rb, line)) = 0
    BY <2>2
  <2>4. Gone = 0 - 0
    BY <1>3, <2>3 DEF Gone
  <2>5. QED  BY <2>1, <2>4
<1>6. At(1, 0, 0)
  BY <1>2, <1>3, <1>5 DEF At, StartOf, DueFrom
<1>7. InPlace
  <2>1. 1 \in 1..(Len(sent) + 1) /\ 0 \in 0..14 /\ 0 \in 0..1
    BY <1>3
  <2>2. QED  BY <1>6, <2>1 DEF InPlace
<1>8. EndRight
  BY <1>3 DEF EndRight
<1>9. Waits
  BY <1>2, <1>5 DEF Waits, NoneYet
<1>10. QED  BY <1>4, <1>7, <1>8, <1>9 DEF RightInv

LEMMA RightNext == BytesInv /\ RightInv /\ [ReadNext]_readVars => RightInv'
<1>1. SUFFICES ASSUME BytesInv, RightInv, [ReadNext]_readVars PROVE RightInv'
  OBVIOUS
<1>2. ASSUME NEW m \in Messages, ModemSends(m) PROVE RightInv'
  BY <1>1, <1>2, SendRight
<1>3. ASSUME NEW n \in 0..Size, Read(n) PROVE RightInv'
  BY <1>1, <1>3, ReadRight
<1>4. CASE ReadOverflow \/ ReadFails \/ UNCHANGED readVars
  <2>1. /\ UNCHANGED << sent, line, rb, readResult, results, astray >>
        /\ pc' = pc \/ pc' # "wait"
    BY <1>4 DEF ReadOverflow, ReadFails, readVars
  <2>2. QED  BY <1>1, <2>1, StopRight
<1>5. CASE WaitForMore
  BY <1>1, <1>5, WaitRight
<1>6. CASE Level
  BY <1>1, <1>6, LevelRight
<1>7. QED  BY <1>1, <1>2, <1>3, <1>4, <1>5, <1>6, Zenon DEF ReadNext, Level

LEMMA RightAlways == ReadSpec => []RightInv
BY RightInit, RightNext, BytesAlways, PTL DEF ReadSpec

(* The results taken are the first of those due.  *)
LEMMA ResultsFront ==
  ASSUME BytesInv, Len(results) <= Len(Due), \A i \in 1..Len(results) : results[i] = Due[i]
  PROVE  IsAt(results, 0, Due) /\ (Len(results) = Len(Due) => results = Due)
<1> DEFINE n == Len(results)
           c == SubSeq(Due, 1, n)
<1>1. results \in Seq(AResult) /\ Due \in Seq(AResult) /\ n \in Nat /\ Len(Due) \in Nat
  BY InvType DEF ResultSeq
<1>2. \A i \in 1..n : Due[i] \in AResult
  BY <1>1, ElementOfSeq
<1>3. c \in Seq(AResult) /\ Len(c) = n /\ \A i \in 1..n : c[i] = Due[i]
  BY <1>1, <1>2, SubSeqProperties
<1>4. c = results
  <2> HIDE DEF c
  <2>1. QED  BY <1>1, <1>3, SeqEqual
<1>5. Len(results) = Len(Due) => results = Due
  BY <1>1, SeqEqual
<1>6. 0 + 1 = 1 /\ 0 + n = n
  BY <1>1
<1>7. IsAt(results, 0, Due)
  BY <1>4, <1>6 DEF IsAt
<1>8. QED  BY <1>5, <1>7

(* Whatever the messages, the size of the buffer and the way the bytes are     *)
(* spread over the reads, what at_read_result_iov takes for results are those  *)
(* the modem sent, each whole, in order and with its class, until a read ends  *)
(* inside a doubled header or a list ends across the end of the buffer.        *)
THEOREM ResultsAreSent == ReadSpec => []ResultsAsSent
<1>1. BytesInv /\ RightInv => ResultsAsSent
  <2>1. SUFFICES ASSUME BytesInv, RightInv, ~astray
                 PROVE  Len(results) <= Len(Due) /\ IsAt(results, 0, Due)
    BY DEF ResultsAsSent
  <2>2. PICK n \in 1..(Len(sent) + 1), k \in 0..14, j \in 0..1 : At(n, k, j)
    BY <2>1 DEF RightInv, InPlace
  <2>3. Len(results) <= Len(Due) /\ \A i \in 1..Len(results) : results[i] = Due[i]
    BY <2>2 DEF At
  <2>4. QED  BY <2>1, <2>3, ResultsFront
<1>2. QED  BY <1>1, BytesAlways, RightAlways, PTL

(* What is left of a message when the monitor waits and the port is empty has  *)
(* no result in it.                                                            *)
LEMMA LeftOver ==
  ASSUME BytesInv, SentOK, EndRight, Waits, Len(line) = 0,
         NEW n \in 1..Len(sent), NEW k \in 0..14, NEW j \in 0..1, At(n, k, j)
  PROVE  Len(results) = Len(Due)
<1> DEFINE m == sent[n].msg
           b == Len(Bytes(m))
           a == Len(ResultsOf(m))
           s == StartOf(n)
           f == DueFrom(n)
           w == Len(Wire)
           u == rb.used
           v == Len(sent)
<1>1. /\ m \in MessageKinds /\ b \in Nat /\ a \in Nat /\ s \in Nat /\ f \in Nat
      /\ StartOf(n + 1) = s + b /\ s + b <= w /\ DueFrom(n + 1) = f + a
  BY InMessage, Zenon
<1>2. v \in Nat /\ w \in Nat /\ u \in Nat
  BY InvType, Zenon
<1>3. n # v + 1 /\ k \in Nat
  BY <1>2
<1>4. IsPlace(m, k, j, readResult) /\ Gone = s + k /\ Len(results) = f + j
  BY <1>3 DEF At
<1>5. Right(m, k, j)
  BY <1>3, <1>4, PlaceRight
<1>6. u >= b - k
  <2> DEFINE g == Gone
  <2>1. g + u + 0 = w /\ g = s + k
    BY <1>4, RingOnWire
  <2> HIDE DEF g, u, w, s, b
  <2>2. QED  BY <1>1, <1>2, <1>3, <2>1
<1>7. ~readResult
  <2>1. readResult => u < b - k
    BY <1>5 DEF Right
  <2> HIDE DEF u, b
  <2>2. QED  BY <1>1, <1>2, <1>3, <1>6, <2>1
<1>8. u < 2
  BY <1>2, <1>7, TwoAreEnough
<1>9. b >= 3
  BY <1>1, FirstByte
<1>10. m # "clcc" \/ k # 7
  <2>1. m = "clcc" => b = 13
    BY BytesClcc
  <2> HIDE DEF u, b, m
  <2>2. QED  BY <1>2, <1>6, <1>8, <2>1
<1>11. m # "clcc2" \/ k # 12
  <2>1. m = "clcc2" => b = 18
    BY BytesClcc2
  <2> HIDE DEF u, b, m
  <2>2. QED  BY <1>2, <1>6, <1>8, <2>1
<1>12. k # 0
  <2> HIDE DEF u, b
  <2>1. QED  BY <1>1, <1>2, <1>6, <1>8, <1>9
<1>13. k = 2 /\ j = 0 /\ m \in {"echo", "more"}
  <2> HIDE DEF m
  <2>1. QED  BY <1>4, <1>7, <1>10, <1>11, <1>12 DEF IsPlace
<1>14. b = 3 /\ a = 0
  <2>1. m \in {"echo", "more"} => b = 3
    BY BytesEcho, BytesMore
  <2>2. m \in {"echo", "more"} => ResultsOf(m) = << >>
    BY DEF ResultsOf
  <2>3. QED  BY <1>13, <2>1, <2>2
<1>15. s + 3 = w
  <2> DEFINE g == Gone
  <2>1. g + u + 0 = w /\ g = s + k
    BY <1>4, RingOnWire
  <2> HIDE DEF g, u, w, s, b, m
  <2>2. QED  BY <1>1, <1>2, <1>8, <1>13, <1>14, <2>1
<1> DEFINE o == n + 1
<1>16. o = v + 1
  <2>1. ASSUME o # v + 1 PROVE FALSE
    <3>1. o \in 1..v
      BY <1>2, <2>1
    <3> DEFINE t == Len(Bytes(sent[o].msg))
    <3> HIDE DEF o
    <3>2. sent[o].msg \in MessageKinds /\ t \in Nat /\ StartOf(o) + t <= w
      BY <3>1, InMessage, Zenon
    <3>3. t >= 3
      BY <3>2, FirstByte
    <3>4. StartOf(o) = w
      BY <1>1, <1>14, <1>15 DEF o
    <3> HIDE DEF t, w
    <3>5. QED  BY <1>2, <3>2, <3>3, <3>4
  <2>2. QED  BY <2>1
<1>17. DueFrom(o) = Len(Due)
  <2>1. o \in 1..(Len(sent) + 1)
    BY <1>2, <1>16
  <2> HIDE DEF o
  <2>2. QED  BY <1>16, <2>1, StartType
<1>18. QED
  <2> HIDE DEF f, a, m
  <2>1. QED  BY <1>1, <1>4, <1>13, <1>14, <1>17

(* And none of them stays in the buffer: when the monitor waits and the port   *)
(* has nothing more, at_read_result_iov has found every result the modem sent; *)
(* until a read ends inside a doubled header or a list across the end of the   *)
(* buffer, for then the code does leave one (`astray').                        *)
THEOREM NoResultStays == ReadSpec => []NothingLeft
<1>1. BytesInv /\ RightInv => NothingLeft
  <2>1. SUFFICES ASSUME BytesInv, RightInv, pc = "wait", line = << >>, ~astray
                 PROVE  results = Due
    BY DEF NothingLeft
  <2>2. SentOK /\ InPlace /\ EndRight /\ Waits /\ Len(line) = 0
    BY <2>1 DEF RightInv
  <2>3. PICK n \in 1..(Len(sent) + 1), k \in 0..14, j \in 0..1 : At(n, k, j)
    BY <2>2 DEF InPlace
  <2>4. Len(results) <= Len(Due) /\ \A i \in 1..Len(results) : results[i] = Due[i]
    BY <2>3 DEF At
  <2>5. CASE n = Len(sent) + 1
    <3>1. k = 0 /\ j = 0
      BY <2>3, <2>5 DEF At
    <3>2. At(n, 0, 0)
      BY <2>3, <3>1
    <3>3. Len(results) = Len(Due)
      BY <2>1, <2>5, <3>2, AtEnd
    <3>4. QED  BY <2>1, <2>4, <3>3, ResultsFront
  <2>6. CASE n # Len(sent) + 1
    <3>1. Len(sent) \in Nat
      BY <2>1, InvType, Zenon
    <3>2. n \in 1..Len(sent)
      BY <2>6, <3>1
    <3>3. Len(results) = Len(Due)
      BY <2>1, <2>2, <2>3, <3>2, LeftOver
    <3>4. QED  BY <2>1, <2>4, <3>3, ResultsFront
  <2>7. QED  BY <2>5, <2>6
<1>2. QED  BY <1>1, BytesAlways, RightAlways, PTL

=============================================================================
