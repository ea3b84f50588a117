------------------------------ MODULE Monitor ------------------------------
(***************************************************************************)
(* One device's command line: its queue, the monitor thread that reads the  *)
(* modem's results and drives the queue (do_monitor_phone and the part of   *)
(* at_response() that touches the queue), the other threads that insert      *)
(* tasks, and the modem at the other end of the tty, which is external.      *)
(*                                                                          *)
(* Everything between an ast_mutex_lock(&pvt->lock) and its unlock is one    *)
(* step; the monitor holds no lock while it waits in at_wait, nor between    *)
(* two results of one read, and other threads step in there.                 *)
(***************************************************************************)
EXTENDS AtQueue

CONSTANTS
  Kinds,         \* the tasks other threads insert
  UrcKinds,      \* the tasks an unsolicited result makes the monitor insert
  MaxTasks,      \* bound on the queue for these insertions
  MaxUrcs,       \* bound on the unsolicited results of one connection
  TtyCap,        \* bound on the results waiting to be read
  WriteFaults,   \* writes to the tty may fail
  PortFaults,    \* the tty may be lost (port_status, at_read)
  Chatty,        \* unsolicited results are not counted against MaxUrcs
  ModemForgets   \* closing the tty makes the modem abandon what it runs

ASSUME KindsAssumption == Kinds \subseteq Kind /\ UrcKinds \subseteq Kind

VARIABLES
  q,            \* pvt->at_queue with its counters
  initialized,  \* pvt->initialized
  expired,      \* the written head command has outlived its timeout
  mpc,          \* where the monitor thread is
  armed,        \* at_wait was given the head command's remaining time
  inbuf,        \* the results of the last at_read not yet handled
  tty,          \* results the modem sent that were not yet read
  modem,        \* what the modem runs, and whether it takes commands or text
  urcs          \* unsolicited results of this connection

vars == << q, initialized, expired, mpc, armed, inbuf, tty, modem, urcs >>

MonitorPc == { "off", "start", "top", "wait", "timedout", "handle" }

(* An answer is for the command << task, index >>; a URC is for none. *)
CmdRef  == TaskIds \X (Nat \ {0})
NoRef   == << >>
Message == [res : Result, for : CmdRef] \cup [res : {"URC"}, for : {NoRef}]

HeadRef(x) == << Head(x.tasks).id, Head(x.tasks).idx >>

(* The commands the modem has taken and not answered, and how it reads.      *)
ModemState ==
  [running : Seq([for : CmdRef, cmd : Cmd]), mode : {"command", "text"}]

IdleModem == [running |-> << >>, mode |-> "command"]

TypeOK ==
  /\ q \in Queue
  /\ initialized \in BOOLEAN /\ expired \in BOOLEAN /\ armed \in BOOLEAN
  /\ mpc \in MonitorPc
  /\ inbuf \in Seq(Message) /\ tty \in Seq(Message)
  /\ modem \in ModemState
  /\ urcs \in Nat

Init ==
  /\ q = EmptyQueue /\ initialized = FALSE /\ expired = FALSE
  /\ mpc = "off" /\ armed = FALSE
  /\ inbuf = << >> /\ tty = << >> /\ modem = IdleModem
  /\ urcs = 0

-----------------------------------------------------------------------------
(* A write puts the head command of x on the modem's line.                   *)
Written(x, m) ==
  [m EXCEPT !.running = Append(@, [for |-> HeadRef(x), cmd |-> HeadCmd(x)])]

AfterWrite(x, ok, m) == IF MustWrite(x) /\ ok THEN Written(x, m) ELSE m

(* The outcomes a write can have.  *)
WriteOutcome == IF WriteFaults THEN BOOLEAN ELSE {TRUE}

(* The answers in a buffer of results, by position. *)
Final(s) == { i \in DOMAIN s : s[i].res # "URC" }

(* The identity is not that of a task queued or of an answer to come.  *)
Fresh(id) ==
  /\ id \notin Queued(q)
  /\ \A i \in DOMAIN modem.running : modem.running[i].for[1] # id
  /\ \A i \in Final(tty)   : tty[i].for[1] # id
  /\ \A i \in Final(inbuf) : inbuf[i].for[1] # id

(* The queue changes from q to x, with the modem as m; a head command that   *)
(* is still the one that was written keeps its deadline.                     *)
SetQueue(x, m) ==
  /\ q' = x /\ modem' = m
  /\ expired' = (expired /\ HeadSent(x) /\ HeadSent(q) /\ HeadRef(x) = HeadRef(q))

(* disconnect_dongle, with the monitor thread ending.  *)
Disconnect ==
  /\ q' = AtQueueFlush(q)
  /\ mpc' = "off" /\ initialized' = FALSE
  /\ expired' = FALSE /\ armed' = FALSE
  /\ inbuf' = << >> /\ tty' = << >> /\ urcs' = 0
  /\ modem' = IF ModemForgets THEN IdleModem ELSE modem

-----------------------------------------------------------------------------
(* The monitor thread.                                                       *)

(* pvt_start opens the ttys and starts the thread. *)
Connect ==
  /\ mpc = "off"
  /\ mpc' = "start"
  /\ UNCHANGED << q, initialized, expired, armed, inbuf, tty, modem, urcs >>

(* Results already in the tty are dropped, then initialization is queued. *)
MonitorStart ==
  /\ mpc = "start"
  /\ \E id \in TaskIds, ok \in WriteOutcome :
       /\ Fresh(id)
       /\ LET x == AtQueueAdd(q, id, "init")
          IN  IF RunFails(x, ok) THEN Disconnect
              ELSE /\ SetQueue(AtQueueRun(x, ok), AfterWrite(x, ok, modem))
                   /\ mpc' = "top" /\ tty' = << >>
                   /\ UNCHANGED << initialized, armed, inbuf, urcs >>

(* The top of the loop: the port is checked and the wait is timed by the     *)
(* head command, if it is written and has time left, else by pvt->timeout.   *)
MonitorTop ==
  /\ mpc = "top"
  /\ \/ PortFaults /\ Disconnect
     \/ /\ mpc' = "wait" /\ armed' = (HeadSent(q) /\ ~expired)
        /\ UNCHANGED << q, initialized, expired, inbuf, tty, modem, urcs >>

(* at_wait sees data; at_read takes all of it, without the lock. *)
MonitorRead ==
  /\ mpc = "wait" /\ tty # << >>
  /\ \/ PortFaults /\ Disconnect
     \/ /\ mpc' = "handle" /\ inbuf' = tty /\ tty' = << >>
        /\ UNCHANGED << q, initialized, expired, armed, modem, urcs >>

(* at_wait returns without data: the time it was given has passed. *)
MonitorWaitOver ==
  /\ mpc = "wait" /\ tty = << >>
  /\ (armed => expired)
  /\ mpc' = "timedout"
  /\ UNCHANGED << q, initialized, expired, armed, inbuf, tty, modem, urcs >>

(* Mutant: only a written command that got no answer is a dead device. *)
TimedOutIfSent ==
  /\ mpc = "timedout" /\ NonEmpty(q)
  /\ IF HeadSent(q) THEN Disconnect
     ELSE /\ mpc' = "top"
          /\ UNCHANGED << q, initialized, expired, armed, inbuf, tty, modem, urcs >>

(* Then, with the lock again: a queue that has a head means a dead device,   *)
(* an empty one is the time to ping it.                                      *)
MonitorTimedOut ==
  /\ mpc = "timedout" /\ NonEmpty(q) /\ Disconnect

MonitorPing ==
  /\ mpc = "timedout" /\ ~NonEmpty(q)
  /\ \E id \in TaskIds, ok \in WriteOutcome :
       /\ Fresh(id)
       /\ LET x == AtQueueAdd(q, id, "ping")
          IN  SetQueue(AtQueueRun(x, ok), AfterWrite(x, ok, modem))
       /\ mpc' = "top"
       /\ UNCHANGED << initialized, armed, inbuf, tty, urcs >>

(* After at_response the queue is run; both are under one lock.  x, m and    *)
(* init are the queue, the modem and the flag at_response left.              *)
Finish(x, m, init, ok) ==
  IF RunFails(x, ok) THEN Disconnect
  ELSE /\ initialized' = init
       /\ SetQueue(AtQueueRun(x, ok), AfterWrite(x, ok, m))
       /\ inbuf' = Tail(inbuf)
       /\ mpc' = IF Tail(inbuf) = << >> THEN "top" ELSE "handle"
       /\ UNCHANGED << armed, tty, urcs >>

Result1 == Head(inbuf).res

(* at_response_ok: only a command that expects OK, or +CMGR, takes it.       *)
HandleOk ==
  /\ mpc = "handle" /\ Result1 = "OK"
  /\ LET taken == NonEmpty(q) /\ Expect(HeadCmd(q)) \in {"OK", "CMGR"}
         init  == initialized \/ (taken /\ HeadCmd(q) \in {"CNMI", "DDSETEX"})
     IN  \E ok \in WriteOutcome :
           Finish(IF taken THEN AtQueueRemoveCmd(q, "OK") ELSE q, modem, init, ok)

(* at_response_error: the device is lost, or initialization goes on without  *)
(* voice, or the command is just done.                                       *)
ErrorIsFatal ==
  /\ NonEmpty(q)
  /\ \/ HeadCmd(q) \in Critical
     \/ HeadCmd(q) \in SmsSetup /\ ~initialized

HandleError ==
  /\ mpc = "handle" /\ Result1 = "ERROR"
  /\ \/ ErrorIsFatal /\ Disconnect
     \/ /\ ~ErrorIsFatal
        /\ \E ok \in WriteOutcome :
             IF NonEmpty(q) /\ HeadCmd(q) = "CVOICE" /\ ~initialized
             THEN \E id \in TaskIds :
                    /\ Fresh(id)
                    /\ LET x == AtQueueAdd(q, id, "noVoice")
                       IN  Finish(AtQueueRemoveCmd(x, "ERROR"), modem, initialized, ok)
             ELSE Finish(AtQueueRemoveCmd(q, "ERROR"), modem, initialized, ok)

(* at_response_sms_prompt *)
HandlePrompt ==
  /\ mpc = "handle" /\ Result1 = "PROMPT"
  /\ LET taken == NonEmpty(q) /\ Expect(HeadCmd(q)) = "PROMPT"
     IN  \E ok \in WriteOutcome :
           Finish(IF taken THEN AtQueueRemoveCmd(q, "PROMPT") ELSE q, modem, initialized, ok)

(* at_response_cmgr *)
HandleCmgr ==
  /\ mpc = "handle" /\ Result1 = "CMGR"
  /\ LET taken == NonEmpty(q) /\ (Expect(HeadCmd(q)) = "CMGR" \/ HeadCmd(q) = "USER")
     IN  \E ok \in WriteOutcome :
           Finish(IF taken THEN AtQueueRemoveCmd(q, "CMGR") ELSE q, modem, initialized, ok)

(* Mutant: BUSY is taken as the answer of the head command. *)
UrcEndsCommand ==
  /\ mpc = "handle" /\ Result1 = "URC"
  /\ \E ok \in WriteOutcome :
       Finish(AtQueueRemoveCmd(q, "ERROR"), modem, initialized, ok)

(* A result nobody asked for: it is handled and forgotten, or makes the      *)
(* monitor insert a task.  A failed insertion loses the device only for an   *)
(* SMS to be read.                                                           *)
HandleUrc ==
  /\ mpc = "handle" /\ Result1 = "URC"
  /\ \/ \E ok \in WriteOutcome : Finish(q, modem, initialized, ok)
     \/ \E k \in UrcKinds, id \in TaskIds, ok1, ok2 \in WriteOutcome :
          /\ Fresh(id) /\ Len(q.tasks) < MaxTasks
          /\ LET x == AtQueueAdd(q, id, k)
             IN  IF k = "retrieve" /\ RunFails(x, ok1) THEN Disconnect
                 ELSE Finish(AtQueueRun(x, ok1), AfterWrite(x, ok1, modem),
                             initialized, ok2)

-----------------------------------------------------------------------------
(* Another thread inserts a task; it holds the device's lock meanwhile.      *)
(* Before the device is initialized only a reset or a user command gets in.  *)
Insert(k) ==
  /\ mpc # "off"
  /\ initialized \/ k \in {"reset", "user"}
  /\ \E id \in TaskIds, ok \in WriteOutcome :
       /\ Fresh(id) /\ Len(q.tasks) < MaxTasks
       /\ LET x == AtQueueAdd(q, id, k)
          IN  SetQueue(AtQueueRun(x, ok), AfterWrite(x, ok, modem))
  /\ UNCHANGED << mpc, initialized, armed, inbuf, tty, urcs >>

(* The time of the written head command runs out.  *)
Expire ==
  /\ HeadSent(q) /\ ~expired
  /\ expired' = TRUE
  /\ UNCHANGED << q, initialized, mpc, armed, inbuf, tty, modem, urcs >>

-----------------------------------------------------------------------------
(* The modem: it answers one command after the other, each with one final    *)
(* result.  After the SMS prompt it takes what comes as the text.            *)
Answers(c) ==
  CASE c = "CMGS" -> {"PROMPT", "ERROR"}
    [] c = "CMGR" -> {"CMGR", "OK", "ERROR"}
    [] c = "USER" -> {"CMGR", "OK", "ERROR"}
    [] OTHER      -> {"OK", "ERROR"}

ModemAnswers ==
  /\ modem.running # << >> /\ Len(tty) < TtyCap
  /\ LET c == Head(modem.running)
     IN  \E r \in Answers(c.cmd) :
           /\ modem' = [running |-> Tail(modem.running),
                        mode    |-> IF r = "PROMPT" THEN "text" ELSE "command"]
           /\ tty' = IF mpc = "off" THEN tty ELSE Append(tty, [res |-> r, for |-> c.for])
  /\ UNCHANGED << q, initialized, expired, mpc, armed, inbuf, urcs >>

ModemTells ==
  /\ mpc # "off" /\ Len(tty) < TtyCap
  /\ urcs < MaxUrcs
  /\ urcs' = IF Chatty THEN urcs ELSE urcs + 1
  /\ tty' = Append(tty, [res |-> "URC", for |-> NoRef])
  /\ UNCHANGED << q, initialized, expired, mpc, armed, inbuf, modem >>

-----------------------------------------------------------------------------
MonitorNext ==
  \/ MonitorStart \/ MonitorTop \/ MonitorRead \/ MonitorWaitOver
  \/ MonitorTimedOut \/ MonitorPing
  \/ HandleOk \/ HandleError \/ HandlePrompt \/ HandleCmgr \/ HandleUrc

Next ==
  \/ Connect \/ MonitorNext
  \/ \E k \in Kinds : Insert(k)
  \/ Expire
  \/ ModemAnswers \/ ModemTells

Spec == Init /\ [][Next]_vars

(* The monitor thread is scheduled and time passes; the modem need not       *)
(* answer, nobody need insert anything, and nothing need reconnect.          *)
Fairness == WF_vars(MonitorNext) /\ WF_vars(Expire)

FairSpec == Spec /\ Fairness

-----------------------------------------------------------------------------
(* The counters the driver shows and that a flush must bring to zero agree   *)
(* with the list: at_tasks with its tasks, at_cmds with the commands left.   *)
CountersMatch ==
  /\ q.ntasks = Len(q.tasks)
  /\ q.ncmds  = CmdsLeft(q.tasks)

(* A task that has begun (a command of it is written or done) stays at the   *)
(* head until it is over: a priority insertion goes behind it, never between *)
(* a command and its answer, nor between two commands of one script.         *)
BegunIsHead ==
  \A i \in 2..Len(q.tasks) : q.tasks[i].idx = 1 /\ ~q.tasks[i].sent

(* What the modem runs or has answered, unhandled, is one command, and that  *)
(* is the current one of the head task: an answer is never taken for that    *)
(* of another command.                                                       *)
AnswersInStep ==
  /\ \A i \in DOMAIN modem.running : HeadSent(q) /\ modem.running[i].for = HeadRef(q)
  /\ \A i \in Final(tty)   : HeadSent(q) /\ tty[i].for = HeadRef(q)
  /\ \A i \in Final(inbuf) : HeadSent(q) /\ inbuf[i].for = HeadRef(q)
  /\ Len(modem.running) <= 1
  /\ modem.running # << >> => Final(tty) = {} /\ Final(inbuf) = {}
  /\ Final(tty) # {} => Final(inbuf) = {}
  /\ \A i, j \in Final(tty) : i = j
  /\ \A i, j \in Final(inbuf) : i = j

(* The text of an SMS is written exactly when the modem is at its prompt: a  *)
(* modem in text mode has the text as the next thing coming, and the text    *)
(* never reaches a modem that would read it as a command.                    *)
TextMeetsPrompt ==
  /\ modem.mode = "text" => NonEmpty(q) /\ HeadCmd(q) \in {"CMGS", "SMSTEXT"}
  /\ \A i \in DOMAIN modem.running :
       modem.running[i].cmd = "SMSTEXT" <=> modem.mode = "text"

(* The detailed line implements the serial one: where the begun task is      *)
(* comes from the queue, that the line is busy from the modem.  The answer   *)
(* to a command that was written before MonitorStart may be lost.            *)
Begun == NonEmpty(q) /\ (Head(q.tasks).idx > 1 \/ Head(q.tasks).sent)

Outstanding == modem.running # << >> \/ Final(tty) # {} \/ Final(inbuf) # {}

Line == INSTANCE SerialLine WITH
          open <- Queued(q),
          cur  <- IF Begun THEN HeadRef(q) ELSE NoRef,
          line <- IF Outstanding THEN "busy" ELSE IF HeadSent(q) THEN "lost" ELSE "free"

SerialService == Line!Spec

(* A written command leaves the head of the queue only with its own answer   *)
(* in the monitor's hands, or with the connection.                           *)
NothingDroppedUnanswered ==
  [][ HeadSent(q) /\ ~(HeadSent(q') /\ HeadRef(q') = HeadRef(q))
      => \/ mpc' = "off"
         \/ /\ mpc = "handle"
            /\ Head(inbuf).res # "URC"
            /\ Head(inbuf).for = HeadRef(q) ]_vars

(* Whatever is at the head of the queue, written or not, does not stay there *)
(* for ever: it is answered, given up, or lost with the connection.          *)
HeadMovesOn ==
  \A id \in TaskIds : \A i \in 1..4 :
    (NonEmpty(q) /\ HeadRef(q) = << id, i >>) ~>
      ~(NonEmpty(q) /\ HeadRef(q) = << id, i >>)
=============================================================================
