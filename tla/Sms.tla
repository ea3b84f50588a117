-------------------------------- MODULE Sms --------------------------------
(***************************************************************************)
(* Short messages of one device: those the dialplan, the manager and the     *)
(* command line hand to its queue, the notices of messages that came, which  *)
(* the driver reads and deletes, and the restart of a device that messages   *)
(* hold back.  The messages are the PDUs of module Pdu.                       *)
(*                                                                          *)
(* The modem, its message store and the network are external.  The network   *)
(* carries a message the driver sent back to this device, or one from         *)
(* elsewhere; it keeps it as long as it likes.                                *)
(*                                                                          *)
(* A step is what is done under one hold of pvt->lock, as in Monitor.  The     *)
(* wait and the buffers of the monitor are left out here: a result is taken    *)
(* from the tty when the driver handles it.  A device that is connected is     *)
(* initialized and registered, and has no calls.                              *)
(***************************************************************************)
EXTENDS AtQueue, Pdu

CONSTANTS
  Own,           \* the messages to be sent
  Foreign,       \* the messages that come from elsewhere
  Content,       \* number, text, validity and report request of each own message
  ForeignPdu,    \* the PDU of each message from elsewhere
  NoMessage,     \* none of them: an empty place
  Slots,         \* the places of the modem's message store
  AutoDelete,    \* the values of autodeletesms
  DisableSms,    \* disablesms
  MaxUser,       \* bound on the messages the user deletes
  Whens,         \* how urgent the restarts are
  MaxRestarts,   \* bound on the restarts asked for
  MaxLosses,     \* bound on the connections that are lost
  WriteFaults,   \* writes to the tty may fail
  EmptyReadsOk   \* the modem answers the reading of an empty place with OK

Messages == Own \cup Foreign
NoCmd    == << >>

ASSUME SmsAssumption ==
  /\ Own \cap Foreign = {} /\ NoMessage \notin Own \cup Foreign
  /\ AutoDelete \subseteq BOOLEAN /\ DisableSms \in BOOLEAN
  /\ Whens \subseteq {"gracefully", "convenient", "now"}
  /\ MaxUser \in Nat /\ MaxRestarts \in Nat /\ MaxLosses \in Nat
  /\ \A m \in Own : /\ Content[m].number.digits \in Seq(Digit)
                    /\ Content[m].text \in Seq(CodePoint)

VARIABLES
  connected,   \* pvt->connected, initialized and gsm_registered
  q,           \* pvt->at_queue
  arg,         \* what each queued task is about: a message or a place
  incoming,    \* pvt->incoming_sms; outgoing_sms is never set
  want,        \* a restart asked for: its pvt->restart_time, or "stay"
  line,        \* the command the modem runs
  tty,         \* its results not yet handled
  store,       \* the modem's messages
  net,         \* the messages under way in the network
  reports,     \* history: what became of each message to be sent
  accepted,    \* history: the messages the network took
  heard,       \* history: what was passed on of each message that came
  erased,      \* history: the messages deleted by the user's own command
  plain,       \* history: +CMGR was answered by OK in this connection
  counts       \* the user's commands, restarts and losses so far

vars == << connected, q, arg, incoming, want, line, tty, store, net,
           reports, accepted, heard, erased, plain, counts >>

modemVars   == << line, store, net, accepted, erased >>
historyVars == << reports, heard, plain, counts >>

Want   == {"stay", "gracefully", "convenient", "now"}
Report == {"queued", "Sent", "NotSent", "refused", "cut"}
Counts == [user : 0..MaxUser, restarts : 0..MaxRestarts, losses : 0..MaxLosses]

Reading(kind) == kind \in {"retrieve", "read"}

(* Type correctness: a task to send is about a message, the others about a    *)
(* place, and so is the command the modem runs.                               *)
TypeOK ==
  /\ connected \in BOOLEAN /\ incoming \in BOOLEAN /\ plain \in BOOLEAN
  /\ q \in Queue
  /\ arg \in [Queued(q) -> Own \cup Slots]
  /\ \A i \in DOMAIN q.tasks :
       arg[q.tasks[i].id] \in IF q.tasks[i].kind = "sms" THEN Own ELSE Slots
  /\ want \in Want
  /\ line \in {NoCmd} \cup [cmd : Cmd, arg : Own \cup Slots]
  /\ tty \in Seq([res : {"OK", "ERROR", "PROMPT"}]
                 \cup [res : {"CMGR"}, msg : Messages] \cup [res : {"CMTI"}, slot : Slots])
  /\ store \in [Slots -> Messages \cup {NoMessage}]
  /\ net \subseteq Messages /\ accepted \subseteq Own /\ erased \subseteq Messages
  /\ reports \in [Own -> Seq(Report)]
  /\ DOMAIN heard = Messages
  /\ counts \in Counts

Init ==
  /\ connected = TRUE
  /\ q = EmptyQueue /\ arg = << >>
  /\ incoming = FALSE /\ want = "stay"
  /\ line = NoCmd /\ tty = << >>
  /\ store = [s \in Slots |-> NoMessage]
  /\ net = Foreign
  /\ reports = [m \in Own |-> << >>] /\ accepted = {}
  /\ heard = [m \in Messages |-> << >>] /\ erased = {}
  /\ plain = FALSE
  /\ counts = [user |-> 0, restarts |-> 0, losses |-> 0]

-----------------------------------------------------------------------------
(* The messages as PDUs: what the network makes of one the driver sent.          *)
Submitted(m) ==
  PduBuild(Content[m].number, Content[m].text, Content[m].minutes, Content[m].report)

PduOf == [m \in Messages |-> IF m \in Own THEN Deliver(Submitted(m)) ELSE ForeignPdu[m]]

(* What at_response_cmgr passes on of a message, if it can read it: the manager's *)
(* events, and a local channel with its text in SMS and SMS_BASE64.               *)
PassedOn(p) == [number |-> Parsed(p).number, sms |-> CString(Parsed(p).text),
                base64 |-> Parsed(p).text]

ReadableOnes == { m \in Messages : Readable(PduOf[m]) }

Passed == [m \in ReadableOnes |-> PassedOn(PduOf[m])]

-----------------------------------------------------------------------------
(* pvt_time4restate, without calls. *)
Time4Restate(w, inc) == w # "stay" /\ (w = "now" \/ ~inc)

(* pvt_try_restate *)
TryRestate(w, inc) == IF Time4Restate(w, inc) THEN "now" ELSE w

(* pvt_enabled *)
Enabled == want \in {"stay", "convenient"}

WriteOutcome == IF WriteFaults THEN BOOLEAN ELSE {TRUE}

(* Mutant: a task is freed while it is queued. *)
UnusedIdsAll == TaskIds

UnusedIds == TaskIds \ Queued(q)
NewId     == CHOOSE t \in UnusedIds : TRUE

(* The subjects of the tasks with those of a new one. *)
With(id, subject) ==
  [t \in DOMAIN arg \cup {id} |-> IF t = id THEN subject ELSE arg[t]]

AboutHead(x, a) == [cmd |-> HeadCmd(x), arg |-> a[Head(x.tasks).id]]

(* at_queue_run, on the queue x with the tasks' subjects a.                    *)
Run(x, a, ok) ==
  /\ q' = AtQueueRun(x, ok)
  /\ arg' = [t \in Queued(q') |-> a[t]]
  /\ line' = IF MustWrite(x) /\ ok THEN AboutHead(x, a) ELSE line

(* The messages whose tasks are queued. *)
Sending(x) == { arg[x.tasks[i].id] : i \in { j \in DOMAIN x.tasks : x.tasks[j].kind = "sms" } }

(* The reports when the queue x is flushed: its tasks go without a word.        *)
Cut(rep, x) ==
  [m \in Own |-> IF m \in Sending(x) THEN Append(rep[m], "cut") ELSE rep[m]]

(* disconnect_dongle, for the queue x *)
Disconnect(x) ==
  /\ connected' = FALSE /\ incoming' = FALSE
  /\ q' = AtQueueFlush(x) /\ arg' = << >>
  /\ line' = NoCmd /\ tty' = << >>

-----------------------------------------------------------------------------
(* send_sms, send2 and at_enque_sms: the message is queued, or the caller is    *)
(* told that it is not.                                                        *)
SendSms(m) ==
  /\ connected /\ reports[m] = << >>
  /\ IF ~Sendable(Content[m].number, Content[m].text)
     THEN /\ reports' = [reports EXCEPT ![m] = << "refused" >>]
          /\ UNCHANGED << q, arg, line >>
     ELSE \E ok \in WriteOutcome :
            LET x == AtQueueAdd(q, NewId, "sms")
            IN  /\ UnusedIds # {}
                /\ Run(x, With(NewId, m), ok)
                /\ reports' = [reports EXCEPT
                                 ![m] = << IF RunFails(x, ok) THEN "refused" ELSE "queued" >>]
  /\ UNCHANGED << connected, incoming, want, tty, store, net, accepted, heard, erased,
                  plain, counts >>

(* "dongle cmd <device> AT+CMGD=s": the user deletes a message.                 *)
UserDeletes(s) ==
  /\ connected /\ counts.user < MaxUser /\ UnusedIds # {}
  /\ \E ok \in WriteOutcome : Run(AtQueueAdd(q, NewId, "user"), With(NewId, s), ok)
  /\ counts' = [counts EXCEPT !.user = @ + 1]
  /\ UNCHANGED << connected, incoming, want, tty, store, net, reports, accepted, heard,
                  erased, plain >>

(* "dongle restart <when> <device>": pvt_try_restate looks at once.             *)
Restart(when) ==
  /\ counts.restarts < MaxRestarts
  /\ want' = TryRestate(when, incoming)
  /\ counts' = [counts EXCEPT !.restarts = @ + 1]
  /\ UNCHANGED << connected, q, arg, incoming, tty, reports, heard, plain >> /\ UNCHANGED modemVars

(* A round of discovery stops a device whose restart is due, and starts it; it    *)
(* starts one that was lost, unless that one had put a restart off.              *)
DiscoveryStops ==
  /\ connected /\ want = "now"
  /\ Disconnect(q)
  /\ reports' = Cut(reports, q) /\ plain' = FALSE
  /\ UNCHANGED << want, store, net, accepted, heard, erased, counts >>

Connect ==
  /\ ~connected /\ want \in {"stay", "now"}
  /\ connected' = TRUE /\ want' = "stay"
  /\ UNCHANGED << q, arg, incoming, tty, reports, heard, plain, counts >> /\ UNCHANGED modemVars

(* The monitor ends: no answer in time, or the port is lost.                    *)
Lose ==
  /\ connected /\ counts.losses < MaxLosses
  /\ Disconnect(q)
  /\ reports' = Cut(reports, q) /\ plain' = FALSE
  /\ counts' = [counts EXCEPT !.losses = @ + 1]
  /\ UNCHANGED << want, store, net, accepted, heard, erased >>

-----------------------------------------------------------------------------
(* The monitor handles a result, then runs the queue; where that fails it ends. *)
Taken(res) == connected /\ tty # << >> /\ Head(tty).res = res

HeadExpects(S) == NonEmpty(q) /\ Expect(HeadCmd(q)) \in S
HeadIs(S)      == NonEmpty(q) /\ HeadCmd(q) \in S
HeadAbout      == arg[Head(q.tasks).id]

(* The queue is y afterwards (x, computed once), its tasks' subjects are a,      *)
(* incoming_sms is inc and the reports are rep; look: the handler calls          *)
(* pvt_try_restate.                                                              *)
Finish(y, a, inc, rep, look) ==
  /\ want' = IF look THEN TryRestate(want, inc) ELSE want
  /\ \E ok \in WriteOutcome, x \in {y} :
       IF RunFails(x, ok)
       THEN Disconnect(AtQueueRun(x, ok)) /\ reports' = Cut(rep, x)
       ELSE /\ Run(x, a, ok)
            /\ incoming' = inc /\ reports' = rep
            /\ tty' = Tail(tty) /\ UNCHANGED connected
  /\ UNCHANGED << store, net, accepted, erased, counts >>

(* at_response_ok: a plain OK takes a command that expects OK or +CMGR, the      *)
(* latter without its restart being looked for.                                  *)
HandleOk ==
  /\ Taken("OK")
  /\ LET taken == HeadExpects({"OK", "CMGR"})
         sent  == HeadIs({"SMSTEXT"})
     IN  /\ Finish(IF taken THEN AtQueueRemoveCmd(q, "OK") ELSE q, arg, incoming,
                   IF sent THEN [reports EXCEPT ![HeadAbout] = Append(@, "Sent")] ELSE reports,
                   sent)
         /\ plain' = (connected' /\ (plain \/ HeadIs({"CMGR"})))
  /\ UNCHANGED heard

(* at_response_error: sending and reading end, and so does what a message held back. *)
HandleError ==
  /\ Taken("ERROR")
  /\ LET sending == HeadIs({"CMGS", "SMSTEXT"})
         reading == HeadIs({"CMGR", "CMGD"})
     IN  Finish(AtQueueRemoveCmd(q, "ERROR"), arg, incoming /\ ~reading,
                IF sending THEN [reports EXCEPT ![HeadAbout] = Append(@, "NotSent")] ELSE reports,
                sending \/ reading)
  /\ plain' = (connected' /\ plain)
  /\ UNCHANGED heard

(* Mutant: the sender is told before the text is sent. *)
HandlePromptTells ==
  /\ Taken("PROMPT")
  /\ Finish(AtQueueRemoveCmd(q, "PROMPT"), arg, incoming,
            [reports EXCEPT ![HeadAbout] = Append(@, "Sent")], FALSE)
  /\ plain' = (connected' /\ plain)
  /\ UNCHANGED heard

(* at_response_sms_prompt *)
HandlePrompt ==
  /\ Taken("PROMPT")
  /\ Finish(IF HeadExpects({"PROMPT"}) THEN AtQueueRemoveCmd(q, "PROMPT") ELSE q,
            arg, incoming, reports, FALSE)
  /\ plain' = (connected' /\ plain)
  /\ UNCHANGED heard

(* Mutant: a message that was read leaves incoming_sms set. *)
HandleCmgrKeepsFlag ==
  /\ Taken("CMGR")
  /\ LET m     == Head(tty).msg
         taken == HeadExpects({"CMGR"}) \/ HeadIs({"USER"})
     IN  /\ Finish(IF taken THEN AtQueueRemoveCmd(q, "CMGR") ELSE q, arg, incoming, reports, taken)
         /\ heard' = IF taken /\ m \in ReadableOnes
                     THEN [heard EXCEPT ![m] = Append(@, Passed[m])] ELSE heard
  /\ plain' = (connected' /\ plain)

(* at_response_cmgr: the command is done and the flag reset before the message    *)
(* is looked at; one that cannot be read is dropped.                              *)
HandleCmgr ==
  /\ Taken("CMGR")
  /\ LET m     == Head(tty).msg
         taken == HeadExpects({"CMGR"}) \/ HeadIs({"USER"})
     IN  /\ Finish(IF taken THEN AtQueueRemoveCmd(q, "CMGR") ELSE q,
                   arg, incoming /\ ~taken, reports, taken)
         /\ heard' = IF taken /\ m \in ReadableOnes
                     THEN [heard EXCEPT ![m] = Append(@, Passed[m])] ELSE heard
  /\ plain' = (connected' /\ plain)

(* at_response_cmti: reading is queued, with deleting if so configured, unless a  *)
(* restart is to come.                                                            *)
HandleCmti ==
  /\ Taken("CMTI")
  /\ IF DisableSms \/ ~Enabled
     THEN Finish(q, arg, incoming, reports, FALSE)
     ELSE /\ UnusedIds # {}
          /\ \E delete \in AutoDelete :
               Finish(AtQueueAdd(q, NewId, IF delete THEN "retrieve" ELSE "read"),
                      With(NewId, Head(tty).slot), TRUE, reports, FALSE)
  /\ plain' = (connected' /\ plain)
  /\ UNCHANGED heard

Monitor == HandleOk \/ HandleError \/ HandlePrompt \/ HandleCmgr \/ HandleCmti

-----------------------------------------------------------------------------
(* The modem answers the command it runs; it may refuse any.                      *)
Runs(S) == line # NoCmd /\ line.cmd \in S

Answer(result) == line' = NoCmd /\ tty' = Append(tty, result)

driverVars == << connected, q, arg, incoming, want >>

ModemPrompts ==
  /\ Runs({"CMGS"})
  /\ Answer([res |-> "PROMPT"])
  /\ UNCHANGED << store, net, accepted, erased >>

ModemSubmits ==
  /\ Runs({"SMSTEXT"})
  /\ Answer([res |-> "OK"])
  /\ accepted' = accepted \cup {line.arg} /\ net' = net \cup {line.arg}
  /\ UNCHANGED << store, erased >>

ModemReads ==
  /\ Runs({"CMGR"})
  /\ LET m == store[line.arg]
     IN  IF m # NoMessage THEN Answer([res |-> "CMGR", msg |-> m])
         ELSE EmptyReadsOk /\ Answer([res |-> "OK"])
  /\ UNCHANGED << store, net, accepted, erased >>

ModemDeletes ==
  /\ Runs({"CMGD", "USER"})
  /\ Answer([res |-> "OK"])
  /\ store' = [store EXCEPT ![line.arg] = NoMessage]
  /\ erased' = IF line.cmd = "USER" THEN erased \cup ({store[line.arg]} \ {NoMessage}) ELSE erased
  /\ UNCHANGED << net, accepted >>

ModemRefuses ==
  /\ line # NoCmd
  /\ Answer([res |-> "ERROR"])
  /\ UNCHANGED << store, net, accepted, erased >>

Modem ==
  /\ ModemPrompts \/ ModemSubmits \/ ModemReads \/ ModemDeletes \/ ModemRefuses
  /\ UNCHANGED driverVars /\ UNCHANGED historyVars

(* A message comes; the driver is told if it listens.                             *)
Arrive(m, s) ==
  /\ m \in net /\ store[s] = NoMessage
  /\ store' = [store EXCEPT ![s] = m] /\ net' = net \ {m}
  /\ tty' = IF connected THEN Append(tty, [res |-> "CMTI", slot |-> s]) ELSE tty
  /\ UNCHANGED << line, accepted, erased >>
  /\ UNCHANGED driverVars /\ UNCHANGED historyVars

Next ==
  \/ \E m \in Own : SendSms(m)
  \/ \E s \in Slots : UserDeletes(s)
  \/ \E when \in Whens : Restart(when)
  \/ DiscoveryStops \/ Connect \/ Lose
  \/ Monitor \/ Modem
  \/ \E m \in Messages, s \in Slots : Arrive(m, s)

Spec == Init /\ [][Next]_vars

(* The device goes on while the monitor has a result, the modem a command, or       *)
(* discovery something to do.                                                       *)
GoesOn == Monitor \/ Modem \/ DiscoveryStops \/ Connect

FairSpec == Spec /\ WF_vars(GoesOn)

-----------------------------------------------------------------------------
(* What the sender is told is so: a message is either queued or told of once; one  *)
(* reported sent was taken by the network, one reported not sent or refused to     *)
(* the caller was not, even where the queue could not be written.                  *)
Told(m, r) == reports[m] # << >> /\ reports[m][Len(reports[m])] = r

ReportsTrue ==
  \A m \in Own :
    /\ m \in Sending(q) <=> Told(m, "queued")
    /\ Len(reports[m]) <= 2
    /\ Told(m, "Sent") => m \in accepted
    /\ Told(m, "NotSent") \/ Told(m, "refused") => m \notin accepted

(* A message is passed on at most once, unless the user deletes messages too: then  *)
(* a place may be read for a message that is gone and again for the one after it.    *)
(* One sent from here has the number and the text it was sent with: the number       *)
(* international, its letters in upper case, after the text in base64 at most a zero. *)
AsSent(h, c) ==
  /\ h.number.plus /\ h.number.digits = [i \in DOMAIN c.number.digits |->
                                            Code2Digit(Digit2Code(c.number.digits[i]))]
  /\ h.sms = c.text
  /\ h.base64 \in {c.text, Append(c.text, 0)}

ArrivesAsSent ==
  /\ counts.user = 0 => \A m \in Messages : Len(heard[m]) <= 1
  /\ \A m \in Own : \A i \in DOMAIN heard[m] : m \in accepted /\ AsSent(heard[m][i], Content[m])

(* The driver deletes no message it could read and has not passed on, though a      *)
(* place may have been emptied and filled again since it was told of it.            *)
NothingDeletedUnread ==
  \A m \in Foreign \cup accepted :
    \/ m \in net \/ \E s \in Slots : store[s] = m
    \/ heard[m] # << >> \/ m \in erased
    \/ m \notin ReadableOnes

(* incoming_sms is set for a reason: a message is still to be read, unless the       *)
(* reading of one was answered by a plain OK, which leaves the flag set.             *)
FlagHasReason ==
  incoming =>
    plain \/ \E i \in DOMAIN q.tasks : Reading(q.tasks[i].kind) /\ q.tasks[i].idx = 1

(* A restart that waits for messages comes, unless such an OK came, or the             *)
(* connection was lost while it waited: nobody makes it due after that.               *)
Forgotten    == ~connected /\ want \notin {"stay", "now"}
RestartComes == want # "stay" ~> (want = "stay" \/ plain \/ Forgotten)
=============================================================================
