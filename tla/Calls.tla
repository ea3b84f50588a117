------------------------------- MODULE Calls -------------------------------
(***************************************************************************)
(* The calls of one connected, initialized device: its list of cpvts, the    *)
(* Asterisk channels in front of them, the AT commands that carry out what    *)
(* the channels ask, and the modem's own calls behind, which the driver       *)
(* follows through ^ORIG, ^CONN, ^CEND, RING, +CCWA and +CLCC.                *)
(*                                                                          *)
(* Every step is what one thread does while it holds pvt->lock.  Writes       *)
(* succeed and answers come in time here: Monitor has what happens when       *)
(* they do not.  The audio side of a call is left out.                        *)
(***************************************************************************)
EXTENDS AtQueue, CallModem

CONSTANTS
  Cpvt,          \* the cpvt structures
  MaxCallIdx,    \* MAX_CALL_IDX
  Opts,          \* the options dial strings can have
  DialKinds,     \* {"dial"} with a CLIR setting before ATD, {"dialPlain"} without
  MaxTasks,      \* bound: no one but the monitor inserts behind that many tasks
  TtyCap,        \* bound: nothing new happens behind that many unread results
  ModemRefuses,  \* the modem may refuse a command it could carry out
  PbxFaults,     \* ast_pbx_start may fail
  EarlyHangup,   \* a channel may be hung up before its call has an index
  Switches,      \* the dialplan activates held calls by CHANNEL(callstate)
  Glare,         \* the network may offer a call while one is being placed
  Disconnects,   \* the device may be lost
  NoCpvt,        \* NULL
  Sys            \* pvt->sys_chan

DialOption == { "hold", "conference" }

ASSUME CallsAssumption ==
  /\ MaxCallIdx \in Nat /\ ModemCalls <= MaxCallIdx
  /\ Opts \subseteq SUBSET DialOption
  /\ DialKinds \subseteq {"dial", "dialPlain"}
  /\ Sys \notin Cpvt /\ NoCpvt \notin Cpvt /\ Sys # NoCpvt
  /\ TaskIds \subseteq Nat

VARIABLES
  pvt,     \* the device as the driver knows it
  tty,     \* the modem's results, unread
  calls    \* the modem's calls by their index

vars == << pvt, tty, calls >>

CallState == { "active", "held", "dialing", "alerting", "incoming", "waiting",
               "released", "init" }

(* A cpvt.  asked says that its channel was told to call or to answer: a     *)
(* channel is told once.                                                     *)
CpvtRec == [idx : 0..MaxCallIdx, dir : Dir, state : CallState, needHangup : BOOLEAN,
            opts : SUBSET DialOption, channel : BOOLEAN, asked : BOOLEAN]

Free == [idx |-> 0, dir |-> "out", state |-> "released", needHangup |-> FALSE,
         opts |-> {}, channel |-> FALSE, asked |-> FALSE]

(* What a task is for: its cpvt, and the call index in its commands.         *)
Target == [cpvt : Cpvt \cup {Sys}, idx : 0..MaxCallIdx]
AtSys  == [cpvt |-> Sys, idx |-> 0]

TypeOK ==
  /\ pvt.chans \in Seq(Cpvt)
  /\ pvt.cpvt \in [Cpvt -> CpvtRec]
  /\ pvt.chansno \in Nat /\ pvt.count \in [CallState -> Nat]
  /\ pvt.ring \in BOOLEAN /\ pvt.dialing \in BOOLEAN /\ pvt.cwaiting \in BOOLEAN
  /\ pvt.lastDialed \in Cpvt \cup {NoCpvt}
  /\ pvt.volSync \in 0..2
  /\ pvt.q \in Queue
  /\ pvt.target \in [TaskIds -> Target]
  /\ tty \in Seq(CallResult)
  /\ calls \in CallTable

NewPvt ==
  [chans |-> << >>, cpvt |-> [c \in Cpvt |-> Free],
   chansno |-> 0, count |-> [s \in CallState |-> 0],
   ring |-> FALSE, dialing |-> FALSE, cwaiting |-> FALSE,
   lastDialed |-> NoCpvt, volSync |-> 0,
   q |-> EmptyQueue, target |-> [t \in TaskIds |-> AtSys]]

Init ==
  /\ pvt = NewPvt
  /\ tty = << >>
  /\ calls = [i \in ModemIdx |-> NoCall]

-----------------------------------------------------------------------------
(* Inserting a task for a cpvt; what is inserted into an idle line is        *)
(* written at once.  Targets of tasks that are gone are forgotten.           *)
WithQueue(p, x) ==
  [p EXCEPT !.q = x,
            !.target = [t \in TaskIds |-> IF t \in Queued(x) THEN @[t] ELSE AtSys]]

Enque(p, kind, c, i) ==
  LET id == Min(TaskIds \ Queued(p.q))
  IN  [p EXCEPT !.q = AtQueueRun(AtQueueAdd(@, id, kind), TRUE),
                !.target[id] = [cpvt |-> c, idx |-> i]]

HeadTarget(p) == p.target[Head(p.q.tasks).id]

(* Mutant: the calls are not listed after an event. *)
NoClcc(p) == p

RequestClcc(p) == Enque(p, "clcc", Sys, 0)

-----------------------------------------------------------------------------
(* The list of cpvts.  A channel record that cannot be allocated is one      *)
(* there is no more room for.                                                *)
Chans(p)  == { p.chans[n] : n \in 1..Len(p.chans) }
Unused(p) == Cpvt \ Chans(p)

(* Mutant: the list grows without its count. *)
CpvtAllocUncounted(p, c, new) ==
  [p EXCEPT !.chans = Append(@, c), !.cpvt[c] = new, !.count[new.state] = @ + 1]

CpvtAlloc(p, c, new) ==
  [p EXCEPT !.chans = Append(@, c), !.cpvt[c] = new,
            !.chansno = @ + 1, !.count[new.state] = @ + 1]

(* Mutant: the tasks of the freed cpvt keep pointing to it. *)
CpvtFreeNoRelink(p, c) ==
  [p EXCEPT !.chans = RemoveFirst(@, c), !.cpvt[c] = Free,
            !.chansno = @ - 1, !.count[p.cpvt[c].state] = @ - 1,
            !.lastDialed = IF @ = c THEN NoCpvt ELSE @]

CpvtFree(p, c) ==
  [p EXCEPT !.chans = RemoveFirst(@, c), !.cpvt[c] = Free,
            !.chansno = @ - 1, !.count[p.cpvt[c].state] = @ - 1,
            !.target = [t \in TaskIds |->
                          IF @[t].cpvt = c THEN [@[t] EXCEPT !.cpvt = Sys] ELSE @[t]],
            !.lastDialed = IF @ = c THEN NoCpvt ELSE @]

(* pvt_find_cpvt: the first of the list with the index. *)
FindCpvt(p, i) ==
  LET found == { n \in 1..Len(p.chans) : p.cpvt[p.chans[n]].idx = i }
  IN  IF found = {} THEN NoCpvt ELSE p.chans[Min(found)]

PseudoCallIdx(p) ==
  LET free == { i \in 1..MaxCallIdx : FindCpvt(p, i) = NoCpvt }
  IN  IF free = {} THEN 0 ELSE Min(free)

(* Mutant: a call that ends without a channel keeps its cpvt. *)
ChangeStateKeeps(p, c, s) ==
  LET old == p.cpvt[c].state
      d   == [p EXCEPT !.cpvt[c].state = s, !.count[old] = @ - 1, !.count[s] = @ + 1]
  IN  IF s = old THEN p
      ELSE IF s = "released" /\ p.cpvt[c].channel THEN CpvtFree(d, c) ELSE d

(* Mutant: the per-state counts do not follow. *)
ChangeStateUncounted(p, c, s) ==
  IF s = p.cpvt[c].state THEN p
  ELSE IF s = "released" THEN CpvtFree(p, c) ELSE [p EXCEPT !.cpvt[c].state = s]

(* change_channel_state: a call that is over, or connected, also ends what   *)
(* the flag of its former state says.                                        *)
ChangeState(p, c, s) ==
  LET old  == p.cpvt[c].state
      over == s \in {"active", "released"}
      d    == [p EXCEPT !.cpvt[c].state = s,
                        !.count[old] = @ - 1, !.count[s] = @ + 1,
                        !.dialing  = @ /\ ~(over /\ old \in {"init", "dialing", "alerting"}),
                        !.ring     = @ /\ ~(over /\ old = "incoming"),
                        !.cwaiting = @ /\ ~(over /\ old = "waiting")]
  IN  IF s = old THEN p ELSE IF s = "released" THEN CpvtFree(d, c) ELSE d

SetNeedHangup(p, c, b) == IF c = Sys THEN p ELSE [p EXCEPT !.cpvt[c].needHangup = b]

(* at_enque_hangup for a cpvt, or for sys_chan, which counts as active.      *)
EnqueHangup(p, c, i) ==
  LET setup == c # Sys /\ p.cpvt[c].dir = "out" /\ p.cpvt[c].state \in {"init", "dialing"}
      d == IF c # Sys /\ p.cpvt[c].state = "init" THEN [p EXCEPT !.lastDialed = NoCpvt] ELSE p
  IN  Enque(d, IF ~setup /\ p.chansno > 1 THEN "hangup1" ELSE "hangup", c, i)

-----------------------------------------------------------------------------
(* What the channels ask.                                                    *)
Bounded == Len(pvt.q.tasks) <= MaxTasks /\ Len(tty) <= TtyCap

Ask(p) == pvt' = p /\ UNCHANGED << tty, calls >>

(* is_dial_possible2, with the cpvt to be ignored.  *)
DialPossible(p, opts, ignored) ==
  LET states == { p.cpvt[c].state : c \in Chans(p) \ {ignored} }
      own    == { p.cpvt[c].state : c \in Chans(p) \cap {ignored} }
  IN  /\ ~p.ring /\ ~p.cwaiting /\ ~p.dialing
      /\ states \subseteq {"active", "held", "released"}
      /\ own \subseteq {"init", "active", "held", "released"}
      /\ {"active", "held"} \cap (states \cup own) # {} => "hold" \in opts
      /\ ~({"active", "held"} \subseteq states \cup own)

(* The network offers no call, and has withdrawn none unheard.  *)
NothingComesIn == tty = << >> /\ CallsIn(calls, {"incoming", "waiting"}) = {}

(* channel_request *)
Request(c, opts) ==
  /\ Bounded /\ c \in Unused(pvt)
  /\ Glare \/ NothingComesIn
  /\ DialPossible(pvt, opts, NoCpvt)
  /\ Ask(CpvtAlloc(pvt, c, [Free EXCEPT !.idx = PseudoCallIdx(pvt), !.state = "init",
                                        !.opts = opts, !.channel = TRUE]))

(* at_enque_dial: another call is held first when the dial string says so.   *)
EnqueDial(p, c, plain) ==
  LET hold == p.count["active"] > 0 /\ "hold" \in p.cpvt[c].opts
      kind == IF plain = "dial" THEN IF hold THEN "dialHeld" ELSE "dial"
              ELSE IF hold THEN "dialPlainHeld" ELSE "dialPlain"
  IN  SetNeedHangup(Enque(p, kind, c, 0), c, TRUE)

(* channel_call, with the dial string the channel was requested for.  A call *)
(* that cannot be placed any more is an error of the channel's caller.       *)
Call(c) ==
  /\ Bounded /\ c \in Chans(pvt)
  /\ pvt.cpvt[c].channel /\ pvt.cpvt[c].dir = "out" /\ ~pvt.cpvt[c].asked
  /\ LET p == [pvt EXCEPT !.cpvt[c].asked = TRUE]
     IN  \/ ~DialPossible(pvt, pvt.cpvt[c].opts, c) /\ Ask(p)
         \/ /\ DialPossible(pvt, pvt.cpvt[c].opts, c)
            /\ \E kind \in DialKinds : Ask(EnqueDial(p, c, kind))

(* channel_hangup: the channel goes, its cpvt stays until the call is over.  *)
Hangup(c) ==
  /\ Bounded /\ c \in Chans(pvt) /\ pvt.cpvt[c].channel
  /\ EarlyHangup \/ pvt.cpvt[c].state # "init"
  /\ LET p == IF pvt.cpvt[c].needHangup
              THEN SetNeedHangup(EnqueHangup(pvt, c, pvt.cpvt[c].idx), c, FALSE)
              ELSE pvt
     IN  Ask([p EXCEPT !.cpvt[c].channel = FALSE])

(* channel_answer: ATA for a call that rings, AT+CHLD=2x for one that waits. *)
AnswerCall(c) ==
  /\ Bounded /\ c \in Chans(pvt)
  /\ pvt.cpvt[c].channel /\ pvt.cpvt[c].dir = "in" /\ ~pvt.cpvt[c].asked
  /\ LET p == [pvt EXCEPT !.cpvt[c].asked = TRUE]
     IN  \/ pvt.cpvt[c].state = "incoming" /\ Ask(Enque(p, "answer", c, 0))
         \/ pvt.cpvt[c].state = "waiting" /\ Ask(Enque(p, "answerWaiting", c, pvt.cpvt[c].idx))

(* CHANNEL(callstate)=active on a held call.  *)
ActivateCall(c) ==
  /\ Switches /\ Bounded /\ c \in Chans(pvt) /\ pvt.cpvt[c].channel
  /\ pvt.cpvt[c].state = "held"
  /\ Ask(Enque(pvt, "activate", c, pvt.cpvt[c].idx))

-----------------------------------------------------------------------------
(* The monitor takes the next result; the queue is run after each one.       *)
Received(res) == tty # << >> /\ Head(tty).res = res

Handled(p) ==
  /\ pvt' = WithQueue(p, AtQueueRun(p.q, TRUE))
  /\ tty' = Tail(tty) /\ UNCHANGED calls

Answered(p, res) == Handled([p EXCEPT !.q = AtQueueRemoveCmd(@, res)])

(* at_response_ok, by the command it answers.  *)
HandleOk ==
  /\ Received("OK") /\ NonEmpty(pvt.q)
  /\ LET cmd == HeadCmd(pvt.q)
         c   == HeadTarget(pvt).cpvt
     IN  \/ /\ cmd = "D"
            /\ Answered(SetNeedHangup([pvt EXCEPT !.dialing = TRUE,
                                                  !.lastDialed = IF c = Sys THEN @ ELSE c],
                                      c, TRUE), "OK")
         \/ /\ cmd \in {"A", "CHLD_2x"}
            /\ Answered(SetNeedHangup(pvt, c, TRUE), "OK")
         \/ /\ cmd \in {"CHUP", "CHLD_1x"}
            /\ Answered(SetNeedHangup(pvt, c, FALSE), "OK")
         \/ /\ cmd = "CLVL"
            /\ Answered([pvt EXCEPT !.volSync = (@ + 1) % 3], "OK")
         \/ /\ cmd \notin {"D", "A", "CHLD_2x", "CHUP", "CHLD_1x", "CLVL"}
            /\ Answered(pvt, "OK")

(* at_response_error, for the commands of calls: the channel is told to hang *)
(* up, or that the network is congested, and nothing changes here.           *)
HandleError ==
  /\ Received("ERROR") /\ NonEmpty(pvt.q)
  /\ Answered(IF HeadCmd(pvt.q) = "CLVL" THEN [pvt EXCEPT !.volSync = 0] ELSE pvt, "ERROR")

SyncVolume(p, c) == [Enque(p, "volsync", c, 0) EXCEPT !.volSync = 1]

(* at_response_orig: the dialed call gets its index.  *)
HandleOrig ==
  /\ Received("ORIG")
  /\ LET c == pvt.lastDialed
         p == [pvt EXCEPT !.lastDialed = NoCpvt]
         d == ChangeState([p EXCEPT !.cpvt[c].idx = Head(tty).idx], c, "dialing")
     IN  \/ c = NoCpvt /\ Handled(p)
         \/ c # NoCpvt /\ Handled(RequestClcc(IF d.volSync = 0 THEN SyncVolume(d, c) ELSE d))

(* at_response_conn: a connected call that no cpvt knows is hung up.  *)
HandleConn ==
  /\ Received("CONN")
  /\ LET i == Head(tty).idx
         p == RequestClcc([pvt EXCEPT !.ring = FALSE, !.dialing = FALSE, !.cwaiting = FALSE])
         c == FindCpvt(p, i)
     IN  \/ c = NoCpvt /\ Handled(EnqueHangup(p, Sys, i))
         \/ /\ c # NoCpvt
            /\ LET d == ChangeState(p, c, "active")
               IN  Handled(IF "conference" \in d.cpvt[c].opts
                           THEN Enque(d, "conference", c, 0) ELSE d)

(* at_response_cend *)
HandleCend ==
  /\ Received("CEND")
  /\ LET p == RequestClcc(pvt)
         c == FindCpvt(p, Head(tty).idx)
     IN  Handled(IF c = NoCpvt THEN p
                 ELSE ChangeState(SetNeedHangup(p, c, FALSE), c, "released"))

(* Mutant: the call of a new channel is not marked for hanging up.  *)
StartPbxNoFlag(p, i, state, fails) ==
  IF Unused(p) = {} THEN EnqueHangup(p, Sys, i)
  ELSE LET c == CHOOSE d \in Unused(p) : TRUE
           d == CpvtAlloc(p, c, [Free EXCEPT !.idx = i, !.dir = "in", !.state = state,
                                             !.channel = TRUE])
       IN  IF fails THEN CpvtFree(d, c) ELSE d

(* start_pbx: a channel for an incoming call.  If there is none the call is  *)
(* hung up; if its PBX does not start the call is left ringing.              *)
StartPbx(p, i, state, fails) ==
  IF Unused(p) = {} THEN EnqueHangup(p, Sys, i)
  ELSE LET c == CHOOSE d \in Unused(p) : TRUE
           d == CpvtAlloc(p, c, [Free EXCEPT !.idx = i, !.dir = "in", !.state = state,
                                             !.channel = TRUE, !.needHangup = TRUE])
       IN  IF fails THEN CpvtFree(d, c) ELSE d

(* The flags one line of +CLCC leaves.  *)
Flagged(p, state) ==
  IF state = "waiting"
  THEN [p EXCEPT !.cwaiting = TRUE, !.ring = FALSE, !.dialing = FALSE]
  ELSE IF state = "incoming"
  THEN [p EXCEPT !.ring = TRUE, !.dialing = FALSE, !.cwaiting = FALSE]
  ELSE IF state \in {"dialing", "alerting"}
  THEN [p EXCEPT !.dialing = TRUE, !.cwaiting = FALSE, !.ring = FALSE]
  ELSE p

(* One line: the cpvt with its index, if the directions agree, gets its      *)
(* state; an incoming call without one gets a channel.                       *)
ClccLine(p, i, call, fails) ==
  LET c == FindCpvt(p, i)
  IN  IF call = NoCall THEN p
      ELSE Flagged(IF c # NoCpvt /\ call.dir = p.cpvt[c].dir THEN ChangeState(p, c, call.state)
                   ELSE IF c = NoCpvt /\ call.state \in {"incoming", "waiting"}
                   THEN StartPbx(p, i, call.state, fails)
                   ELSE p, call.state)

(* at_response_clcc, up to the return that ends its loop: what follows it is *)
(* never reached.                                                            *)
HandleClcc ==
  /\ Received("CLCC")
  /\ \E failed \in IF PbxFaults THEN SUBSET ModemIdx ELSE {{}} :
       LET line[n \in 0..ModemCalls] ==
             IF n = 0 THEN pvt
             ELSE ClccLine(line[n - 1], n, Head(tty).list[n], n \in failed)
       IN  Handled(line[ModemCalls])

(* at_response_ring *)
HandleRing ==
  /\ Received("RING")
  /\ LET p == RequestClcc([pvt EXCEPT !.ring = TRUE, !.dialing = FALSE, !.cwaiting = FALSE])
     IN  Handled(IF p.volSync = 0 /\ p.chansno = 0 THEN SyncVolume(p, Sys) ELSE p)

(* at_response_ccwa *)
HandleCcwa ==
  /\ Received("CCWA")
  /\ Handled(RequestClcc([pvt EXCEPT !.cwaiting = TRUE]))

(* disconnect_dongle: every call is given up.  Of the modem's calls those    *)
(* end that it is still told to end.                                         *)
Disconnect ==
  /\ Disconnects
  /\ LET released[n \in 0..Len(pvt.chans)] ==
           IF n = 0 THEN pvt
           ELSE ChangeState(SetNeedHangup(released[n - 1], pvt.chans[n], FALSE),
                            pvt.chans[n], "released")
         p == released[Len(pvt.chans)]
     IN  pvt' = [WithQueue(p, AtQueueFlush(p.q)) EXCEPT
                   !.lastDialed = NoCpvt, !.ring = FALSE, !.dialing = FALSE,
                   !.cwaiting = FALSE, !.volSync = 0]
  /\ tty' = << >>
  /\ \E ended \in SUBSET { pvt.cpvt[c].idx : c \in Chans(pvt) } : calls' = Ends(calls, ended)

-----------------------------------------------------------------------------
(* The modem and the network (external).                                     *)

(* The written command is carried out, or refused; one at a time.  *)
ModemExecutes ==
  /\ HeadSent(pvt.q)
  /\ \A n \in 1..Len(tty) : tty[n].res \notin {"OK", "ERROR"}
  /\ \/ LET done == Execute(HeadCmd(pvt.q), HeadTarget(pvt).idx, calls)
        IN  calls' = done.calls /\ tty' = tty \o done.out
     \/ /\ ModemRefuses /\ HeadCmd(pvt.q) # "CLCC"
        /\ tty' = Append(tty, Error) /\ UNCHANGED calls
  /\ UNCHANGED pvt

Network(m, out) == Bounded /\ calls' = m /\ tty' = tty \o out /\ UNCHANGED pvt

(* A call comes in: it rings, or waits when another call is on.  *)
PeerCalls ==
  /\ Glare \/ pvt.count["init"] = 0
  /\ FreeIdx(calls) # {}
  /\ CallsIn(calls, {"dialing", "alerting", "incoming", "waiting"}) = {}
  /\ LET i == Min(FreeIdx(calls))
         waits == LiveCalls(calls) # {}
     IN  Network([calls EXCEPT ![i] = [dir |-> "in",
                                       state |-> IF waits THEN "waiting" ELSE "incoming"]],
                 << [res |-> IF waits THEN "CCWA" ELSE "RING"] >>)

RingsAgain ==
  /\ CallsIn(calls, {"incoming"}) # {} /\ tty = << >>
  /\ Network(calls, << [res |-> "RING"] >>)

PeerAlerts ==
  \E i \in CallsIn(calls, {"dialing"}) : Network(Move(calls, {i}, "alerting"), << >>)

PeerAnswers ==
  \E i \in CallsIn(calls, {"alerting"}) :
    Network(Move(calls, {i}, "active"), << About("CONN", i) >>)

PeerEnds ==
  \E i \in LiveCalls(calls) : Network(Ends(calls, {i}), Cends({i}))

-----------------------------------------------------------------------------
ChannelAsks(c) == Call(c) \/ Hangup(c) \/ AnswerCall(c) \/ ActivateCall(c)

Handle ==
  \/ HandleOk \/ HandleError \/ HandleOrig \/ HandleConn \/ HandleCend
  \/ HandleClcc \/ HandleRing \/ HandleCcwa

Next ==
  \/ \E c \in Cpvt : ChannelAsks(c) \/ \E opts \in Opts : Request(c, opts)
  \/ Handle \/ Disconnect
  \/ ModemExecutes
  \/ PeerCalls \/ RingsAgain \/ PeerAlerts \/ PeerAnswers \/ PeerEnds

Spec == Init /\ [][Next]_vars

-----------------------------------------------------------------------------
(* The counts the driver decides by (whether there is a channel, more than   *)
(* one, an active one) agree with the list, in which a cpvt is once.         *)
CountsAgree ==
  /\ pvt.chansno = Cardinality(Chans(pvt)) /\ Len(pvt.chans) = Cardinality(Chans(pvt))
  /\ \A s \in CallState :
       pvt.count[s] = Cardinality({ c \in Chans(pvt) : pvt.cpvt[c].state = s })

(* Nothing points to a cpvt that was freed: no queued task, and not          *)
(* last_dialed_cpvt.                                                         *)
NoDangling ==
  /\ \A t \in Queued(pvt.q) : pvt.target[t].cpvt \in Chans(pvt) \cup {Sys}
  /\ pvt.lastDialed \in Chans(pvt) \cup {NoCpvt}

(* Everything the modem said is handled, nothing is queued.  *)
Quiet == tty = << >> /\ ~NonEmpty(pvt.q)

Knows(c, i) == pvt.cpvt[c].idx = i /\ pvt.cpvt[c].dir = calls[i].dir

(* When all is quiet, every call on the modem has a channel in Asterisk, and *)
(* hanging that channel up will end the call: no call is left that costs     *)
(* money and that nobody can end.                                            *)
CallHasChannel ==
  Quiet => \A i \in LiveCalls(calls) :
             \E c \in Chans(pvt) :
               Knows(c, i) /\ pvt.cpvt[c].channel /\ pvt.cpvt[c].needHangup

(* When all is quiet, a cpvt past its dialing is that of a call on the       *)
(* modem: a cpvt does not outlive its call.                                  *)
CpvtHasCall ==
  Quiet => \A c \in Chans(pvt) :
             pvt.cpvt[c].state # "init" => \E i \in LiveCalls(calls) : Knows(c, i)

(* When all is quiet, the driver's state of a call is the modem's, except    *)
(* that a call may be alerting before the next +CLCC says so.                *)
StatesAgree ==
  Quiet => \A c \in Chans(pvt), i \in LiveCalls(calls) :
             Knows(c, i) /\ pvt.cpvt[c].state # "init" =>
               \/ pvt.cpvt[c].state = calls[i].state
               \/ pvt.cpvt[c].state = "dialing" /\ calls[i].state = "alerting"

(* cpvt.h:28, "on CEND or channel_hangup() called": when all is quiet, no    *)
(* cpvt is left that has neither a channel nor a call.                       *)
NoZombie ==
  Quiet => \A c \in Chans(pvt) :
             pvt.cpvt[c].channel \/ \E i \in LiveCalls(calls) : Knows(c, i)

=============================================================================
