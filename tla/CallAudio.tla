----------------------------- MODULE CallAudio -----------------------------
(***************************************************************************)
(* The sound from the calls of one connected device to its audio port: which *)
(* call is the master, whose channel's thread is woken by the timer and      *)
(* plays, and how the voices of all active calls get into the mix buffer.    *)
(*                                                                          *)
(* Every step is what one thread does while it holds pvt->lock.  The device  *)
(* has its audio port and its timer as long as it has a call.  How the state *)
(* of a call comes about is in Calls; here the modem says any state a call   *)
(* can go to.  The sound from the device is left out, but for the            *)
(* descriptors by which the channels' threads would wait for it.             *)
(***************************************************************************)
EXTENDS MixBuffer

CONSTANTS
  FrameSize,   \* what the audio port takes at a time
  FrameLens    \* how long the frames are that channels write

Frame(c, n) == [i \in 1..n |-> {<< c, i >>}]

ASSUME CallAudioAssumption ==
  /\ FrameSize \in Nat \ {0} /\ FrameLens \subseteq Nat
  /\ \A c \in Cpvt, n \in FrameLens : Frame(c, n) \in Seq(SUBSET Sounds)

VARIABLES cpvt, mixb

vars == << cpvt, mixb >>

CallState   == { "none", "active", "held", "dialing", "alerting", "incoming", "waiting", "init" }
SoundSource == { "active", "dialing", "alerting" }

(* A call with what its channel's thread waits for: fd0 for sound, fd1 for   *)
(* the time to play.                                                         *)
Call == [state : CallState, channel : BOOLEAN, activated : BOOLEAN, master : BOOLEAN,
         fd0 : {"none", "audio", "pipe"}, fd1 : {"none", "timer"}]

NoCall == [state |-> "none", channel |-> FALSE, activated |-> FALSE, master |-> FALSE,
           fd0 |-> "none", fd1 |-> "none"]

TypeOK == cpvt \in [Cpvt -> Call] /\ mixb \in MixBuffer

Init == cpvt = [c \in Cpvt |-> NoCall] /\ mixb = MixbInit

Chans == { c \in Cpvt : cpvt[c].state # "none" }

-----------------------------------------------------------------------------
(* Mutant: the other calls stay masters. *)
ActivateKeepsMaster(calls, c) ==
  IF calls[c].master THEN calls
  ELSE [calls EXCEPT ![c] = [@ EXCEPT !.activated = TRUE, !.master = TRUE,
                                      !.fd0 = "audio", !.fd1 = "timer"]]

(* activate_call: c, which has a channel, becomes the master.  The flag that *)
(* decides whether another call gets its pipe is that of c.                  *)
Activate(calls, c) ==
  LET Other(d) ==
        [calls[d] EXCEPT !.master = FALSE,
                         !.fd1 = "none",
                         !.fd0 = IF calls[d].channel /\ calls[c].activated THEN "pipe" ELSE @]
  IN  IF calls[c].master THEN calls
      ELSE [d \in Cpvt |->
              IF d = c THEN [calls[c] EXCEPT !.activated = TRUE, !.master = TRUE,
                                             !.fd0 = "audio", !.fd1 = "timer"]
              ELSE Other(d)]

AttachFor(calls, c) ==
  IF calls[c].master \/ calls[c].activated THEN mixb ELSE MixbAttach(mixb, c)

(* disactivate_call *)
Disactivates(calls, c) == calls[c].channel /\ calls[c].activated

Disactivate(calls, c) ==
  IF Disactivates(calls, c)
  THEN [calls EXCEPT ![c] = [@ EXCEPT !.activated = FALSE, !.master = FALSE,
                                      !.fd0 = "none", !.fd1 = "none"]]
  ELSE calls

DetachFor(calls, c) == IF Disactivates(calls, c) THEN MixbDetach(mixb, c) ELSE mixb

-----------------------------------------------------------------------------
(* cpvt_alloc: the first call of a device gets an empty mix buffer.  *)
Begin(c, state) ==
  /\ c \notin Chans
  /\ cpvt' = [cpvt EXCEPT ![c] = [NoCall EXCEPT !.state = state, !.channel = TRUE]]
  /\ mixb' = IF Chans = {} THEN MixbInit ELSE mixb

(* The states a call can go to, as the modem tells them; a call that is gone *)
(* may still be told to ring or to be held until ^CEND.                      *)
Follows(state) ==
  CASE state = "init"     -> { "dialing", "none" }
    [] state = "dialing"  -> { "alerting", "active", "none" }
    [] state = "alerting" -> { "active", "none" }
    [] state = "waiting"  -> { "incoming", "active", "none" }
    [] state = "incoming" -> { "active", "none" }
    [] state = "active"   -> { "held", "none" }
    [] state = "held"     -> { "active", "none" }
    [] OTHER              -> {}

(* change_channel_state: a live call gets its sound, *)
Sounding(c, state) ==
  /\ state \in Follows(cpvt[c].state) \cap SoundSource /\ cpvt[c].channel
  /\ LET calls == [cpvt EXCEPT ![c].state = state]
     IN  cpvt' = Activate(calls, c) /\ mixb' = AttachFor(calls, c)

(* or loses it,  *)
Holding(c) ==
  /\ "held" \in Follows(cpvt[c].state) /\ cpvt[c].channel
  /\ LET calls == [cpvt EXCEPT ![c].state = "held"]
     IN  cpvt' = Disactivate(calls, c) /\ mixb' = DetachFor(calls, c)

(* or is over;  *)
Released(c) ==
  /\ "none" \in Follows(cpvt[c].state)
  /\ cpvt' = [cpvt EXCEPT ![c] = NoCall] /\ mixb' = DetachFor(cpvt, c)

(* nothing else happens to one that rings, or whose channel is gone.  *)
Following(c, state) ==
  /\ state \in Follows(cpvt[c].state) \ {"none"}
  /\ ~cpvt[c].channel \/ state = "incoming"
  /\ cpvt' = [cpvt EXCEPT ![c].state = state] /\ UNCHANGED mixb

(* disconnect_dongle: every call is released.  *)
Disconnect ==
  /\ Chans # {}
  /\ cpvt' = [c \in Cpvt |-> NoCall]
  /\ LET gone == { c \in Cpvt : Disactivates(cpvt, c) }
     IN  mixb' = [mixb EXCEPT !.streams = @ \ gone, !.attached = @ - Cardinality(gone)]

(* Mutant: the channel is dropped before its sound. *)
HangupForgets(c) ==
  /\ cpvt[c].channel
  /\ cpvt' = [cpvt EXCEPT ![c].channel = FALSE] /\ UNCHANGED mixb

(* channel_hangup *)
Hangup(c) ==
  /\ cpvt[c].channel
  /\ cpvt' = [Disactivate(cpvt, c) EXCEPT ![c].channel = FALSE, ![c].fd0 = "none"]
  /\ mixb' = DetachFor(cpvt, c)

-----------------------------------------------------------------------------
(* channel_write: when the frame does not fit, the oldest sound of all calls *)
(* makes room.                                                               *)
Write(c, data) ==
  LET free == MixbFree(mixb, c)
      room == IF free < Len(data) THEN MixbReadUpd(mixb, Len(data) - free) ELSE mixb
  IN  /\ cpvt[c].channel /\ cpvt[c].state = "active"
      /\ mixb' = MixbWrite(room, c, data) /\ UNCHANGED cpvt

(* timing_write, in the thread of the channel that has the timer: a frame,   *)
(* or what there is, filled up with silence.                                 *)
Timing(c) ==
  /\ cpvt[c].channel /\ cpvt[c].fd1 = "timer" /\ cpvt[c].state \in SoundSource
  /\ mixb' = MixbReadUpd(mixb, Least(FrameSize, mixb.used)) /\ UNCHANGED cpvt

-----------------------------------------------------------------------------
Step(c) ==
  \/ \E state \in {"init", "incoming", "waiting"} : Begin(c, state)
  \/ \E state \in CallState : Sounding(c, state) \/ Following(c, state)
  \/ Holding(c) \/ Released(c) \/ Hangup(c)
  \/ \E n \in FrameLens : Write(c, Frame(c, n))
  \/ Timing(c)

Next == (\E c \in Cpvt : Step(c)) \/ Disconnect

Spec == Init /\ [][Next]_vars

-----------------------------------------------------------------------------
(* Whatever overflowed or was cut short, all positions in the mix buffer     *)
(* agree: mixb_write never adds where nothing was said yet, nor behind what  *)
(* was already played.                                                       *)
PositionsAgree == Aligned(mixb)

(* The timer is waited for by the one master, which also owns the audio      *)
(* port: were it waited for twice, the device would be fed at double speed.  *)
OneMaster ==
  /\ \A c, d \in Cpvt : cpvt[c].master /\ cpvt[d].master => c = d
  /\ \A c \in Cpvt : /\ cpvt[c].fd1 = "timer" <=> cpvt[c].master
                     /\ cpvt[c].master => /\ cpvt[c].activated /\ cpvt[c].channel
                                          /\ cpvt[c].fd0 = "audio"

(* Exactly the activated calls are attached, each of them once: no stream of *)
(* a freed cpvt stays in the list, and no call that writes is missing.       *)
StreamsFollowCalls ==
  /\ mixb.streams = { c \in Cpvt : cpvt[c].activated }
  /\ mixb.attached = Cardinality(mixb.streams)
  /\ \A c \in Cpvt : /\ cpvt[c].activated => cpvt[c].channel
                     /\ cpvt[c].channel /\ cpvt[c].state \in SoundSource => cpvt[c].activated

(* What is played is what the calls said, each voice in its order and every  *)
(* sound once, as Mixer says it without a ring buffer.                       *)
Mixer == INSTANCE Mixer WITH
  Voices <- Cpvt, Capacity <- Size,
  Frames <- [c \in Cpvt |-> { Frame(c, n) : n \in FrameLens }],
  line <- MixbContents(mixb),
  on <- mixb.streams,
  ahead <- [c \in Cpvt |-> IF c \in mixb.streams THEN mixb.stream[c].used ELSE 0]

MixesVoices == Mixer!Spec
=============================================================================
