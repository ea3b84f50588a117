----------------------------- MODULE Lifecycle -----------------------------
(***************************************************************************)
(* The life of the driver's devices: the discovery thread that brings each  *)
(* device from its current to its desired state, the monitor thread of each *)
(* connected device, the administrator's commands, the reload of the         *)
(* configuration and the unloading of the module.                           *)
(*                                                                          *)
(* What is done between taking pvt->lock and releasing it is one step.       *)
(* Discovery releases the lock of the device it visits twice: around        *)
(* pthread_join in pvt_stop and around the port lookup in pvt_discovery.    *)
(* The device list's lock is the guards on `disc' and `reload': discovery   *)
(* reads the list for a whole round, a reload while it marks and schedules.  *)
(* The order of the list is left open.                                      *)
(***************************************************************************)
EXTENDS Integers, FiniteSets

CONSTANTS
  Dev,            \* device names
  LookupDevs,     \* devices found by IMEI or IMSI and not by their ttys
  InitStates,     \* values of initstate in the configuration
  Whens,          \* how urgent the administrator's commands are
  ReloadWhens,    \* how urgent reloads are; empty: no reload
  MaxChans,       \* bound on the calls of a device
  ReloadOverlaps, \* reloads come during a round of discovery
  MayUnload,      \* the module may be unloaded
  TtyFaults,      \* a lookup or an open may fail
  Losses          \* a connected device may be lost

DevState    == {"stopped", "restarted", "removed", "started"}
RestateTime == {"now", "gracefully", "convenient"}

(* What the configuration file says of a device; `changed': settings that   *)
(* need a restart differ from those in force.                               *)
NoSection == [section |-> FALSE]
Setting   == {NoSection} \cup
             [section : {TRUE}, initstate : InitStates \cup {"removed"}, changed : BOOLEAN]

ASSUME LifecycleAssumption ==
  /\ LookupDevs \subseteq Dev
  /\ InitStates \subseteq {"stopped", "started"}
  /\ Whens \subseteq RestateTime /\ ReloadWhens \subseteq RestateTime
  /\ MaxChans \in Nat

VARIABLES
  pvt,       \* struct pvt of each device
  listed,    \* the devices in the list
  unlinked,  \* the device taken off the list and not yet freed
  disc,      \* the discovery thread
  reload,    \* the reload in progress
  unload,    \* how far the unloading of the module is
  urgent,    \* history: the last command of this connection was to end it now
  raced      \* history: the devices that were given an order while discovery, in the
             \* middle of its work on them, had let go of their lock

vars == << pvt, listed, unlinked, disc, reload, unload, urgent, raced >>

(* monitor_thread # AST_PTHREADT_NULL is `handle'; `threads' counts the       *)
(* monitors that really run.  connected is set and reset together with       *)
(* current_state, so it is current = "started" here.  sms is incoming_sms;    *)
(* outgoing_sms is tested in the code and never set.                         *)
Pvt == [desired : DevState, current : {"stopped", "started"}, restart : RestateTime,
        mustRemove : BOOLEAN, terminate : BOOLEAN, handle : BOOLEAN, threads : Nat,
        chans : Nat, sms : BOOLEAN]

(* What follows the join of the monitor in the visit of a device.           *)
Then == {"stop", "remove", "connect", "restart"}
Disc == [pc : {"sleep", "loop", "join", "lookup", "sweep", "ended"},
         todo : SUBSET Dev, dev : SUBSET Dev, then : Then]

Reload == [pc : {"idle", "mark", "read", "schedule"}, todo : SUBSET Dev,
           cfg : [Dev -> Setting], when : RestateTime]

StateOK ==
  /\ pvt \in [Dev -> Pvt]
  /\ listed \subseteq Dev /\ unlinked \subseteq Dev
  /\ disc \in Disc
  /\ reload \in Reload
  /\ unload \in {"no", "joining", "destroy", "done"}
  /\ urgent \in [Dev -> BOOLEAN]

(* Type correctness: the states, times and counters stay in their ranges; a  *)
(* device is only ever connected or not, whatever state is desired.          *)
TypeOK == StateOK /\ raced \subseteq Dev

(* pvt_create: zeroed memory, the desired state from the settings.  *)
PvtCreate(initstate) ==
  [desired |-> initstate, current |-> "stopped", restart |-> "now",
   mustRemove |-> FALSE, terminate |-> FALSE, handle |-> FALSE, threads |-> 0,
   chans |-> 0, sms |-> FALSE]

NoReload == [pc |-> "idle", todo |-> {}, cfg |-> [d \in Dev |-> NoSection], when |-> "now"]

(* The module has read its configuration and started the discovery thread.  *)
Init ==
  /\ listed \in SUBSET Dev
  /\ \E init \in [Dev -> InitStates] : pvt = [d \in Dev |-> PvtCreate(init[d])]
  /\ unlinked = {}
  /\ disc = [pc |-> "sleep", todo |-> {}, dev |-> {}, then |-> "stop"]
  /\ reload = NoReload
  /\ unload = "no"
  /\ urgent = [d \in Dev |-> FALSE] /\ raced = {}

-----------------------------------------------------------------------------
Busy(p) == p.chans > 0 \/ p.sms

(* Mutant: a message under way does not hold back a restart. *)
Time4RestateNoSms(p) ==
  p.desired # p.current /\ (p.restart = "now" \/ p.chans = 0)

(* pvt_time4restate *)
Time4Restate(p) ==
  p.desired # p.current /\ (p.restart = "now" \/ ~Busy(p))

(* discovery_restart takes discovery_lock, which discovery_stop holds while  *)
(* it joins the discovery thread.                                            *)
DiscoveryLockFree == unload # "joining"

(* pvt_try_restate.  The wakeup of discovery is no step: it only ends a      *)
(* sleep that ends by itself.                                                *)
TryRestate(p) == IF Time4Restate(p) THEN [p EXCEPT !.restart = "now"] ELSE p
MayTryRestate(p) == Time4Restate(p) => DiscoveryLockFree

(* pvt_enabled *)
Enabled(p) ==
  p.current = "started" /\ (p.desired = p.current \/ p.restart = "convenient")

(* Mutant: the last call leaves and nobody looks for a postponed command. *)
CpvtFreeNoRestate(p) == [p EXCEPT !.chans = @ - 1]

(* cpvt_free: with the last call a postponed command becomes due.  *)
CpvtFree(p) ==
  LET q == [p EXCEPT !.chans = @ - 1]
  IN  IF q.chans = 0 THEN TryRestate(q) ELSE q

(* Mutant: disconnecting forgets what was asked for. *)
DisconnectDropsDesired(p) ==
  [p EXCEPT !.threads = @ - 1, !.chans = 0, !.sms = FALSE,
            !.current = "stopped", !.desired = "stopped"]

(* Mutant: the state of the device is left as it was. *)
DisconnectKeepsCurrent(p) ==
  [p EXCEPT !.threads = @ - 1, !.chans = 0, !.sms = FALSE]

(* disconnect_dongle at the end of the monitor thread: the calls are         *)
(* released, the last one through cpvt_free, messages are forgotten.         *)
Released(p) == IF p.chans > 0 THEN CpvtFree([p EXCEPT !.chans = 1]) ELSE p
Disconnect(p) ==
  [Released(p) EXCEPT !.threads = @ - 1, !.chans = 0, !.sms = FALSE, !.current = "stopped"]

-----------------------------------------------------------------------------
(* The discovery thread (do_discovery).                                      *)

(* Discovery has let go of the lock of d in the middle of its work on d: in   *)
(* its visit, or between the visit that marks d and the sweep.               *)
LetGo(d) == disc.dev = {d} \/ (pvt[d].mustRemove /\ disc.pc # "sleep")

(* The visit of d is over. *)
Visited(d) == [pc |-> "loop", todo |-> disc.todo \ {d}, dev |-> {}, then |-> "stop"]
Leave(d, p) == pvt' = [pvt EXCEPT ![d] = p] /\ disc' = Visited(d) /\ UNCHANGED urgent

(* Mutant: pvt_stop tells the monitor to end and does not wait for it.  *)
Joined(p) == TRUE

(* pvt_stop goes on when pthread_join returns. *)
MonitorGone(p) == p.handle => p.threads = 0

(* pvt_stop after the join *)
Stopped(p) == [p EXCEPT !.terminate = FALSE, !.handle = FALSE]

(* The rest of pvt_start: open the ttys, start the monitor.  *)
Connect(p, up) ==
  IF up THEN [p EXCEPT !.handle = TRUE, !.threads = @ + 1, !.current = "started"] ELSE p

Connects == IF TtyFaults THEN BOOLEAN ELSE {TRUE}

FinishStart(d, p) ==
  /\ \E up \in Connects :
       /\ pvt' = [pvt EXCEPT ![d] = Connect(p, up)]
       /\ urgent' = [urgent EXCEPT ![d] = @ /\ ~up]
  /\ disc' = Visited(d)

(* pvt_start after its pvt_stop: the ports are looked up without the lock.   *)
StartPvt(d, p) ==
  IF d \in LookupDevs
    THEN /\ pvt' = [pvt EXCEPT ![d] = p]
         /\ disc' = [disc EXCEPT !.pc = "lookup", !.dev = {d}, !.then = "stop"]
         /\ UNCHANGED urgent
    ELSE FinishStart(d, p)

(* What the visit of d does once its monitor is gone.  A restart overwrites  *)
(* desired_state, whatever it has become; a device found stopped is started  *)
(* without another look at desired_state.                                    *)
Proceed(d, p, then) ==
  \/ then = "stop" /\ Leave(d, p)
  \/ then = "remove" /\ Leave(d, [p EXCEPT !.mustRemove = TRUE])
  \/ then = "connect" /\ StartPvt(d, p)
  \/ /\ then = "restart"
     /\ LET r == [p EXCEPT !.desired = "started"]
        IN  IF r.current = "stopped" THEN StartPvt(d, r) ELSE Leave(d, r)

ThenFor == [stopped |-> "stop", removed |-> "remove", started |-> "connect",
            restarted |-> "restart"]

Due(p) == p.restart = "now" /\ p.desired # p.current

OthersThanDiscovery == UNCHANGED << listed, unlinked, reload, unload >>

(* A round begins, unless the module is being unloaded.                      *)
Wake ==
  /\ disc.pc = "sleep"
  /\ ReloadOverlaps \/ reload.pc = "idle"
  /\ disc' = IF unload = "no" THEN [disc EXCEPT !.pc = "loop", !.todo = listed]
                              ELSE [disc EXCEPT !.pc = "ended"]
  /\ UNCHANGED << pvt, urgent, raced >> /\ OthersThanDiscovery

(* Mutant: the visit leaves the mark of a reload where it is. *)
PassKeepsMark(d) ==
  /\ disc.pc = "loop" /\ d \in disc.todo /\ ~Due(pvt[d])
  /\ Leave(d, pvt[d])
  /\ UNCHANGED raced /\ OthersThanDiscovery

(* The visit of a device of which nothing is due.                            *)
Pass(d) ==
  /\ disc.pc = "loop" /\ d \in disc.todo /\ ~Due(pvt[d])
  /\ Leave(d, [pvt[d] EXCEPT !.mustRemove = FALSE])
  /\ UNCHANGED raced /\ OthersThanDiscovery

(* The visit of a device up to the join of its monitor, or to its end.       *)
Visit(d) ==
  /\ disc.pc = "loop" /\ d \in disc.todo /\ Due(pvt[d])
  /\ LET p    == [pvt[d] EXCEPT !.mustRemove = FALSE]
         then == ThenFor[p.desired]
     IN  \/ /\ p.handle
            /\ pvt' = [pvt EXCEPT ![d] = [p EXCEPT !.terminate = TRUE]]
            /\ disc' = [disc EXCEPT !.pc = "join", !.dev = {d}, !.then = then]
            /\ UNCHANGED urgent
         \/ ~p.handle /\ Proceed(d, p, then)
  /\ raced' = raced \ {d}
  /\ OthersThanDiscovery

Join(d) ==
  /\ disc.pc = "join" /\ disc.dev = {d} /\ MonitorGone(pvt[d])
  /\ Proceed(d, Stopped(pvt[d]), disc.then)
  /\ UNCHANGED raced /\ OthersThanDiscovery

Lookup(d) ==
  /\ disc.pc = "lookup" /\ disc.dev = {d}
  /\ FinishStart(d, pvt[d])
  /\ UNCHANGED raced /\ OthersThanDiscovery

LoopEnd ==
  /\ disc.pc = "loop" /\ disc.todo = {}
  /\ disc' = [disc EXCEPT !.pc = "sweep"]
  /\ UNCHANGED << pvt, urgent, raced >> /\ OthersThanDiscovery

(* Every marked device is taken off the list and freed, under the list's     *)
(* write lock.                                                               *)
Sweep ==
  /\ disc.pc = "sweep" /\ reload.pc \notin {"mark", "schedule"}
  /\ listed' = { d \in listed : ~pvt[d].mustRemove }
  /\ disc' = [disc EXCEPT !.pc = "sleep"]
  /\ UNCHANGED << pvt, unlinked, reload, unload, urgent, raced >>

Discovery ==
  Wake \/ LoopEnd \/ Sweep \/ \E d \in Dev : Pass(d) \/ Visit(d) \/ Join(d) \/ Lookup(d)

-----------------------------------------------------------------------------
(* The monitor thread and the work of a device.                              *)

OthersThanPvt == UNCHANGED << listed, unlinked, disc, reload, unload, urgent, raced >>

Alive == listed \cup unlinked

(* The monitor ends because it was told to, or because its device was lost   *)
(* (e_cleanup), which takes the order to terminate back.                     *)
MonitorEnds(d, p) ==
  /\ d \in Alive /\ pvt[d].threads > 0
  /\ pvt[d].chans > 0 => MayTryRestate([pvt[d] EXCEPT !.chans = 0])
  /\ pvt' = [pvt EXCEPT ![d] = Disconnect(p)]
  /\ OthersThanPvt

Terminated(d) == pvt[d].terminate /\ MonitorEnds(d, pvt[d])
Lost(d)       == Losses /\ MonitorEnds(d, [pvt[d] EXCEPT !.terminate = FALSE])

Works(d) == d \in listed /\ pvt[d].threads > 0

CallStarts(d) ==
  /\ Works(d) /\ Enabled(pvt[d]) /\ pvt[d].chans < MaxChans
  /\ pvt' = [pvt EXCEPT ![d].chans = @ + 1]
  /\ OthersThanPvt

CallEnds(d) ==
  /\ Works(d) /\ pvt[d].chans > 0
  /\ MayTryRestate([pvt[d] EXCEPT !.chans = @ - 1])
  /\ pvt' = [pvt EXCEPT ![d] = CpvtFree(@)]
  /\ OthersThanPvt

SmsStarts(d) ==
  /\ Works(d) /\ Enabled(pvt[d]) /\ ~pvt[d].sms
  /\ pvt' = [pvt EXCEPT ![d].sms = TRUE]
  /\ OthersThanPvt

SmsEnds(d) ==
  /\ Works(d) /\ pvt[d].sms
  /\ LET p == [pvt[d] EXCEPT !.sms = FALSE]
     IN  MayTryRestate(p) /\ pvt' = [pvt EXCEPT ![d] = TryRestate(p)]
  /\ OthersThanPvt

(* A message has been sent, or could not be: outgoing_sms was never set.     *)
SmsSent(d) ==
  /\ Works(d) /\ MayTryRestate(pvt[d])
  /\ pvt' = [pvt EXCEPT ![d] = TryRestate(@)]
  /\ OthersThanPvt

Work(d) == CallStarts(d) \/ CallEnds(d) \/ SmsStarts(d) \/ SmsEnds(d) \/ SmsSent(d)

-----------------------------------------------------------------------------
(* schedule_restart_event: a command of the administrator, at any moment.  A  *)
(* start is always for now.                                                  *)
Command(d, event, when) ==
  /\ unload = "no" /\ d \in listed
  /\ event = "started" => when = "now"
  /\ pvt' = [pvt EXCEPT ![d] = TryRestate([@ EXCEPT !.desired = event, !.restart = when])]
  /\ urgent' = [urgent EXCEPT ![d] = event # "started" /\ when = "now"]
  /\ raced' = IF LetGo(d) THEN raced \cup {d} ELSE raced \ {d}
  /\ UNCHANGED << listed, unlinked, disc, reload, unload >>

-----------------------------------------------------------------------------
(* pvt_reload and reload_config: mark every device, read the sections one by *)
(* one, schedule the removal of what is still marked.                        *)

OthersThanReload == UNCHANGED << unlinked, disc, unload >>

ReloadBegin(cfg, when) ==
  /\ unload = "no" /\ reload.pc = "idle"
  /\ ReloadOverlaps \/ disc.pc = "sleep"
  /\ reload' = [pc |-> "mark", todo |-> listed, cfg |-> cfg, when |-> when]
  /\ UNCHANGED << pvt, listed, urgent, raced >> /\ OthersThanReload

(* One device or section of the pass the reload is in.  *)
ReloadTakes(pc, d) == reload.pc = pc /\ d \in reload.todo
ReloadDone(d) == reload' = [reload EXCEPT !.todo = @ \ {d}]

(* What it wants of d, if anything, it may want while discovery works on d.  *)
RacedBy(d) == raced' = IF LetGo(d) THEN raced \cup {d} ELSE raced

ReloadMark(d) ==
  /\ ReloadTakes("mark", d) /\ ReloadDone(d)
  /\ pvt' = [pvt EXCEPT ![d].mustRemove = TRUE]
  /\ UNCHANGED << listed, urgent, raced >> /\ OthersThanReload

(* The end of pvt_reconfigure: the restart time is only replaced after       *)
(* pvt_time4restate has looked at the old one.                               *)
Rescheduled(p, when) ==
  [p EXCEPT !.restart = IF Time4Restate(p) THEN "now" ELSE when]

(* pvt_reconfigure *)
Reconfigure(p, s, when) ==
  IF s.initstate = "removed" THEN [p EXCEPT !.mustRemove = TRUE]
  ELSE IF p.desired # s.initstate
    THEN Rescheduled([p EXCEPT !.desired = s.initstate], when)
  ELSE IF s.changed
    THEN Rescheduled([p EXCEPT !.desired = "restarted"], when)
  ELSE p

(* Mutant: the mark of a device is not taken back by its section.  *)
ReloadKnownKeepsMark(d) ==
  /\ ReloadTakes("read", d) /\ d \in listed /\ ReloadDone(d)
  /\ pvt' = [pvt EXCEPT ![d] = Reconfigure(@, reload.cfg[d], reload.when)]
  /\ urgent' = [urgent EXCEPT ![d] = @ \/ reload.when = "now"]
  /\ RacedBy(d)
  /\ UNCHANGED listed /\ OthersThanReload

ReloadKnown(d) ==
  /\ ReloadTakes("read", d) /\ d \in listed /\ ReloadDone(d)
  /\ pvt' = [pvt EXCEPT ![d] =
               Reconfigure([@ EXCEPT !.mustRemove = FALSE], reload.cfg[d], reload.when)]
  /\ urgent' = [urgent EXCEPT ![d] = @ \/ reload.when = "now"]
  /\ RacedBy(d)
  /\ UNCHANGED listed /\ OthersThanReload

(* A new device is inserted under the list's write lock, which discovery's   *)
(* round keeps away; a disabled one is skipped.                              *)
ReloadNew(d) ==
  /\ ReloadTakes("read", d) /\ d \notin listed /\ ReloadDone(d)
  /\ \/ /\ reload.cfg[d].initstate = "removed" /\ UNCHANGED << pvt, listed >>
     \/ /\ reload.cfg[d].initstate # "removed"
        /\ disc.pc \notin {"loop", "join", "lookup"}
        /\ pvt' = [pvt EXCEPT ![d] = PvtCreate(reload.cfg[d].initstate)]
        /\ listed' = listed \cup {d}
  /\ UNCHANGED << urgent, raced >> /\ OthersThanReload

ReloadSchedule(d) ==
  /\ ReloadTakes("schedule", d) /\ ReloadDone(d)
  /\ pvt' = [pvt EXCEPT ![d] =
       IF @.mustRemove THEN Rescheduled([@ EXCEPT !.desired = "removed"], reload.when) ELSE @]
  /\ urgent' = [urgent EXCEPT ![d] = @ \/ (pvt[d].mustRemove /\ reload.when = "now")]
  /\ RacedBy(d)
  /\ UNCHANGED listed /\ OthersThanReload

(* From one pass to the next. *)
ReloadNext ==
  /\ reload.todo = {}
  /\ \/ /\ reload.pc = "mark"
        /\ reload' = [reload EXCEPT !.pc = "read",
                        !.todo = { d \in Dev : reload.cfg[d] # NoSection }]
     \/ /\ reload.pc = "read"
        /\ reload' = [reload EXCEPT !.pc = "schedule", !.todo = listed]
     \/ reload.pc = "schedule" /\ reload' = NoReload
  /\ UNCHANGED << pvt, listed, urgent, raced >> /\ OthersThanReload

Reloading ==
  \/ ReloadNext
  \/ \E d \in Dev : ReloadMark(d) \/ ReloadKnown(d) \/ ReloadNew(d) \/ ReloadSchedule(d)

-----------------------------------------------------------------------------
(* public_state_fini: discovery_stop, then devices_destroy.                  *)

UnloadBegin ==
  /\ MayUnload /\ unload = "no" /\ reload.pc = "idle"
  /\ unload' = "joining"
  /\ UNCHANGED << pvt, listed, unlinked, disc, reload, urgent, raced >>

UnloadJoined ==
  /\ unload = "joining" /\ disc.pc = "ended"
  /\ unload' = "destroy"
  /\ UNCHANGED << pvt, listed, unlinked, disc, reload, urgent, raced >>

(* pvt_destroy up to the join of the monitor, and from there on.             *)
DestroyBegins(d) ==
  /\ unload = "destroy" /\ unlinked = {} /\ d \in listed
  /\ listed' = listed \ {d} /\ unlinked' = {d}
  /\ pvt' = [pvt EXCEPT ![d].terminate = pvt[d].handle]
  /\ UNCHANGED << disc, reload, unload, urgent, raced >>

DestroyEnds(d) ==
  /\ unload = "destroy" /\ d \in unlinked /\ MonitorGone(pvt[d])
  /\ unlinked' = {}
  /\ pvt' = [pvt EXCEPT ![d] = Stopped(@)]
  /\ UNCHANGED << listed, disc, reload, unload, urgent, raced >>

UnloadEnds ==
  /\ unload = "destroy" /\ listed \cup unlinked = {}
  /\ unload' = "done"
  /\ UNCHANGED << pvt, listed, unlinked, disc, reload, urgent, raced >>

Unloading == UnloadBegin \/ UnloadJoined \/ UnloadEnds \/
             \E d \in Dev : DestroyBegins(d) \/ DestroyEnds(d)

-----------------------------------------------------------------------------
Next ==
  \/ Discovery \/ Reloading \/ Unloading
  \/ \E d \in Dev : Terminated(d) \/ Lost(d) \/ Work(d)
  \/ \E d \in Dev, event \in DevState, when \in Whens : Command(d, event, when)
  \/ \E cfg \in [Dev -> Setting], when \in ReloadWhens : ReloadBegin(cfg, when)

Spec == Init /\ [][Next]_vars

(* The threads are scheduled: discovery goes on with its rounds, a monitor   *)
(* looks at terminate_monitor between any two waits, a reload or an unload   *)
(* that has begun goes on.  Devices need not be lost nor calls be made; what *)
(* has begun, a call or a message, ends.                                     *)
Fairness ==
  /\ WF_vars(Discovery)
  /\ WF_vars(Reloading)
  /\ WF_vars(unload # "no" /\ Unloading)
  /\ \A d \in Dev : WF_vars(Terminated(d)) /\ WF_vars(CallEnds(d)) /\ WF_vars(SmsEnds(d))

FairSpec == Spec /\ Fairness

-----------------------------------------------------------------------------
(* Properties.                                                               *)

(* A device has at most one monitor thread ("prevent start_monitor()         *)
(* multiple times", chan_dongle.c), monitor_thread is its handle, and the    *)
(* device counts as connected exactly while the thread runs.                 *)
OneMonitor ==
  \A d \in Dev :
    /\ pvt[d].threads <= 1
    /\ pvt[d].threads > 0 => pvt[d].handle
    /\ pvt[d].threads > 0 <=> pvt[d].current = "started"

(* A struct pvt is freed only when no monitor thread works on it any more:   *)
(* the sweep of discovery frees without stopping, devices_destroy after it.  *)
FreedStopped == \A d \in Dev : pvt[d].threads > 0 => d \in Alive

(* A monitor is told to end while its device has calls or messages only if   *)
(* the last command asked for it to be done now, or the module is unloaded:  *)
(* `gracefully' and `when convenient' wait.                                  *)
CutOnlyIfUrgent ==
  [][ \A d \in Dev :
        ~pvt[d].terminate /\ pvt'[d].terminate /\ Busy(pvt[d]) => urgent[d] \/ unload # "no" ]_vars

(* Only commands and reloads change what is desired of a device, but for the *)
(* restart, which becomes a start when it is carried out.  One order alone is *)
(* lost: one that comes while discovery, about to restart the device, waits   *)
(* for its monitor without the lock (pvt_stop, chan_dongle.c:503); what that   *)
(* order wanted is overwritten with a start.                                 *)
CommandsKept ==
  [][ \A d \in Dev :
        (Discovery \/ Terminated(d) \/ Lost(d) \/ Work(d)) =>
          \/ pvt'[d].desired = pvt[d].desired
          \/ pvt[d].desired = "restarted" /\ pvt'[d].desired = "started"
          \/ /\ d \in raced /\ disc.pc = "join" /\ disc.then = "restart"
             /\ pvt'[d].desired = "started" ]_vars

(* A command that is put off waits for a call or a message of its device:    *)
(* when the last of them ends pvt_try_restate makes the command due.  Not so *)
(* one given while discovery connects the device and has let go of its lock   *)
(* (pvt_discovery, chan_dongle.c:541): the device is idle then, and nobody     *)
(* looks at the command again until something of its own ends.                *)
PostponedWaits ==
  \A d \in listed \ raced :
    pvt[d].current = "started" /\ pvt[d].desired # "started" /\ pvt[d].restart # "now"
      => Busy(pvt[d])

(* A device is taken off the list only when it is no longer wanted: to be    *)
(* removed by a command or by the configuration ("not listed in config file  *)
(* or disabled", reload_config), or with the whole module; or when another    *)
(* order comes after discovery has marked it and before the sweep, which looks *)
(* at the mark only (chan_dongle.c:673).                                      *)
OnlyUnwantedFreed ==
  [][ \A d \in listed \ listed' :
        pvt[d].desired = "removed" \/ d \in raced \/ unload # "no" ]_vars

(* A reload schedules the removal of just the devices that the file no       *)
(* longer names or disables, and leaves what is desired of the others.       *)
Disables(cfg, d) == cfg[d] = NoSection \/ cfg[d].initstate = "removed"
ReloadFollowsConfig ==
  [][ \A d \in Dev : ReloadSchedule(d) =>
        IF Disables(reload.cfg, d) THEN pvt'[d].desired = "removed"
                                   ELSE pvt'[d].desired = pvt[d].desired ]_vars

(* What is to be done now is done: no stop, restart or removal stays due for *)
(* ever, whatever calls, losses and failures to open ttys come between.      *)
CarriedOut ==
  \A d \in Dev :
    []<>~( d \in listed /\ Due(pvt[d]) /\ pvt[d].desired # "started" /\ unload = "no" )

(* The unloading that has begun comes to its end ("signal for discovery      *)
(* unloading", discovery_stop).                                              *)
UnloadCompletes == unload = "joining" ~> unload = "done"
=============================================================================
