-------------------------- MODULE LifecycleProofs --------------------------
(***************************************************************************)
(* For any devices, any configuration, any commands and any timing of them:  *)
(* a device never has two monitor threads.  Without reloads, whose marks     *)
(* break it, no device is freed under its monitor, and no calls are cut      *)
(* without an order.  No command is forgotten or overwritten but one that     *)
(* comes while discovery has let go of its device.  While reloads come       *)
(* between the rounds of discovery, the list loses only devices that are no   *)
(* longer wanted, and a reload removes just those the configuration names no *)
(* more or disables.                                                         *)
(***************************************************************************)
EXTENDS Lifecycle, TLAPS

(* What holds of every struct pvt by itself.  *)
MonitorOK(p) ==
  /\ p.threads <= 1
  /\ p.threads > 0 => p.handle
  /\ p.threads > 0 <=> p.current = "started"

(* The inductive invariant: each device is in order, its monitor is gone     *)
(* while discovery looks its ports up, and a reload reads only sections the  *)
(* file has.                                                                 *)
DeviceInv ==
  /\ StateOK
  /\ \A d \in Dev : MonitorOK(pvt[d])
  /\ \A d \in Dev : disc.pc = "lookup" /\ disc.dev = {d} => pvt[d].threads = 0
  /\ \A d \in Dev : reload.pc = "read" /\ d \in reload.todo => reload.cfg[d] # NoSection

-----------------------------------------------------------------------------
(* The operations on one struct pvt.                                         *)

(* No command, call or message starts or ends a monitor. *)
SameMonitor(p, r) ==
  r.threads = p.threads /\ r.handle = p.handle /\ r.current = p.current

LEMMA TryRestateKeeps ==
  ASSUME NEW p \in Pvt
  PROVE  /\ TryRestate(p) \in Pvt /\ SameMonitor(p, TryRestate(p))
         /\ TryRestate(p).mustRemove = p.mustRemove
  BY DEF TryRestate, Pvt, RestateTime, SameMonitor

LEMMA CpvtFreeKeeps ==
  ASSUME NEW p \in Pvt, p.chans > 0
  PROVE  /\ CpvtFree(p) \in Pvt /\ SameMonitor(p, CpvtFree(p))
         /\ CpvtFree(p).mustRemove = p.mustRemove
<1> DEFINE q == [p EXCEPT !.chans = @ - 1]
<1>1. q \in Pvt /\ SameMonitor(p, q) /\ q.mustRemove = p.mustRemove
  BY DEF Pvt, SameMonitor
<1>2. CpvtFree(p) = IF q.chans = 0 THEN TryRestate(q) ELSE q
  BY DEF CpvtFree
<1> HIDE DEF q
<1>3. QED  BY <1>1, <1>2, TryRestateKeeps DEF SameMonitor

LEMMA ReleasedKeeps ==
  ASSUME NEW p \in Pvt
  PROVE  /\ Released(p) \in Pvt /\ SameMonitor(p, Released(p))
         /\ Released(p).mustRemove = p.mustRemove
<1> DEFINE q == [p EXCEPT !.chans = 1]
<1>1. q \in Pvt /\ q.chans > 0 /\ SameMonitor(p, q) /\ q.mustRemove = p.mustRemove
  BY DEF Pvt, SameMonitor
<1>2. Released(p) = IF p.chans > 0 THEN CpvtFree(q) ELSE p
  BY DEF Released
<1> HIDE DEF q
<1>3. QED  BY <1>1, <1>2, CpvtFreeKeeps DEF SameMonitor

(* Assignments to several fields at once, with the values named.            *)
LEMMA StartedType ==
  ASSUME NEW p \in Pvt, NEW n \in Nat
  PROVE  [p EXCEPT !.handle = TRUE, !.threads = n, !.current = "started"] \in Pvt
  BY DEF Pvt

LEMMA DisconnectEnds ==
  ASSUME NEW p \in Pvt, MonitorOK(p), p.threads > 0
  PROVE  /\ Disconnect(p) \in Pvt /\ MonitorOK(Disconnect(p))
         /\ Disconnect(p).threads = 0 /\ Disconnect(p).mustRemove = p.mustRemove
<1> DEFINE r == Released(p)
           u == Disconnect(p)
<1>1. r \in Pvt /\ SameMonitor(p, r) /\ r.mustRemove = p.mustRemove
  BY ReleasedKeeps
<1>2. u = [r EXCEPT !.threads = @ - 1, !.chans = 0, !.sms = FALSE, !.current = "stopped"]
  BY DEF Disconnect
<1> HIDE DEF r, u
<1>3. r.threads = 1
  BY <1>1 DEF SameMonitor, MonitorOK, Pvt
<1>4. r.threads - 1 = 0
  BY <1>3
<1>5. u = [r EXCEPT !.threads = 0, !.chans = 0, !.sms = FALSE, !.current = "stopped"]
  BY <1>2, <1>4
<1>6. u \in Pvt /\ u.threads = 0 /\ u.current = "stopped" /\ u.mustRemove = r.mustRemove
  <2>1. u \in Pvt
    BY <1>1, <1>5 DEF Pvt
  <2>2. u.threads = 0 /\ u.current = "stopped"
    BY <1>1, <1>5 DEF Pvt
  <2>3. u.mustRemove = r.mustRemove
    BY <1>1, <1>5 DEF Pvt
  <2>4. QED  BY <2>1, <2>2, <2>3
<1>7. MonitorOK(u)
  BY <1>6 DEF MonitorOK
<1>8. QED  BY <1>1, <1>6, <1>7 DEF u

(* A start finds no monitor: it makes the first. *)
LEMMA ConnectStarts ==
  ASSUME NEW p \in Pvt, MonitorOK(p), p.threads = 0, NEW up \in BOOLEAN
  PROVE  /\ Connect(p, up) \in Pvt /\ MonitorOK(Connect(p, up))
         /\ Connect(p, up).mustRemove = p.mustRemove
<1> DEFINE r == Connect(p, up)
<1>1. CASE up
  <2>1. r = [p EXCEPT !.handle = TRUE, !.threads = p.threads + 1, !.current = "started"]
    BY <1>1 DEF Connect
  <2>2. p.threads + 1 \in Nat
    BY DEF Pvt
  <2> HIDE DEF r
  <2>3. r \in Pvt
    BY <2>1, <2>2, StartedType
  <2>4. r.threads = 1 /\ r.current = "started" /\ r.mustRemove = p.mustRemove
    BY <2>1 DEF Pvt
  <2>5. r.handle
    BY <2>1 DEF Pvt
  <2>6. MonitorOK(r)
    BY <2>4, <2>5 DEF MonitorOK
  <2>7. QED  BY <2>3, <2>4, <2>6 DEF r
<1>2. CASE ~up
  BY <1>2 DEF Connect
<1>3. QED  BY <1>1, <1>2

LEMMA RescheduledKeeps ==
  ASSUME NEW p \in Pvt, NEW when \in RestateTime
  PROVE  Rescheduled(p, when) \in Pvt /\ SameMonitor(p, Rescheduled(p, when))
  BY DEF Rescheduled, Pvt, RestateTime, SameMonitor

LEMMA SettingFields ==
  ASSUME NEW s \in Setting, s # NoSection
  PROVE  s.initstate \in InitStates \cup {"removed"} /\ s.changed \in BOOLEAN
  BY DEF Setting

LEMMA ReconfigureKeeps ==
  ASSUME NEW p \in Pvt, NEW s \in Setting, s # NoSection, NEW when \in RestateTime
  PROVE  Reconfigure(p, s, when) \in Pvt /\ SameMonitor(p, Reconfigure(p, s, when))
<1>1. s.initstate \in DevState
  BY SettingFields, LifecycleAssumption DEF DevState
<1>2. CASE s.initstate = "removed"
  BY <1>2 DEF Reconfigure, Pvt, SameMonitor
<1>3. CASE s.initstate # "removed" /\ p.desired # s.initstate
  <2> DEFINE q == [p EXCEPT !.desired = s.initstate]
  <2>1. q \in Pvt /\ SameMonitor(p, q)
    BY <1>1 DEF Pvt, SameMonitor
  <2>2. Reconfigure(p, s, when) = Rescheduled(q, when)
    BY <1>3 DEF Reconfigure
  <2> HIDE DEF q
  <2>3. QED  BY <2>1, <2>2, RescheduledKeeps DEF SameMonitor
<1>4. CASE s.initstate # "removed" /\ p.desired = s.initstate /\ s.changed
  <2> DEFINE q == [p EXCEPT !.desired = "restarted"]
  <2>1. q \in Pvt /\ SameMonitor(p, q)
    BY DEF Pvt, SameMonitor, DevState
  <2>2. Reconfigure(p, s, when) = Rescheduled(q, when)
    BY <1>4 DEF Reconfigure
  <2> HIDE DEF q
  <2>3. QED  BY <2>1, <2>2, RescheduledKeeps DEF SameMonitor
<1>5. CASE s.initstate # "removed" /\ p.desired = s.initstate /\ ~s.changed
  BY <1>5 DEF Reconfigure, SameMonitor
<1>6. QED  BY <1>2, <1>3, <1>4, <1>5

LEMMA PvtCreateType ==
  ASSUME NEW s \in DevState
  PROVE  PvtCreate(s) \in Pvt /\ MonitorOK(PvtCreate(s)) /\ PvtCreate(s).threads = 0
         /\ PvtCreate(s).mustRemove = FALSE
  BY DEF PvtCreate, Pvt, MonitorOK, DevState, RestateTime

-----------------------------------------------------------------------------
(* A step that gives one device a new struct in order.                       *)
LEMMA PvtReplaced ==
  ASSUME DeviceInv, NEW d \in Dev, NEW r \in Pvt, MonitorOK(r),
         pvt' = [pvt EXCEPT ![d] = r]
  PROVE  pvt' \in [Dev -> Pvt] /\ \A e \in Dev : MonitorOK(pvt'[e])
<1>1. pvt \in [Dev -> Pvt] /\ \A e \in Dev : MonitorOK(pvt[e])
  BY DEF DeviceInv, StateOK
<1>2. \A e \in Dev : pvt'[e] = IF e = d THEN r ELSE pvt[e]
  BY <1>1
<1>3. QED  BY <1>1, <1>2

(* Such a step of the monitor, of a command or of a reload, which starts no  *)
(* monitor and leaves discovery where it is.                                 *)
LEMMA OthersKeep ==
  ASSUME DeviceInv, NEW d \in Dev, NEW r \in Pvt, MonitorOK(r),
         r.threads <= pvt[d].threads,
         pvt' = [pvt EXCEPT ![d] = r], disc' = disc,
         listed' \subseteq Dev, unlinked' \subseteq Dev, reload' \in Reload,
         reload'.pc = "read" => reload.pc = "read" /\ reload'.cfg = reload.cfg
                                /\ reload'.todo \subseteq reload.todo,
         unload' = unload, urgent' \in [Dev -> BOOLEAN]
  PROVE  DeviceInv'
<1>1. pvt \in [Dev -> Pvt] /\ pvt' \in [Dev -> Pvt] /\ \A e \in Dev : MonitorOK(pvt'[e])
  BY PvtReplaced DEF DeviceInv, StateOK
<1>2. StateOK'
  BY <1>1 DEF DeviceInv, StateOK
<1>3. ASSUME NEW e \in Dev, disc'.pc = "lookup", disc'.dev = {e}
      PROVE  pvt'[e].threads = 0
  <2>1. pvt[e].threads = 0
    BY <1>3 DEF DeviceInv
  <2>2. CASE e = d
    BY <1>1, <2>1, <2>2 DEF Pvt
  <2>3. CASE e # d
    BY <1>1, <2>1, <2>3
  <2>4. QED  BY <2>2, <2>3
<1>4. \A e \in Dev : reload'.pc = "read" /\ e \in reload'.todo => reload'.cfg[e] # NoSection
  BY DEF DeviceInv
<1>5. QED  BY <1>1, <1>2, <1>3, <1>4 DEF DeviceInv

(* Steps that touch no struct pvt and do not bring discovery to a lookup.    *)
LEMMA NoPvtKeeps ==
  ASSUME DeviceInv, pvt' = pvt, disc' = disc \/ disc'.pc # "lookup",
         listed' \subseteq Dev, unlinked' \subseteq Dev, disc' \in Disc, reload' \in Reload,
         \A e \in Dev : reload'.pc = "read" /\ e \in reload'.todo => reload'.cfg[e] # NoSection,
         unload' \in {"no", "joining", "destroy", "done"}, urgent' = urgent
  PROVE  DeviceInv'
  BY DEF DeviceInv, StateOK

-----------------------------------------------------------------------------
(* The pieces of discovery's visit.                                          *)

LEMMA LeaveKeeps ==
  ASSUME DeviceInv, NEW d \in Dev, NEW p \in Pvt, MonitorOK(p), Leave(d, p),
         OthersThanDiscovery
  PROVE  DeviceInv'
<1>1. pvt' \in [Dev -> Pvt] /\ \A e \in Dev : MonitorOK(pvt'[e])
  BY PvtReplaced DEF Leave
<1>2. disc' \in Disc /\ disc'.pc = "loop"
  BY DEF Leave, Visited, Disc, Then, DeviceInv, StateOK
<1>3. QED  BY <1>1, <1>2 DEF Leave, OthersThanDiscovery, DeviceInv, StateOK

LEMMA FinishStartKeeps ==
  ASSUME DeviceInv, NEW d \in Dev, NEW p \in Pvt, MonitorOK(p), p.threads = 0,
         FinishStart(d, p), OthersThanDiscovery
  PROVE  DeviceInv'
<1>1. PICK up \in BOOLEAN : /\ pvt' = [pvt EXCEPT ![d] = Connect(p, up)]
                            /\ urgent' = [urgent EXCEPT ![d] = @ /\ ~up]
  BY DEF FinishStart, Connects
<1>2. Connect(p, up) \in Pvt /\ MonitorOK(Connect(p, up))
  BY ConnectStarts
<1>3. pvt' \in [Dev -> Pvt] /\ \A e \in Dev : MonitorOK(pvt'[e])
  BY <1>1, <1>2, PvtReplaced
<1>4. disc' \in Disc /\ disc'.pc = "loop"
  BY DEF FinishStart, Visited, Disc, Then, DeviceInv, StateOK
<1>5. urgent' \in [Dev -> BOOLEAN]
  BY <1>1 DEF DeviceInv, StateOK
<1>6. QED  BY <1>3, <1>4, <1>5 DEF OthersThanDiscovery, DeviceInv, StateOK

LEMMA StartKeeps ==
  ASSUME DeviceInv, NEW d \in Dev, NEW p \in Pvt, MonitorOK(p), p.threads = 0,
         StartPvt(d, p), OthersThanDiscovery
  PROVE  DeviceInv'
<1>1. CASE d \in LookupDevs
  <2>1. /\ pvt' = [pvt EXCEPT ![d] = p] /\ urgent' = urgent
        /\ disc' = [disc EXCEPT !.pc = "lookup", !.dev = {d}, !.then = "stop"]
    BY <1>1 DEF StartPvt
  <2>2. pvt' \in [Dev -> Pvt] /\ \A e \in Dev : MonitorOK(pvt'[e])
    BY <2>1, PvtReplaced
  <2>3. disc' \in Disc /\ disc'.dev = {d}
    BY <2>1 DEF Disc, Then, DeviceInv, StateOK
  <2>4. pvt'[d].threads = 0
    BY <2>1 DEF DeviceInv, StateOK
  <2>5. \A e \in Dev : disc'.dev = {e} => e = d
    BY <2>3
  <2>6. QED  BY <2>1, <2>2, <2>3, <2>4, <2>5 DEF OthersThanDiscovery, DeviceInv, StateOK
<1>2. CASE d \notin LookupDevs
  BY <1>2, FinishStartKeeps DEF StartPvt
<1>3. QED  BY <1>1, <1>2

LEMMA ProceedKeeps ==
  ASSUME DeviceInv, NEW d \in Dev, NEW p \in Pvt, MonitorOK(p), p.threads = 0,
         NEW then \in Then, Proceed(d, p, then), OthersThanDiscovery
  PROVE  DeviceInv'
<1>1. CASE then = "stop" /\ Leave(d, p)
  BY <1>1, LeaveKeeps
<1>2. CASE then = "remove" /\ Leave(d, [p EXCEPT !.mustRemove = TRUE])
  <2> DEFINE r == [p EXCEPT !.mustRemove = TRUE]
  <2>1. r \in Pvt /\ MonitorOK(r)
    BY DEF Pvt, MonitorOK
  <2> HIDE DEF r
  <2>2. Leave(d, r)
    BY <1>2 DEF r
  <2>3. QED  BY <2>1, <2>2, LeaveKeeps
<1>3. CASE then = "connect" /\ StartPvt(d, p)
  BY <1>3, StartKeeps
<1>4. CASE then = "restart"
  <2> DEFINE r == [p EXCEPT !.desired = "started"]
  <2>1. r \in Pvt /\ MonitorOK(r) /\ r.threads = 0
    BY DEF Pvt, MonitorOK, DevState
  <2>2. IF r.current = "stopped" THEN StartPvt(d, r) ELSE Leave(d, r)
    BY <1>4 DEF Proceed
  <2> HIDE DEF r
  <2>3. QED  BY <2>1, <2>2, StartKeeps, LeaveKeeps
<1>5. QED  BY <1>1, <1>2, <1>3, <1>4 DEF Proceed

-----------------------------------------------------------------------------
(* The threads, one after the other.                                         *)

LEMMA DiscoveryKeeps ==
  ASSUME DeviceInv, Discovery
  PROVE  DeviceInv'
<1>1. CASE Wake
  <2>1. disc' \in Disc /\ disc'.pc # "lookup"
    BY <1>1 DEF Wake, Disc, DeviceInv, StateOK
  <2>2. QED  BY <1>1, <2>1, NoPvtKeeps DEF Wake, OthersThanDiscovery, DeviceInv, StateOK
<1>2. CASE LoopEnd
  <2>1. disc' \in Disc /\ disc'.pc # "lookup"
    BY <1>2 DEF LoopEnd, Disc, DeviceInv, StateOK
  <2>2. QED  BY <1>2, <2>1, NoPvtKeeps DEF LoopEnd, OthersThanDiscovery, DeviceInv, StateOK
<1>3. CASE Sweep
  <2>1. disc' \in Disc /\ disc'.pc # "lookup" /\ listed' \subseteq Dev
    BY <1>3 DEF Sweep, Disc, DeviceInv, StateOK
  <2>2. QED  BY <1>3, <2>1, NoPvtKeeps DEF Sweep, DeviceInv, StateOK
<1>4. ASSUME NEW d \in Dev, Pass(d)
      PROVE  DeviceInv'
  <2> DEFINE p == [pvt[d] EXCEPT !.mustRemove = FALSE]
  <2>1. p \in Pvt /\ MonitorOK(p)
    BY DEF DeviceInv, StateOK, Pvt, MonitorOK
  <2>2. Leave(d, p) /\ OthersThanDiscovery
    BY <1>4 DEF Pass
  <2> HIDE DEF p
  <2>3. QED  BY <2>1, <2>2, LeaveKeeps
<1>5. ASSUME NEW d \in Dev, Visit(d)
      PROVE  DeviceInv'
  <2> DEFINE p == [pvt[d] EXCEPT !.mustRemove = FALSE]
             then == ThenFor[p.desired]
  <2>1. p \in Pvt /\ MonitorOK(p)
    BY DEF DeviceInv, StateOK, Pvt, MonitorOK
  <2>2. then \in Then
    BY <2>1 DEF ThenFor, Then, Pvt, DevState
  <2>3. \/ /\ p.handle
           /\ pvt' = [pvt EXCEPT ![d] = [p EXCEPT !.terminate = TRUE]]
           /\ disc' = [disc EXCEPT !.pc = "join", !.dev = {d}, !.then = then]
           /\ UNCHANGED urgent
        \/ ~p.handle /\ Proceed(d, p, then)
    BY <1>5 DEF Visit
  <2>4. OthersThanDiscovery
    BY <1>5 DEF Visit
  <2> HIDE DEF p, then
  <2>5. CASE p.handle
    <3> DEFINE r == [p EXCEPT !.terminate = TRUE]
    <3>1. r \in Pvt /\ MonitorOK(r)
      BY <2>1 DEF Pvt, MonitorOK
    <3>2. pvt' = [pvt EXCEPT ![d] = r]
      BY <2>3, <2>5
    <3> HIDE DEF r
    <3>3. pvt' \in [Dev -> Pvt] /\ \A e \in Dev : MonitorOK(pvt'[e])
      BY <3>1, <3>2, PvtReplaced
    <3>4. disc' \in Disc /\ disc'.pc = "join"
      <4>1. disc \in Disc /\ {d} \in SUBSET Dev
        BY DEF DeviceInv, StateOK
      <4>2. disc' = [disc EXCEPT !.pc = "join", !.dev = {d}, !.then = then]
        BY <2>3, <2>5
      <4>3. QED  BY <2>2, <4>1, <4>2 DEF Disc
    <3>5. QED  BY <2>3, <2>4, <2>5, <3>3, <3>4 DEF OthersThanDiscovery, DeviceInv, StateOK
  <2>6. CASE ~p.handle
    <3>1. p.threads = 0
      BY <2>1, <2>6 DEF MonitorOK, Pvt
    <3>2. QED  BY <2>1, <2>2, <2>3, <2>4, <2>6, <3>1, ProceedKeeps
  <2>7. QED  BY <2>5, <2>6
<1>6. ASSUME NEW d \in Dev, Join(d)
      PROVE  DeviceInv'
  <2> DEFINE p == Stopped(pvt[d])
  <2>1. pvt[d] \in Pvt /\ MonitorOK(pvt[d]) /\ disc.then \in Then
    BY DEF DeviceInv, StateOK, Disc
  <2>2. pvt[d].threads = 0
    BY <1>6, <2>1 DEF Join, MonitorGone, MonitorOK, Pvt
  <2>3. p \in Pvt /\ p.threads = 0 /\ p.current = pvt[d].current
    BY <2>1, <2>2 DEF Stopped, Pvt
  <2>4. Proceed(d, p, disc.then) /\ OthersThanDiscovery
    BY <1>6 DEF Join
  <2> HIDE DEF p
  <2>5. MonitorOK(p)
    BY <2>1, <2>2, <2>3 DEF MonitorOK
  <2>6. QED  BY <2>1, <2>3, <2>4, <2>5, ProceedKeeps
<1>7. ASSUME NEW d \in Dev, Lookup(d)
      PROVE  DeviceInv'
  <2>1. pvt[d] \in Pvt /\ MonitorOK(pvt[d]) /\ pvt[d].threads = 0
    BY <1>7 DEF Lookup, DeviceInv, StateOK
  <2>2. QED  BY <1>7, <2>1, FinishStartKeeps DEF Lookup
<1>8. QED  BY <1>1, <1>2, <1>3, <1>4, <1>5, <1>6, <1>7 DEF Discovery

LEMMA MonitorEndsKeeps ==
  ASSUME DeviceInv, NEW d \in Dev, NEW p \in Pvt, SameMonitor(pvt[d], p), MonitorEnds(d, p)
  PROVE  DeviceInv'
<1> DEFINE r == Disconnect(p)
<1>1. pvt[d] \in Pvt /\ MonitorOK(pvt[d]) /\ pvt[d].threads > 0
  BY DEF MonitorEnds, DeviceInv, StateOK
<1>2. MonitorOK(p) /\ p.threads > 0
  BY <1>1 DEF SameMonitor, MonitorOK
<1>3. r \in Pvt /\ MonitorOK(r) /\ r.threads = 0
  BY <1>2, DisconnectEnds
<1>4. pvt' = [pvt EXCEPT ![d] = r] /\ OthersThanPvt
  BY DEF MonitorEnds
<1> HIDE DEF r
<1>5. r.threads <= pvt[d].threads
  BY <1>1, <1>3 DEF Pvt
<1>6. /\ disc' = disc /\ reload' = reload /\ unload' = unload
      /\ listed' \subseteq Dev /\ unlinked' \subseteq Dev
      /\ reload' \in Reload /\ urgent' \in [Dev -> BOOLEAN]
  BY <1>4 DEF OthersThanPvt, DeviceInv, StateOK
<1>7. QED  BY <1>3, <1>4, <1>5, <1>6, OthersKeep

(* A device's struct changed without its monitor.                            *)
LEMMA SameMonitorKeeps ==
  ASSUME DeviceInv, NEW d \in Dev, NEW r \in Pvt, SameMonitor(pvt[d], r),
         pvt' = [pvt EXCEPT ![d] = r], UNCHANGED << listed, unlinked, disc, unload >>,
         reload' \in Reload,
         reload'.pc = "read" => reload.pc = "read" /\ reload'.cfg = reload.cfg
                                /\ reload'.todo \subseteq reload.todo,
         urgent' \in [Dev -> BOOLEAN]
  PROVE  DeviceInv'
<1>1. pvt[d] \in Pvt /\ MonitorOK(pvt[d])
  BY DEF DeviceInv, StateOK
<1>2. MonitorOK(r)
  BY <1>1 DEF SameMonitor, MonitorOK
<1>3. r.threads <= pvt[d].threads
  BY <1>1 DEF SameMonitor, Pvt
<1>4. /\ unlinked' \subseteq Dev /\ listed' \subseteq Dev
      /\ disc' = disc /\ unload' = unload
  BY DEF DeviceInv, StateOK
<1>5. QED  BY <1>2, <1>3, <1>4, OthersKeep

(* The work of a device and a command change its struct without its monitor  *)
(* and without a mark.                                                       *)
Changes(d) ==
  \E r \in Pvt : /\ SameMonitor(pvt[d], r) /\ r.mustRemove = pvt[d].mustRemove
                 /\ pvt' = [pvt EXCEPT ![d] = r]

LEMMA WorkChanges ==
  ASSUME DeviceInv, NEW d \in Dev, Work(d)
  PROVE  Changes(d)
<1> DEFINE p == pvt[d]
<1>1. p \in Pvt
  BY DEF DeviceInv, StateOK
<1>2. ASSUME NEW r \in Pvt, SameMonitor(p, r), r.mustRemove = p.mustRemove,
             pvt' = [pvt EXCEPT ![d] = r]
      PROVE  Changes(d)
  BY <1>2 DEF Changes
<1>3. CASE CallStarts(d)
  <2> DEFINE r == [p EXCEPT !.chans = @ + 1]
  <2>1. r \in Pvt /\ SameMonitor(p, r) /\ r.mustRemove = p.mustRemove
    BY <1>1 DEF Pvt, SameMonitor
  <2>2. pvt' = [pvt EXCEPT ![d] = r]
    BY <1>3 DEF CallStarts
  <2> HIDE DEF r
  <2>3. QED  BY <1>2, <2>1, <2>2
<1>4. CASE CallEnds(d)
  <2>1. p.chans > 0 /\ pvt' = [pvt EXCEPT ![d] = CpvtFree(p)]
    BY <1>4 DEF CallEnds
  <2>2. QED  BY <1>1, <1>2, <2>1, CpvtFreeKeeps
<1>5. CASE SmsStarts(d)
  <2> DEFINE r == [p EXCEPT !.sms = TRUE]
  <2>1. r \in Pvt /\ SameMonitor(p, r) /\ r.mustRemove = p.mustRemove
    BY <1>1 DEF Pvt, SameMonitor
  <2>2. pvt' = [pvt EXCEPT ![d] = r]
    BY <1>5 DEF SmsStarts
  <2> HIDE DEF r
  <2>3. QED  BY <1>2, <2>1, <2>2
<1>6. CASE SmsEnds(d)
  <2> DEFINE q == [p EXCEPT !.sms = FALSE]
  <2>1. q \in Pvt /\ SameMonitor(p, q) /\ q.mustRemove = p.mustRemove
    BY <1>1 DEF Pvt, SameMonitor
  <2>2. pvt' = [pvt EXCEPT ![d] = TryRestate(q)]
    BY <1>6 DEF SmsEnds
  <2> HIDE DEF q
  <2>3. TryRestate(q) \in Pvt /\ SameMonitor(p, TryRestate(q))
        /\ TryRestate(q).mustRemove = p.mustRemove
    BY <2>1, TryRestateKeeps DEF SameMonitor
  <2>4. QED  BY <1>2, <2>2, <2>3
<1>7. CASE SmsSent(d)
  <2>1. TryRestate(p) \in Pvt /\ SameMonitor(p, TryRestate(p))
        /\ TryRestate(p).mustRemove = p.mustRemove
    BY <1>1, TryRestateKeeps
  <2>2. pvt' = [pvt EXCEPT ![d] = TryRestate(p)]
    BY <1>7 DEF SmsSent
  <2>3. QED  BY <1>2, <2>1, <2>2
<1>8. QED  BY <1>3, <1>4, <1>5, <1>6, <1>7 DEF Work

LEMMA WorkKeeps ==
  ASSUME DeviceInv, NEW d \in Dev, Work(d)
  PROVE  DeviceInv'
<1>1. UNCHANGED << listed, unlinked, disc, reload, unload, urgent >>
  BY DEF Work, CallStarts, CallEnds, SmsStarts, SmsEnds, SmsSent, OthersThanPvt
<1>2. Changes(d)
  BY WorkChanges
<1>3. QED  BY <1>1, <1>2, SameMonitorKeeps DEF Changes, DeviceInv, StateOK

LEMMA CommandChanges ==
  ASSUME DeviceInv, NEW d \in Dev, NEW event \in DevState, NEW when \in Whens,
         Command(d, event, when)
  PROVE  Changes(d)
<1> DEFINE q == [pvt[d] EXCEPT !.desired = event, !.restart = when]
<1>1. q \in Pvt /\ SameMonitor(pvt[d], q) /\ q.mustRemove = pvt[d].mustRemove
  BY LifecycleAssumption, ZenonT(60) DEF DeviceInv, StateOK, Pvt, SameMonitor
<1>2. pvt' = [pvt EXCEPT ![d] = TryRestate(q)]
  BY DEF Command
<1> HIDE DEF q
<1>3. /\ TryRestate(q) \in Pvt /\ SameMonitor(pvt[d], TryRestate(q))
      /\ TryRestate(q).mustRemove = pvt[d].mustRemove
  BY <1>1, TryRestateKeeps DEF SameMonitor
<1>4. QED  BY <1>2, <1>3 DEF Changes

LEMMA CommandKeeps ==
  ASSUME DeviceInv, NEW d \in Dev, NEW event \in DevState, NEW when \in Whens,
         Command(d, event, when)
  PROVE  DeviceInv'
<1>1. UNCHANGED << listed, unlinked, disc, reload, unload >>
  BY DEF Command
<1>2. urgent' \in [Dev -> BOOLEAN]
  BY DEF Command, DeviceInv, StateOK
<1>3. Changes(d)
  BY CommandChanges
<1>4. QED  BY <1>1, <1>2, <1>3, SameMonitorKeeps DEF Changes, DeviceInv, StateOK

LEMMA ReloadDoneType ==
  ASSUME DeviceInv, NEW d \in Dev, ReloadDone(d)
  PROVE  /\ reload' \in Reload /\ reload'.pc = reload.pc
         /\ reload'.cfg = reload.cfg /\ reload'.todo \subseteq reload.todo
  BY DEF ReloadDone, Reload, DeviceInv, StateOK

(* The passes of a reload over the devices and sections. *)
LEMMA ReloadPassKeeps ==
  ASSUME DeviceInv, NEW d \in Dev,
         ReloadMark(d) \/ ReloadKnown(d) \/ ReloadNew(d) \/ ReloadSchedule(d)
  PROVE  DeviceInv'
<1>1. /\ pvt[d] \in Pvt /\ reload.cfg[d] \in Setting /\ reload.when \in RestateTime
      /\ reload \in Reload
  BY DEF DeviceInv, StateOK, Reload
<1>2. ReloadDone(d) /\ OthersThanReload
  BY DEF ReloadMark, ReloadKnown, ReloadNew, ReloadSchedule
<1>3. /\ reload' \in Reload /\ reload'.pc = reload.pc
      /\ reload'.cfg = reload.cfg /\ reload'.todo \subseteq reload.todo
  BY <1>2, ReloadDoneType
<1>4. urgent' \in [Dev -> BOOLEAN]
  BY DEF ReloadMark, ReloadKnown, ReloadNew, ReloadSchedule, DeviceInv, StateOK
<1>5. ASSUME NEW r \in Pvt, SameMonitor(pvt[d], r), pvt' = [pvt EXCEPT ![d] = r],
             listed' = listed
      PROVE  DeviceInv'
  BY <1>2, <1>3, <1>4, <1>5, SameMonitorKeeps DEF OthersThanReload
<1>6. CASE ReloadMark(d)
  <2> DEFINE r == [pvt[d] EXCEPT !.mustRemove = TRUE]
  <2>1. r \in Pvt /\ SameMonitor(pvt[d], r)
    BY <1>1 DEF Pvt, SameMonitor
  <2>2. pvt' = [pvt EXCEPT ![d] = r] /\ listed' = listed
    BY <1>6 DEF ReloadMark
  <2> HIDE DEF r
  <2>3. QED  BY <1>5, <2>1, <2>2
<1>7. CASE ReloadKnown(d)
  <2> DEFINE q == [pvt[d] EXCEPT !.mustRemove = FALSE]
             r == Reconfigure(q, reload.cfg[d], reload.when)
  <2>1. q \in Pvt /\ SameMonitor(pvt[d], q)
    BY <1>1 DEF Pvt, SameMonitor
  <2>2. pvt' = [pvt EXCEPT ![d] = r] /\ listed' = listed
    BY <1>7 DEF ReloadKnown
  <2>3. reload.cfg[d] # NoSection
    BY <1>7 DEF ReloadKnown, ReloadTakes, DeviceInv
  <2> HIDE DEF q
  <2>4. r \in Pvt /\ SameMonitor(pvt[d], r)
    BY <1>1, <2>1, <2>3, ReconfigureKeeps DEF SameMonitor
  <2> HIDE DEF r
  <2>5. QED  BY <1>5, <2>2, <2>4
<1>8. CASE ReloadNew(d)
  <2>1. reload.cfg[d] # NoSection /\ urgent' = urgent
    BY <1>8 DEF ReloadNew, ReloadTakes, DeviceInv
  <2>2. CASE reload.cfg[d].initstate = "removed" /\ UNCHANGED << pvt, listed >>
    BY <1>2, <1>3, <2>1, <2>2, NoPvtKeeps DEF OthersThanReload, DeviceInv, StateOK
  <2>3. CASE /\ reload.cfg[d].initstate # "removed"
             /\ pvt' = [pvt EXCEPT ![d] = PvtCreate(reload.cfg[d].initstate)]
             /\ listed' = listed \cup {d}
    <3> DEFINE r == PvtCreate(reload.cfg[d].initstate)
    <3>1. reload.cfg[d].initstate \in DevState
      BY <1>1, <2>1, SettingFields, LifecycleAssumption DEF DevState
    <3>2. r \in Pvt /\ MonitorOK(r) /\ r.threads = 0
      BY <3>1, PvtCreateType
    <3>3. pvt' = [pvt EXCEPT ![d] = r]
      BY <2>3
    <3> HIDE DEF r
    <3>4. r.threads <= pvt[d].threads
      BY <1>1, <3>2 DEF Pvt
    <3>5. /\ listed' \subseteq Dev /\ unlinked' \subseteq Dev
          /\ disc' = disc /\ unload' = unload
      BY <1>2, <2>3 DEF OthersThanReload, DeviceInv, StateOK
    <3>6. QED  BY <1>3, <1>4, <3>2, <3>3, <3>4, <3>5, OthersKeep
  <2>4. QED  BY <1>8, <2>2, <2>3 DEF ReloadNew
<1>9. CASE ReloadSchedule(d)
  <2>1. listed' = listed
    BY <1>9 DEF ReloadSchedule
  <2>2. CASE pvt[d].mustRemove
    <3> DEFINE q == [pvt[d] EXCEPT !.desired = "removed"]
               r == Rescheduled(q, reload.when)
    <3>1. q \in Pvt /\ SameMonitor(pvt[d], q)
      BY <1>1 DEF Pvt, SameMonitor, DevState
    <3>2. pvt' = [pvt EXCEPT ![d] = r]
      BY <1>9, <2>2 DEF ReloadSchedule
    <3> HIDE DEF q
    <3>3. r \in Pvt /\ SameMonitor(pvt[d], r)
      BY <1>1, <3>1, RescheduledKeeps DEF SameMonitor
    <3> HIDE DEF r
    <3>4. QED  BY <1>5, <2>1, <3>2, <3>3
  <2>3. CASE ~pvt[d].mustRemove
    <3>1. pvt' = [pvt EXCEPT ![d] = pvt[d]]
      BY <1>9, <2>3 DEF ReloadSchedule
    <3>2. SameMonitor(pvt[d], pvt[d])
      BY DEF SameMonitor
    <3>3. QED  BY <1>1, <1>5, <2>1, <3>1, <3>2
  <2>4. QED  BY <2>2, <2>3
<1>10. QED  BY <1>6, <1>7, <1>8, <1>9

LEMMA ReloadNextKeeps ==
  ASSUME DeviceInv, ReloadNext
  PROVE  DeviceInv'
<1>1. reload \in Reload /\ listed \subseteq Dev
  BY DEF DeviceInv, StateOK
<1>2. NoReload \in Reload /\ NoReload.pc = "idle"
  BY DEF NoReload, Reload, Setting, RestateTime
<1>3. /\ reload' \in Reload
      /\ \A e \in Dev : reload'.pc = "read" /\ e \in reload'.todo => reload'.cfg[e] # NoSection
  <2>1. CASE reload' = [reload EXCEPT !.pc = "read",
                          !.todo = { d \in Dev : reload.cfg[d] # NoSection }]
    BY <1>1, <2>1 DEF Reload
  <2>2. CASE reload' = [reload EXCEPT !.pc = "schedule", !.todo = listed]
    BY <1>1, <2>2 DEF Reload
  <2>3. CASE reload' = NoReload
    BY <1>2, <2>3
  <2>4. QED  BY <2>1, <2>2, <2>3 DEF ReloadNext
<1>4. UNCHANGED << pvt, listed, urgent, unlinked, disc, unload >>
  BY DEF ReloadNext, OthersThanReload
<1>5. QED  BY <1>3, <1>4, NoPvtKeeps DEF DeviceInv, StateOK

LEMMA ReloadBeginKeeps ==
  ASSUME DeviceInv, NEW cfg \in [Dev -> Setting], NEW when \in ReloadWhens,
         ReloadBegin(cfg, when)
  PROVE  DeviceInv'
<1>1. reload' \in Reload /\ reload'.pc = "mark"
  BY LifecycleAssumption DEF ReloadBegin, Reload, DeviceInv, StateOK
<1>2. UNCHANGED << pvt, listed, urgent, unlinked, disc, unload >>
  BY DEF ReloadBegin, OthersThanReload
<1>3. QED  BY <1>1, <1>2, NoPvtKeeps DEF DeviceInv, StateOK

LEMMA UnloadKeeps ==
  ASSUME DeviceInv, Unloading
  PROVE  DeviceInv'
<1>1. CASE UnloadBegin \/ UnloadJoined \/ UnloadEnds
  BY <1>1, NoPvtKeeps DEF UnloadBegin, UnloadJoined, UnloadEnds, DeviceInv, StateOK
<1>2. ASSUME NEW d \in Dev, DestroyBegins(d)
      PROVE  DeviceInv'
  <2> DEFINE r == [pvt[d] EXCEPT !.terminate = pvt[d].handle]
  <2>1. pvt[d] \in Pvt /\ MonitorOK(pvt[d])
    BY DEF DeviceInv, StateOK
  <2>2. r \in Pvt /\ SameMonitor(pvt[d], r)
    BY <2>1 DEF Pvt, SameMonitor
  <2>3. pvt' = [pvt EXCEPT ![d] = r]
    BY <1>2 DEF DestroyBegins
  <2> HIDE DEF r
  <2>4. MonitorOK(r)
    BY <2>1, <2>2 DEF SameMonitor, MonitorOK
  <2>5. r.threads <= pvt[d].threads
    BY <2>1, <2>2 DEF SameMonitor, Pvt
  <2>6. /\ disc' = disc /\ reload' = reload /\ unload' = unload
        /\ listed' \subseteq Dev /\ unlinked' \subseteq Dev
        /\ reload' \in Reload /\ urgent' \in [Dev -> BOOLEAN]
    BY <1>2 DEF DestroyBegins, DeviceInv, StateOK
  <2>7. QED  BY <2>2, <2>3, <2>4, <2>5, <2>6, OthersKeep
<1>3. ASSUME NEW d \in Dev, DestroyEnds(d)
      PROVE  DeviceInv'
  <2> DEFINE r == Stopped(pvt[d])
  <2>1. pvt[d] \in Pvt /\ MonitorOK(pvt[d])
    BY DEF DeviceInv, StateOK
  <2>2. pvt[d].threads = 0
    BY <1>3, <2>1 DEF DestroyEnds, MonitorGone, MonitorOK, Pvt
  <2>3. r \in Pvt /\ r.threads = 0 /\ r.current = pvt[d].current
    BY <2>1, <2>2 DEF Stopped, Pvt
  <2>4. pvt' = [pvt EXCEPT ![d] = r]
    BY <1>3 DEF DestroyEnds
  <2> HIDE DEF r
  <2>5. MonitorOK(r) /\ r.threads <= pvt[d].threads
    BY <2>1, <2>2, <2>3 DEF MonitorOK
  <2>6. /\ disc' = disc /\ reload' = reload /\ unload' = unload
        /\ listed' \subseteq Dev /\ unlinked' \subseteq Dev
        /\ reload' \in Reload /\ urgent' \in [Dev -> BOOLEAN]
    BY <1>3 DEF DestroyEnds, DeviceInv, StateOK
  <2>7. QED  BY <2>3, <2>4, <2>5, <2>6, OthersKeep
<1>4. QED  BY <1>1, <1>2, <1>3 DEF Unloading

LEMMA DeviceInit == Init => DeviceInv
<1> SUFFICES ASSUME Init PROVE DeviceInv
  OBVIOUS
<1>1. PICK init \in [Dev -> InitStates] : pvt = [d \in Dev |-> PvtCreate(init[d])]
  BY DEF Init
<1>2. \A d \in Dev : pvt[d] \in Pvt /\ MonitorOK(pvt[d]) /\ pvt[d].threads = 0
  <2> TAKE d \in Dev
  <2>1. init[d] \in DevState /\ pvt[d] = PvtCreate(init[d])
    BY <1>1, LifecycleAssumption DEF DevState
  <2>2. QED  BY <2>1, PvtCreateType
<1>3. pvt \in [Dev -> Pvt]
  BY <1>1, <1>2
<1>4. disc \in Disc /\ disc.pc = "sleep"
  BY DEF Init, Disc, Then
<1>5. reload \in Reload /\ reload.pc = "idle"
  BY DEF Init, NoReload, Reload, Setting, RestateTime
<1>6. StateOK
  BY <1>3, <1>4, <1>5 DEF Init, StateOK
<1>7. QED  BY <1>2, <1>4, <1>5, <1>6 DEF DeviceInv

LEMMA DeviceStep == DeviceInv /\ [Next]_vars => DeviceInv'
<1> SUFFICES ASSUME DeviceInv, [Next]_vars PROVE DeviceInv'
  OBVIOUS
<1>1. CASE Discovery
  BY <1>1, DiscoveryKeeps
<1>2. CASE Reloading
  BY <1>2, ReloadPassKeeps, ReloadNextKeeps DEF Reloading
<1>3. CASE Unloading
  BY <1>3, UnloadKeeps
<1>4. ASSUME NEW d \in Dev, Terminated(d)
      PROVE  DeviceInv'
  BY <1>4, MonitorEndsKeeps DEF Terminated, SameMonitor, DeviceInv, StateOK
<1>5. ASSUME NEW d \in Dev, Lost(d)
      PROVE  DeviceInv'
  <2> DEFINE p == [pvt[d] EXCEPT !.terminate = FALSE]
  <2>1. p \in Pvt /\ SameMonitor(pvt[d], p)
    BY DEF DeviceInv, StateOK, Pvt, SameMonitor
  <2>2. MonitorEnds(d, p)
    BY <1>5 DEF Lost
  <2> HIDE DEF p
  <2>3. QED  BY <2>1, <2>2, MonitorEndsKeeps
<1>6. ASSUME NEW d \in Dev, Work(d)
      PROVE  DeviceInv'
  BY <1>6, WorkKeeps
<1>7. ASSUME NEW d \in Dev, NEW event \in DevState, NEW when \in Whens, Command(d, event, when)
      PROVE  DeviceInv'
  BY <1>7, CommandKeeps
<1>8. ASSUME NEW cfg \in [Dev -> Setting], NEW when \in ReloadWhens, ReloadBegin(cfg, when)
      PROVE  DeviceInv'
  BY <1>8, ReloadBeginKeeps
<1>9. CASE UNCHANGED vars
  BY <1>9 DEF vars, DeviceInv, StateOK
<1>10. QED
  BY <1>1, <1>2, <1>3, <1>4, <1>5, <1>6, <1>7, <1>8, <1>9 DEF Next

(* The invariant holds in every reachable state, with reloads at any moment. *)
THEOREM DeviceInvHolds == Spec => []DeviceInv
<1>1. QED  BY DeviceInit, DeviceStep, PTL DEF Spec

LEMMA RacedStep == raced \subseteq Dev /\ [Next]_vars => raced' \subseteq Dev
<1> SUFFICES ASSUME raced \subseteq Dev, [Next]_vars PROVE raced' \subseteq Dev
  OBVIOUS
<1>1. CASE Discovery
  BY <1>1 DEF Discovery, Wake, LoopEnd, Sweep, Pass, Visit, Join, Lookup
<1>2. CASE Reloading
  BY <1>2 DEF Reloading, ReloadNext, ReloadMark, ReloadKnown, ReloadNew, ReloadSchedule, RacedBy
<1>3. CASE Unloading
  BY <1>3 DEF Unloading, UnloadBegin, UnloadJoined, UnloadEnds, DestroyBegins, DestroyEnds
<1>4. CASE \E d \in Dev : Terminated(d) \/ Lost(d) \/ Work(d)
  BY <1>4 DEF Terminated, Lost, MonitorEnds, Work, CallStarts, CallEnds, SmsStarts, SmsEnds,
              SmsSent, OthersThanPvt
<1>5. CASE \E d \in Dev, event \in DevState, when \in Whens : Command(d, event, when)
  BY <1>5 DEF Command
<1>6. CASE \E cfg \in [Dev -> Setting], when \in ReloadWhens : ReloadBegin(cfg, when)
  BY <1>6 DEF ReloadBegin
<1>7. CASE UNCHANGED vars
  BY <1>7 DEF vars
<1>8. QED  BY <1>1, <1>2, <1>3, <1>4, <1>5, <1>6, <1>7 DEF Next

(* The variables keep their types: a device's current state is never what is *)
(* merely desired, its calls are never counted below zero.                   *)
THEOREM LifecycleTypes == Spec => []TypeOK
<1> DEFINE RacedOK == raced \subseteq Dev
<1>1. DeviceInv /\ RacedOK => TypeOK
  BY DEF DeviceInv, TypeOK
<1>2. Init => RacedOK
  BY DEF Init
<1>3. RacedOK /\ [Next]_vars => RacedOK'
  BY RacedStep
<1> HIDE DEF RacedOK
<1>4. QED  BY DeviceInvHolds, <1>1, <1>2, <1>3, PTL DEF Spec

(* Two monitors never run on one device, its handle is never lost while one  *)
(* does, and it counts as connected just then.                               *)
THEOREM MonitorUnique == Spec => []OneMonitor
<1>1. DeviceInv => OneMonitor
  BY DEF DeviceInv, MonitorOK, OneMonitor
<1>2. QED  BY DeviceInvHolds, <1>1, PTL

-----------------------------------------------------------------------------
(* Freeing.  The sweep frees what is marked, so a marked device must have no *)
(* monitor, and may not get one before it is swept: discovery marks it after *)
(* the join, and takes the mark back when it visits the device again.  Only  *)
(* a reload marks devices whose monitors run.                                *)
FreeInv ==
  /\ reload.pc = "idle"
  /\ \A d \in Dev : pvt[d].mustRemove => pvt[d].threads = 0
  /\ \A d \in disc.dev : ~pvt[d].mustRemove
  /\ disc.pc \in {"loop", "join", "lookup"} => disc.todo \subseteq listed
  /\ disc.pc \in {"join", "lookup"} => disc.dev \subseteq listed
  /\ disc.pc \notin {"join", "lookup"} => disc.dev = {}
  /\ unload \in {"destroy", "done"} => disc.pc = "ended"
  /\ \A d, e \in unlinked : d = e
  /\ FreedStopped

(* Steps that start no monitor, mark nothing and free nothing.               *)
LEMMA NothingFreed ==
  ASSUME DeviceInv, FreeInv, NEW d \in Dev, NEW r \in Pvt,
         r.threads = pvt[d].threads \/ r.threads = 0, r.mustRemove = pvt[d].mustRemove,
         pvt' = [pvt EXCEPT ![d] = r],
         UNCHANGED << listed, unlinked, disc, reload, unload >>
  PROVE  FreeInv'
<1>1. /\ pvt \in [Dev -> Pvt] /\ disc \in Disc
      /\ \A e \in Dev : pvt'[e] = IF e = d THEN r ELSE pvt[e]
  BY DEF DeviceInv, StateOK
<1>2. \A e \in Dev : pvt'[e].mustRemove = pvt[e].mustRemove
  BY <1>1
<1>3. \A e \in Dev : pvt'[e].threads = pvt[e].threads \/ pvt'[e].threads = 0
  BY <1>1
<1>4. FreedStopped'
  BY <1>3 DEF FreeInv, FreedStopped, Alive
<1>5. \A e \in disc.dev : ~pvt'[e].mustRemove
  BY <1>1, <1>2 DEF FreeInv, Disc
<1>6. \A e \in Dev : pvt'[e].mustRemove => pvt'[e].threads = 0
  BY <1>2, <1>3 DEF FreeInv
<1>7. QED  BY <1>4, <1>5, <1>6 DEF FreeInv

(* The end of a visit of d, which is in the list: it leaves d with at most a *)
(* monitor or a mark, not both.                                              *)
LEMMA VisitedFrees ==
  ASSUME DeviceInv, FreeInv, NEW d \in listed, NEW r \in Pvt,
         r.mustRemove => r.threads = 0, pvt' = [pvt EXCEPT ![d] = r],
         disc.pc \in {"loop", "join", "lookup"}, disc' = Visited(d), OthersThanDiscovery
  PROVE  FreeInv'
<1>1. /\ pvt \in [Dev -> Pvt] /\ listed \subseteq Dev
      /\ \A e \in Dev : pvt'[e] = IF e = d THEN r ELSE pvt[e]
  BY DEF DeviceInv, StateOK
<1>2. UNCHANGED << listed, unlinked, reload, unload >>
  BY DEF OthersThanDiscovery
<1>3. disc'.pc = "loop" /\ disc'.dev = {} /\ disc'.todo \subseteq listed
  BY DEF Visited, FreeInv
<1>4. \A e \in Dev : pvt'[e].mustRemove => pvt'[e].threads = 0
  BY <1>1 DEF FreeInv
<1>5. FreedStopped'
  BY <1>1, <1>2 DEF FreeInv, FreedStopped, Alive
<1>6. unload \notin {"destroy", "done"}
  BY DEF FreeInv
<1>7. QED  BY <1>2, <1>3, <1>4, <1>5, <1>6 DEF FreeInv

(* The visit goes on without the lock, to a join or a lookup.                *)
LEMMA VisitingFrees ==
  ASSUME DeviceInv, FreeInv, NEW d \in listed, NEW r \in Pvt,
         ~r.mustRemove, r.threads = pvt[d].threads \/ r.threads = 0,
         pvt' = [pvt EXCEPT ![d] = r],
         disc.pc \in {"loop", "join", "lookup"},
         disc'.pc \in {"join", "lookup"}, disc'.dev = {d}, disc'.todo = disc.todo,
         OthersThanDiscovery
  PROVE  FreeInv'
<1>1. /\ pvt \in [Dev -> Pvt] /\ listed \subseteq Dev
      /\ \A e \in Dev : pvt'[e] = IF e = d THEN r ELSE pvt[e]
  BY DEF DeviceInv, StateOK
<1>2. UNCHANGED << listed, unlinked, reload, unload >>
  BY DEF OthersThanDiscovery
<1>3. \A e \in Dev : pvt'[e].mustRemove => pvt'[e].threads = 0
  BY <1>1 DEF FreeInv
<1>4. FreedStopped'
  BY <1>1, <1>2 DEF FreeInv, FreedStopped, Alive
<1>5. unload \notin {"destroy", "done"} /\ disc.todo \subseteq listed
  BY DEF FreeInv
<1>6. \A e \in disc'.dev : ~pvt'[e].mustRemove
  BY <1>1
<1>7. QED  BY <1>2, <1>3, <1>4, <1>5, <1>6 DEF FreeInv

LEMMA StartFrees ==
  ASSUME DeviceInv, FreeInv, NEW d \in listed, NEW p \in Pvt,
         MonitorOK(p), p.threads = 0, ~p.mustRemove,
         disc.pc \in {"loop", "join", "lookup"},
         StartPvt(d, p) \/ FinishStart(d, p), OthersThanDiscovery
  PROVE  FreeInv'
<1>1. CASE FinishStart(d, p)
  <2>1. PICK up \in BOOLEAN : pvt' = [pvt EXCEPT ![d] = Connect(p, up)]
    BY <1>1 DEF FinishStart, Connects
  <2>2. Connect(p, up) \in Pvt /\ ~Connect(p, up).mustRemove
    BY ConnectStarts
  <2>3. disc' = Visited(d)
    BY <1>1 DEF FinishStart
  <2>4. QED  BY <2>1, <2>2, <2>3, VisitedFrees
<1>2. CASE StartPvt(d, p) /\ d \in LookupDevs
  <2>1. /\ pvt' = [pvt EXCEPT ![d] = p]
        /\ disc' = [disc EXCEPT !.pc = "lookup", !.dev = {d}, !.then = "stop"]
    BY <1>2 DEF StartPvt
  <2>2. disc'.pc = "lookup" /\ disc'.dev = {d} /\ disc'.todo = disc.todo
    BY <2>1 DEF Disc, DeviceInv, StateOK
  <2>3. QED  BY <2>1, <2>2, VisitingFrees
<1>3. CASE StartPvt(d, p) /\ d \notin LookupDevs
  BY <1>1, <1>3 DEF StartPvt
<1>4. QED  BY <1>1, <1>2, <1>3

LEMMA ProceedFrees ==
  ASSUME DeviceInv, FreeInv, NEW d \in listed, NEW p \in Pvt,
         MonitorOK(p), p.threads = 0, ~p.mustRemove, NEW then,
         disc.pc \in {"loop", "join", "lookup"},
         Proceed(d, p, then), OthersThanDiscovery
  PROVE  FreeInv'
<1>1. CASE then = "stop" /\ Leave(d, p)
  BY <1>1, VisitedFrees DEF Leave
<1>2. CASE then = "remove" /\ Leave(d, [p EXCEPT !.mustRemove = TRUE])
  <2> DEFINE r == [p EXCEPT !.mustRemove = TRUE]
  <2>1. r \in Pvt /\ r.threads = 0
    BY DEF Pvt
  <2>2. pvt' = [pvt EXCEPT ![d] = r] /\ disc' = Visited(d)
    BY <1>2 DEF Leave
  <2> HIDE DEF r
  <2>3. QED  BY <2>1, <2>2, VisitedFrees
<1>3. CASE then = "connect" /\ StartPvt(d, p)
  BY <1>3, StartFrees
<1>4. CASE then = "restart"
  <2> DEFINE r == [p EXCEPT !.desired = "started"]
  <2>1. r \in Pvt /\ MonitorOK(r) /\ r.threads = 0 /\ ~r.mustRemove
    BY DEF Pvt, MonitorOK, DevState
  <2>2. IF r.current = "stopped" THEN StartPvt(d, r) ELSE Leave(d, r)
    BY <1>4 DEF Proceed
  <2> HIDE DEF r
  <2>3. CASE StartPvt(d, r)
    BY <2>1, <2>3, StartFrees
  <2>4. CASE Leave(d, r)
    BY <2>1, <2>4, VisitedFrees DEF Leave
  <2>5. QED  BY <2>2, <2>3, <2>4
<1>5. QED  BY <1>1, <1>2, <1>3, <1>4 DEF Proceed

LEMMA DiscoveryFrees ==
  ASSUME DeviceInv, FreeInv, Discovery
  PROVE  FreeInv'
<1>1. CASE Wake \/ LoopEnd
  <2>1. UNCHANGED << pvt, listed, unlinked, reload, unload >>
    BY <1>1 DEF Wake, LoopEnd, OthersThanDiscovery
  <2>2. /\ disc \in Disc /\ disc.dev = {} /\ disc.pc # "ended"
        /\ unload \notin {"destroy", "done"}
    BY <1>1 DEF Wake, LoopEnd, DeviceInv, StateOK, FreeInv
  <2>3. /\ disc'.dev = {} /\ disc'.pc \notin {"join", "lookup"}
        /\ disc'.pc = "loop" => disc'.todo \subseteq listed
    BY <1>1, <2>2 DEF Wake, LoopEnd, Disc
  <2>4. FreedStopped'
    BY <2>1 DEF FreeInv, FreedStopped, Alive
  <2>5. QED  BY <2>1, <2>2, <2>3, <2>4 DEF FreeInv
<1>2. CASE Sweep
  <2>1. /\ UNCHANGED << pvt, unlinked, reload, unload >>
        /\ listed' = { d \in listed : ~pvt[d].mustRemove }
        /\ disc' = [disc EXCEPT !.pc = "sleep"] /\ disc.pc = "sweep"
    BY <1>2 DEF Sweep
  <2>2. disc'.pc = "sleep" /\ disc'.dev = {} /\ unload \notin {"destroy", "done"}
    BY <2>1 DEF FreeInv, DeviceInv, StateOK, Disc
  <2>3. \A d \in Dev : pvt[d].threads > 0 => ~pvt[d].mustRemove
    BY DEF FreeInv
  <2>4. FreedStopped'
    BY <2>1, <2>3 DEF FreeInv, FreedStopped, Alive
  <2>5. QED  BY <2>1, <2>2, <2>4 DEF FreeInv
<1>3. ASSUME NEW d \in Dev, Pass(d)
      PROVE  FreeInv'
  <2> DEFINE p == [pvt[d] EXCEPT !.mustRemove = FALSE]
  <2>1. p \in Pvt /\ ~p.mustRemove
    BY DEF DeviceInv, StateOK, Pvt
  <2>2. pvt' = [pvt EXCEPT ![d] = p] /\ disc' = Visited(d) /\ OthersThanDiscovery
    BY <1>3 DEF Pass, Leave
  <2>3. disc.pc = "loop" /\ d \in listed
    BY <1>3 DEF Pass, FreeInv
  <2> HIDE DEF p
  <2>4. QED  BY <2>1, <2>2, <2>3, VisitedFrees
<1>4. ASSUME NEW d \in Dev, Visit(d)
      PROVE  FreeInv'
  <2> DEFINE p == [pvt[d] EXCEPT !.mustRemove = FALSE]
             then == ThenFor[p.desired]
  <2>1. p \in Pvt /\ MonitorOK(p) /\ ~p.mustRemove /\ p.threads = pvt[d].threads
    BY ZenonT(60) DEF DeviceInv, StateOK, Pvt, MonitorOK
  <2>2. disc.pc = "loop" /\ d \in listed /\ OthersThanDiscovery
    BY <1>4 DEF Visit, FreeInv
  <2>3. \/ /\ p.handle
           /\ pvt' = [pvt EXCEPT ![d] = [p EXCEPT !.terminate = TRUE]]
           /\ disc' = [disc EXCEPT !.pc = "join", !.dev = {d}, !.then = then]
        \/ ~p.handle /\ Proceed(d, p, then)
    BY <1>4 DEF Visit
  <2> HIDE DEF p, then
  <2>4. CASE p.handle
    <3> DEFINE r == [p EXCEPT !.terminate = TRUE]
    <3>1. r \in Pvt /\ ~r.mustRemove /\ r.threads = pvt[d].threads
      BY <2>1 DEF Pvt
    <3>2. pvt' = [pvt EXCEPT ![d] = r]
      BY <2>3, <2>4
    <3> HIDE DEF r
    <3>3. disc'.pc = "join" /\ disc'.dev = {d} /\ disc'.todo = disc.todo
      BY <2>3, <2>4 DEF Disc, DeviceInv, StateOK
    <3>4. QED  BY <2>2, <3>1, <3>2, <3>3, VisitingFrees
  <2>5. CASE ~p.handle
    <3>1. p.threads = 0
      BY <2>1, <2>5 DEF MonitorOK, Pvt
    <3>2. QED  BY <2>1, <2>2, <2>3, <2>5, <3>1, ProceedFrees
  <2>6. QED  BY <2>4, <2>5
<1>5. ASSUME NEW d \in Dev, Join(d)
      PROVE  FreeInv'
  <2> DEFINE p == Stopped(pvt[d])
  <2>1. pvt[d] \in Pvt /\ MonitorOK(pvt[d])
    BY DEF DeviceInv, StateOK
  <2>2. pvt[d].threads = 0 /\ ~pvt[d].mustRemove /\ d \in listed
    BY <1>5, <2>1 DEF Join, MonitorGone, MonitorOK, Pvt, FreeInv
  <2>3. p \in Pvt /\ p.threads = 0 /\ p.current = pvt[d].current /\ ~p.mustRemove
    BY <2>1, <2>2 DEF Stopped, Pvt
  <2>4. Proceed(d, p, disc.then) /\ OthersThanDiscovery /\ disc.pc = "join"
    BY <1>5 DEF Join
  <2> HIDE DEF p
  <2>5. MonitorOK(p)
    BY <2>1, <2>2, <2>3 DEF MonitorOK
  <2>6. QED  BY <2>2, <2>3, <2>4, <2>5, ProceedFrees
<1>6. ASSUME NEW d \in Dev, Lookup(d)
      PROVE  FreeInv'
  <2>1. pvt[d] \in Pvt /\ MonitorOK(pvt[d]) /\ pvt[d].threads = 0
    BY <1>6 DEF Lookup, DeviceInv, StateOK
  <2>2. d \in listed /\ ~pvt[d].mustRemove
    BY <1>6 DEF Lookup, FreeInv
  <2>3. QED  BY <1>6, <2>1, <2>2, StartFrees DEF Lookup
<1>7. QED  BY <1>1, <1>2, <1>3, <1>4, <1>5, <1>6 DEF Discovery

LEMMA MonitorFrees ==
  ASSUME DeviceInv, FreeInv, NEW d \in Dev, NEW p \in Pvt, SameMonitor(pvt[d], p),
         p.mustRemove = pvt[d].mustRemove, MonitorEnds(d, p)
  PROVE  FreeInv'
<1>1. MonitorOK(p) /\ p.threads > 0
  BY DEF MonitorEnds, DeviceInv, SameMonitor, MonitorOK
<1>2. /\ Disconnect(p) \in Pvt /\ Disconnect(p).threads = 0
      /\ Disconnect(p).mustRemove = p.mustRemove
  BY <1>1, DisconnectEnds
<1>3. pvt' = [pvt EXCEPT ![d] = Disconnect(p)] /\ OthersThanPvt
  BY DEF MonitorEnds
<1>4. QED  BY <1>2, <1>3, NothingFreed DEF OthersThanPvt

LEMMA ChangesFree ==
  ASSUME DeviceInv, FreeInv, NEW d \in Dev, Changes(d),
         UNCHANGED << listed, unlinked, disc, reload, unload >>
  PROVE  FreeInv'
  BY NothingFreed DEF Changes, SameMonitor

LEMMA WorkFrees ==
  ASSUME DeviceInv, FreeInv, NEW d \in Dev, Work(d)
  PROVE  FreeInv'
<1>1. UNCHANGED << listed, unlinked, disc, reload, unload >>
  BY DEF Work, CallStarts, CallEnds, SmsStarts, SmsEnds, SmsSent, OthersThanPvt
<1>2. QED  BY <1>1, WorkChanges, ChangesFree

LEMMA CommandFrees ==
  ASSUME DeviceInv, FreeInv, NEW d \in Dev, NEW event \in DevState, NEW when \in Whens,
         Command(d, event, when)
  PROVE  FreeInv'
<1>1. UNCHANGED << listed, unlinked, disc, reload, unload >>
  BY DEF Command
<1>2. QED  BY <1>1, CommandChanges, ChangesFree

LEMMA UnloadFrees ==
  ASSUME DeviceInv, FreeInv, Unloading
  PROVE  FreeInv'
<1>1. CASE UnloadBegin \/ UnloadJoined \/ UnloadEnds
  BY <1>1 DEF UnloadBegin, UnloadJoined, UnloadEnds, FreeInv, FreedStopped, Alive
<1>2. ASSUME NEW d \in Dev, DestroyBegins(d)
      PROVE  FreeInv'
  <2>1. /\ unload = "destroy" /\ unlinked = {} /\ d \in listed
        /\ listed' = listed \ {d} /\ unlinked' = {d}
        /\ pvt' = [pvt EXCEPT ![d].terminate = pvt[d].handle]
        /\ UNCHANGED << disc, reload, unload >>
    BY <1>2 DEF DestroyBegins
  <2>2. \A e \in Dev : /\ pvt'[e].threads = pvt[e].threads
                       /\ pvt'[e].mustRemove = pvt[e].mustRemove
    BY <2>1 DEF DeviceInv, StateOK, Pvt
  <2>3. FreedStopped'
    BY <2>1, <2>2 DEF FreeInv, FreedStopped, Alive
  <2>4. disc.pc = "ended" /\ disc.dev = {}
    BY <2>1 DEF FreeInv
  <2>5. QED  BY <2>1, <2>2, <2>3, <2>4 DEF FreeInv
<1>3. ASSUME NEW d \in Dev, DestroyEnds(d)
      PROVE  FreeInv'
  <2>1. /\ unload = "destroy" /\ d \in unlinked /\ unlinked' = {}
        /\ pvt' = [pvt EXCEPT ![d] = Stopped(@)]
        /\ UNCHANGED << listed, disc, reload, unload >>
    BY <1>3 DEF DestroyEnds
  <2>2. pvt[d].threads = 0
    BY <1>3 DEF DestroyEnds, MonitorGone, MonitorOK, DeviceInv, StateOK, Pvt
  <2>3. \A e \in Dev : /\ pvt'[e].threads = pvt[e].threads
                       /\ pvt'[e].mustRemove = pvt[e].mustRemove
    BY <2>1 DEF DeviceInv, StateOK, Pvt, Stopped
  <2>4. unlinked = {d}
    BY <2>1 DEF FreeInv
  <2>5. FreedStopped'
    BY <2>1, <2>2, <2>3, <2>4 DEF FreeInv, FreedStopped, Alive
  <2>6. disc.pc = "ended" /\ disc.dev = {}
    BY <2>1 DEF FreeInv
  <2>7. QED  BY <2>1, <2>3, <2>5, <2>6 DEF FreeInv
<1>4. QED  BY <1>1, <1>2, <1>3 DEF Unloading

LEMMA FreeInit == DeviceInv /\ Init => FreeInv
<1> SUFFICES ASSUME Init PROVE FreeInv
  OBVIOUS
<1>1. \A d \in Dev : pvt[d].threads = 0
  BY DEF Init, PvtCreate
<1>2. disc.pc = "sleep" /\ disc.dev = {} /\ reload.pc = "idle"
  BY DEF Init, NoReload
<1>3. QED  BY <1>1, <1>2 DEF Init, FreeInv, FreedStopped

LEMMA FreeStep ==
  ASSUME ReloadWhens = {}
  PROVE  DeviceInv /\ FreeInv /\ [Next]_vars => FreeInv'
<1> SUFFICES ASSUME DeviceInv, FreeInv, [Next]_vars PROVE FreeInv'
  OBVIOUS
<1>1. CASE Discovery
  BY <1>1, DiscoveryFrees
<1>2. CASE Reloading
  BY <1>2 DEF FreeInv, Reloading, ReloadNext, ReloadMark, ReloadKnown, ReloadNew,
              ReloadSchedule, ReloadTakes
<1>3. CASE Unloading
  BY <1>3, UnloadFrees
<1>4. ASSUME NEW d \in Dev, Terminated(d)
      PROVE  FreeInv'
  BY <1>4, MonitorFrees DEF Terminated, SameMonitor, DeviceInv, StateOK
<1>5. ASSUME NEW d \in Dev, Lost(d)
      PROVE  FreeInv'
  <2> DEFINE p == [pvt[d] EXCEPT !.terminate = FALSE]
  <2>1. p \in Pvt /\ SameMonitor(pvt[d], p) /\ p.mustRemove = pvt[d].mustRemove
    BY DEF DeviceInv, StateOK, Pvt, SameMonitor
  <2>2. MonitorEnds(d, p)
    BY <1>5 DEF Lost
  <2> HIDE DEF p
  <2>3. QED  BY <2>1, <2>2, MonitorFrees
<1>6. ASSUME NEW d \in Dev, Work(d)
      PROVE  FreeInv'
  BY <1>6, WorkFrees
<1>7. ASSUME NEW d \in Dev, NEW event \in DevState, NEW when \in Whens, Command(d, event, when)
      PROVE  FreeInv'
  BY <1>7, CommandFrees
<1>8. CASE UNCHANGED vars
  BY <1>8 DEF vars, FreeInv, FreedStopped, Alive
<1>9. QED
  BY <1>1, <1>2, <1>3, <1>4, <1>5, <1>6, <1>7, <1>8 DEF Next

(* While the configuration is not reloaded no device is freed under its      *)
(* monitor, neither by the sweep of discovery nor by the unloading.          *)
THEOREM FreedAfterStop ==
  ASSUME ReloadWhens = {}
  PROVE  Spec => []FreedStopped
<1>1. DeviceInv /\ Init => FreeInv
  BY FreeInit
<1>2. DeviceInv /\ FreeInv /\ [Next]_vars => FreeInv'
  BY FreeStep
<1>3. FreeInv => FreedStopped
  BY DEF FreeInv
<1>4. QED  BY <1>1, <1>2, <1>3, DeviceInvHolds, PTL DEF Spec


-----------------------------------------------------------------------------
(* Commands that come when discovery is in the middle of their device, and   *)
(* all the others.                                                           *)

(* A command that is put off waits for something.  *)
Waits(p) ==
  p.current = "started" /\ p.desired # "started" /\ p.restart # "now" => Busy(p)

(* What discovery began on d is still to be done now, and a restart is still *)
(* what is wanted.                                                           *)
Stands(d) ==
  disc.dev = {d} =>
    /\ pvt[d].restart = "now"
    /\ disc.pc = "join" /\ disc.then = "restart" => pvt[d].desired = "restarted"

(* Nobody gave an order for a device while discovery had let go of it, or    *)
(* the device is in `raced'.                                                 *)
Undisturbed ==
  /\ disc.dev # {} => disc.pc \in {"join", "lookup"}
  /\ \A d \in Dev \ raced : Stands(d) /\ Waits(pvt[d])

(* The order given while discovery waits to restart the device.  *)
Overtaken(d) == d \in raced /\ disc.pc = "join" /\ disc.then = "restart"

(* What is desired survives a step that leaves r of d, but for the restart   *)
(* carried out and the order overtaken.                                      *)
Kept(d, r) ==
  \/ r.desired = pvt[d].desired
  \/ pvt[d].desired = "restarted" /\ r.desired = "started"
  \/ /\ Overtaken(d)
     /\ r.desired = "started"

LEMMA TryRestateWaits ==
  ASSUME NEW p \in Pvt
  PROVE  /\ Waits(TryRestate(p)) /\ TryRestate(p).desired = p.desired
         /\ p.restart = "now" => TryRestate(p).restart = "now"
<1>1. CASE Time4Restate(p)
  BY <1>1 DEF TryRestate, Waits, Pvt
<1>2. CASE ~Time4Restate(p)
  BY <1>2 DEF TryRestate, Time4Restate, Waits
<1>3. QED  BY <1>1, <1>2

LEMMA CpvtFreeWaits ==
  ASSUME NEW p \in Pvt, p.chans > 0
  PROVE  /\ Waits(CpvtFree(p)) /\ CpvtFree(p).desired = p.desired
         /\ p.restart = "now" => CpvtFree(p).restart = "now"
<1> DEFINE q == [p EXCEPT !.chans = @ - 1]
<1>1. q \in Pvt /\ q.desired = p.desired /\ q.restart = p.restart
  BY DEF Pvt
<1>2. CpvtFree(p) = IF q.chans = 0 THEN TryRestate(q) ELSE q
  BY DEF CpvtFree
<1>3. q.chans # 0 => Busy(q)
  BY <1>1 DEF Busy, Pvt
<1> HIDE DEF q
<1>4. q.chans # 0 => Waits(q)
  BY <1>3 DEF Waits
<1>5. QED  BY <1>1, <1>2, <1>4, TryRestateWaits

LEMMA RescheduledWaits ==
  ASSUME NEW p \in Pvt, NEW when \in RestateTime
  PROVE  Waits(Rescheduled(p, when))
<1>1. CASE Time4Restate(p)
  BY <1>1 DEF Rescheduled, Waits, Pvt
<1>2. CASE ~Time4Restate(p)
  <2>1. Rescheduled(p, when) = [p EXCEPT !.restart = when]
    BY <1>2 DEF Rescheduled
  <2>2. p.desired = p.current \/ Busy(p)
    BY <1>2 DEF Time4Restate
  <2>3. QED  BY <2>1, <2>2 DEF Waits, Busy, Pvt
<1>3. QED  BY <1>1, <1>2

LEMMA ReconfigureWaits ==
  ASSUME NEW p \in Pvt, Waits(p), NEW s \in Setting, s # NoSection, NEW when \in RestateTime
  PROVE  Waits(Reconfigure(p, s, when))
<1>1. s.initstate \in DevState
  BY SettingFields, LifecycleAssumption DEF DevState
<1>2. CASE s.initstate = "removed"
  BY <1>2 DEF Reconfigure, Waits, Busy, Pvt
<1>3. CASE s.initstate # "removed" /\ p.desired # s.initstate
  <2> DEFINE q == [p EXCEPT !.desired = s.initstate]
  <2>1. q \in Pvt
    BY <1>1 DEF Pvt
  <2>2. Reconfigure(p, s, when) = Rescheduled(q, when)
    BY <1>3 DEF Reconfigure
  <2> HIDE DEF q
  <2>3. QED  BY <2>1, <2>2, RescheduledWaits
<1>4. CASE s.initstate # "removed" /\ p.desired = s.initstate /\ s.changed
  <2> DEFINE q == [p EXCEPT !.desired = "restarted"]
  <2>1. q \in Pvt
    BY DEF Pvt, DevState
  <2>2. Reconfigure(p, s, when) = Rescheduled(q, when)
    BY <1>4 DEF Reconfigure
  <2> HIDE DEF q
  <2>3. QED  BY <2>1, <2>2, RescheduledWaits
<1>5. CASE s.initstate # "removed" /\ p.desired = s.initstate /\ ~s.changed
  BY <1>5 DEF Reconfigure
<1>6. QED  BY <1>2, <1>3, <1>4, <1>5

(* A step that replaces the struct of d while discovery stays where it is:   *)
(* if discovery is in the middle of d the order it carries out stands, or    *)
(* the step is one of those remembered in `raced'.                           *)
LEMMA StandsUndisturbed ==
  ASSUME DeviceInv, Undisturbed, NEW d \in Dev, NEW r \in Pvt,
         \/ d \in raced'
         \/ /\ Waits(r)
            /\ disc.dev = {d} =>
                 d \notin raced /\ r.desired = pvt[d].desired /\ r.restart = "now",
         raced \subseteq raced' \cup {d},
         pvt' = [pvt EXCEPT ![d] = r], disc' = disc
  PROVE  Undisturbed'
<1>1. \A e \in Dev : pvt'[e] = IF e = d THEN r ELSE pvt[e]
  BY DEF DeviceInv, StateOK
<1>2. ASSUME NEW e \in Dev, e \notin raced'
      PROVE  /\ Waits(pvt'[e])
             /\ disc.dev = {e} =>
                  /\ pvt'[e].restart = "now"
                  /\ disc.pc = "join" /\ disc.then = "restart" => pvt'[e].desired = "restarted"
  <2>1. CASE e = d
    <3>1. pvt'[e] = r /\ Waits(r)
      BY <1>1, <1>2, <2>1
    <3>2. ASSUME disc.dev = {e}
          PROVE  /\ r.restart = "now"
                 /\ disc.pc = "join" /\ disc.then = "restart" => r.desired = "restarted"
      <4>1. e \notin raced /\ r.desired = pvt[e].desired /\ r.restart = "now"
        BY <1>2, <2>1, <3>2
      <4>2. Stands(e)
        BY <4>1 DEF Undisturbed
      <4>3. QED  BY <3>2, <4>1, <4>2 DEF Stands
    <3>3. QED  BY <3>1, <3>2
  <2>2. CASE e # d
    BY <1>1, <1>2, <2>2 DEF Undisturbed, Stands
  <2>3. QED  BY <2>1, <2>2
<1>3. QED  BY <1>2 DEF Undisturbed, Stands, Waits, Busy

LEMMA WorkUndisturbed ==
  ASSUME DeviceInv, NEW d \in Dev, Work(d)
  PROVE  \E r \in Pvt : /\ Waits(pvt[d]) => Waits(r)
                        /\ r.desired = pvt[d].desired
                        /\ pvt[d].restart = "now" => r.restart = "now"
                        /\ pvt' = [pvt EXCEPT ![d] = r]
<1> DEFINE p == pvt[d]
           Good(r) == /\ r \in Pvt /\ (Waits(p) => Waits(r)) /\ r.desired = p.desired
                      /\ p.restart = "now" => r.restart = "now"
<1>1. p \in Pvt
  BY DEF DeviceInv, StateOK
<1>2. CASE CallStarts(d)
  <2> DEFINE r == [p EXCEPT !.chans = @ + 1]
  <2>1. Good(r)
    BY <1>1 DEF Pvt, Waits, Busy
  <2>2. pvt' = [pvt EXCEPT ![d] = r]
    BY <1>2 DEF CallStarts
  <2> HIDE DEF r
  <2>3. QED  BY <2>1, <2>2
<1>3. CASE CallEnds(d)
  <2>1. p.chans > 0 /\ pvt' = [pvt EXCEPT ![d] = CpvtFree(p)]
    BY <1>3 DEF CallEnds
  <2>2. Good(CpvtFree(p))
    BY <1>1, <2>1, CpvtFreeWaits, CpvtFreeKeeps
  <2>3. QED  BY <2>1, <2>2
<1>4. CASE SmsStarts(d)
  <2> DEFINE r == [p EXCEPT !.sms = TRUE]
  <2>1. Good(r)
    BY <1>1 DEF Pvt, Waits, Busy
  <2>2. pvt' = [pvt EXCEPT ![d] = r]
    BY <1>4 DEF SmsStarts
  <2> HIDE DEF r
  <2>3. QED  BY <2>1, <2>2
<1>5. CASE SmsEnds(d)
  <2> DEFINE q == [p EXCEPT !.sms = FALSE]
  <2>1. q \in Pvt /\ q.desired = p.desired /\ q.restart = p.restart
    BY <1>1 DEF Pvt
  <2>2. pvt' = [pvt EXCEPT ![d] = TryRestate(q)]
    BY <1>5 DEF SmsEnds
  <2> HIDE DEF q
  <2>3. Good(TryRestate(q))
    BY <2>1, TryRestateWaits, TryRestateKeeps
  <2>4. QED  BY <2>2, <2>3
<1>6. CASE SmsSent(d)
  <2>1. pvt' = [pvt EXCEPT ![d] = TryRestate(p)]
    BY <1>6 DEF SmsSent
  <2>2. Good(TryRestate(p))
    BY <1>1, TryRestateWaits, TryRestateKeeps
  <2>3. QED  BY <2>1, <2>2
<1>7. QED  BY <1>2, <1>3, <1>4, <1>5, <1>6 DEF Work

LEMMA DisconnectWaits ==
  ASSUME NEW p \in Pvt, MonitorOK(p), p.threads > 0
  PROVE  /\ Waits(Disconnect(p)) /\ Disconnect(p).desired = p.desired
         /\ p.restart = "now" => Disconnect(p).restart = "now"
<1> DEFINE q == [p EXCEPT !.chans = 1]
           r == Released(p)
<1>1. q \in Pvt /\ q.chans > 0 /\ q.desired = p.desired /\ q.restart = p.restart
  BY DEF Pvt
<1>2. r = IF p.chans > 0 THEN CpvtFree(q) ELSE p
  BY DEF Released
<1> HIDE DEF q
<1>3. r.desired = p.desired /\ (p.restart = "now" => r.restart = "now") /\ r \in Pvt
  BY <1>1, <1>2, CpvtFreeWaits, CpvtFreeKeeps
<1> HIDE DEF r
<1>4. Disconnect(p) = [r EXCEPT !.threads = @ - 1, !.chans = 0, !.sms = FALSE,
                                !.current = "stopped"]
  BY DEF Disconnect, r
<1>5. /\ Disconnect(p).current = "stopped" /\ Disconnect(p).desired = r.desired
      /\ Disconnect(p).restart = r.restart
  BY <1>3, <1>4 DEF Pvt
<1>6. QED  BY <1>3, <1>5 DEF Waits

LEMMA MonitorUndisturbed ==
  ASSUME DeviceInv, NEW d \in Dev, Terminated(d) \/ Lost(d)
  PROVE  \E r \in Pvt : /\ Waits(r) /\ r.desired = pvt[d].desired
                        /\ pvt[d].restart = "now" => r.restart = "now"
                        /\ pvt' = [pvt EXCEPT ![d] = r]
<1>1. pvt[d] \in Pvt /\ MonitorOK(pvt[d])
  BY DEF DeviceInv, StateOK
<1>2. ASSUME NEW p \in Pvt, MonitorOK(p), p.threads = pvt[d].threads,
             p.desired = pvt[d].desired, p.restart = pvt[d].restart, MonitorEnds(d, p)
      PROVE  \E r \in Pvt : /\ Waits(r) /\ r.desired = pvt[d].desired
                            /\ pvt[d].restart = "now" => r.restart = "now"
                            /\ pvt' = [pvt EXCEPT ![d] = r]
  <2>1. p.threads > 0 /\ pvt' = [pvt EXCEPT ![d] = Disconnect(p)]
    BY <1>2 DEF MonitorEnds
  <2>2. Disconnect(p) \in Pvt
    BY <1>2, <2>1, DisconnectEnds
  <2>3. QED  BY <1>2, <2>1, <2>2, DisconnectWaits
<1>3. CASE Terminated(d)
  BY <1>1, <1>2, <1>3 DEF Terminated
<1>4. CASE Lost(d)
  <2> DEFINE p == [pvt[d] EXCEPT !.terminate = FALSE]
  <2>1. /\ p \in Pvt /\ MonitorOK(p) /\ p.threads = pvt[d].threads
        /\ p.desired = pvt[d].desired /\ p.restart = pvt[d].restart
    BY <1>1 DEF Pvt, MonitorOK
  <2>2. MonitorEnds(d, p)
    BY <1>4 DEF Lost
  <2> HIDE DEF p
  <2>3. QED  BY <1>2, <2>1, <2>2
<1>5. QED  BY <1>3, <1>4

(* What one visit of d leaves behind, over or interrupted.  *)
VisitLeaves(d) ==
  \E r \in Pvt :
    /\ pvt' = [pvt EXCEPT ![d] = r] /\ Kept(d, r)
    /\ d \in raced' \/ Waits(r)
    /\ \/ disc'.dev = {}
       \/ /\ disc'.dev = {d} /\ disc'.pc \in {"join", "lookup"}
          /\ d \in raced' \/ r.restart = "now"
          /\ disc'.pc = "join" /\ disc'.then = "restart" =>
               d \in raced' \/ r.desired = "restarted"

LEMMA StartLeaves ==
  ASSUME DeviceInv, NEW d \in Dev, NEW p \in Pvt, d \in raced' \/ p.restart = "now",
         p.threads = 0, MonitorOK(p), Kept(d, p), StartPvt(d, p) \/ FinishStart(d, p)
  PROVE  VisitLeaves(d)
<1>1. CASE FinishStart(d, p)
  <2>1. PICK up \in BOOLEAN : pvt' = [pvt EXCEPT ![d] = Connect(p, up)]
    BY <1>1 DEF FinishStart, Connects
  <2> DEFINE r == Connect(p, up)
  <2>2. r \in Pvt
    BY ConnectStarts
  <2>3. r.desired = p.desired /\ r.restart = p.restart
    BY DEF Connect, Pvt
  <2>4. disc'.dev = {}
    BY <1>1 DEF FinishStart, Visited
  <2>5. pvt' = [pvt EXCEPT ![d] = r]
    BY <2>1
  <2> HIDE DEF r
  <2>6. (d \in raced' \/ Waits(r)) /\ Kept(d, r)
    BY <2>3 DEF Waits, Kept
  <2>7. QED  BY <2>2, <2>4, <2>5, <2>6 DEF VisitLeaves
<1>2. CASE StartPvt(d, p) /\ d \in LookupDevs
  <2>1. /\ pvt' = [pvt EXCEPT ![d] = p]
        /\ disc' = [disc EXCEPT !.pc = "lookup", !.dev = {d}, !.then = "stop"]
    BY <1>2 DEF StartPvt
  <2>2. disc'.pc = "lookup" /\ disc'.dev = {d}
    BY <2>1 DEF Disc, DeviceInv, StateOK
  <2>3. QED  BY <2>1, <2>2 DEF VisitLeaves, Waits
<1>3. CASE StartPvt(d, p) /\ d \notin LookupDevs
  BY <1>1, <1>3 DEF StartPvt
<1>4. QED  BY <1>1, <1>2, <1>3

LEMMA ProceedLeaves ==
  ASSUME DeviceInv, NEW d \in Dev, NEW p \in Pvt, d \in raced' \/ p.restart = "now",
         p.threads = 0, MonitorOK(p), p.desired = pvt[d].desired, NEW then,
         then = "restart" => p.desired = "restarted" \/ Overtaken(d), Proceed(d, p, then)
  PROVE  VisitLeaves(d)
<1>1. ASSUME NEW r \in Pvt, r.restart = p.restart, Kept(d, r), Leave(d, r)
      PROVE  VisitLeaves(d)
  <2>1. pvt' = [pvt EXCEPT ![d] = r] /\ disc'.dev = {}
    BY <1>1 DEF Leave, Visited
  <2>2. QED  BY <1>1, <2>1 DEF VisitLeaves, Waits
<1>2. Kept(d, p)
  BY DEF Kept
<1>3. CASE then = "stop" /\ Leave(d, p)
  BY <1>1, <1>2, <1>3
<1>4. CASE then = "remove" /\ Leave(d, [p EXCEPT !.mustRemove = TRUE])
  <2> DEFINE r == [p EXCEPT !.mustRemove = TRUE]
  <2>1. r \in Pvt /\ r.restart = p.restart /\ r.desired = p.desired
    BY DEF Pvt
  <2>2. Leave(d, r)
    BY <1>4
  <2> HIDE DEF r
  <2>3. QED  BY <1>1, <2>1, <2>2 DEF Kept
<1>5. CASE then = "connect" /\ StartPvt(d, p)
  BY <1>2, <1>5, StartLeaves
<1>6. CASE then = "restart"
  <2> DEFINE r == [p EXCEPT !.desired = "started"]
  <2>1. /\ r \in Pvt /\ r.restart = p.restart /\ r.desired = "started" /\ r.threads = 0
        /\ MonitorOK(r)
    BY DEF Pvt, DevState, MonitorOK
  <2>2. StartPvt(d, r) \/ Leave(d, r)
    BY <1>6 DEF Proceed
  <2> HIDE DEF r
  <2>3. Kept(d, r)
    BY <1>6, <2>1 DEF Kept
  <2>4. QED  BY <1>1, <2>1, <2>2, <2>3, StartLeaves
<1>7. QED  BY <1>3, <1>4, <1>5, <1>6 DEF Proceed

LEMMA VisitingLeaves ==
  ASSUME DeviceInv, Undisturbed, NEW d \in Dev, Pass(d) \/ Visit(d) \/ Join(d) \/ Lookup(d)
  PROVE  VisitLeaves(d)
<1>1. pvt[d] \in Pvt /\ MonitorOK(pvt[d]) /\ (d \in raced \/ (Stands(d) /\ Waits(pvt[d])))
  BY DEF DeviceInv, StateOK, Undisturbed
<1> DEFINE p == [pvt[d] EXCEPT !.mustRemove = FALSE]
<1>2. /\ p \in Pvt /\ MonitorOK(p) /\ (Waits(pvt[d]) => Waits(p)) /\ p.desired = pvt[d].desired
      /\ p.restart = pvt[d].restart /\ p.threads = pvt[d].threads
  BY <1>1 DEF Pvt, MonitorOK, Waits, Busy
<1>3. CASE Pass(d)
  <2>1. pvt' = [pvt EXCEPT ![d] = p] /\ disc'.dev = {} /\ raced' = raced
    BY <1>3 DEF Pass, Leave, Visited
  <2> HIDE DEF p
  <2>2. QED  BY <1>1, <1>2, <2>1 DEF VisitLeaves, Kept
<1>4. CASE Visit(d)
  <2> DEFINE then == ThenFor[p.desired]
  <2>1. Due(pvt[d])
    BY <1>4 DEF Visit
  <2>2. \/ /\ p.handle
           /\ pvt' = [pvt EXCEPT ![d] = [p EXCEPT !.terminate = TRUE]]
           /\ disc' = [disc EXCEPT !.pc = "join", !.dev = {d}, !.then = then]
        \/ ~p.handle /\ Proceed(d, p, then)
    BY <1>4 DEF Visit
  <2> HIDE DEF p
  <2>3. p.restart = "now"
    BY <1>2, <2>1 DEF Due
  <2>4. then = "restart" => p.desired = "restarted"
    BY <1>2 DEF ThenFor, Pvt, DevState
  <2> HIDE DEF then
  <2>5. CASE p.handle
    <3> DEFINE r == [p EXCEPT !.terminate = TRUE]
    <3>1. r \in Pvt /\ r.restart = "now" /\ r.desired = p.desired
      BY <1>2, <2>3 DEF Pvt
    <3>2. pvt' = [pvt EXCEPT ![d] = r]
      BY <2>2, <2>5
    <3> HIDE DEF r
    <3>3. disc'.pc = "join" /\ disc'.dev = {d} /\ disc'.then = then
      BY <2>2, <2>5 DEF Disc, DeviceInv, StateOK
    <3>4. QED  BY <1>2, <2>4, <3>1, <3>2, <3>3 DEF VisitLeaves, Kept, Waits
  <2>6. CASE ~p.handle
    <3>1. p.threads = 0
      BY <1>2, <2>6 DEF MonitorOK, Pvt
    <3>2. QED  BY <1>2, <2>2, <2>3, <2>4, <2>6, <3>1, ProceedLeaves
  <2>7. QED  BY <2>5, <2>6
<1>5. CASE Join(d)
  <2> DEFINE q == Stopped(pvt[d])
  <2>1. disc.pc = "join" /\ disc.dev = {d} /\ Proceed(d, q, disc.then) /\ raced' = raced
    BY <1>5 DEF Join
  <2>2. pvt[d].threads = 0
    BY <1>1, <1>5 DEF Join, MonitorGone, MonitorOK, Pvt
  <2>3. /\ q \in Pvt /\ q.threads = 0 /\ q.current = pvt[d].current
        /\ q.desired = pvt[d].desired /\ q.restart = pvt[d].restart
    BY <1>1, <2>2 DEF Stopped, Pvt
  <2> HIDE DEF q
  <2>4. MonitorOK(q)
    BY <1>1, <2>2, <2>3 DEF MonitorOK
  <2>5. /\ d \in raced' \/ q.restart = "now"
        /\ disc.then = "restart" => q.desired = "restarted" \/ Overtaken(d)
    BY <1>1, <2>1, <2>3 DEF Stands, Overtaken
  <2>6. QED  BY <2>1, <2>3, <2>4, <2>5, ProceedLeaves
<1>6. CASE Lookup(d)
  <2>1. disc.pc = "lookup" /\ disc.dev = {d} /\ FinishStart(d, pvt[d]) /\ raced' = raced
    BY <1>6 DEF Lookup
  <2>2. pvt[d].threads = 0 /\ (d \in raced' \/ pvt[d].restart = "now")
    BY <1>1, <2>1 DEF DeviceInv, Stands
  <2>3. Kept(d, pvt[d])
    BY DEF Kept
  <2>4. QED  BY <1>1, <2>1, <2>2, <2>3, StartLeaves
<1>7. QED  BY <1>3, <1>4, <1>5, <1>6

LEMMA DiscoveryUndisturbed ==
  ASSUME DeviceInv, Undisturbed, Discovery
  PROVE  Undisturbed'
<1>1. CASE Wake \/ LoopEnd \/ Sweep
  <2>1. UNCHANGED << pvt, raced >> /\ disc'.dev = disc.dev /\ disc.dev = {}
    BY <1>1 DEF Wake, LoopEnd, Sweep, OthersThanDiscovery, DeviceInv, StateOK, Disc, Undisturbed
  <2>2. QED  BY <2>1 DEF Undisturbed, Stands, Waits, Busy
<1>2. ASSUME NEW d \in Dev, Pass(d) \/ Visit(d) \/ Join(d) \/ Lookup(d)
      PROVE  Undisturbed'
  <2>1. raced \subseteq raced' \cup {d}
    BY <1>2 DEF Pass, Visit, Join, Lookup
  <2>2. disc.dev # {} => disc.dev = {d}
    BY <1>2 DEF Pass, Visit, Join, Lookup, Undisturbed
  <2>3. PICK r \in Pvt :
          /\ pvt' = [pvt EXCEPT ![d] = r]
          /\ d \in raced' \/ Waits(r)
          /\ \/ disc'.dev = {}
             \/ /\ disc'.dev = {d} /\ disc'.pc \in {"join", "lookup"}
                /\ d \in raced' \/ r.restart = "now"
                /\ disc'.pc = "join" /\ disc'.then = "restart" =>
                     d \in raced' \/ r.desired = "restarted"
    BY <1>2, VisitingLeaves DEF VisitLeaves
  <2>4. \A e \in Dev : pvt'[e] = IF e = d THEN r ELSE pvt[e]
    BY <2>3 DEF DeviceInv, StateOK
  <2>5. ASSUME NEW e \in Dev, e \notin raced'
        PROVE  Waits(pvt'[e])
    BY <2>1, <2>3, <2>4, <2>5 DEF Undisturbed
  <2>6. ASSUME NEW e \in Dev, e \notin raced', disc'.dev = {e}
        PROVE  /\ pvt'[e].restart = "now"
               /\ disc'.pc = "join" /\ disc'.then = "restart" => pvt'[e].desired = "restarted"
    <3>1. e = d
      BY <2>3, <2>6
    <3>2. QED  BY <2>3, <2>4, <2>6, <3>1
  <2>7. disc'.dev # {} => disc'.pc \in {"join", "lookup"}
    BY <2>3
  <2>8. QED  BY <2>5, <2>6, <2>7 DEF Undisturbed, Stands, Waits, Busy
<1>3. QED  BY <1>1, <1>2 DEF Discovery

LEMMA CommandUndisturbed ==
  ASSUME DeviceInv, Undisturbed, NEW d \in Dev, NEW event \in DevState,
         NEW when \in Whens, Command(d, event, when)
  PROVE  Undisturbed'
<1> DEFINE q == [pvt[d] EXCEPT !.desired = event, !.restart = when]
<1>1. q \in Pvt
  BY LifecycleAssumption, ZenonT(60) DEF DeviceInv, StateOK, Pvt
<1>2. /\ pvt' = [pvt EXCEPT ![d] = TryRestate(q)] /\ disc' = disc
      /\ d \in raced' \/ disc.dev # {d}
      /\ raced \subseteq raced' \cup {d}
  BY DEF Command, LetGo
<1> HIDE DEF q
<1>3. TryRestate(q) \in Pvt /\ Waits(TryRestate(q))
  BY <1>1, TryRestateKeeps, TryRestateWaits
<1>4. QED  BY <1>2, <1>3, StandsUndisturbed

LEMMA ReloadUndisturbed ==
  ASSUME DeviceInv, Undisturbed, Reloading
  PROVE  Undisturbed'
<1>1. CASE ReloadNext
  <2>1. UNCHANGED << pvt, disc, raced >>
    BY <1>1 DEF ReloadNext, OthersThanReload
  <2>2. QED  BY <2>1 DEF Undisturbed, Stands, Waits, Busy
<1>2. ASSUME NEW d \in Dev,
             ReloadMark(d) \/ ReloadKnown(d) \/ ReloadNew(d) \/ ReloadSchedule(d)
      PROVE  Undisturbed'
  <2>1. /\ pvt[d] \in Pvt /\ (d \in raced \/ (Waits(pvt[d]) /\ Stands(d)))
        /\ reload.cfg[d] \in Setting /\ reload.when \in RestateTime
    BY DEF DeviceInv, StateOK, Reload, Undisturbed
  <2>2. disc' = disc /\ raced \subseteq raced'
    BY <1>2 DEF ReloadMark, ReloadKnown, ReloadNew, ReloadSchedule, RacedBy, OthersThanReload
  <2>3. ASSUME NEW r \in Pvt, Waits(pvt[d]) => Waits(r), pvt' = [pvt EXCEPT ![d] = r],
               r.desired = pvt[d].desired /\ r.restart = pvt[d].restart
      PROVE  Undisturbed'
    BY <2>1, <2>2, <2>3, StandsUndisturbed DEF Stands
  <2>4. ASSUME NEW r \in Pvt, Waits(pvt[d]) => Waits(r), pvt' = [pvt EXCEPT ![d] = r],
               d \in raced' \/ disc.dev # {d}
        PROVE  Undisturbed'
    BY <2>1, <2>2, <2>4, StandsUndisturbed
  <2>5. CASE ReloadMark(d)
    <3> DEFINE r == [pvt[d] EXCEPT !.mustRemove = TRUE]
    <3>1. /\ r \in Pvt /\ (Waits(pvt[d]) => Waits(r))
          /\ r.desired = pvt[d].desired /\ r.restart = pvt[d].restart
      BY <2>1 DEF Pvt, Waits, Busy
    <3>2. pvt' = [pvt EXCEPT ![d] = r]
      BY <2>5 DEF ReloadMark
    <3> HIDE DEF r
    <3>3. QED  BY <2>3, <3>1, <3>2
  <2>6. CASE ReloadKnown(d)
    <3> DEFINE q == [pvt[d] EXCEPT !.mustRemove = FALSE]
               r == Reconfigure(q, reload.cfg[d], reload.when)
    <3>1. q \in Pvt /\ (Waits(pvt[d]) => Waits(q))
      BY <2>1 DEF Pvt, Waits, Busy
    <3>2. pvt' = [pvt EXCEPT ![d] = r] /\ (d \in raced' \/ disc.dev # {d})
      BY <2>6 DEF ReloadKnown, RacedBy, LetGo
    <3>3. reload.cfg[d] # NoSection
      BY <2>6 DEF ReloadKnown, ReloadTakes, DeviceInv
    <3> HIDE DEF q
    <3>4. r \in Pvt /\ (Waits(pvt[d]) => Waits(r))
      BY <2>1, <3>1, <3>3, ReconfigureKeeps, ReconfigureWaits
    <3> HIDE DEF r
    <3>5. QED  BY <2>4, <3>2, <3>4
  <2>7. CASE ReloadNew(d)
    <3>1. reload.cfg[d] # NoSection
      BY <2>7 DEF ReloadNew, ReloadTakes, DeviceInv
    <3>2. CASE pvt' = pvt
      <4>1. pvt' = [pvt EXCEPT ![d] = pvt[d]]
        BY <3>2 DEF DeviceInv, StateOK
      <4>2. QED  BY <2>1, <2>3, <4>1
    <3>3. CASE /\ pvt' = [pvt EXCEPT ![d] = PvtCreate(reload.cfg[d].initstate)]
               /\ disc.pc \notin {"loop", "join", "lookup"}
      <4>1. reload.cfg[d].initstate \in InitStates \cup {"removed"}
        BY <2>1, <3>1, SettingFields
      <4>2. reload.cfg[d].initstate \in DevState
        BY <4>1, LifecycleAssumption DEF DevState
      <4>3. PvtCreate(reload.cfg[d].initstate) \in Pvt
        BY <4>2, PvtCreateType
      <4>4. Waits(PvtCreate(reload.cfg[d].initstate))
        BY DEF PvtCreate, Waits
      <4>5. disc.dev # {d}
        BY <3>3 DEF Undisturbed
      <4>6. QED  BY <2>4, <3>3, <4>3, <4>4, <4>5
    <3>4. QED  BY <2>7, <3>2, <3>3 DEF ReloadNew
  <2>8. CASE ReloadSchedule(d)
    <3>1. CASE pvt[d].mustRemove
      <4> DEFINE q == [pvt[d] EXCEPT !.desired = "removed"]
                 r == Rescheduled(q, reload.when)
      <4>1. q \in Pvt
        BY <2>1 DEF Pvt, DevState
      <4>2. pvt' = [pvt EXCEPT ![d] = r] /\ (d \in raced' \/ disc.dev # {d})
        BY <2>8, <3>1 DEF ReloadSchedule, RacedBy, LetGo
      <4> HIDE DEF q
      <4>3. r \in Pvt /\ Waits(r)
        BY <2>1, <4>1, RescheduledKeeps, RescheduledWaits
      <4> HIDE DEF r
      <4>4. QED  BY <2>4, <4>2, <4>3
    <3>2. CASE ~pvt[d].mustRemove
      <4>1. pvt' = [pvt EXCEPT ![d] = pvt[d]]
        BY <2>8, <3>2 DEF ReloadSchedule
      <4>2. QED  BY <2>1, <2>3, <4>1
    <3>3. QED  BY <3>1, <3>2
  <2>9. QED  BY <1>2, <2>5, <2>6, <2>7, <2>8
<1>3. QED  BY <1>1, <1>2 DEF Reloading

LEMMA UnloadUndisturbed ==
  ASSUME DeviceInv, Undisturbed, Unloading
  PROVE  Undisturbed'
<1>1. CASE UnloadBegin \/ UnloadJoined \/ UnloadEnds
  BY <1>1 DEF UnloadBegin, UnloadJoined, UnloadEnds, Undisturbed, Stands, Waits, Busy
<1>2. ASSUME NEW d \in Dev, DestroyBegins(d) \/ DestroyEnds(d)
      PROVE  Undisturbed'
  <2>1. pvt[d] \in Pvt /\ (d \in raced \/ (Waits(pvt[d]) /\ Stands(d)))
    BY DEF DeviceInv, StateOK, Undisturbed
  <2>2. PICK r \in { [pvt[d] EXCEPT !.terminate = pvt[d].handle], Stopped(pvt[d]) } :
          pvt' = [pvt EXCEPT ![d] = r]
    BY <1>2 DEF DestroyBegins, DestroyEnds
  <2>3. /\ r \in Pvt /\ (Waits(pvt[d]) => Waits(r)) /\ r.desired = pvt[d].desired
        /\ r.restart = pvt[d].restart
    BY <2>1, <2>2 DEF Pvt, Stopped, Waits, Busy
  <2>4. UNCHANGED << disc, raced >>
    BY <1>2 DEF DestroyBegins, DestroyEnds
  <2>5. disc.dev = {d} => d \in raced \/ (r.desired = pvt[d].desired /\ r.restart = "now")
    BY <2>1, <2>3 DEF Stands
  <2>6. QED  BY <2>1, <2>2, <2>3, <2>4, <2>5, StandsUndisturbed
<1>3. QED  BY <1>1, <1>2 DEF Unloading

LEMMA UndisturbedStep == DeviceInv /\ Undisturbed /\ [Next]_vars => Undisturbed'
<1> SUFFICES ASSUME DeviceInv, Undisturbed, [Next]_vars PROVE Undisturbed'
  OBVIOUS
<1>1. CASE Discovery
  BY <1>1, DiscoveryUndisturbed
<1>2. CASE Reloading
  BY <1>2, ReloadUndisturbed
<1>3. CASE Unloading
  BY <1>3, UnloadUndisturbed
<1>4. ASSUME NEW d \in Dev, Terminated(d) \/ Lost(d) \/ Work(d)
      PROVE  Undisturbed'
  <2>1. UNCHANGED << disc, raced >>
    BY <1>4 DEF Terminated, Lost, MonitorEnds, Work, CallStarts, CallEnds, SmsStarts,
                SmsEnds, SmsSent, OthersThanPvt
  <2>2. PICK r \in Pvt : /\ Waits(pvt[d]) => Waits(r)
                         /\ r.desired = pvt[d].desired
                         /\ pvt[d].restart = "now" => r.restart = "now"
                         /\ pvt' = [pvt EXCEPT ![d] = r]
    BY <1>4, WorkUndisturbed, MonitorUndisturbed
  <2>3. d \in raced \/ (Waits(r) /\ (disc.dev = {d} => r.restart = "now"))
    BY <2>2 DEF Undisturbed, Stands
  <2>4. QED  BY <2>1, <2>2, <2>3, StandsUndisturbed
<1>5. ASSUME NEW d \in Dev, NEW event \in DevState, NEW when \in Whens, Command(d, event, when)
      PROVE  Undisturbed'
  BY <1>5, CommandUndisturbed
<1>6. ASSUME NEW cfg \in [Dev -> Setting], NEW when \in ReloadWhens, ReloadBegin(cfg, when)
      PROVE  Undisturbed'
  <2>1. UNCHANGED << pvt, disc, raced >>
    BY <1>6 DEF ReloadBegin, OthersThanReload
  <2>2. QED  BY <2>1 DEF Undisturbed, Stands, Waits, Busy
<1>7. CASE UNCHANGED vars
  BY <1>7 DEF vars, Undisturbed, Stands, Waits, Busy
<1>8. QED
  BY <1>1, <1>2, <1>3, <1>4, <1>5, <1>6, <1>7 DEF Next

LEMMA UndisturbedInit == Init => Undisturbed
<1> SUFFICES ASSUME Init PROVE Undisturbed
  OBVIOUS
<1>1. \A d \in Dev : pvt[d].current = "stopped"
  BY DEF Init, PvtCreate
<1>2. QED  BY <1>1 DEF Init, Undisturbed, Stands, Waits

(* A command that is put off always waits for a call or a message of its     *)
(* device, and cannot be forgotten on an idle one, unless it came while       *)
(* discovery had let go of the device; whatever the timing of commands,       *)
(* reloads, losses and rounds.                                               *)
THEOREM PostponedNotForgotten == Spec => []PostponedWaits
<1>1. DeviceInv /\ Undisturbed => PostponedWaits
  BY DEF Undisturbed, Waits, PostponedWaits, DeviceInv, StateOK
<1>2. QED  BY <1>1, UndisturbedStep, UndisturbedInit, DeviceInvHolds, PTL DEF Spec

(* No visit of discovery, no end of a monitor and no work of a device        *)
(* overwrites what is desired of a device, whenever commands and reloads      *)
(* come, but for the one order the code loses: that which comes during the   *)
(* join of a restart.                                                        *)
THEOREM CommandsNotOverwritten == Spec => CommandsKept
<1> DEFINE AllKept == \A d \in Dev : (Discovery \/ Terminated(d) \/ Lost(d) \/ Work(d)) =>
                        Kept(d, pvt'[d])
<1>1. ASSUME DeviceInv, Undisturbed, NEW d \in Dev,
             Discovery \/ Terminated(d) \/ Lost(d) \/ Work(d)
      PROVE  Kept(d, pvt'[d])
  <2>1. pvt \in [Dev -> Pvt]
    BY <1>1 DEF DeviceInv, StateOK
  <2>2. CASE Discovery
    <3>1. CASE Wake \/ LoopEnd \/ Sweep
      BY <3>1 DEF Wake, LoopEnd, Sweep, Kept
    <3>2. ASSUME NEW e \in Dev, Pass(e) \/ Visit(e) \/ Join(e) \/ Lookup(e)
          PROVE  Kept(d, pvt'[d])
      <4>1. PICK r \in Pvt : pvt' = [pvt EXCEPT ![e] = r] /\ Kept(e, r)
        BY <1>1, <3>2, VisitingLeaves DEF VisitLeaves
      <4>2. CASE d = e
        BY <2>1, <4>1, <4>2
      <4>3. CASE d # e
        BY <2>1, <4>1, <4>3 DEF Kept
      <4>4. QED  BY <4>2, <4>3
    <3>3. QED  BY <2>2, <3>1, <3>2 DEF Discovery
  <2>3. CASE Terminated(d) \/ Lost(d) \/ Work(d)
    <3>1. PICK r \in Pvt : r.desired = pvt[d].desired /\ pvt' = [pvt EXCEPT ![d] = r]
      BY <1>1, <2>3, WorkUndisturbed, MonitorUndisturbed
    <3>2. QED  BY <2>1, <3>1 DEF Kept
  <2>4. QED  BY <1>1, <2>2, <2>3
<1>2. DeviceInv /\ Undisturbed => AllKept
  BY <1>1
<1>3. Spec => [][AllKept]_vars
  BY <1>2, UndisturbedStep, UndisturbedInit, DeviceInvHolds, PTL DEF Spec
<1>4. CommandsKept <=> [][AllKept]_vars
  BY DEF CommandsKept, Kept, Overtaken
<1>5. QED  BY <1>3, <1>4

-----------------------------------------------------------------------------
(* The marks of a reload and of a removal.                                   *)

(* What a mark means in a round of discovery: a device that was visited and  *)
(* is marked is to be removed, or was until another order came.  The device  *)
(* at work carries no mark.                                                  *)
InRound(d, p) ==
  /\ disc.pc \notin {"sleep", "ended"} /\ d \in listed \ disc.todo /\ p.mustRemove
       => p.desired = "removed" \/ d \in raced
  /\ disc.dev = {d} => ~p.mustRemove
  /\ disc.dev = {d} /\ disc.then = "remove" => p.desired = "removed" \/ d \in raced

(* What a mark means in a reload: first that the device has been met, then   *)
(* that its section has not, or disables it, or is missing.                  *)
InReload(d, p) ==
  d \in listed =>
    /\ reload.pc = "mark" /\ d \notin reload.todo => p.mustRemove
    /\ reload.pc = "read" => (p.mustRemove <=> d \in reload.todo \/ Disables(reload.cfg, d))
    /\ reload.pc = "schedule" => (p.mustRemove <=> Disables(reload.cfg, d))

Marked ==
  /\ disc.pc = "sweep" => disc.todo = {}
  /\ reload.pc # "idle" => unload = "no" /\ disc.pc = "sleep"
  /\ reload.pc = "schedule" => reload.todo \subseteq listed
  /\ \A d \in Dev : InRound(d, pvt[d]) /\ InReload(d, pvt[d])

(* A step that gives d a new struct with the old mark, and the old order if  *)
(* discovery has let go of the device, or a remembered one; devices may      *)
(* leave the list, but not during a reload.                                  *)
LEMMA SameMark ==
  ASSUME DeviceInv, Marked, NEW d \in Dev, NEW r \in Pvt, pvt' = [pvt EXCEPT ![d] = r],
         r.mustRemove = pvt[d].mustRemove,
         LetGo(d) => d \in raced' \/ (d \notin raced /\ r.desired = pvt[d].desired),
         raced \subseteq raced' \cup {d},
         disc' = disc, reload' = reload, unload' = unload,
         listed' \subseteq listed, reload.pc # "idle" => listed' = listed
  PROVE  Marked'
<1>1. \A e \in Dev : pvt'[e] = IF e = d THEN r ELSE pvt[e]
  BY DEF DeviceInv, StateOK
<1>2. ASSUME NEW e \in Dev
      PROVE  /\ pvt'[e].mustRemove = pvt[e].mustRemove
             /\ LetGo(e) => e \in raced' \/ (e \notin raced /\ pvt'[e].desired = pvt[e].desired)
  <2>1. CASE e = d
    BY <1>1, <2>1
  <2>2. CASE e # d
    BY <1>1, <2>2
  <2>3. QED  BY <2>1, <2>2
<1>3. ASSUME NEW e \in Dev
      PROVE  InRound(e, pvt[e])'
  <2>1. InRound(e, pvt[e])
    BY DEF Marked
  <2>2. CASE LetGo(e)
    BY <1>2, <2>1, <2>2 DEF InRound
  <2>3. CASE ~LetGo(e)
    BY <1>2, <2>1, <2>3 DEF InRound, LetGo
  <2>4. QED  BY <2>2, <2>3
<1>4. ASSUME NEW e \in Dev
      PROVE  InReload(e, pvt[e])'
  <2>1. InReload(e, pvt[e])
    BY DEF Marked
  <2>2. QED  BY <1>2, <2>1 DEF InReload, Disables
<1>5. QED  BY <1>3, <1>4 DEF Marked, InRound, InReload, Disables

(* What a visit of d, over or interrupted, makes of its mark.                *)
VisitMarks(d) ==
  /\ \A e \in Dev \ {d} : pvt'[e] = pvt[e]
  /\ \/ /\ disc'.pc = "loop" /\ disc'.dev = {} /\ disc'.todo = disc.todo \ {d}
        /\ pvt'[d].mustRemove => pvt'[d].desired = "removed" \/ d \in raced'
     \/ /\ disc'.pc \in {"join", "lookup"} /\ disc'.dev = {d} /\ disc'.todo = disc.todo
        /\ ~pvt'[d].mustRemove
        /\ disc'.then = "remove" => pvt'[d].desired = "removed" \/ d \in raced'

LEMMA LeaveMarks ==
  ASSUME DeviceInv, NEW d \in Dev, NEW p, Leave(d, p),
         p.mustRemove => p.desired = "removed" \/ d \in raced'
  PROVE  VisitMarks(d)
<1>1. pvt'[d] = p /\ \A e \in Dev \ {d} : pvt'[e] = pvt[e]
  BY DEF Leave, DeviceInv, StateOK
<1>2. disc'.pc = "loop" /\ disc'.dev = {} /\ disc'.todo = disc.todo \ {d}
  BY DEF Leave, Visited
<1>3. QED  BY <1>1, <1>2 DEF VisitMarks

LEMMA FinishMarks ==
  ASSUME DeviceInv, NEW d \in Dev, NEW p \in Pvt, ~p.mustRemove, FinishStart(d, p)
  PROVE  VisitMarks(d)
<1>1. PICK up \in BOOLEAN : pvt' = [pvt EXCEPT ![d] = Connect(p, up)]
  BY DEF FinishStart, Connects
<1>2. ~Connect(p, up).mustRemove
  BY DEF Connect, Pvt
<1>3. pvt'[d] = Connect(p, up) /\ \A e \in Dev \ {d} : pvt'[e] = pvt[e]
  BY <1>1 DEF DeviceInv, StateOK
<1>4. disc'.pc = "loop" /\ disc'.dev = {} /\ disc'.todo = disc.todo \ {d}
  BY DEF FinishStart, Visited
<1>5. QED  BY <1>2, <1>3, <1>4 DEF VisitMarks

LEMMA StartMarks ==
  ASSUME DeviceInv, NEW d \in Dev, NEW p \in Pvt, ~p.mustRemove, StartPvt(d, p)
  PROVE  VisitMarks(d)
<1>1. CASE d \in LookupDevs
  <2>1. /\ pvt' = [pvt EXCEPT ![d] = p]
        /\ disc' = [disc EXCEPT !.pc = "lookup", !.dev = {d}, !.then = "stop"]
    BY <1>1 DEF StartPvt
  <2>2. pvt'[d] = p /\ \A e \in Dev \ {d} : pvt'[e] = pvt[e]
    BY <2>1 DEF DeviceInv, StateOK
  <2>3. /\ disc'.pc = "lookup" /\ disc'.dev = {d} /\ disc'.then = "stop"
        /\ disc'.todo = disc.todo
    BY <2>1 DEF Disc, DeviceInv, StateOK
  <2>4. QED  BY <2>2, <2>3 DEF VisitMarks
<1>2. CASE d \notin LookupDevs
  BY <1>2, FinishMarks DEF StartPvt
<1>3. QED  BY <1>1, <1>2

LEMMA ProceedMarks ==
  ASSUME DeviceInv, NEW d \in Dev, NEW p \in Pvt, ~p.mustRemove, NEW then,
         then = "remove" => p.desired = "removed" \/ d \in raced', Proceed(d, p, then)
  PROVE  VisitMarks(d)
<1>1. CASE then = "stop" /\ Leave(d, p)
  BY <1>1, LeaveMarks
<1>2. CASE then = "remove" /\ Leave(d, [p EXCEPT !.mustRemove = TRUE])
  <2> DEFINE r == [p EXCEPT !.mustRemove = TRUE]
  <2>1. r.desired = "removed" \/ d \in raced'
    BY <1>2 DEF Pvt
  <2>2. Leave(d, r)
    BY <1>2
  <2> HIDE DEF r
  <2>3. QED  BY <2>1, <2>2, LeaveMarks
<1>3. CASE then = "connect" /\ StartPvt(d, p)
  BY <1>3, StartMarks
<1>4. CASE then = "restart"
  <2> DEFINE r == [p EXCEPT !.desired = "started"]
  <2>1. r \in Pvt /\ ~r.mustRemove
    BY DEF Pvt, DevState
  <2>2. StartPvt(d, r) \/ Leave(d, r)
    BY <1>4 DEF Proceed
  <2> HIDE DEF r
  <2>3. QED  BY <2>1, <2>2, StartMarks, LeaveMarks
<1>5. QED  BY <1>1, <1>2, <1>3, <1>4 DEF Proceed

LEMMA VisitingMarks ==
  ASSUME DeviceInv, Marked, NEW d \in Dev, Pass(d) \/ Visit(d) \/ Join(d) \/ Lookup(d)
  PROVE  VisitMarks(d)
<1>1. pvt[d] \in Pvt /\ InRound(d, pvt[d])
  BY DEF DeviceInv, StateOK, Marked
<1> DEFINE p == [pvt[d] EXCEPT !.mustRemove = FALSE]
<1>2. p \in Pvt /\ ~p.mustRemove /\ p.desired = pvt[d].desired
  BY <1>1 DEF Pvt
<1>3. CASE Pass(d)
  <2>1. Leave(d, p)
    BY <1>3 DEF Pass
  <2> HIDE DEF p
  <2>2. QED  BY <1>2, <2>1, LeaveMarks
<1>4. CASE Visit(d)
  <2> DEFINE then == ThenFor[p.desired]
  <2>1. \/ /\ pvt' = [pvt EXCEPT ![d] = [p EXCEPT !.terminate = TRUE]]
           /\ disc' = [disc EXCEPT !.pc = "join", !.dev = {d}, !.then = then]
        \/ Proceed(d, p, then)
    BY <1>4 DEF Visit
  <2> HIDE DEF p
  <2>2. then = "remove" => p.desired = "removed"
    BY <1>2 DEF ThenFor, Pvt, DevState
  <2> HIDE DEF then
  <2>3. CASE /\ pvt' = [pvt EXCEPT ![d] = [p EXCEPT !.terminate = TRUE]]
             /\ disc' = [disc EXCEPT !.pc = "join", !.dev = {d}, !.then = then]
    <3> DEFINE r == [p EXCEPT !.terminate = TRUE]
    <3>1. ~r.mustRemove /\ r.desired = p.desired
      BY <1>2 DEF Pvt
    <3>2. pvt' = [pvt EXCEPT ![d] = r]
      BY <2>3
    <3> HIDE DEF r
    <3>3. pvt'[d] = r /\ \A e \in Dev \ {d} : pvt'[e] = pvt[e]
      BY <3>2 DEF DeviceInv, StateOK
    <3>4. /\ disc'.pc = "join" /\ disc'.dev = {d} /\ disc'.then = then
          /\ disc'.todo = disc.todo
      BY <2>3 DEF Disc, DeviceInv, StateOK
    <3>5. QED  BY <2>2, <3>1, <3>3, <3>4 DEF VisitMarks
  <2>4. CASE Proceed(d, p, then)
    BY <1>2, <2>2, <2>4, ProceedMarks
  <2>5. QED  BY <2>1, <2>3, <2>4
<1>5. CASE Join(d)
  <2>1. disc.dev = {d} /\ Proceed(d, Stopped(pvt[d]), disc.then) /\ raced' = raced
    BY <1>5 DEF Join
  <2>2. /\ Stopped(pvt[d]) \in Pvt
        /\ Stopped(pvt[d]).mustRemove = pvt[d].mustRemove
        /\ Stopped(pvt[d]).desired = pvt[d].desired
    BY <1>1 DEF Stopped, Pvt
  <2>3. QED  BY <1>1, <2>1, <2>2, ProceedMarks DEF InRound
<1>6. CASE Lookup(d)
  BY <1>1, <1>6, FinishMarks DEF Lookup, InRound
<1>7. QED  BY <1>3, <1>4, <1>5, <1>6

LEMMA DiscoveryMarked ==
  ASSUME DeviceInv, Marked, ~ReloadOverlaps, Discovery
  PROVE  Marked'
<1>1. disc \in Disc
  BY DEF DeviceInv, StateOK
<1>2. CASE Wake
  <2>1. /\ UNCHANGED << pvt, listed, reload, unload, raced >> /\ disc'.dev = disc.dev
        /\ disc'.then = disc.then
        /\ (disc'.pc = "loop" /\ disc'.todo = listed) \/ disc'.pc = "ended"
        /\ reload.pc = "idle"
    BY <1>1, <1>2 DEF Wake, OthersThanDiscovery, Disc
  <2>2. QED  BY <2>1 DEF Marked, InRound, InReload, Disables
<1>3. CASE LoopEnd
  <2>1. /\ UNCHANGED << pvt, listed, reload, unload, raced >> /\ disc'.dev = disc.dev
        /\ disc'.then = disc.then /\ disc'.todo = disc.todo
        /\ disc'.pc = "sweep" /\ disc.pc = "loop" /\ disc.todo = {}
    BY <1>1, <1>3 DEF LoopEnd, OthersThanDiscovery, Disc
  <2>2. QED  BY <2>1 DEF Marked, InRound, InReload, Disables
<1>4. CASE Sweep
  <2>1. /\ UNCHANGED << pvt, reload, unload, raced >> /\ disc'.dev = disc.dev
        /\ disc'.then = disc.then /\ disc'.pc = "sleep" /\ disc.pc = "sweep"
    BY <1>1, <1>4 DEF Sweep, Disc
  <2>2. reload.pc = "idle"
    BY <2>1 DEF Marked
  <2>3. QED  BY <2>1, <2>2 DEF Marked, InRound, InReload, Disables
<1>5. ASSUME NEW d \in Dev, Pass(d) \/ Visit(d) \/ Join(d) \/ Lookup(d)
      PROVE  Marked'
  <2>1. UNCHANGED << listed, reload, unload >> /\ disc.pc \in {"loop", "join", "lookup"}
    BY <1>5 DEF Pass, Visit, Join, Lookup, OthersThanDiscovery
  <2>2. reload.pc = "idle" /\ raced \subseteq raced' \cup {d}
    BY <1>5, <2>1 DEF Marked, Pass, Visit, Join, Lookup
  <2>3. VisitMarks(d)
    BY <1>5, VisitingMarks
  <2>4. ASSUME NEW e \in Dev
        PROVE  InRound(e, pvt[e])'
    <3>1. InRound(e, pvt[e])
      BY DEF Marked
    <3>2. CASE e = d
      BY <2>1, <2>3, <3>2 DEF VisitMarks, InRound
    <3>3. CASE e # d
      <4>1. pvt'[e] = pvt[e] /\ disc'.dev # {e}
        BY <2>3, <3>3 DEF VisitMarks
      <4>2. e \notin disc'.todo => e \notin disc.todo
        BY <2>3, <3>3 DEF VisitMarks
      <4>3. QED  BY <2>1, <2>2, <3>1, <3>3, <4>1, <4>2 DEF InRound
    <3>4. QED  BY <3>2, <3>3
  <2>5. disc'.pc # "sweep"
    BY <2>3 DEF VisitMarks
  <2>6. QED  BY <2>1, <2>2, <2>4, <2>5 DEF Marked, InRound, InReload, Disables
<1>6. QED  BY <1>2, <1>3, <1>4, <1>5 DEF Discovery

(* The end of pvt_reconfigure takes a mark only from a section that disables *)
(* the device.                                                               *)
LEMMA ReconfigureMarks ==
  ASSUME NEW p \in Pvt, ~p.mustRemove, NEW s \in Setting, s # NoSection,
         NEW when \in RestateTime
  PROVE  Reconfigure(p, s, when).mustRemove <=> s.initstate = "removed"
<1>1. s.initstate \in DevState
  BY SettingFields, LifecycleAssumption DEF DevState
<1>2. ASSUME NEW q \in Pvt
      PROVE  Rescheduled(q, when).mustRemove = q.mustRemove
  BY DEF Rescheduled, Pvt
<1>3. CASE s.initstate = "removed"
  BY <1>3 DEF Reconfigure, Pvt
<1>4. CASE s.initstate # "removed" /\ p.desired # s.initstate
  <2> DEFINE q == [p EXCEPT !.desired = s.initstate]
  <2>1. q \in Pvt /\ q.mustRemove = p.mustRemove
    BY <1>1 DEF Pvt
  <2>2. Reconfigure(p, s, when) = Rescheduled(q, when)
    BY <1>4 DEF Reconfigure
  <2> HIDE DEF q
  <2>3. QED  BY <1>2, <1>4, <2>1, <2>2
<1>5. CASE s.initstate # "removed" /\ p.desired = s.initstate /\ s.changed
  <2> DEFINE q == [p EXCEPT !.desired = "restarted"]
  <2>1. q \in Pvt /\ q.mustRemove = p.mustRemove
    BY DEF Pvt, DevState
  <2>2. Reconfigure(p, s, when) = Rescheduled(q, when)
    BY <1>5 DEF Reconfigure
  <2> HIDE DEF q
  <2>3. QED  BY <1>2, <1>5, <2>1, <2>2
<1>6. CASE s.initstate # "removed" /\ p.desired = s.initstate /\ ~s.changed
  BY <1>6 DEF Reconfigure
<1>7. QED  BY <1>3, <1>4, <1>5, <1>6

(* What one step of a reload does to the mark of its device.                 *)
LEMMA PassMarks ==
  ASSUME DeviceInv, NEW d \in Dev,
         ReloadMark(d) \/ ReloadKnown(d) \/ ReloadNew(d) \/ ReloadSchedule(d)
  PROVE  /\ \A e \in Dev \ {d} : pvt'[e] = pvt[e]
         /\ reload.pc = "mark" /\ d \in listed => pvt'[d].mustRemove
         /\ reload.pc = "read" /\ d \in listed' =>
              (pvt'[d].mustRemove <=> Disables(reload.cfg, d))
         /\ reload.pc = "schedule" => pvt'[d].mustRemove = pvt[d].mustRemove
<1>1. /\ pvt \in [Dev -> Pvt] /\ pvt[d] \in Pvt /\ reload.cfg[d] \in Setting
      /\ reload.when \in RestateTime
  BY DEF DeviceInv, StateOK, Reload
<1>2. CASE ReloadMark(d)
  <2>1. pvt' = [pvt EXCEPT ![d].mustRemove = TRUE] /\ reload.pc = "mark"
    BY <1>2 DEF ReloadMark, ReloadTakes
  <2>2. QED  BY <1>1, <2>1 DEF Pvt
<1>3. CASE ReloadKnown(d)
  <2> DEFINE q == [pvt[d] EXCEPT !.mustRemove = FALSE]
  <2>1. q \in Pvt /\ ~q.mustRemove
    BY <1>1 DEF Pvt
  <2>2. /\ pvt' = [pvt EXCEPT ![d] = Reconfigure(q, reload.cfg[d], reload.when)]
        /\ reload.pc = "read"
    BY <1>3 DEF ReloadKnown, ReloadTakes
  <2>3. reload.cfg[d] # NoSection
    BY <1>3 DEF ReloadKnown, ReloadTakes, DeviceInv
  <2> HIDE DEF q
  <2>4. Reconfigure(q, reload.cfg[d], reload.when).mustRemove
          <=> reload.cfg[d].initstate = "removed"
    BY <1>1, <2>1, <2>3, ReconfigureMarks
  <2>5. /\ pvt'[d] = Reconfigure(q, reload.cfg[d], reload.when)
        /\ \A e \in Dev \ {d} : pvt'[e] = pvt[e]
    BY <1>1, <2>2
  <2>6. QED  BY <2>2, <2>3, <2>4, <2>5 DEF Disables
<1>4. CASE ReloadNew(d)
  <2>1. reload.pc = "read" /\ reload.cfg[d] # NoSection /\ d \notin listed
    BY <1>4 DEF ReloadNew, ReloadTakes, DeviceInv
  <2>2. \/ UNCHANGED << pvt, listed >>
        \/ /\ reload.cfg[d].initstate # "removed"
           /\ pvt' = [pvt EXCEPT ![d] = PvtCreate(reload.cfg[d].initstate)]
    BY <1>4 DEF ReloadNew
  <2>3. PvtCreate(reload.cfg[d].initstate).mustRemove = FALSE
    BY DEF PvtCreate
  <2>4. QED  BY <1>1, <2>1, <2>2, <2>3 DEF Disables
<1>5. CASE ReloadSchedule(d)
  <2> DEFINE q == [pvt[d] EXCEPT !.desired = "removed"]
  <2>1. q \in Pvt /\ q.mustRemove = pvt[d].mustRemove
    BY <1>1 DEF Pvt, DevState
  <2>2. /\ pvt' = [pvt EXCEPT ![d] = IF pvt[d].mustRemove THEN Rescheduled(q, reload.when)
                                                          ELSE pvt[d]]
        /\ reload.pc = "schedule"
    BY <1>5 DEF ReloadSchedule, ReloadTakes
  <2> HIDE DEF q
  <2>3. Rescheduled(q, reload.when).mustRemove = q.mustRemove
    BY <2>1 DEF Rescheduled, Pvt
  <2>4. QED  BY <1>1, <2>1, <2>2, <2>3
<1>6. QED  BY <1>2, <1>3, <1>4, <1>5

LEMMA ReloadMarked ==
  ASSUME DeviceInv, Undisturbed, Marked, Reloading
  PROVE  Marked'
<1>1. UNCHANGED << disc, unload >>
  BY DEF Reloading, ReloadNext, ReloadMark, ReloadKnown, ReloadNew, ReloadSchedule,
         OthersThanReload
<1>2. reload.pc # "idle"
  BY DEF Reloading, ReloadNext, ReloadMark, ReloadKnown, ReloadNew, ReloadSchedule,
         ReloadTakes
<1>3. disc.pc = "sleep" /\ disc.dev = {}
  BY <1>2 DEF Undisturbed, Marked
<1>4. \A e \in Dev : InRound(e, pvt[e])'
  <2>1. disc'.pc = "sleep" /\ \A e \in Dev : disc'.dev # {e}
    BY <1>1, <1>3
  <2>2. QED  BY <2>1 DEF InRound
<1>5. CASE ReloadNext
  <2>1. UNCHANGED << pvt, listed >> /\ reload.todo = {} /\ reload \in Reload
    BY <1>5 DEF ReloadNext, DeviceInv, StateOK
  <2>2. \/ /\ reload.pc = "mark" /\ reload'.pc = "read" /\ reload'.cfg = reload.cfg
           /\ reload'.todo = { d \in Dev : reload.cfg[d] # NoSection }
        \/ /\ reload.pc = "read" /\ reload'.pc = "schedule" /\ reload'.cfg = reload.cfg
           /\ reload'.todo = listed
        \/ reload'.pc = "idle"
    <3>1. CASE reload.pc = "mark"
      <4>1. reload' = [reload EXCEPT !.pc = "read",
                                     !.todo = { d \in Dev : reload.cfg[d] # NoSection }]
        BY <1>5, <3>1 DEF ReloadNext
      <4>2. QED  BY <2>1, <3>1, <4>1 DEF Reload
    <3>2. CASE reload.pc = "read"
      <4>1. reload' = [reload EXCEPT !.pc = "schedule", !.todo = listed]
        BY <1>5, <3>2 DEF ReloadNext
      <4>2. QED  BY <2>1, <3>2, <4>1 DEF Reload
    <3>3. CASE reload' = NoReload
      BY <3>3 DEF NoReload
    <3>4. QED  BY <1>5, <3>1, <3>2, <3>3 DEF ReloadNext
  <2>3. ASSUME NEW e \in Dev
        PROVE  InReload(e, pvt[e])'
    <3>1. InReload(e, pvt[e])
      BY DEF Marked
    <3>2. QED  BY <2>1, <2>2, <3>1 DEF InReload, Disables
  <2>4. QED  BY <1>1, <1>2, <1>3, <1>4, <2>1, <2>2, <2>3
                DEF Marked, InRound, InReload, Disables
<1>6. ASSUME NEW d \in Dev,
             ReloadMark(d) \/ ReloadKnown(d) \/ ReloadNew(d) \/ ReloadSchedule(d)
      PROVE  Marked'
  <2>1. /\ reload'.pc = reload.pc /\ reload'.cfg = reload.cfg
        /\ reload'.todo = reload.todo \ {d} /\ d \in reload.todo
    <3>1. ReloadDone(d) /\ d \in reload.todo
      BY <1>6 DEF ReloadMark, ReloadKnown, ReloadNew, ReloadSchedule, ReloadTakes
    <3>2. QED  BY <3>1 DEF ReloadDone, Reload, DeviceInv, StateOK
  <2>2. /\ listed' = listed \/ (reload.pc = "read" /\ listed' = listed \cup {d})
        /\ reload.pc \in {"mark", "read", "schedule"}
    <3>1. CASE ReloadNew(d)
      BY <3>1 DEF ReloadNew, ReloadTakes
    <3>2. CASE ReloadMark(d) \/ ReloadKnown(d) \/ ReloadSchedule(d)
      BY <3>2 DEF ReloadMark, ReloadKnown, ReloadSchedule, ReloadTakes
    <3>3. QED  BY <1>6, <3>1, <3>2
  <2>3. /\ \A e \in Dev \ {d} : pvt'[e] = pvt[e]
        /\ reload.pc = "mark" /\ d \in listed => pvt'[d].mustRemove
        /\ reload.pc = "read" /\ d \in listed' =>
             (pvt'[d].mustRemove <=> Disables(reload.cfg, d))
        /\ reload.pc = "schedule" => pvt'[d].mustRemove = pvt[d].mustRemove
    BY <1>6, PassMarks
  <2>4. ASSUME NEW e \in Dev
        PROVE  InReload(e, pvt[e])'
    <3>1. InReload(e, pvt[e])
      BY DEF Marked
    <3>2. CASE e = d
      BY <2>1, <2>2, <2>3, <3>1, <3>2 DEF InReload, Disables
    <3>3. CASE e # d
      <4>1. pvt'[e] = pvt[e] /\ (e \in listed' <=> e \in listed)
        BY <2>2, <2>3, <3>3
      <4>2. e \in reload'.todo <=> e \in reload.todo
        BY <2>1, <3>3
      <4>3. QED  BY <2>1, <3>1, <4>1, <4>2 DEF InReload, Disables
    <3>4. QED  BY <3>2, <3>3
  <2>5. reload'.pc = "schedule" => reload'.todo \subseteq listed'
    BY <2>1, <2>2 DEF Marked
  <2>6. QED  BY <1>1, <1>2, <1>3, <1>4, <2>1, <2>4, <2>5
                DEF Marked, InRound, InReload, Disables
<1>7. QED  BY <1>5, <1>6 DEF Reloading

LEMMA UnloadMarked ==
  ASSUME DeviceInv, Marked, Unloading
  PROVE  Marked'
<1>1. CASE UnloadBegin \/ UnloadJoined \/ UnloadEnds
  <2>1. UNCHANGED << pvt, listed, disc, reload, raced >>
    BY <1>1 DEF UnloadBegin, UnloadJoined, UnloadEnds
  <2>2. reload.pc = "idle"
    BY <1>1 DEF UnloadBegin, UnloadJoined, UnloadEnds, Marked
  <2>3. QED  BY <2>1, <2>2 DEF Marked, InRound, InReload, Disables
<1>2. ASSUME NEW d \in Dev, DestroyBegins(d) \/ DestroyEnds(d)
      PROVE  Marked'
  <2>1. PICK r \in { [pvt[d] EXCEPT !.terminate = pvt[d].handle], Stopped(pvt[d]) } :
          pvt' = [pvt EXCEPT ![d] = r]
    BY <1>2 DEF DestroyBegins, DestroyEnds
  <2>2. /\ r \in Pvt /\ r.mustRemove = pvt[d].mustRemove
        /\ r.desired = pvt[d].desired
    <3>1. pvt[d] \in Pvt
      BY DEF DeviceInv, StateOK
    <3>2. QED  BY <2>1, <3>1 DEF Pvt, Stopped
  <2>3. UNCHANGED << disc, reload, unload, raced >> /\ listed' \subseteq listed /\ unload = "destroy"
    BY <1>2 DEF DestroyBegins, DestroyEnds
  <2>4. reload.pc = "idle"
    BY <2>3 DEF Marked
  <2>5. QED  BY <2>1, <2>2, <2>3, <2>4, SameMark
<1>3. QED  BY <1>1, <1>2 DEF Unloading

LEMMA MonitorMarked ==
  ASSUME DeviceInv, Marked, NEW d \in Dev, Terminated(d) \/ Lost(d)
  PROVE  Marked'
<1>1. pvt[d] \in Pvt /\ MonitorOK(pvt[d]) /\ pvt[d].threads > 0
  BY DEF DeviceInv, StateOK, Terminated, Lost, MonitorEnds
<1>2. PICK p \in {pvt[d], [pvt[d] EXCEPT !.terminate = FALSE]} :
        pvt' = [pvt EXCEPT ![d] = Disconnect(p)]
  BY DEF Terminated, Lost, MonitorEnds
<1>3. p \in Pvt /\ SameMonitor(pvt[d], p) /\ p.desired = pvt[d].desired
      /\ p.mustRemove = pvt[d].mustRemove
  BY <1>1, <1>2 DEF Pvt, SameMonitor
<1>4. MonitorOK(p) /\ p.threads > 0
  BY <1>1, <1>3 DEF SameMonitor, MonitorOK
<1>5. /\ Disconnect(p) \in Pvt /\ Disconnect(p).desired = pvt[d].desired
      /\ Disconnect(p).mustRemove = pvt[d].mustRemove
  BY <1>3, <1>4, DisconnectEnds, DisconnectWaits
<1>6. UNCHANGED << listed, disc, reload, unload, raced >>
  BY DEF Terminated, Lost, MonitorEnds, OthersThanPvt
<1>7. QED  BY <1>2, <1>5, <1>6, SameMark

LEMMA MarkedStep ==
  ASSUME ~ReloadOverlaps
  PROVE  DeviceInv /\ Undisturbed /\ Marked /\ [Next]_vars => Marked'
<1> SUFFICES ASSUME DeviceInv, Undisturbed, Marked, [Next]_vars PROVE Marked'
  OBVIOUS
<1>1. CASE Discovery
  BY <1>1, DiscoveryMarked
<1>2. CASE Reloading
  BY <1>2, ReloadMarked
<1>3. CASE Unloading
  BY <1>3, UnloadMarked
<1>4. ASSUME NEW d \in Dev, Terminated(d) \/ Lost(d)
      PROVE  Marked'
  BY <1>4, MonitorMarked
<1>5. ASSUME NEW d \in Dev, Work(d)
      PROVE  Marked'
  <2>1. UNCHANGED << listed, disc, reload, unload, raced >>
    BY <1>5 DEF Work, CallStarts, CallEnds, SmsStarts, SmsEnds, SmsSent, OthersThanPvt
  <2>2. PICK r \in Pvt : r.mustRemove = pvt[d].mustRemove /\ pvt' = [pvt EXCEPT ![d] = r]
    BY <1>5, WorkChanges DEF Changes
  <2>3. PICK s \in Pvt : s.desired = pvt[d].desired /\ pvt' = [pvt EXCEPT ![d] = s]
    BY <1>5, WorkUndisturbed
  <2>4. r = s
    BY <2>2, <2>3 DEF DeviceInv, StateOK
  <2>5. QED  BY <2>1, <2>2, <2>3, <2>4, SameMark
<1>6. ASSUME NEW d \in Dev, NEW event \in DevState, NEW when \in Whens, Command(d, event, when)
      PROVE  Marked'
  <2>1. /\ UNCHANGED << listed, disc, reload, unload >>
        /\ LetGo(d) => d \in raced'
        /\ raced \subseteq raced' \cup {d}
    BY <1>6 DEF Command
  <2>2. PICK r \in Pvt : r.mustRemove = pvt[d].mustRemove /\ pvt' = [pvt EXCEPT ![d] = r]
    BY <1>6, CommandChanges DEF Changes
  <2>3. QED  BY <2>1, <2>2, SameMark
<1>7. ASSUME NEW cfg \in [Dev -> Setting], NEW when \in ReloadWhens, ReloadBegin(cfg, when)
      PROVE  Marked'
  <2>1. /\ UNCHANGED << pvt, listed, disc, unload, raced >> /\ disc.pc = "sleep" /\ unload = "no"
        /\ reload'.pc = "mark" /\ reload'.todo = listed
    BY <1>7 DEF ReloadBegin, OthersThanReload
  <2>2. QED  BY <2>1 DEF Marked, InRound, InReload, Disables
<1>8. CASE UNCHANGED vars
  BY <1>8 DEF vars, Marked, InRound, InReload, Disables
<1>9. QED
  BY <1>1, <1>2, <1>3, <1>4, <1>5, <1>6, <1>7, <1>8 DEF Next

LEMMA MarkedInit == Init => Marked
  BY DEF Init, NoReload, Marked, InRound, InReload

(* While reloads come between the rounds of discovery, a device is taken off *)
(* the list only when a command or the configuration wants it removed, or    *)
(* another order came after discovery had let go of it, or with the whole    *)
(* module: no mark that a reload or an earlier round left behind makes the   *)
(* sweep free a device that is still wanted.                                 *)
THEOREM WantedStay ==
  ASSUME ~ReloadOverlaps
  PROVE  Spec => OnlyUnwantedFreed
<1> DEFINE Unwanted == \A d \in listed \ listed' :
                          pvt[d].desired = "removed" \/ d \in raced \/ unload # "no"
<1>1. ASSUME DeviceInv, Undisturbed, Marked, [Next]_vars, NEW d \in listed \ listed',
             unload = "no"
      PROVE  pvt[d].desired = "removed" \/ d \in raced
  <2>1. d \in Dev
    BY <1>1 DEF DeviceInv, StateOK
  <2>2. CASE Sweep
    <3>1. disc.pc = "sweep" /\ pvt[d].mustRemove
      BY <1>1, <2>2 DEF Sweep
    <3>2. InRound(d, pvt[d]) /\ disc.todo = {}
      BY <1>1, <2>1, <3>1 DEF Marked
    <3>3. QED  BY <1>1, <3>1, <3>2 DEF InRound
  <2>3. CASE Discovery /\ ~Sweep
    BY <1>1, <2>3 DEF Discovery, Wake, LoopEnd, Pass, Visit, Join, Lookup, OthersThanDiscovery
  <2>4. CASE Reloading
    BY <1>1, <2>4 DEF Reloading, ReloadNext, ReloadMark, ReloadKnown, ReloadNew, ReloadSchedule
  <2>5. CASE Unloading
    BY <1>1, <2>5 DEF Unloading, UnloadBegin, UnloadJoined, UnloadEnds, DestroyBegins,
                      DestroyEnds
  <2>6. CASE \E e \in Dev : Terminated(e) \/ Lost(e) \/ Work(e)
    BY <1>1, <2>6 DEF Terminated, Lost, MonitorEnds, Work, CallStarts, CallEnds, SmsStarts,
                      SmsEnds, SmsSent, OthersThanPvt
  <2>7. CASE \E e \in Dev, event \in DevState, when \in Whens : Command(e, event, when)
    BY <1>1, <2>7 DEF Command
  <2>8. CASE \E cfg \in [Dev -> Setting], when \in ReloadWhens : ReloadBegin(cfg, when)
    BY <1>1, <2>8 DEF ReloadBegin
  <2>9. CASE UNCHANGED vars
    BY <1>1, <2>9 DEF vars
  <2>10. QED
    BY <1>1, <2>2, <2>3, <2>4, <2>5, <2>6, <2>7, <2>8, <2>9 DEF Next
<1>2. DeviceInv /\ Undisturbed /\ Marked /\ [Next]_vars => Unwanted
  BY <1>1
<1>3. DeviceInv /\ Undisturbed /\ Marked /\ [Next]_vars => Marked'
  BY MarkedStep
<1>4. Spec => [][Unwanted]_vars
  BY <1>2, <1>3, UndisturbedStep, UndisturbedInit, MarkedInit, DeviceInvHolds, PTL DEF Spec
<1>5. OnlyUnwantedFreed <=> [][Unwanted]_vars
  BY DEF OnlyUnwantedFreed
<1>6. QED  BY <1>4, <1>5

(* A reload between two rounds of discovery schedules the removal of just    *)
(* the devices whose section is missing or disables them, however many       *)
(* devices and sections there are and whatever calls, losses and commands    *)
(* come between its passes.                                                  *)
THEOREM ReloadRemovesDisabled ==
  ASSUME ~ReloadOverlaps
  PROVE  Spec => ReloadFollowsConfig
<1> DEFINE Follows(d) == IF Disables(reload.cfg, d) THEN pvt'[d].desired = "removed"
                                                    ELSE pvt'[d].desired = pvt[d].desired
           AllFollow == \A d \in Dev : ReloadSchedule(d) => Follows(d)
<1>1. ASSUME DeviceInv, Marked, NEW d \in Dev, ReloadSchedule(d)
      PROVE  Follows(d)
  <2>1. pvt \in [Dev -> Pvt] /\ pvt[d] \in Pvt
    BY <1>1 DEF DeviceInv, StateOK
  <2>2. reload.pc = "schedule" /\ d \in listed
    BY <1>1 DEF ReloadSchedule, ReloadTakes, Marked
  <2>3. pvt[d].mustRemove <=> Disables(reload.cfg, d)
    BY <1>1, <2>2 DEF Marked, InReload
  <2> DEFINE q == [pvt[d] EXCEPT !.desired = "removed"]
  <2>4. q \in Pvt /\ q.desired = "removed"
    BY <2>1 DEF Pvt, DevState
  <2>5. pvt' = [pvt EXCEPT ![d] = IF pvt[d].mustRemove THEN Rescheduled(q, reload.when)
                                                       ELSE pvt[d]]
    BY <1>1 DEF ReloadSchedule
  <2> HIDE DEF q
  <2>6. Rescheduled(q, reload.when).desired = "removed"
    BY <2>4 DEF Rescheduled, Pvt
  <2>7. pvt'[d] = IF pvt[d].mustRemove THEN Rescheduled(q, reload.when) ELSE pvt[d]
    BY <2>1, <2>5
  <2>8. QED  BY <2>3, <2>6, <2>7
<1>2. DeviceInv /\ Marked => AllFollow
  BY <1>1
<1>3. DeviceInv /\ Undisturbed /\ Marked /\ [Next]_vars => Marked'
  BY MarkedStep
<1>4. Spec => [][AllFollow]_vars
  BY <1>2, <1>3, UndisturbedStep, UndisturbedInit, MarkedInit, DeviceInvHolds, PTL DEF Spec
<1>5. ReloadFollowsConfig <=> [][AllFollow]_vars
  BY DEF ReloadFollowsConfig
<1>6. QED  BY <1>4, <1>5

-----------------------------------------------------------------------------
(* Cutting calls short.                                                      *)

(* A device has calls or messages only while its monitor runs; what becomes  *)
(* due then was ordered for now.  A reload may change what is desired of a   *)
(* device whose postponed command is due the next moment, so there is none.  *)
Ordered(p, u) ==
  /\ Busy(p) => p.threads > 0
  /\ Busy(p) /\ Due(p) => u

Pending == reload.pc = "idle" /\ \A d \in Dev : Ordered(pvt[d], urgent[d])

(* What a step does to the struct of d and to the order of the device: it    *)
(* tells a busy monitor to end only upon an order.                           *)
Cuts(p, r, u) == ~p.terminate /\ r.terminate /\ Busy(p) => u
CutStep(d) ==
  \E r \in Pvt :
    /\ pvt' = [pvt EXCEPT ![d] = r]
    /\ Ordered(r, urgent'[d])
    /\ Cuts(pvt[d], r, urgent[d] \/ unload # "no")
    /\ \A e \in Dev \ {d} : urgent'[e] = urgent[e]

LEMMA CutStepKeeps ==
  ASSUME DeviceInv, Pending, NEW d \in Dev, CutStep(d), reload' = reload
  PROVE  /\ Pending'
         /\ \A e \in Dev : Cuts(pvt[e], pvt'[e], urgent[e] \/ unload # "no")
<1>1. PICK r \in Pvt :
        /\ pvt' = [pvt EXCEPT ![d] = r]
        /\ Ordered(r, urgent'[d])
        /\ Cuts(pvt[d], r, urgent[d] \/ unload # "no")
        /\ \A e \in Dev \ {d} : urgent'[e] = urgent[e]
  BY DEF CutStep
<1>2. \A e \in Dev : pvt'[e] = IF e = d THEN r ELSE pvt[e]
  BY <1>1 DEF DeviceInv, StateOK
<1>3. ASSUME NEW e \in Dev
      PROVE  Ordered(pvt'[e], urgent'[e]) /\ Cuts(pvt[e], pvt'[e], urgent[e] \/ unload # "no")
  <2>1. CASE e = d
    BY <1>1, <1>2, <2>1
  <2>2. CASE e # d
    <3>1. pvt'[e] = pvt[e] /\ urgent'[e] = urgent[e]
      BY <1>1, <1>2, <2>2
    <3>2. Cuts(pvt[e], pvt[e], urgent[e] \/ unload # "no")
      BY DEF Cuts
    <3>3. Ordered(pvt[e], urgent[e])
      BY DEF Pending
    <3>4. QED  BY <3>1, <3>2, <3>3
  <2>3. QED  BY <2>1, <2>2
<1>4. QED  BY <1>3 DEF Pending, Ordered, Busy, Due

(* The cases of a step: it leaves the device idle, or changes nothing that   *)
(* matters here.                                                             *)
LEMMA IdleCut ==
  ASSUME NEW d \in Dev, NEW r \in Pvt, pvt' = [pvt EXCEPT ![d] = r], ~Busy(r),
         r.terminate => pvt[d].terminate, \A e \in Dev \ {d} : urgent'[e] = urgent[e]
  PROVE  CutStep(d)
  BY DEF CutStep, Ordered, Cuts

LEMMA TryRestateOrdered ==
  ASSUME NEW p \in Pvt, NEW u, Busy(p) => p.threads > 0,
         Busy(p) /\ Due(p) => u
  PROVE  Ordered(TryRestate(p), u) /\ TryRestate(p).terminate = p.terminate
<1>1. CASE Time4Restate(p) /\ ~Busy(p)
  BY <1>1 DEF TryRestate, Ordered, Busy, Pvt
<1>2. CASE Time4Restate(p) /\ Busy(p)
  <2>1. p.restart = "now" /\ TryRestate(p) = [p EXCEPT !.restart = "now"]
    BY <1>2 DEF Time4Restate, TryRestate
  <2>2. TryRestate(p) = p
    BY <2>1 DEF Pvt
  <2>3. QED  BY <2>2 DEF Ordered
<1>3. CASE ~Time4Restate(p)
  BY <1>3 DEF TryRestate, Ordered
<1>4. QED  BY <1>1, <1>2, <1>3

LEMMA ReleasedQuiet ==
  ASSUME NEW p \in Pvt
  PROVE  Released(p).terminate = p.terminate
<1> DEFINE q == [p EXCEPT !.chans = 1]
           t == [q EXCEPT !.chans = @ - 1]
<1>1. q \in Pvt /\ q.terminate = p.terminate /\ q.chans = 1
  BY DEF Pvt
<1>2. Released(p) = IF p.chans > 0 THEN CpvtFree(q) ELSE p
  BY DEF Released
<1> HIDE DEF q
<1>3. t \in Pvt /\ t.terminate = q.terminate
  BY <1>1 DEF Pvt
<1>4. CpvtFree(q) = IF t.chans = 0 THEN TryRestate(t) ELSE t
  BY DEF CpvtFree
<1>5. TryRestate(t).terminate = t.terminate
  <2> HIDE DEF t
  <2>1. QED  BY <1>3 DEF TryRestate, Pvt
<1> HIDE DEF t
<1>6. QED  BY <1>1, <1>2, <1>3, <1>4, <1>5

LEMMA MonitorCuts ==
  ASSUME DeviceInv, NEW d \in Dev, Terminated(d) \/ Lost(d)
  PROVE  CutStep(d)
<1>1. pvt[d] \in Pvt
  BY DEF DeviceInv, StateOK
<1>2. PICK p \in {pvt[d], [pvt[d] EXCEPT !.terminate = FALSE]} :
        pvt' = [pvt EXCEPT ![d] = Disconnect(p)]
  BY DEF Terminated, Lost, MonitorEnds
<1>3. UNCHANGED urgent
  BY DEF Terminated, Lost, MonitorEnds, OthersThanPvt
<1>4. p \in Pvt /\ (p.terminate => pvt[d].terminate) /\ SameMonitor(pvt[d], p)
  BY <1>1, <1>2 DEF Pvt, SameMonitor
<1> DEFINE r == Released(p)
<1>5. r \in Pvt /\ r.terminate = p.terminate /\ SameMonitor(p, r)
  BY <1>4, ReleasedKeeps, ReleasedQuiet
<1>6. Disconnect(p) = [r EXCEPT !.threads = @ - 1, !.chans = 0, !.sms = FALSE,
                                !.current = "stopped"]
  BY DEF Disconnect
<1> HIDE DEF r
<1>7. Disconnect(p).terminate = r.terminate /\ ~Busy(Disconnect(p))
  BY <1>5, <1>6 DEF Pvt, Busy
<1>8. Disconnect(p) \in Pvt
  <2>1. MonitorOK(p) /\ p.threads > 0
    BY <1>4 DEF Terminated, Lost, MonitorEnds, DeviceInv, SameMonitor, MonitorOK
  <2>2. QED  BY <1>4, <2>1, DisconnectEnds
<1>9. QED  BY <1>2, <1>3, <1>4, <1>5, <1>7, <1>8, IdleCut

LEMMA WorkCuts ==
  ASSUME DeviceInv, Pending, NEW d \in Dev, Work(d)
  PROVE  CutStep(d)
<1> DEFINE p == pvt[d]
<1>1. p \in Pvt /\ MonitorOK(p) /\ Ordered(p, urgent[d])
  BY DEF DeviceInv, StateOK, Pending
<1>2. urgent' = urgent /\ p.threads > 0
  BY DEF Work, CallStarts, CallEnds, SmsStarts, SmsEnds, SmsSent, Works, OthersThanPvt
<1>3. ASSUME NEW r \in Pvt, Ordered(r, urgent[d]), r.terminate = p.terminate,
             pvt' = [pvt EXCEPT ![d] = r]
      PROVE  CutStep(d)
  BY <1>2, <1>3 DEF CutStep, Cuts
<1>4. CASE CallStarts(d)
  <2> DEFINE r == [p EXCEPT !.chans = @ + 1]
  <2>1. /\ r \in Pvt /\ r.terminate = p.terminate /\ r.threads = p.threads
        /\ r.current = p.current /\ r.desired = p.desired /\ r.restart = p.restart
    BY <1>1 DEF Pvt
  <2>2. p.current = "started" /\ (p.desired = p.current \/ p.restart = "convenient")
    BY <1>4 DEF CallStarts, Enabled
  <2>3. pvt' = [pvt EXCEPT ![d] = r]
    BY <1>4 DEF CallStarts
  <2> HIDE DEF r
  <2>4. Ordered(r, urgent[d])
    BY <1>2, <2>1, <2>2 DEF Ordered, Due
  <2>5. QED  BY <1>3, <2>1, <2>3, <2>4
<1>5. CASE CallEnds(d)
  <2> DEFINE q == [p EXCEPT !.chans = @ - 1]
  <2>1. /\ q \in Pvt /\ q.terminate = p.terminate /\ q.threads = p.threads
        /\ q.current = p.current /\ q.desired = p.desired /\ q.restart = p.restart
        /\ Busy(p)
    BY <1>1, <1>5 DEF Pvt, CallEnds, Busy
  <2>2. pvt' = [pvt EXCEPT ![d] = IF q.chans = 0 THEN TryRestate(q) ELSE q]
    BY <1>5 DEF CallEnds, CpvtFree
  <2> HIDE DEF q
  <2>3. Ordered(q, urgent[d])
    BY <1>1, <1>2, <2>1 DEF Ordered, Due
  <2>4. /\ Ordered(TryRestate(q), urgent[d]) /\ TryRestate(q) \in Pvt
        /\ TryRestate(q).terminate = p.terminate
    BY <2>1, <2>3, TryRestateOrdered, TryRestateKeeps DEF Ordered
  <2>5. QED  BY <1>3, <2>1, <2>2, <2>3, <2>4
<1>6. CASE SmsStarts(d)
  <2> DEFINE r == [p EXCEPT !.sms = TRUE]
  <2>1. /\ r \in Pvt /\ r.terminate = p.terminate /\ r.threads = p.threads
        /\ r.current = p.current /\ r.desired = p.desired /\ r.restart = p.restart
    BY <1>1 DEF Pvt
  <2>2. p.current = "started" /\ (p.desired = p.current \/ p.restart = "convenient")
    BY <1>6 DEF SmsStarts, Enabled
  <2>3. pvt' = [pvt EXCEPT ![d] = r]
    BY <1>6 DEF SmsStarts
  <2> HIDE DEF r
  <2>4. Ordered(r, urgent[d])
    BY <1>2, <2>1, <2>2 DEF Ordered, Due
  <2>5. QED  BY <1>3, <2>1, <2>3, <2>4
<1>7. CASE SmsEnds(d)
  <2> DEFINE q == [p EXCEPT !.sms = FALSE]
  <2>1. /\ q \in Pvt /\ q.terminate = p.terminate /\ q.threads = p.threads
        /\ q.current = p.current /\ q.desired = p.desired /\ q.restart = p.restart
        /\ Busy(p)
    BY <1>1, <1>7 DEF Pvt, SmsEnds, Busy
  <2>2. pvt' = [pvt EXCEPT ![d] = TryRestate(q)]
    BY <1>7 DEF SmsEnds
  <2> HIDE DEF q
  <2>3. Ordered(q, urgent[d])
    BY <1>1, <1>2, <2>1 DEF Ordered, Due
  <2>4. /\ Ordered(TryRestate(q), urgent[d]) /\ TryRestate(q) \in Pvt
        /\ TryRestate(q).terminate = p.terminate
    BY <2>1, <2>3, TryRestateOrdered, TryRestateKeeps DEF Ordered
  <2>5. QED  BY <1>3, <2>2, <2>4
<1>8. CASE SmsSent(d)
  <2>1. pvt' = [pvt EXCEPT ![d] = TryRestate(p)]
    BY <1>8 DEF SmsSent
  <2>2. /\ Ordered(TryRestate(p), urgent[d]) /\ TryRestate(p) \in Pvt
        /\ TryRestate(p).terminate = p.terminate
    BY <1>1, TryRestateOrdered, TryRestateKeeps DEF Ordered
  <2>3. QED  BY <1>3, <2>1, <2>2
<1>9. QED  BY <1>4, <1>5, <1>6, <1>7, <1>8 DEF Work

LEMMA CommandCuts ==
  ASSUME DeviceInv, Pending, NEW d \in Dev, NEW event \in DevState, NEW when \in Whens,
         Command(d, event, when)
  PROVE  CutStep(d)
<1> DEFINE q == [pvt[d] EXCEPT !.desired = event, !.restart = when]
           u == event # "started" /\ when = "now"
<1>1. pvt[d] \in Pvt /\ MonitorOK(pvt[d]) /\ Ordered(pvt[d], urgent[d]) /\ when \in RestateTime
  BY LifecycleAssumption DEF DeviceInv, StateOK, Pending
<1>2. /\ q \in Pvt /\ q.desired = event /\ q.restart = when /\ q.current = pvt[d].current
      /\ q.threads = pvt[d].threads /\ q.terminate = pvt[d].terminate
      /\ Busy(q) <=> Busy(pvt[d])
  BY <1>1 DEF Pvt, Busy
<1>3. /\ pvt' = [pvt EXCEPT ![d] = TryRestate(q)]
      /\ urgent' = [urgent EXCEPT ![d] = u]
  BY DEF Command
<1> HIDE DEF q
<1>4. Busy(q) => q.threads > 0
  BY <1>1, <1>2 DEF Ordered
<1>5. Busy(q) /\ Due(q) => u
  BY <1>1, <1>2, <1>4 DEF Due, MonitorOK
<1>6. Ordered(TryRestate(q), u) /\ TryRestate(q).terminate = pvt[d].terminate
  BY <1>2, <1>4, <1>5, TryRestateOrdered
<1>7. TryRestate(q) \in Pvt
  BY <1>2, TryRestateKeeps
<1>8. urgent'[d] = u /\ \A e \in Dev \ {d} : urgent'[e] = urgent[e]
  BY <1>3 DEF DeviceInv, StateOK
<1> HIDE DEF u
<1>9. QED  BY <1>3, <1>6, <1>7, <1>8 DEF CutStep, Cuts

LEMMA UnloadCuts ==
  ASSUME DeviceInv, Pending, NEW d \in Dev, DestroyBegins(d) \/ DestroyEnds(d)
  PROVE  CutStep(d)
<1>1. pvt[d] \in Pvt /\ Ordered(pvt[d], urgent[d])
  BY DEF DeviceInv, StateOK, Pending
<1>2. PICK r \in { [pvt[d] EXCEPT !.terminate = pvt[d].handle], Stopped(pvt[d]) } :
        pvt' = [pvt EXCEPT ![d] = r]
  BY DEF DestroyBegins, DestroyEnds
<1>3. r \in Pvt /\ Ordered(r, urgent[d])
  BY <1>1, <1>2 DEF Pvt, Stopped, Ordered, Busy, Due
<1>4. unload # "no" /\ urgent' = urgent
  BY DEF DestroyBegins, DestroyEnds
<1>5. QED  BY <1>2, <1>3, <1>4 DEF CutStep, Cuts

LEMMA StartCuts ==
  ASSUME DeviceInv, NEW d \in Dev, NEW p \in Pvt, MonitorOK(p), p.threads = 0, ~Busy(p),
         p.terminate => pvt[d].terminate, StartPvt(d, p) \/ FinishStart(d, p)
  PROVE  CutStep(d)
<1>1. CASE FinishStart(d, p)
  <2>1. PICK up \in BOOLEAN : /\ pvt' = [pvt EXCEPT ![d] = Connect(p, up)]
                              /\ urgent' = [urgent EXCEPT ![d] = @ /\ ~up]
    BY <1>1 DEF FinishStart, Connects
  <2> DEFINE r == Connect(p, up)
  <2>2. r \in Pvt
    BY ConnectStarts
  <2>3. r.terminate = p.terminate /\ ~Busy(r)
    BY DEF Connect, Pvt, Busy
  <2>4. \A e \in Dev \ {d} : urgent'[e] = urgent[e]
    BY <2>1 DEF DeviceInv, StateOK
  <2>5. pvt' = [pvt EXCEPT ![d] = r]
    BY <2>1
  <2> HIDE DEF r
  <2>6. QED  BY <2>2, <2>3, <2>4, <2>5, IdleCut
<1>2. CASE StartPvt(d, p) /\ d \in LookupDevs
  <2>1. pvt' = [pvt EXCEPT ![d] = p] /\ urgent' = urgent
    BY <1>2 DEF StartPvt
  <2>2. QED  BY <2>1, IdleCut
<1>3. CASE StartPvt(d, p) /\ d \notin LookupDevs
  BY <1>1, <1>3 DEF StartPvt
<1>4. QED  BY <1>1, <1>2, <1>3

LEMMA ProceedCuts ==
  ASSUME DeviceInv, NEW d \in Dev, NEW p \in Pvt, MonitorOK(p), p.threads = 0, ~Busy(p),
         p.terminate => pvt[d].terminate, NEW then, Proceed(d, p, then)
  PROVE  CutStep(d)
<1>1. ASSUME NEW r \in Pvt, ~Busy(r), r.terminate = p.terminate, Leave(d, r)
      PROVE  CutStep(d)
  BY <1>1, IdleCut DEF Leave
<1>2. CASE then = "stop" /\ Leave(d, p)
  BY <1>1, <1>2
<1>3. CASE then = "remove" /\ Leave(d, [p EXCEPT !.mustRemove = TRUE])
  <2> DEFINE r == [p EXCEPT !.mustRemove = TRUE]
  <2>1. r \in Pvt /\ ~Busy(r) /\ r.terminate = p.terminate
    BY DEF Pvt, Busy
  <2>2. Leave(d, r)
    BY <1>3
  <2> HIDE DEF r
  <2>3. QED  BY <1>1, <2>1, <2>2
<1>4. CASE then = "connect" /\ StartPvt(d, p)
  BY <1>4, StartCuts
<1>5. CASE then = "restart"
  <2> DEFINE r == [p EXCEPT !.desired = "started"]
  <2>1. /\ r \in Pvt /\ ~Busy(r) /\ r.terminate = p.terminate /\ r.threads = 0
        /\ MonitorOK(r)
    BY DEF Pvt, DevState, MonitorOK, Busy
  <2>2. StartPvt(d, r) \/ Leave(d, r)
    BY <1>5 DEF Proceed
  <2> HIDE DEF r
  <2>3. QED  BY <1>1, <2>1, <2>2, StartCuts
<1>6. QED  BY <1>2, <1>3, <1>4, <1>5 DEF Proceed

LEMMA VisitCuts ==
  ASSUME DeviceInv, Pending, NEW d \in Dev, Pass(d) \/ Visit(d) \/ Join(d) \/ Lookup(d)
  PROVE  CutStep(d)
<1>1. pvt[d] \in Pvt /\ MonitorOK(pvt[d]) /\ Ordered(pvt[d], urgent[d])
  BY DEF DeviceInv, StateOK, Pending
<1>2. pvt[d].threads = 0 => ~Busy(pvt[d])
  BY <1>1 DEF Ordered
<1> DEFINE p == [pvt[d] EXCEPT !.mustRemove = FALSE]
<1>3. /\ p \in Pvt /\ MonitorOK(p) /\ p.threads = pvt[d].threads
      /\ p.desired = pvt[d].desired /\ p.restart = pvt[d].restart
      /\ p.current = pvt[d].current /\ p.terminate = pvt[d].terminate
      /\ Busy(p) <=> Busy(pvt[d])
  BY <1>1 DEF Pvt, MonitorOK, Busy
<1>4. CASE Pass(d)
  <2>1. pvt' = [pvt EXCEPT ![d] = p] /\ urgent' = urgent
    BY <1>4 DEF Pass, Leave
  <2> HIDE DEF p
  <2>2. Ordered(p, urgent[d])
    BY <1>1, <1>3 DEF Ordered, Due
  <2>3. QED  BY <1>3, <2>1, <2>2 DEF CutStep, Cuts
<1>5. CASE Visit(d)
  <2> DEFINE then == ThenFor[p.desired]
  <2>1. Due(pvt[d])
    BY <1>5 DEF Visit
  <2>2. \/ /\ p.handle
           /\ pvt' = [pvt EXCEPT ![d] = [p EXCEPT !.terminate = TRUE]]
           /\ UNCHANGED urgent
        \/ ~p.handle /\ Proceed(d, p, then)
    BY <1>5 DEF Visit
  <2> HIDE DEF p, then
  <2>3. CASE p.handle
    <3> DEFINE r == [p EXCEPT !.terminate = TRUE]
    <3>1. /\ r \in Pvt /\ r.threads = p.threads /\ r.desired = p.desired
          /\ r.restart = p.restart /\ r.current = p.current /\ (Busy(r) <=> Busy(p))
      BY <1>3 DEF Pvt, Busy
    <3>2. pvt' = [pvt EXCEPT ![d] = r] /\ urgent' = urgent
      BY <2>2, <2>3
    <3> HIDE DEF r
    <3>3. Ordered(r, urgent[d])
      BY <1>1, <1>3, <3>1 DEF Ordered, Due
    <3>4. Busy(pvt[d]) => urgent[d]
      BY <1>1, <2>1 DEF Ordered
    <3>5. QED  BY <3>1, <3>2, <3>3, <3>4 DEF CutStep, Cuts
  <2>4. CASE ~p.handle
    <3>1. p.threads = 0
      BY <1>3, <2>4 DEF MonitorOK, Pvt
    <3>2. QED  BY <1>2, <1>3, <2>2, <2>4, <3>1, ProceedCuts
  <2>5. QED  BY <2>3, <2>4
<1>6. CASE Join(d)
  <2> DEFINE q == Stopped(pvt[d])
  <2>1. Proceed(d, q, disc.then)
    BY <1>6 DEF Join
  <2>2. pvt[d].threads = 0
    BY <1>1, <1>6 DEF Join, MonitorGone, MonitorOK, Pvt
  <2>3. /\ q \in Pvt /\ q.threads = 0 /\ q.current = pvt[d].current
        /\ ~q.terminate /\ (Busy(q) <=> Busy(pvt[d]))
    BY <1>1, <2>2 DEF Stopped, Pvt, Busy
  <2> HIDE DEF q
  <2>4. MonitorOK(q)
    BY <1>1, <2>2, <2>3 DEF MonitorOK
  <2>5. QED  BY <1>2, <2>1, <2>2, <2>3, <2>4, ProceedCuts
<1>7. CASE Lookup(d)
  <2>1. disc.pc = "lookup" /\ disc.dev = {d} /\ FinishStart(d, pvt[d])
    BY <1>7 DEF Lookup
  <2>2. pvt[d].threads = 0
    BY <2>1 DEF DeviceInv
  <2>3. QED  BY <1>1, <1>2, <2>1, <2>2, StartCuts
<1>8. QED  BY <1>4, <1>5, <1>6, <1>7

OrdersObeyed ==
  /\ Pending'
  /\ \A d \in Dev : Cuts(pvt[d], pvt'[d], urgent[d] \/ unload # "no")

LEMMA PendingStep ==
  ASSUME ReloadWhens = {}, DeviceInv, Pending, [Next]_vars
  PROVE  OrdersObeyed
<1>1. ASSUME UNCHANGED << pvt, urgent, reload >>
      PROVE  OrdersObeyed
  BY <1>1 DEF OrdersObeyed, Pending, Ordered, Busy, Due, Cuts
<1>2. ASSUME NEW d \in Dev, CutStep(d), reload' = reload
      PROVE  OrdersObeyed
  BY <1>2, CutStepKeeps DEF OrdersObeyed
<1>3. CASE Discovery
  <2>1. CASE Wake \/ LoopEnd \/ Sweep
    BY <1>1, <2>1 DEF Wake, LoopEnd, Sweep, OthersThanDiscovery
  <2>2. ASSUME NEW d \in Dev, Pass(d) \/ Visit(d) \/ Join(d) \/ Lookup(d)
        PROVE  OrdersObeyed
    <3>1. reload' = reload
      BY <2>2 DEF Pass, Visit, Join, Lookup, OthersThanDiscovery
    <3>2. QED  BY <1>2, <2>2, <3>1, VisitCuts
  <2>3. QED  BY <1>3, <2>1, <2>2 DEF Discovery
<1>4. CASE Reloading
  BY <1>4 DEF Pending, Reloading, ReloadNext, ReloadMark, ReloadKnown, ReloadNew,
              ReloadSchedule, ReloadTakes
<1>5. CASE Unloading
  <2>1. CASE UnloadBegin \/ UnloadJoined \/ UnloadEnds
    BY <1>1, <2>1 DEF UnloadBegin, UnloadJoined, UnloadEnds
  <2>2. ASSUME NEW d \in Dev, DestroyBegins(d) \/ DestroyEnds(d)
        PROVE  OrdersObeyed
    <3>1. reload' = reload
      BY <2>2 DEF DestroyBegins, DestroyEnds
    <3>2. QED  BY <1>2, <2>2, <3>1, UnloadCuts
  <2>3. QED  BY <1>5, <2>1, <2>2 DEF Unloading
<1>6. ASSUME NEW d \in Dev, Terminated(d) \/ Lost(d) \/ Work(d)
      PROVE  OrdersObeyed
  <2>1. reload' = reload
    BY <1>6 DEF Terminated, Lost, MonitorEnds, Work, CallStarts, CallEnds, SmsStarts,
                SmsEnds, SmsSent, OthersThanPvt
  <2>2. QED  BY <1>2, <1>6, <2>1, WorkCuts, MonitorCuts
<1>7. ASSUME NEW d \in Dev, NEW event \in DevState, NEW when \in Whens, Command(d, event, when)
      PROVE  OrdersObeyed
  <2>1. reload' = reload
    BY <1>7 DEF Command
  <2>2. QED  BY <1>2, <1>7, <2>1, CommandCuts
<1>8. CASE UNCHANGED vars
  BY <1>1, <1>8 DEF vars
<1>9. QED
  BY <1>3, <1>4, <1>5, <1>6, <1>7, <1>8 DEF Next

LEMMA PendingInit == Init => Pending
<1> SUFFICES ASSUME Init PROVE Pending
  OBVIOUS
<1>1. \A d \in Dev : ~Busy(pvt[d])
  BY DEF Init, PvtCreate, Busy
<1>2. QED  BY <1>1 DEF Init, NoReload, Pending, Ordered

(* While the configuration is not reloaded, whatever the timing of commands, *)
(* losses and the unloading: no monitor with calls or messages is told to    *)
(* end unless the last command asked for it now or the module is unloaded.   *)
THEOREM CutsAreOrdered ==
  ASSUME ReloadWhens = {}
  PROVE  Spec => CutOnlyIfUrgent
<1> DEFINE Cut == \A d \in Dev : Cuts(pvt[d], pvt'[d], urgent[d] \/ unload # "no")
<1>1. DeviceInv /\ Pending /\ [Next]_vars => Pending' /\ Cut
  BY PendingStep DEF OrdersObeyed
<1>2. Spec => [][Cut]_vars
  BY <1>1, PendingInit, DeviceInvHolds, PTL DEF Spec
<1>3. CutOnlyIfUrgent <=> [][Cut]_vars
  BY DEF CutOnlyIfUrgent, Cuts
<1>4. QED  BY <1>2, <1>3

=============================================================================
