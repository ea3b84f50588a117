----------------------------- MODULE Discovery -----------------------------
(***************************************************************************)
(* The search for the ports of the devices that are known by IMEI or IMSI:   *)
(* pdiscovery.c with its cache, the lock files of the ttys, and the part of   *)
(* the discovery thread that opens what was found.                            *)
(*                                                                          *)
(* A place is a USB path with its two ports, whose names stay when another    *)
(* dongle is plugged in there.  A dongle stands for its IMEI and its IMSI as   *)
(* well.  Only the data port is opened here; the audio port goes with it.      *)
(* "dongle discovery" of the command line, which searches in a thread of its   *)
(* own, is left out.                                                          *)
(***************************************************************************)
EXTENDS Integers, Sequences

CONSTANTS
  Places,      \* the places, in the order of the directory
  Dongles,
  NoSim,       \* the dongles that do not tell an IMSI
  None,        \* no dongle, no IMEI, no IMSI
  Devices,     \* the devices of the configuration, in their order: what each asks for
  Interval,    \* discovery_interval, in ticks
  MaxSwaps,    \* bound on the dongles plugged in
  MaxFaults,   \* bound on opens and answers that fail and lock files with a wrong number
  MaxWakes,    \* bound on the rounds begun before their time
  MaxLosses    \* bound on the connections lost with the dongle still there

Place == { Places[i] : i \in DOMAIN Places }
Ident == [imei : Dongles \cup {None}, imsi : Dongles \cup {None}]

ASSUME DiscoveryAssumption ==
  /\ Places \in Seq(Place) /\ None \notin Place
  /\ None \notin Dongles /\ NoSim \subseteq Dongles
  /\ Devices \in Seq(Ident)
  /\ \A i \in DOMAIN Devices : Devices[i] # [imei |-> None, imsi |-> None]
  /\ None \notin 0..Len(Devices) /\ Interval \in Nat \ {0}
  /\ MaxSwaps \in Nat /\ MaxFaults \in Nat /\ MaxWakes \in Nat /\ MaxLosses \in Nat

VARIABLES
  plugged,   \* the dongle at each place
  cache,     \* the cache's item of each place
  lock,      \* the lock file of each data port: whose open tty it names
  exposed,   \* history: the ports open without the lock file of who has them open
  dev,       \* the device: where it is connected
  disc,      \* the discovery thread, with the pdiscovery_result it fills
  rest,      \* what is left of its sleep
  counts     \* dongles plugged in, faults, early rounds and losses so far

vars == << plugged, cache, lock, exposed, dev, disc, rest, counts >>

NoIdent == [imei |-> None, imsi |-> None]
NoItem  == [res |-> NoIdent, failed |-> FALSE, left |-> 0]

(* Who opens ports: the discovery thread for itself, and the devices by number.   *)
Finder == 0
Opener == {Finder} \cup DOMAIN Devices

(* A lock file that does not name an open tty of this process counts as none. (A   *)
(* number closed and given to another tty before the file is removed would make    *)
(* the port look taken a moment longer; that is left out.)                          *)
Lock == Opener \cup {None}

Pc == {"sleep", "visit", "place", "cache", "open", "ask", "connect"}

Init ==
  /\ plugged \in [Place -> Dongles \cup {None}]
  /\ \A s, t \in Place : plugged[s] = plugged[t] => s = t \/ plugged[s] = None
  /\ cache = [s \in Place |-> NoItem]
  /\ lock = [s \in Place |-> None] /\ exposed = {}
  /\ dev = [i \in DOMAIN Devices |-> [place |-> None, closing |-> FALSE]]
  /\ disc = [pc |-> "visit", dev |-> 1, at |-> 1, res |-> NoIdent]
  /\ rest = 0
  /\ counts = [swaps |-> 0, faults |-> 0, wakes |-> 0, losses |-> 0]

At(pc) == disc.pc = pc
Here   == Places[disc.at]
Req    == Devices[disc.dev]

Connected(i) == dev[i].place # None

HasOpen(o, s) ==
  IF o = Finder THEN At("ask") /\ Here = s ELSE dev[o].place = s /\ ~dev[o].closing

Openers(s) == { o \in Opener : HasOpen(o, s) }

-----------------------------------------------------------------------------
(* Mutant: a lock file of this process counts as none. *)
LockedByOthers(s) == FALSE

(* lock_try, when it gives the process that has the port: the number in the file   *)
(* is that of an open tty.                                                          *)
Locked(s) == lock[s] \in Openers(s)

MayFail == counts.faults < MaxFaults
Fault   == counts' = [counts EXCEPT !.faults = @ + 1]

(* opentty, for o.  lock_create wrote the number its own file had, and the tty gets  *)
(* the same unless another thread opened or closed a file in between.  A dongle     *)
(* that is gone cannot be opened; closetty then removes the file.                    *)
OpenTty(s, o) ==
  /\ ~Locked(s) /\ plugged[s] # None
  /\ \/ lock' = [lock EXCEPT ![s] = o] /\ UNCHANGED << exposed, counts >>
     \/ /\ MayFail /\ Fault
        /\ lock' = [lock EXCEPT ![s] = None] /\ exposed' = exposed \cup {s}

OpenFails(s) ==
  /\ \/ (plugged[s] = None \/ Locked(s)) /\ UNCHANGED counts
     \/ plugged[s] # None /\ MayFail /\ Fault
  /\ lock' = IF Locked(s) THEN lock ELSE [lock EXCEPT ![s] = None]
  /\ UNCHANGED exposed

(* o closes the port; closed by all, it is exposed no longer. *)
Shut(s, o) == exposed' = IF Openers(s) = {o} THEN exposed \ {s} ELSE exposed

-----------------------------------------------------------------------------
(* The rounds of the discovery thread. *)
NextPlace == disc' = [disc EXCEPT !.pc = "place", !.at = @ + 1, !.res = NoIdent]
NextDev   == disc' = [disc EXCEPT !.pc = "visit", !.dev = @ + 1]

Wake ==
  /\ At("sleep")
  /\ \/ rest = 0 /\ UNCHANGED << rest, counts >>
     \/ /\ rest > 0 /\ counts.wakes < MaxWakes
        /\ rest' = 0 /\ counts' = [counts EXCEPT !.wakes = @ + 1]
  /\ disc' = [disc EXCEPT !.pc = "visit", !.dev = 1]
  /\ UNCHANGED << plugged, cache, lock, exposed, dev >>

(* Mutant: the thread sleeps a little less than an item is valid. *)
RestShort == Interval - 1

Rest == Interval

(* do_discovery at the end of the list. *)
Sleep ==
  /\ At("visit") /\ disc.dev > Len(Devices)
  /\ disc' = [disc EXCEPT !.pc = "sleep"] /\ rest' = Rest
  /\ UNCHANGED << plugged, cache, lock, exposed, dev, counts >>

(* pvt_start: one that is not connected is looked up; its monitor has ended.    *)
Visit ==
  /\ At("visit") /\ disc.dev <= Len(Devices) /\ ~dev[disc.dev].closing
  /\ IF Connected(disc.dev) THEN NextDev
     ELSE disc' = [disc EXCEPT !.pc = "place", !.at = 1, !.res = NoIdent]
  /\ UNCHANGED << plugged, cache, lock, exposed, dev, rest, counts >>

(* pdiscovery_request_do, pdiscovery_check_device: the next place with a dongle  *)
(* whose port is not taken; pdiscovery_read_info takes it.                        *)
Seek ==
  /\ At("place")
  /\ \/ disc.at > Len(Places) /\ NextDev /\ UNCHANGED lock
     \/ /\ disc.at <= Len(Places) /\ (plugged[Here] = None \/ Locked(Here))
        /\ NextPlace /\ UNCHANGED lock
     \/ /\ disc.at <= Len(Places) /\ plugged[Here] # None /\ ~Locked(Here)
        /\ lock' = [lock EXCEPT ![Here] = None]
        /\ disc' = [disc EXCEPT !.pc = "cache"]
  /\ UNCHANGED << plugged, cache, exposed, dev, rest, counts >>

(* pdiscovery_check_req: the device is this one, if all it is known by agrees.   *)
Match(req, res) ==
  /\ req.imei # None => res.imei = req.imei
  /\ req.imsi # None => res.imsi = req.imsi

Compare(res) ==
  IF Match(Req, res) THEN disc' = [disc EXCEPT !.pc = "connect", !.res = res] ELSE NextPlace

(* Mutant: as it seems to be meant: what is asked for is known. *)
EnoughAsked(req, item) ==
  item.failed \/ ((req.imei = None \/ item.res.imei # None)
                  /\ (req.imsi = None \/ item.res.imsi # None))

(* cache_lookup: when an item will do. *)
Enough(req, item) ==
  item.failed \/ ((req.imei # None \/ item.res.imei # None)
                  /\ (req.imsi # None \/ item.res.imsi # None))

(* cache_search and cache_lookup.  An item that is not enough still gives what    *)
(* it knows; one that failed is not tried again.                                  *)
CacheLookup ==
  /\ At("cache")
  /\ LET item == cache[Here]
     IN  IF item.left > 0 /\ Enough(Req, item)
         THEN /\ lock' = [lock EXCEPT ![Here] = None]
              /\ IF item.failed THEN NextPlace ELSE Compare(item.res)
         ELSE /\ disc' = [disc EXCEPT !.pc = "open",
                                      !.res = IF item.left > 0 THEN item.res ELSE NoIdent]
              /\ UNCHANGED lock
  /\ UNCHANGED << plugged, cache, exposed, dev, rest, counts >>

(* cache_update, whether there was an item or not. *)
CacheUpdate(s, res, failed) ==
  cache' = [cache EXCEPT ![s] = [res |-> res, failed |-> failed, left |-> Interval]]

(* pdiscovery_get_info, the opening of the port. *)
Open ==
  /\ At("open")
  /\ \/ /\ OpenTty(Here, Finder) /\ disc' = [disc EXCEPT !.pc = "ask"]
        /\ UNCHANGED cache
     \/ /\ OpenFails(Here) /\ CacheUpdate(Here, disc.res, TRUE)
        /\ NextPlace
  /\ UNCHANGED << plugged, dev, rest >>

(* pdiscovery_handle_response: only what is asked for and not yet known is read.   *)
(* Which of the three commands was sent makes no difference then.                  *)
Read(req, res, g) ==
  [imei |-> IF req.imei # None /\ res.imei = None THEN g ELSE res.imei,
   imsi |-> IF req.imsi # None /\ res.imsi = None /\ g \notin NoSim THEN g ELSE res.imsi]

(* pdiscovery_do_cmd: an answer, or none in time; closetty, cache_update and the     *)
(* closetty of pdiscovery_read_info.                                               *)
Ask ==
  /\ At("ask")
  /\ Shut(Here, Finder)
  /\ lock' = [lock EXCEPT ![Here] = None]
  /\ \/ /\ plugged[Here] # None /\ UNCHANGED counts
        /\ LET res == Read(Req, disc.res, plugged[Here])
           IN  CacheUpdate(Here, res, FALSE) /\ Compare(res)
     \/ /\ \/ plugged[Here] = None /\ UNCHANGED counts
           \/ plugged[Here] # None /\ MayFail /\ Fault
        /\ CacheUpdate(Here, disc.res, TRUE) /\ NextPlace
  /\ UNCHANGED << plugged, dev, rest >>

(* pvt_start, with the ports found. *)
Connect ==
  /\ At("connect")
  /\ \/ /\ OpenTty(Here, disc.dev)
        /\ dev' = [dev EXCEPT ![disc.dev].place = Here]
     \/ OpenFails(Here) /\ UNCHANGED dev
  /\ NextDev
  /\ UNCHANGED << plugged, cache, rest >>

Discover == Wake \/ Sleep \/ Visit \/ Seek \/ CacheLookup \/ Open \/ Ask \/ Connect

-----------------------------------------------------------------------------
(* The monitor of a device ends, its dongle gone or the connection lost; closetty   *)
(* closes the port and then removes the lock file, whoever wrote it by then.          *)
Close(i) ==
  /\ Connected(i) /\ ~dev[i].closing
  /\ \/ plugged[dev[i].place] = None /\ UNCHANGED counts
     \/ /\ plugged[dev[i].place] # None /\ counts.losses < MaxLosses
        /\ counts' = [counts EXCEPT !.losses = @ + 1]
  /\ Shut(dev[i].place, i)
  /\ dev' = [dev EXCEPT ![i].closing = TRUE]
  /\ UNCHANGED << plugged, cache, lock, disc, rest >>

Unlink(i) ==
  /\ dev[i].closing
  /\ LET s == dev[i].place
     IN  /\ lock' = [lock EXCEPT ![s] = None]
         /\ exposed' = IF Openers(s) = {} THEN exposed ELSE exposed \cup {s}
  /\ dev' = [dev EXCEPT ![i] = [place |-> None, closing |-> FALSE]]
  /\ UNCHANGED << plugged, cache, disc, rest, counts >>

(* Dongles come and go.  The name of a port that is still open is not given again.  *)
Unplug(s) ==
  /\ plugged[s] # None
  /\ plugged' = [plugged EXCEPT ![s] = None]
  /\ UNCHANGED << cache, lock, exposed, dev, disc, rest, counts >>

Plug(s, g) ==
  /\ plugged[s] = None /\ Openers(s) = {} /\ \A t \in Place : plugged[t] # g
  /\ counts.swaps < MaxSwaps
  /\ counts' = [counts EXCEPT !.swaps = @ + 1]
  /\ plugged' = [plugged EXCEPT ![s] = g]
  /\ UNCHANGED << cache, lock, exposed, dev, disc, rest >>

Down(n) == IF n > 0 THEN n - 1 ELSE 0

Tick ==
  /\ rest > 0 \/ \E s \in Place : cache[s].left > 0
  /\ rest' = Down(rest)
  /\ cache' = [s \in Place |-> [cache[s] EXCEPT !.left = Down(@)]]
  /\ UNCHANGED << plugged, lock, exposed, dev, disc, counts >>

Next ==
  \/ Discover
  \/ \E i \in DOMAIN Devices : Close(i) \/ Unlink(i)
  \/ \E s \in Place : Unplug(s) \/ \E g \in Dongles : Plug(s, g)
  \/ Tick

Spec == Init /\ [][Next]_vars

(* The discovery thread runs, monitors that end end, time passes.                     *)
FairSpec ==
  /\ Spec /\ WF_vars(Discover) /\ WF_vars(Tick)
  /\ \A i \in DOMAIN Devices :
       WF_vars(Unlink(i)) /\ WF_vars(Close(i) /\ plugged[dev[i].place] = None)

-----------------------------------------------------------------------------
(* IMEI and IMSI of an item, or of a search, are those of one dongle, though they     *)
(* may be read at different times, by searches for different devices, from a place     *)
(* where dongles were exchanged.                                                       *)
OfOneDongle(res) == res.imei # None /\ res.imsi # None => res.imei = res.imsi

NoMixedIdentity ==
  /\ OfOneDongle(disc.res)
  /\ \A s \in Place : OfOneDongle(cache[s].res)

(* No port is opened by one while another has it open: no device is asked for its      *)
(* IMEI while it is connected, and no two devices share a tty.  Two things alone can    *)
(* expose an open port, until nobody has it open any more: its lock file names another  *)
(* number, as another thread opened or closed a file between lock_create and the open    *)
(* of the tty ("i assume next open reuse same fd - not thread-safe", chan_dongle.c:123);  *)
(* or closetty, which closes before it unlinks (182-185), removed the file of one who     *)
(* took the port in between.  The other removals of a lock file, by a search that reads   *)
(* the cache, an open that fails, or an answer, never do.                                 *)
TtyOpenedOnce ==
  \A s \in Place : s \in exposed \/ \A o, p \in Openers(s) : o = p

(* A device whose dongle is there to stay gets connected and stays so, unless another   *)
(* one has the port it should have: one that a stale item of the cache led there.  For   *)
(* a device listed after one that does not ask for all it asks for there is no such      *)
(* promise: the earlier search leaves an item with less, and that item is "enough".       *)
Served(i)   == \A j \in 1..(i - 1) :
                 /\ Devices[i].imei # None => Devices[j].imei # None
                 /\ Devices[i].imsi # None => Devices[j].imsi # None
Present(i)  == \E s \in Place : plugged[s] # None
                                /\ Match(Devices[i], Read(Devices[i], NoIdent, plugged[s]))
Mistaken    == \E i \in DOMAIN Devices :
                 /\ Connected(i) /\ plugged[dev[i].place] # None
                 /\ ~Match(Devices[i], Read(Devices[i], NoIdent, plugged[dev[i].place]))

DongleFound ==
  \A i \in DOMAIN Devices : Served(i) /\ <>[]Present(i) => <>[](Connected(i) \/ Mistaken)
=============================================================================
