-------------------------- MODULE DiscoveryProofs --------------------------
(***************************************************************************)
(* The search for ports, for any places, dongles, devices and bounds: it     *)
(* never puts together the IMEI of one dongle and the IMSI of another, and   *)
(* opens no port that is open already but one exposed as TtyOpenedOnce says. *)
(***************************************************************************)
EXTENDS Discovery, TLAPS

Item   == [res : Ident, failed : BOOLEAN, left : Nat]
Search == [pc : Pc, dev : Nat \ {0}, at : Nat \ {0}, res : Ident]
Held   == [place : Place \cup {None}, closing : BOOLEAN]

Types ==
  /\ plugged \in [Place -> Dongles \cup {None}]
  /\ cache \in [Place -> Item]
  /\ lock \in [Place -> Lock]
  /\ dev \in [DOMAIN Devices -> Held]
  /\ disc \in Search

(* The thread is at a device that is not connected, and at a place.          *)
Searching ==
  /\ disc.pc \notin {"sleep", "visit"} =>
       disc.dev \in DOMAIN Devices /\ ~Connected(disc.dev)
  /\ disc.pc \in {"cache", "open", "ask", "connect"} => disc.at \in DOMAIN Places

(* What a search brings along from the cache can be completed for one dongle *)
(* only: it is nothing, or one of the two will not be asked for.  This is     *)
(* what NoMixedIdentity rests on, and what cache_lookup's test of an item     *)
(* provides.                                                                 *)
StillOne(req, res) ==
  \/ res = NoIdent
  \/ req.imei = None /\ res.imei = None
  \/ req.imsi = None /\ res.imsi = None

Identities ==
  /\ NoMixedIdentity
  /\ disc.pc \in {"open", "ask"} => StillOne(Req, disc.res)

(* Whose the open ports are: but for one that is exposed, whoever has a port  *)
(* open is who its lock file names, and the search that has written a lock   *)
(* file, and not yet opened the port, finds nobody there.                    *)
Ports ==
  /\ \A s \in Place : \A o \in Openers(s) : s \in exposed \/ lock[s] = o
  /\ disc.pc \in {"cache", "open"} => Here \in exposed \/ Openers(Here) = {}

-----------------------------------------------------------------------------
LEMMA HereType ==
  ASSUME disc.at \in DOMAIN Places
  PROVE  Here \in Place
  BY DEF Here, Place

LEMMA DevicesFacts ==
  /\ DOMAIN Devices = 1..Len(Devices) /\ Len(Devices) \in Nat
  /\ DOMAIN Places = 1..Len(Places) /\ Len(Places) \in Nat
  /\ \A i \in DOMAIN Devices : Devices[i] \in Ident
  /\ NoIdent \in Ident /\ None \notin Place
  /\ Finder \notin DOMAIN Devices /\ None \notin Opener
<1>1. Devices \in Seq(Ident) /\ Places \in Seq(Place) /\ None \notin Place
  BY DiscoveryAssumption
<1>2. DOMAIN Devices = 1..Len(Devices) /\ Len(Devices) \in Nat
  BY <1>1
<1>3. DOMAIN Places = 1..Len(Places) /\ Len(Places) \in Nat
  BY <1>1
<1>4. \A i \in DOMAIN Devices : Devices[i] \in Ident
  BY <1>1, <1>2
<1>5. NoIdent \in Ident
  BY DEF NoIdent, Ident
<1>6. Finder \notin DOMAIN Devices /\ Opener = 0..Len(Devices)
  BY <1>2 DEF Finder, Opener
<1>7. None \notin Opener
  BY <1>6, DiscoveryAssumption
<1>8. QED  BY <1>1, <1>2, <1>3, <1>4, <1>5, <1>6, <1>7

(* The steps of the thread's search: where they leave it.                    *)
LEMMA Onward ==
  ASSUME disc \in Search
  PROVE  /\ \A pc \in Pc : [disc EXCEPT !.pc = pc] \in Search
         /\ \A pc \in Pc, res \in Ident : [disc EXCEPT !.pc = pc, !.res = res] \in Search
         /\ NextPlace => /\ disc' \in Search /\ disc'.pc = "place"
                         /\ disc'.dev = disc.dev /\ disc'.res = NoIdent
         /\ NextDev   => disc' \in Search /\ disc'.pc = "visit" /\ disc'.res = disc.res
         /\ disc.pc \in Pc /\ disc.dev \in Nat \ {0} /\ disc.at \in Nat \ {0}
         /\ disc.res \in Ident
<1>1. /\ disc.pc \in Pc /\ disc.dev \in Nat \ {0} /\ disc.at \in Nat \ {0}
      /\ disc.res \in Ident
  BY DEF Search
<1>2. /\ \A pc \in Pc : [disc EXCEPT !.pc = pc] \in Search
      /\ \A pc \in Pc, res \in Ident : [disc EXCEPT !.pc = pc, !.res = res] \in Search
  BY DEF Search
<1>3. "place" \in Pc /\ "visit" \in Pc /\ NoIdent \in Ident
  BY DevicesFacts DEF Pc
<1>4. disc.at + 1 \in Nat \ {0} /\ disc.dev + 1 \in Nat \ {0}
  BY <1>1
<1>5. NextPlace => /\ disc' \in Search /\ disc'.pc = "place"
                   /\ disc'.dev = disc.dev /\ disc'.res = NoIdent
  BY <1>3, <1>4 DEF NextPlace, Search
<1>6. NextDev   => disc' \in Search /\ disc'.pc = "visit" /\ disc'.res = disc.res
  BY <1>3, <1>4 DEF NextDev, Search
<1>7. QED  BY <1>1, <1>2, <1>5, <1>6

LEMMA ReadType ==
  ASSUME NEW req \in Ident, NEW res \in Ident, NEW g \in Dongles
  PROVE  Read(req, res, g) \in Ident
  BY DEF Read, Ident

LEMMA DownType ==
  ASSUME NEW n \in Nat
  PROVE  Down(n) \in Nat
  BY DEF Down

(* The item that cache_update leaves. *)
LEMMA CacheUpdateType ==
  ASSUME NEW s \in Place, NEW res \in Ident, NEW failed \in BOOLEAN,
         cache \in [Place -> Item], CacheUpdate(s, res, failed)
  PROVE  /\ cache' \in [Place -> Item]
         /\ \A t \in Place : t # s => cache'[t] = cache[t]
         /\ cache'[s].res = res
<1>1. Interval \in Nat
  BY DiscoveryAssumption
<1>2. [res |-> res, failed |-> failed, left |-> Interval] \in Item
  BY <1>1 DEF Item
<1>3. QED  BY <1>2 DEF CacheUpdate

LEMMA InitTypes == Init => Types /\ Searching
<1>1. NoIdent \in Ident
  BY DevicesFacts
<1>2. NoItem \in Item
  BY <1>1 DEF NoItem, Item
<1>3. ASSUME Init PROVE Types /\ Searching
  <2>1. cache \in [Place -> Item] /\ lock \in [Place -> Lock]
    BY <1>2, <1>3 DEF Init, Lock
  <2>2. dev \in [DOMAIN Devices -> Held]
    BY <1>3 DEF Init, Held
  <2>3. disc \in Search /\ disc.pc = "visit"
    BY <1>1, <1>3 DEF Init, Search, Pc
  <2>4. plugged \in [Place -> Dongles \cup {None}]
    BY <1>3 DEF Init
  <2>5. QED  BY <2>1, <2>2, <2>3, <2>4 DEF Types, Searching
<1>4. QED  BY <1>3

(* What the locks are after an attempt to open a tty. *)
LEMMA OpenLockType ==
  ASSUME lock \in [Place -> Lock], NEW s \in Place, NEW o \in Opener,
         OpenTty(s, o) \/ OpenFails(s)
  PROVE  lock' \in [Place -> Lock]
<1>1. o \in Lock /\ None \in Lock
  BY DEF Lock
<1>2. CASE OpenTty(s, o)
  BY <1>1, <1>2 DEF OpenTty
<1>3. CASE OpenFails(s)
  BY <1>3 DEF OpenFails, Lock
<1>4. QED  BY <1>2, <1>3

(* The thread of the search keeps to the devices and the places.             *)
LEMMA DiscoverTypes ==
  ASSUME Types, Searching, Discover
  PROVE  Types' /\ Searching'
<1>0. /\ disc \in Search
      /\ cache \in [Place -> Item] /\ lock \in [Place -> Lock]
      /\ plugged \in [Place -> Dongles \cup {None}]
      /\ dev \in [DOMAIN Devices -> Held]
  BY DEF Types
<1>a. disc.dev \in Nat \ {0} /\ disc.at \in Nat \ {0} /\ disc.res \in Ident
  BY <1>0, Onward
<1>b. NoIdent \in Ident
  BY DevicesFacts
<1>c. plugged' = plugged
  BY DEF Discover, Wake, Sleep, Visit, Seek, CacheLookup, Open, Ask, Connect
(* While it is at one device it stays with it and that device unconnected.   *)
<1>d. ASSUME disc' \in Search, cache' \in [Place -> Item], lock' \in [Place -> Lock],
             dev' = dev, disc.pc \notin {"sleep", "visit"}, disc'.dev = disc.dev,
             disc'.pc \in {"cache", "open", "ask", "connect"} => disc'.at \in DOMAIN Places
      PROVE  Types' /\ Searching'
  BY <1>0, <1>c, <1>d DEF Types, Searching, Connected
<1>1. CASE Wake
  <2>1. disc' \in Search /\ disc'.pc = "visit"
    <3>1. 1 \in Nat \ {0} /\ "visit" \in Pc
      BY DEF Pc
    <3>2. disc' = [disc EXCEPT !.pc = "visit", !.dev = 1]
      BY <1>1 DEF Wake
    <3>3. QED  BY <1>0, <3>1, <3>2 DEF Search
  <2>2. UNCHANGED << cache, lock, dev >>
    BY <1>1 DEF Wake
  <2>3. QED  BY <1>0, <1>c, <2>1, <2>2 DEF Types, Searching
<1>2. CASE Sleep
  <2>1. disc' \in Search /\ disc'.pc = "sleep"
    BY <1>0, <1>2 DEF Sleep, Search, Pc
  <2>2. UNCHANGED << cache, lock, dev >>
    BY <1>2 DEF Sleep
  <2>3. QED  BY <1>0, <1>c, <2>1, <2>2 DEF Types, Searching
<1>3. CASE Visit
  <2>1. UNCHANGED << cache, lock, dev >> /\ disc.dev <= Len(Devices)
    BY <1>3 DEF Visit
  <2>2. disc.dev \in DOMAIN Devices
    BY <1>a, <2>1, DevicesFacts
  <2>3. CASE Connected(disc.dev)
    <3>1. disc' \in Search /\ disc'.pc = "visit"
      BY <1>0, <1>3, <2>3, Onward DEF Visit
    <3>2. QED  BY <1>0, <1>c, <2>1, <3>1 DEF Types, Searching
  <2>4. CASE ~Connected(disc.dev)
    <3>1. disc' = [disc EXCEPT !.pc = "place", !.at = 1, !.res = NoIdent]
      BY <1>3, <2>4 DEF Visit
    <3>2. disc' \in Search /\ disc'.pc = "place" /\ disc'.dev = disc.dev
      <4>1. 1 \in Nat \ {0} /\ "place" \in Pc
        BY DEF Pc
      <4>2. QED  BY <1>0, <1>b, <3>1, <4>1 DEF Search
    <3>3. QED
      BY <1>0, <1>c, <2>1, <2>2, <2>4, <3>2 DEF Types, Searching, Connected
  <2>5. QED  BY <2>3, <2>4
<1>4. CASE Seek
  <2>1. disc.at <= Len(Places) => disc.at \in DOMAIN Places
    BY <1>a, DevicesFacts
  <2>2. UNCHANGED << cache, dev >> /\ disc.pc = "place"
    BY <1>4 DEF Seek, At
  <2>3. CASE NextDev /\ lock' = lock
    <3>1. disc' \in Search /\ disc'.pc = "visit"
      BY <1>0, <2>3, Onward
    <3>2. QED  BY <1>0, <1>c, <2>2, <2>3, <3>1 DEF Types, Searching
  <2>4. CASE NextPlace /\ lock' = lock
    <3>1. disc' \in Search /\ disc'.pc = "place" /\ disc'.dev = disc.dev
      BY <1>0, <2>4, Onward
    <3>2. QED  BY <1>0, <1>d, <2>2, <2>4, <3>1
  <2>5. CASE /\ disc.at <= Len(Places)
             /\ lock' = [lock EXCEPT ![Here] = None]
             /\ disc' = [disc EXCEPT !.pc = "cache"]
    <3>1. lock' \in [Place -> Lock]
      BY <1>0, <2>5 DEF Lock
    <3>2. disc' \in Search /\ disc'.dev = disc.dev /\ disc'.at = disc.at
      BY <1>0, <2>5 DEF Search, Pc
    <3>3. QED  BY <1>0, <1>d, <2>1, <2>2, <2>5, <3>1, <3>2
  <2>6. QED  BY <1>4, <2>3, <2>4, <2>5 DEF Seek
<1>5. CASE CacheLookup
  <2>1. Here \in Place /\ disc.at \in DOMAIN Places
    BY <1>5, HereType DEF CacheLookup, Searching, At
  <2>2. cache[Here] \in Item
    BY <1>0, <2>1
  <2>3. cache[Here].res \in Ident
    BY <2>2 DEF Item
  <2>4. UNCHANGED << cache, dev >> /\ disc.pc = "cache"
    BY <1>5 DEF CacheLookup, At
  <2>5. lock' \in [Place -> Lock]
    BY <1>0, <1>5 DEF CacheLookup, Lock
  <2>6. disc' \in Search /\ disc'.dev = disc.dev
        /\ (disc'.pc # "place" => disc'.at = disc.at)
    <3>1. CASE NextPlace
      BY <1>0, <3>1, Onward
    <3>2. ASSUME NEW res \in Ident, disc' = [disc EXCEPT !.pc = "connect", !.res = res]
          PROVE  disc' \in Search /\ disc'.dev = disc.dev /\ disc'.at = disc.at
      BY <1>0, <3>2 DEF Search, Pc
    <3>3. ASSUME NEW res \in Ident, disc' = [disc EXCEPT !.pc = "open", !.res = res]
          PROVE  disc' \in Search /\ disc'.dev = disc.dev /\ disc'.at = disc.at
      BY <1>0, <3>3 DEF Search, Pc
    <3>4. \/ NextPlace
          \/ disc' = [disc EXCEPT !.pc = "connect", !.res = cache[Here].res]
          \/ disc' = [disc EXCEPT !.pc = "open", !.res = cache[Here].res]
          \/ disc' = [disc EXCEPT !.pc = "open", !.res = NoIdent]
      BY <1>5 DEF CacheLookup, Compare
    <3>5. QED  BY <1>b, <2>3, <3>1, <3>2, <3>3, <3>4
  <2>7. QED  BY <1>0, <1>d, <2>1, <2>4, <2>5, <2>6
<1>6. CASE Open
  <2>1. Here \in Place /\ disc.at \in DOMAIN Places
    BY <1>6, HereType DEF Open, Searching, At
  <2>2. lock' \in [Place -> Lock]
    <3>1. Finder \in Opener
      BY DEF Opener
    <3>2. QED  BY <1>0, <1>6, <2>1, <3>1, OpenLockType DEF Open
  <2>3. UNCHANGED dev /\ disc.pc = "open"
    BY <1>6 DEF Open, At
  <2>4. CASE disc' = [disc EXCEPT !.pc = "ask"] /\ UNCHANGED cache
    <3>1. disc' \in Search /\ disc'.dev = disc.dev /\ disc'.at = disc.at
      BY <1>0, <2>4 DEF Search, Pc
    <3>2. QED  BY <1>0, <1>d, <2>1, <2>2, <2>3, <2>4, <3>1
  <2>5. CASE CacheUpdate(Here, disc.res, TRUE) /\ NextPlace
    <3>1. cache' \in [Place -> Item]
      BY <1>0, <1>a, <2>1, <2>5, CacheUpdateType
    <3>2. disc' \in Search /\ disc'.pc = "place" /\ disc'.dev = disc.dev
      BY <1>0, <2>5, Onward
    <3>3. QED  BY <1>d, <2>2, <2>3, <3>1, <3>2
  <2>6. QED  BY <1>6, <2>4, <2>5 DEF Open
<1>7. CASE Ask
  <2>1. Here \in Place /\ disc.at \in DOMAIN Places /\ disc.dev \in DOMAIN Devices
    BY <1>7, HereType DEF Ask, Searching, At
  <2>2. Req \in Ident
    BY <2>1, DevicesFacts DEF Req
  <2>3. lock' \in [Place -> Lock]
    BY <1>0, <1>7 DEF Ask, Lock
  <2>4. UNCHANGED dev /\ disc.pc = "ask"
    BY <1>7 DEF Ask, At
  <2>5. ASSUME NEW res \in Ident, CacheUpdate(Here, res, FALSE), Compare(res)
        PROVE  Types' /\ Searching'
    <3>1. cache' \in [Place -> Item]
      BY <1>0, <2>1, <2>5, CacheUpdateType
    <3>2. CASE NextPlace
      <4>1. disc' \in Search /\ disc'.pc = "place" /\ disc'.dev = disc.dev
        BY <1>0, <3>2, Onward
      <4>2. QED  BY <1>d, <2>3, <2>4, <3>1, <4>1
    <3>3. CASE disc' = [disc EXCEPT !.pc = "connect", !.res = res]
      <4>1. disc' \in Search /\ disc'.dev = disc.dev /\ disc'.at = disc.at
        BY <1>0, <2>5, <3>3 DEF Search, Pc
      <4>2. QED  BY <1>d, <2>1, <2>3, <2>4, <3>1, <4>1
    <3>4. QED  BY <2>5, <3>2, <3>3 DEF Compare
  <2>6. CASE CacheUpdate(Here, disc.res, TRUE) /\ NextPlace
    <3>1. cache' \in [Place -> Item]
      BY <1>0, <1>a, <2>1, <2>6, CacheUpdateType
    <3>2. disc' \in Search /\ disc'.pc = "place" /\ disc'.dev = disc.dev
      BY <1>0, <2>6, Onward
    <3>3. QED  BY <1>d, <2>3, <2>4, <3>1, <3>2
  <2>7. CASE ~(CacheUpdate(Here, disc.res, TRUE) /\ NextPlace)
    <3>1. /\ plugged[Here] # None
          /\ CacheUpdate(Here, Read(Req, disc.res, plugged[Here]), FALSE)
          /\ Compare(Read(Req, disc.res, plugged[Here]))
      BY <1>7, <2>7 DEF Ask
    <3>2. plugged[Here] \in Dongles
      BY <1>0, <2>1, <3>1
    <3>3. Read(Req, disc.res, plugged[Here]) \in Ident
      BY <1>a, <2>2, <3>2, ReadType
    <3>4. QED  BY <2>5, <3>1, <3>3
  <2>8. QED  BY <2>6, <2>7
<1>8. CASE Connect
  <2>1. Here \in Place /\ disc.dev \in Opener
    BY <1>8, HereType DEF Connect, Searching, At, Opener
  <2>2. lock' \in [Place -> Lock]
    BY <1>0, <1>8, <2>1, OpenLockType DEF Connect
  <2>3. dev' \in [DOMAIN Devices -> Held]
    <3>1. dev' = dev \/ dev' = [dev EXCEPT ![disc.dev].place = Here]
      BY <1>8 DEF Connect
    <3>2. QED  BY <1>0, <2>1, <3>1 DEF Held
  <2>4. disc' \in Search /\ disc'.pc = "visit"
    BY <1>0, <1>8, Onward DEF Connect
  <2>5. cache' = cache
    BY <1>8 DEF Connect
  <2>6. QED  BY <1>0, <1>c, <2>2, <2>3, <2>4, <2>5 DEF Types, Searching
<1>9. QED  BY <1>1, <1>2, <1>3, <1>4, <1>5, <1>6, <1>7, <1>8 DEF Discover

LEMMA TypesStep == Types /\ Searching /\ [Next]_vars => Types' /\ Searching'
<1> SUFFICES ASSUME Types, Searching, [Next]_vars PROVE Types' /\ Searching'
  OBVIOUS
<1>1. CASE Discover
  BY <1>1, DiscoverTypes
<1>2. ASSUME NEW i \in DOMAIN Devices, Close(i) \/ Unlink(i)
      PROVE  Types' /\ Searching'
  <2>1. /\ lock \in [Place -> Lock]
        /\ dev \in [DOMAIN Devices -> Held]
        /\ dev[i] \in Held
    BY DEF Types
  <2>2. lock' \in [Place -> Lock]
    <3>1. CASE Close(i)
      <4>1. dev[i].place \in Place
        BY <2>1, <3>1 DEF Close, Connected, Held
      <4>2. QED  BY <2>1, <3>1, <4>1 DEF Close, Lock
    <3>2. CASE Unlink(i)
      BY <2>1, <3>2 DEF Unlink, Lock
    <3>3. QED  BY <1>2, <3>1, <3>2
  <2>3. /\ dev' \in [DOMAIN Devices -> Held]
        /\ \A j \in DOMAIN Devices : dev[j].place = None => dev'[j].place = None
    <3>1. \/ dev' = [dev EXCEPT ![i].closing = TRUE]
          \/ dev' = [dev EXCEPT ![i] = [place |-> None, closing |-> FALSE]]
      BY <1>2 DEF Close, Unlink
    <3>2. CASE dev' = [dev EXCEPT ![i].closing = TRUE]
      <4>1. [dev[i] EXCEPT !.closing = TRUE] \in Held
            /\ [dev[i] EXCEPT !.closing = TRUE].place = dev[i].place
        BY <2>1 DEF Held
      <4>2. QED  BY <2>1, <3>2, <4>1
    <3>3. CASE dev' = [dev EXCEPT ![i] = [place |-> None, closing |-> FALSE]]
      <4>1. [place |-> None, closing |-> FALSE] \in Held
        BY DEF Held
      <4>2. QED  BY <2>1, <3>3, <4>1
    <3>4. QED  BY <3>1, <3>2, <3>3
  <2>4. UNCHANGED << plugged, cache, disc >>
    BY <1>2 DEF Close, Unlink
  <2>5. QED  BY <2>2, <2>3, <2>4 DEF Types, Searching, Connected
<1>3. ASSUME NEW s \in Place, Unplug(s) \/ \E g \in Dongles : Plug(s, g)
      PROVE  Types' /\ Searching'
  <2>1. plugged' \in [Place -> Dongles \cup {None}]
    BY <1>3 DEF Unplug, Plug, Types
  <2>2. UNCHANGED << cache, lock, dev, disc >>
    BY <1>3 DEF Unplug, Plug
  <2>3. QED  BY <2>1, <2>2 DEF Types, Searching, Connected
<1>4. CASE Tick
  <2>1. cache' \in [Place -> Item]
    <3>1. cache \in [Place -> Item]
      BY DEF Types
    <3>2. ASSUME NEW it \in Item
          PROVE  [it EXCEPT !.left = Down(@)] \in Item
      <4>1. Down(it.left) \in Nat
        BY DownType DEF Item
      <4>2. QED  BY <4>1 DEF Item
    <3>3. QED  BY <1>4, <3>1, <3>2 DEF Tick
  <2>2. UNCHANGED << plugged, lock, dev, disc >>
    BY <1>4 DEF Tick
  <2>3. QED  BY <2>1, <2>2 DEF Types, Searching, Connected
<1>5. CASE UNCHANGED vars
  BY <1>5 DEF vars, Types, Searching, Connected
<1>6. QED  BY <1>1, <1>2, <1>3, <1>4, <1>5 DEF Next

-----------------------------------------------------------------------------
LEMMA ReadOfOne ==
  ASSUME NEW req \in Ident, NEW res \in Ident, NEW g \in Dongles, StillOne(req, res)
  PROVE  OfOneDongle(Read(req, res, g))
  BY DEF StillOne, NoIdent, Read, OfOneDongle

(* An item that is not enough is worth going on with. *)
LEMMA NotEnoughIsStillOne ==
  ASSUME NEW req \in Ident, NEW item \in Item, ~Enough(req, item)
  PROVE  StillOne(req, item.res)
  BY DEF Enough, StillOne

LEMMA CacheUpdateOfOne ==
  ASSUME NEW s \in Place, NEW res \in Ident, NEW failed \in BOOLEAN,
         cache \in [Place -> Item], CacheUpdate(s, res, failed), OfOneDongle(res),
         \A t \in Place : OfOneDongle(cache[t].res)
  PROVE  \A t \in Place : OfOneDongle(cache'[t].res)
<1>1. TAKE t \in Place
<1>2. CASE t = s
  BY <1>2, CacheUpdateType
<1>3. CASE t # s
  BY <1>3, CacheUpdateType
<1>4. QED  BY <1>2, <1>3

LEMMA InitIdentities == Init => Identities
<1>1. ASSUME Init PROVE Identities
  <2>1. disc.res = NoIdent /\ disc.pc = "visit"
    BY <1>1 DEF Init
  <2>2. \A s \in Place : cache[s].res = NoIdent
    BY <1>1 DEF Init, NoItem
  <2>3. OfOneDongle(NoIdent)
    BY DEF OfOneDongle, NoIdent
  <2>4. QED  BY <2>1, <2>2, <2>3 DEF Identities, NoMixedIdentity
<1>2. QED  BY <1>1

LEMMA DiscoverIdentities ==
  ASSUME Types, Searching, Identities, Discover
  PROVE  Identities'
<1>0. /\ disc \in Search /\ cache \in [Place -> Item]
      /\ plugged \in [Place -> Dongles \cup {None}]
      /\ disc.res \in Ident
  BY Onward DEF Types
<1>1. OfOneDongle(disc.res) /\ \A s \in Place : OfOneDongle(cache[s].res)
  BY DEF Identities, NoMixedIdentity
<1>2. OfOneDongle(NoIdent)
  BY DEF OfOneDongle, NoIdent
<1>3. ASSUME UNCHANGED cache, OfOneDongle(disc'.res), disc'.pc \notin {"open", "ask"}
      PROVE  Identities'
  BY <1>1, <1>3 DEF Identities, NoMixedIdentity
<1>4. NextPlace => disc'.res = NoIdent /\ disc'.pc = "place"
  BY <1>0, Onward
<1>5. NextDev => disc'.res = disc.res /\ disc'.pc = "visit"
  BY <1>0, Onward
<1>6. ASSUME NEW res \in Ident, disc' = [disc EXCEPT !.pc = "connect", !.res = res]
      PROVE  disc'.res = res /\ disc'.pc = "connect"
  BY <1>0, <1>6 DEF Search
<1>7. CASE Wake
  <2>1. disc' = [disc EXCEPT !.pc = "visit", !.dev = 1] /\ UNCHANGED cache
    BY <1>7 DEF Wake
  <2>2. disc'.res = disc.res /\ disc'.pc = "visit"
    BY <1>0, <2>1 DEF Search
  <2>3. QED  BY <1>1, <1>3, <2>1, <2>2
<1>8. CASE Sleep
  <2>1. disc' = [disc EXCEPT !.pc = "sleep"] /\ UNCHANGED cache
    BY <1>8 DEF Sleep
  <2>2. disc'.res = disc.res /\ disc'.pc = "sleep"
    BY <1>0, <2>1 DEF Search
  <2>3. QED  BY <1>1, <1>3, <2>1, <2>2
<1>9. CASE Visit
  <2>1. UNCHANGED cache
        /\ (NextDev \/ disc' = [disc EXCEPT !.pc = "place", !.at = 1, !.res = NoIdent])
    BY <1>9 DEF Visit
  <2>2. disc' = [disc EXCEPT !.pc = "place", !.at = 1, !.res = NoIdent]
          => disc'.res = NoIdent /\ disc'.pc = "place"
    BY <1>0 DEF Search
  <2>3. QED  BY <1>1, <1>2, <1>3, <1>5, <2>1, <2>2
<1>10. CASE Seek
  <2>1. UNCHANGED cache
        /\ (NextDev \/ NextPlace \/ disc' = [disc EXCEPT !.pc = "cache"])
    BY <1>10 DEF Seek
  <2>2. disc' = [disc EXCEPT !.pc = "cache"] => disc'.res = disc.res /\ disc'.pc = "cache"
    BY <1>0 DEF Search
  <2>3. QED  BY <1>1, <1>2, <1>3, <1>4, <1>5, <2>1, <2>2
<1>11. CASE CacheLookup
  <2>1. Here \in Place /\ disc.dev \in DOMAIN Devices /\ UNCHANGED cache
    BY <1>11, HereType DEF CacheLookup, Searching, At
  <2>2. Req \in Ident /\ cache[Here] \in Item
    BY <1>0, <2>1, DevicesFacts DEF Req
  <2>3. cache[Here].res \in Ident /\ OfOneDongle(cache[Here].res)
    BY <1>1, <2>1, <2>2 DEF Item
  <2>4. CASE NextPlace
    BY <1>2, <1>3, <1>4, <2>1, <2>4
  <2>5. CASE disc' = [disc EXCEPT !.pc = "connect", !.res = cache[Here].res]
    BY <1>3, <1>6, <2>1, <2>3, <2>5
  <2>6. ASSUME NEW res \in Ident, disc' = [disc EXCEPT !.pc = "open", !.res = res],
               OfOneDongle(res), StillOne(Req, res)
        PROVE  Identities'
    <3>1. disc'.res = res /\ disc'.dev = disc.dev
      BY <1>0, <2>6 DEF Search
    <3>2. Req' = Req
      BY <3>1 DEF Req
    <3>3. StillOne(Req', disc'.res)
      BY <2>6, <3>1, <3>2
    <3>4. QED  BY <1>1, <2>1, <2>6, <3>1, <3>3 DEF Identities, NoMixedIdentity
  <2>7. CASE disc' = [disc EXCEPT !.pc = "open", !.res = NoIdent]
    <3>1. StillOne(Req, NoIdent) /\ NoIdent \in Ident
      BY DevicesFacts DEF StillOne
    <3>2. QED  BY <1>2, <2>6, <2>7, <3>1
  <2>8. CASE /\ disc' = [disc EXCEPT !.pc = "open", !.res = cache[Here].res]
             /\ ~Enough(Req, cache[Here])
    <3>1. StillOne(Req, cache[Here].res)
      BY <2>2, <2>8, NotEnoughIsStillOne
    <3>2. QED  BY <2>3, <2>6, <2>8, <3>1
  <2>9. QED
    BY <1>11, <2>4, <2>5, <2>7, <2>8 DEF CacheLookup, Compare
<1>12. CASE Open
  <2>1. Here \in Place /\ At("open")
    BY <1>12, HereType DEF Open, Searching, At
  <2>2. CASE disc' = [disc EXCEPT !.pc = "ask"] /\ UNCHANGED cache
    <3>1. disc'.res = disc.res /\ disc'.dev = disc.dev
      BY <1>0, <2>2 DEF Search
    <3>2. StillOne(Req, disc.res) /\ Req' = Req
      BY <2>1, <3>1 DEF Identities, At, Req
    <3>3. StillOne(Req', disc'.res)
      BY <3>1, <3>2
    <3>4. QED  BY <1>1, <2>2, <3>1, <3>3 DEF Identities, NoMixedIdentity
  <2>3. CASE CacheUpdate(Here, disc.res, TRUE) /\ NextPlace
    <3>1. \A t \in Place : OfOneDongle(cache'[t].res)
      BY <1>0, <1>1, <2>1, <2>3, CacheUpdateOfOne
    <3>2. QED  BY <1>2, <1>4, <2>3, <3>1 DEF Identities, NoMixedIdentity
  <2>4. QED  BY <1>12, <2>2, <2>3 DEF Open
<1>13. CASE Ask
  <2>1. Here \in Place /\ disc.dev \in DOMAIN Devices /\ At("ask")
    BY <1>13, HereType DEF Ask, Searching, At
  <2>2. Req \in Ident /\ StillOne(Req, disc.res)
    <3>1. StillOne(Req, disc.res)
      BY <2>1 DEF Identities, At
    <3>2. QED  BY <2>1, <3>1, DevicesFacts DEF Req
  <2>3. ASSUME NEW res \in Ident, CacheUpdate(Here, res, FALSE), Compare(res),
               OfOneDongle(res)
        PROVE  Identities'
    <3>1. \A t \in Place : OfOneDongle(cache'[t].res)
      BY <1>0, <1>1, <2>1, <2>3, CacheUpdateOfOne
    <3>2. NextPlace \/ disc' = [disc EXCEPT !.pc = "connect", !.res = res]
      BY <2>3 DEF Compare
    <3>3. OfOneDongle(disc'.res) /\ disc'.pc \notin {"open", "ask"}
      BY <1>2, <1>4, <1>6, <2>3, <3>2
    <3>4. QED  BY <3>1, <3>3 DEF Identities, NoMixedIdentity
  <2>4. CASE CacheUpdate(Here, disc.res, TRUE) /\ NextPlace
    <3>1. \A t \in Place : OfOneDongle(cache'[t].res)
      BY <1>0, <1>1, <2>1, <2>4, CacheUpdateOfOne
    <3>2. QED  BY <1>2, <1>4, <2>4, <3>1 DEF Identities, NoMixedIdentity
  <2>5. CASE ~(CacheUpdate(Here, disc.res, TRUE) /\ NextPlace)
    <3>1. /\ plugged[Here] # None
          /\ CacheUpdate(Here, Read(Req, disc.res, plugged[Here]), FALSE)
          /\ Compare(Read(Req, disc.res, plugged[Here]))
      BY <1>13, <2>5 DEF Ask
    <3>2. plugged[Here] \in Dongles
      BY <1>0, <2>1, <3>1
    <3>3. /\ Read(Req, disc.res, plugged[Here]) \in Ident
          /\ OfOneDongle(Read(Req, disc.res, plugged[Here]))
      BY <1>0, <2>2, <3>2, ReadType, ReadOfOne
    <3>4. QED  BY <2>3, <3>1, <3>3
  <2>6. QED  BY <2>4, <2>5
<1>14. CASE Connect
  BY <1>1, <1>3, <1>5, <1>14 DEF Connect
<1>15. QED
  BY <1>7, <1>8, <1>9, <1>10, <1>11, <1>12, <1>13, <1>14 DEF Discover

LEMMA IdentitiesStep == Types /\ Searching /\ Identities /\ [Next]_vars => Identities'
<1> SUFFICES ASSUME Types, Searching, Identities, [Next]_vars PROVE Identities'
  OBVIOUS
<1>1. CASE Discover
  BY <1>1, DiscoverIdentities
<1>2. CASE UNCHANGED << cache, disc >>
  BY <1>2 DEF Identities, NoMixedIdentity, Req
<1>3. CASE Tick
  <2>1. UNCHANGED disc
    BY <1>3 DEF Tick
  <2>2. \A s \in Place : cache'[s].res = cache[s].res
    BY <1>3 DEF Tick, Types, Item
  <2>3. QED  BY <2>1, <2>2 DEF Identities, NoMixedIdentity, Req
<1>4. QED
  BY <1>1, <1>2, <1>3 DEF Next, Close, Unlink, Unplug, Plug, vars

(* IMEI and IMSI of an item of the cache, or of a search, are those of one    *)
(* dongle (cache_lookup, pdiscovery_handle_response, cache_update): whatever   *)
(* is exchanged at a place and whenever, whichever devices ask for what.       *)
THEOREM NeverMixed == Spec => []NoMixedIdentity
<1>1. Init => Types /\ Searching /\ Identities
  BY InitTypes, InitIdentities
<1>2. Types /\ Searching /\ Identities /\ [Next]_vars
        => (Types /\ Searching /\ Identities)'
  BY TypesStep, IdentitiesStep
<1>3. Identities => NoMixedIdentity
  BY DEF Identities
<1>4. QED  BY <1>1, <1>2, <1>3, PTL DEF Spec

-----------------------------------------------------------------------------
(* Who has a port open depends on the devices and on where the search is.    *)
LEMMA OpenersFacts ==
  /\ \A s : Finder \in Openers(s) <=> At("ask") /\ Here = s
  /\ \A s : \A i \in DOMAIN Devices :
       i \in Openers(s) <=> dev[i].place = s /\ ~dev[i].closing
  /\ \A s : Openers(s) \subseteq Opener
<1>1. Finder \notin DOMAIN Devices
  BY DevicesFacts
<1>2. QED  BY <1>1 DEF Openers, HasOpen, Opener

LEMMA SameOpeners ==
  ASSUME UNCHANGED dev, disc.pc # "ask", disc'.pc # "ask"
  PROVE  \A s : Openers(s)' = Openers(s)
  BY DEF Openers, HasOpen, At, Opener

(* A port whose lock file names nobody is open to nobody, if not exposed.    *)
LEMMA FreePort ==
  ASSUME NEW s \in Place, Ports, ~Locked(s), s \notin exposed
  PROVE  Openers(s) = {}
  BY DEF Ports, Locked

LEMMA InitPorts == Init => Ports
<1>1. ASSUME Init PROVE Ports
  <2>1. \A i \in DOMAIN Devices : dev[i].place = None
    BY <1>1 DEF Init
  <2>2. disc.pc = "visit"
    BY <1>1 DEF Init
  <2>3. ASSUME NEW s \in Place PROVE Openers(s) = {}
    BY <2>1, <2>2, DevicesFacts DEF Openers, HasOpen, Opener, At
  <2>4. QED  BY <2>2, <2>3 DEF Ports
<1>2. QED  BY <1>1

(* Steps at one place, where a port is opened or a lock file removed.        *)
LEMMA PortsAt ==
  ASSUME Ports, NEW s \in Place,
         \A t \in Place : t # s => /\ Openers(t)' \subseteq Openers(t)
                                   /\ (t \in exposed => t \in exposed')
                                   /\ lock'[t] = lock[t],
         \A o \in Openers(s)' : s \in exposed' \/ lock'[s] = o,
         disc'.pc \in {"cache", "open"} => Here' \in exposed' \/ Openers(Here)' = {}
  PROVE  Ports'
<1>1. ASSUME NEW t \in Place, NEW o \in Openers(t)'
      PROVE  t \in exposed' \/ lock'[t] = o
  <2>1. CASE t = s
    BY <1>1, <2>1
  <2>2. CASE t # s
    BY <1>1, <2>2 DEF Ports
  <2>3. QED  BY <2>1, <2>2
<1>2. QED  BY <1>1 DEF Ports

(* Opening a port for o, who is the only one to have it open then, or it is   *)
(* exposed.                                                                  *)
LEMMA Opening ==
  ASSUME Types, Ports, NEW s \in Place, NEW o \in Opener, OpenTty(s, o),
         Openers(s)' \subseteq Openers(s) \cup {o},
         \A t \in Place : t # s => Openers(t)' \subseteq Openers(t),
         disc'.pc \notin {"cache", "open"}
  PROVE  Ports'
<1>1. lock \in [Place -> Lock]
  BY DEF Types
<1>2. /\ \A t \in Place : t # s => lock'[t] = lock[t]
      /\ exposed \subseteq exposed' /\ (lock'[s] = o \/ s \in exposed')
  BY <1>1 DEF OpenTty
<1>3. s \in exposed \/ Openers(s) = {}
  BY FreePort DEF OpenTty
<1>4. \A p \in Openers(s)' : s \in exposed' \/ lock'[s] = p
  BY <1>2, <1>3
<1>5. QED  BY <1>2, <1>4, PortsAt

(* A failing attempt removes the lock file of nobody, or of an exposed port. *)
LEMMA NotOpening ==
  ASSUME Types, Ports, NEW s \in Place, OpenFails(s),
         \A t \in Place : Openers(t)' = Openers(t), disc'.pc \notin {"cache", "open"}
  PROVE  Ports'
<1>1. lock \in [Place -> Lock] /\ UNCHANGED exposed
  BY DEF Types, OpenFails
<1>2. \A t \in Place : t # s => lock'[t] = lock[t]
  BY <1>1 DEF OpenFails
<1>3. ASSUME NEW o \in Openers(s)' PROVE s \in exposed' \/ lock'[s] = o
  <2>1. CASE Locked(s)
    BY <1>1, <1>3, <2>1 DEF OpenFails, Ports
  <2>2. CASE ~Locked(s)
    BY <1>1, <1>3, <2>2, FreePort
  <2>3. QED  BY <2>1, <2>2
<1>4. QED  BY <1>1, <1>2, <1>3, PortsAt

LEMMA DiscoverPorts ==
  ASSUME Types, Searching, Ports, Discover
  PROVE  Ports'
<1>0. disc \in Search /\ lock \in [Place -> Lock] /\ dev \in [DOMAIN Devices -> Held]
  BY DEF Types
<1>1. ASSUME UNCHANGED << lock, exposed, dev >>, disc.pc # "ask",
             disc'.pc \notin {"cache", "open", "ask"}
      PROVE  Ports'
  <2>1. \A s : Openers(s)' = Openers(s)
    BY <1>1, SameOpeners
  <2>2. QED  BY <1>1, <2>1 DEF Ports
<1>3. NextPlace => disc'.pc = "place"
  BY <1>0, Onward
<1>4. NextDev => disc'.pc = "visit"
  BY <1>0, Onward
<1>5. CASE Wake \/ Sleep \/ Visit
  <2>1. UNCHANGED << exposed, dev, lock >> /\ disc.pc # "ask"
    BY <1>5 DEF Wake, Sleep, Visit, At
  <2>2. disc'.pc \notin {"cache", "open", "ask"}
    BY <1>0, <1>4, <1>5 DEF Wake, Sleep, Visit, Search
  <2>3. QED  BY <1>1, <2>1, <2>2
<1>6. CASE Seek
  <2>1. UNCHANGED << exposed, dev >> /\ disc.pc = "place"
    BY <1>6 DEF Seek, At
  <2>2. CASE (NextDev \/ NextPlace) /\ UNCHANGED lock
    BY <1>1, <1>3, <1>4, <2>1, <2>2
  <2>3. CASE /\ disc.at <= Len(Places) /\ ~Locked(Here)
             /\ lock' = [lock EXCEPT ![Here] = None]
             /\ disc' = [disc EXCEPT !.pc = "cache"]
    <3>1. Here \in Place
      <4>1. disc.at \in Nat \ {0}
        BY <1>0, Onward
      <4>2. disc.at \in DOMAIN Places
        BY <2>3, <4>1, DevicesFacts
      <4>3. QED  BY <4>2, HereType
    <3>2. disc'.pc = "cache" /\ Here' = Here
      BY <1>0, <2>3 DEF Search, Here
    <3>3. \A s : Openers(s)' = Openers(s)
      BY <2>1, <3>2, SameOpeners
    <3>4. Here \in exposed \/ Openers(Here) = {}
      BY <2>3, <3>1, FreePort
    <3>5. \A t \in Place : t # Here => lock'[t] = lock[t]
      BY <1>0, <2>3
    <3>6. Here' \in exposed' \/ Openers(Here)' = {}
      <4>1. Openers(Here)' = Openers(Here)
        BY <2>1, <3>2 DEF Openers, HasOpen, At
      <4>2. QED  BY <2>1, <3>2, <3>4, <4>1
    <3>7. \A o \in Openers(Here) : Here \in exposed' \/ lock'[Here] = o
      BY <2>1, <3>4
    <3>8. QED  BY <2>1, <3>1, <3>3, <3>5, <3>6, <3>7 DEF Ports
  <2>4. QED  BY <1>6, <2>2, <2>3 DEF Seek
<1>7. CASE CacheLookup
  <2>1. Here \in Place /\ At("cache") /\ UNCHANGED << exposed, dev >>
    BY <1>7, HereType DEF CacheLookup, Searching, At
  <2>2. Here \in exposed \/ Openers(Here) = {}
    BY <2>1 DEF Ports, At
  <2>3. lock' = lock \/ lock' = [lock EXCEPT ![Here] = None]
    BY <1>7 DEF CacheLookup
  <2>4. \/ NextPlace
        \/ \E res : disc' = [disc EXCEPT !.pc = "connect", !.res = res]
        \/ \E res : disc' = [disc EXCEPT !.pc = "open", !.res = res]
    BY <1>7 DEF CacheLookup, Compare
  <2>5. /\ disc'.pc \in {"place", "connect", "open"}
        /\ disc'.pc = "open" => disc'.at = disc.at
    <3>1. ASSUME NEW res, disc' = [disc EXCEPT !.pc = "connect", !.res = res]
          PROVE  disc'.pc = "connect"
      BY <1>0, <3>1 DEF Search
    <3>2. ASSUME NEW res, disc' = [disc EXCEPT !.pc = "open", !.res = res]
          PROVE  disc'.pc = "open" /\ disc'.at = disc.at
      BY <1>0, <3>2 DEF Search
    <3>3. QED  BY <1>3, <2>4, <3>1, <3>2
  <2>6. \A s : Openers(s)' = Openers(s)
    BY <2>1, <2>5, SameOpeners DEF At
  <2>7. \A t \in Place : t # Here => lock'[t] = lock[t]
    BY <1>0, <2>3
  <2>8. disc'.pc = "open" => Here' \in exposed' \/ Openers(Here)' = {}
    <3>1. disc'.pc = "open" => Here' = Here
      BY <2>5 DEF Here
    <3>2. disc'.pc = "open" => Openers(Here)' = Openers(Here)
      BY <2>1, <3>1 DEF Openers, HasOpen, At
    <3>3. QED  BY <2>1, <2>2, <3>1, <3>2
  <2>9. \A o \in Openers(Here) : Here \in exposed' \/ lock'[Here] = o
    BY <2>1, <2>2
  <2>10. QED  BY <2>1, <2>5, <2>6, <2>7, <2>8, <2>9, PortsAt
<1>8. CASE Open
  <2>1. Here \in Place /\ UNCHANGED dev /\ disc.pc = "open"
    BY <1>8, HereType DEF Open, Searching, At
  <2>2. CASE OpenTty(Here, Finder) /\ disc' = [disc EXCEPT !.pc = "ask"]
    <3>1. disc'.pc = "ask" /\ Here' = Here
      BY <1>0, <2>2 DEF Search, Here
    <3>2. /\ \A t \in Place : Openers(t)' = Openers(t) \/ t = Here
          /\ \A t \in Place : Openers(t)' \subseteq Openers(t) \cup {Finder}
      BY <2>1, <3>1 DEF Openers, HasOpen, At
    <3>3. Finder \in Opener
      BY DEF Opener
    <3>4. \A s \in Place : s = Here => Openers(s)' \subseteq Openers(s) \cup {Finder}
      BY <3>2
    <3>5. ASSUME NEW s \in Place, s = Here PROVE Ports'
      BY <2>2, <3>1, <3>2, <3>3, <3>4, <3>5, Opening
    <3>6. QED  BY <2>1, <3>5
  <2>3. CASE OpenFails(Here) /\ NextPlace
    <3>1. \A s : Openers(s)' = Openers(s)
      BY <1>3, <2>1, <2>3, SameOpeners
    <3>2. QED  BY <1>3, <2>1, <2>3, <3>1, NotOpening
  <2>4. QED  BY <1>8, <2>2, <2>3 DEF Open
<1>9. CASE Ask
  <2>1. Here \in Place /\ disc.pc = "ask" /\ UNCHANGED dev
    BY <1>9, HereType DEF Ask, Searching, At
  <2>2. /\ lock' = [lock EXCEPT ![Here] = None]
        /\ exposed' = IF Openers(Here) = {Finder} THEN exposed \ {Here} ELSE exposed
    BY <1>9 DEF Ask, Shut
  <2>3. disc'.pc \notin {"cache", "open", "ask"}
    <3>1. ASSUME NEW res, disc' = [disc EXCEPT !.pc = "connect", !.res = res]
          PROVE  disc'.pc = "connect"
      BY <1>0, <3>1 DEF Search
    <3>2. NextPlace \/ \E res : disc' = [disc EXCEPT !.pc = "connect", !.res = res]
      BY <1>9 DEF Ask, Compare
    <3>3. QED  BY <1>3, <3>1, <3>2
  <2>4. Finder \in Openers(Here)
    BY <2>1, OpenersFacts DEF At
  <2>5. \A t : Openers(t)' \subseteq Openers(t) \ {Finder}
    BY <2>1, <2>3, DevicesFacts DEF Openers, HasOpen, At, Opener
  <2>6. Here \in exposed \/ Openers(Here) = {Finder}
    <3>1. \A o \in Openers(Here) : Here \in exposed \/ lock[Here] = o
      BY <2>1 DEF Ports
    <3>2. QED  BY <2>4, <3>1
  <2>7. ASSUME NEW s \in Place, s = Here PROVE Ports'
    <3>1. \A o \in Openers(s)' : s \in exposed' \/ lock'[s] = o
      BY <2>2, <2>5, <2>6, <2>7
    <3>2. \A t \in Place : t # s => /\ lock'[t] = lock[t]
                                   /\ (t \in exposed => t \in exposed')
      BY <1>0, <2>2, <2>7
    <3>3. QED  BY <2>3, <2>5, <3>1, <3>2, PortsAt
  <2>8. QED  BY <2>1, <2>7
<1>10. CASE Connect
  <2>1. /\ Here \in Place /\ disc.pc = "connect"
        /\ disc.dev \in DOMAIN Devices /\ disc.dev \in Opener
    BY <1>10, HereType DEF Connect, Searching, At, Opener
  <2>2. disc'.pc = "visit"
    BY <1>4, <1>10 DEF Connect
  <2>3. CASE OpenFails(Here) /\ UNCHANGED dev
    <3>1. \A s : Openers(s)' = Openers(s)
      BY <2>1, <2>2, <2>3, SameOpeners
    <3>2. QED  BY <2>1, <2>2, <2>3, <3>1, NotOpening
  <2>4. CASE OpenTty(Here, disc.dev) /\ dev' = [dev EXCEPT ![disc.dev].place = Here]
    <3>1. /\ dev'[disc.dev].place = Here
          /\ \A i \in DOMAIN Devices : i # disc.dev => dev'[i] = dev[i]
      BY <1>0, <2>1, <2>4 DEF Held
    <3>2. ASSUME NEW s \in Place, s = Here PROVE Ports'
      <4>1. Openers(s)' \subseteq Openers(s) \cup {disc.dev}
        BY <2>1, <2>2, <3>1 DEF Openers, HasOpen, At, Opener
      <4>2. \A t \in Place : t # s => Openers(t)' \subseteq Openers(t)
        BY <2>1, <2>2, <3>1, <3>2 DEF Openers, HasOpen, At, Opener
      <4>3. QED  BY <2>1, <2>2, <2>4, <3>2, <4>1, <4>2, Opening
    <3>3. QED  BY <2>1, <3>2
  <2>5. QED  BY <1>10, <2>3, <2>4 DEF Connect
<1>11. QED  BY <1>5, <1>6, <1>7, <1>8, <1>9, <1>10 DEF Discover

(* A monitor's close and, later, its unlink: the second may remove the lock  *)
(* file of another, whose port it exposes.                                   *)
LEMMA ClosePorts ==
  ASSUME Types, Ports, NEW i \in DOMAIN Devices, Close(i)
  PROVE  Ports'
<1>0. dev \in [DOMAIN Devices -> Held]
  BY DEF Types
<1>1. /\ Connected(i) /\ ~dev[i].closing /\ UNCHANGED << lock, disc >>
      /\ exposed' = IF Openers(dev[i].place) = {i} THEN exposed \ {dev[i].place} ELSE exposed
      /\ dev' = [dev EXCEPT ![i].closing = TRUE]
  BY DEF Close, Shut
<1>2. /\ dev'[i].closing = TRUE /\ \A j \in DOMAIN Devices : j # i => dev'[j] = dev[j]
      /\ dev[i].place \in Place
  BY <1>0, <1>1 DEF Held, Connected
<1>3. \A t : Openers(t)' \subseteq Openers(t) \ {i}
  <2>1. i # Finder
    BY DevicesFacts
  <2>2. QED  BY <1>1, <1>2, <2>1 DEF Openers, HasOpen, At, Opener, Here
<1>4. \A t : t \in exposed => t \in exposed' \/ Openers(t)' = {}
  BY <1>1, <1>3
<1>5. disc.pc \in {"cache", "open"} => Here' \in exposed' \/ Openers(Here)' = {}
  <2>1. ASSUME NEW s, s = Here, disc.pc \in {"cache", "open"}
        PROVE  s \in exposed' \/ Openers(s)' = {}
    BY <1>3, <1>4, <2>1 DEF Ports
  <2>2. Here' = Here
    BY <1>1 DEF Here
  <2>3. \A s : s = Here => Openers(Here)' = Openers(s)'
    BY <2>2 DEF Openers, HasOpen, At
  <2>4. QED  BY <2>1, <2>2, <2>3
<1>6. \A t \in Place : \A o \in Openers(t)' : t \in exposed' \/ lock'[t] = o
  BY <1>1, <1>3, <1>4 DEF Ports
<1>7. QED  BY <1>1, <1>5, <1>6 DEF Ports

LEMMA UnlinkPorts ==
  ASSUME Types, Searching, Ports, NEW i \in DOMAIN Devices, Unlink(i)
  PROVE  Ports'
<1>0. lock \in [Place -> Lock] /\ dev \in [DOMAIN Devices -> Held]
  BY DEF Types
<1> DEFINE s == dev[i].place
<1>1. /\ dev[i].closing /\ UNCHANGED disc
      /\ lock' = [lock EXCEPT ![s] = None]
      /\ exposed' = IF Openers(s) = {} THEN exposed ELSE exposed \cup {s}
      /\ dev' = [dev EXCEPT ![i] = [place |-> None, closing |-> FALSE]]
  BY DEF Unlink
<1>2. /\ dev'[i].place = None
      /\ \A j \in DOMAIN Devices : j # i => dev'[j] = dev[j]
  BY <1>0, <1>1
<1>3. \A t \in Place : Openers(t)' = Openers(t)
  <2>1. None \notin Place
    BY DevicesFacts
  <2>2. QED  BY <1>1, <1>2, <2>1 DEF Openers, HasOpen, At, Opener, Here
<1> HIDE DEF s
<1>4. ASSUME NEW t \in Place, NEW o \in Openers(t)' PROVE t \in exposed' \/ lock'[t] = o
  <2>1. CASE t = s
    BY <1>1, <1>3, <1>4, <2>1
  <2>2. CASE t # s
    <3>1. lock'[t] = lock[t] /\ (t \in exposed => t \in exposed')
      BY <1>0, <1>1, <2>2
    <3>2. QED  BY <1>3, <1>4, <3>1 DEF Ports
  <2>3. QED  BY <2>1, <2>2
<1>5. exposed \subseteq exposed' /\ Here' = Here
  BY <1>1 DEF Here
<1>6. disc.pc \in {"cache", "open"} => Here' \in exposed' \/ Openers(Here)' = {}
  <2>1. ASSUME disc.pc \in {"cache", "open"}
        PROVE  Here \in Place /\ (Here \in exposed \/ Openers(Here) = {})
    BY <2>1, HereType DEF Searching, Ports
  <2>2. \A t : t = Here => Openers(Here)' = Openers(t)'
    BY <1>5 DEF Openers, HasOpen, At
  <2>3. QED  BY <1>3, <1>5, <2>1, <2>2
<1>7. QED  BY <1>1, <1>4, <1>6 DEF Ports

LEMMA PortsStep == Types /\ Searching /\ Ports /\ [Next]_vars => Ports'
<1> SUFFICES ASSUME Types, Searching, Ports, [Next]_vars PROVE Ports'
  OBVIOUS
<1>1. CASE Discover
  BY <1>1, DiscoverPorts
<1>2. ASSUME NEW i \in DOMAIN Devices, Close(i) \/ Unlink(i) PROVE Ports'
  BY <1>2, ClosePorts, UnlinkPorts
<1>3. CASE UNCHANGED << exposed, lock, dev, disc >>
  BY <1>3 DEF Ports, Openers, HasOpen, At, Here, Opener
<1>4. QED
  BY <1>1, <1>2, <1>3 DEF Next, Unplug, Plug, Tick, vars

(* Within the process no port is opened that another has open (opentty,      *)
(* closetty and the lock files), for any places, devices, losses and faults, *)
(* but one that a lock file with a wrong number (chan_dongle.c:123) or an    *)
(* unlink that removed another's lock file (182-185) has exposed and that    *)
(* has been open ever since.                                                 *)
THEOREM OpenedOnce == Spec => []TtyOpenedOnce
<1>1. Init => Types /\ Searching /\ Ports
  BY InitTypes, InitPorts
<1>2. Types /\ Searching /\ Ports /\ [Next]_vars => (Types /\ Searching /\ Ports)'
  BY TypesStep, PortsStep
<1>3. Ports => TtyOpenedOnce
  BY DEF Ports, TtyOpenedOnce
<1>4. QED  BY <1>1, <1>2, <1>3, PTL DEF Spec

=============================================================================
